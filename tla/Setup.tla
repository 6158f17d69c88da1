------------------------------- MODULE Setup -------------------------------
(***************************************************************************)
(* Several hosts of the plugin share kimi's config.toml.  Each host's      *)
(* setup installs or removes its own hook there (commands/setup.ts), and   *)
(* each command asks the verifier before it starts kimi (hooks/install.ts).*)
(* Setup reads the file, computes the new text and renames it into place   *)
(* under the lock of ConfigLock, here one process at a time; kimi and the  *)
(* user write the same file without that lock.                             *)
(*                                                                         *)
(* What the texts are and what is computed from them is in HookConfig.     *)
(***************************************************************************)
EXTENDS HookConfig

CONSTANTS
    Hosts,          \* hosts that run this plugin
    InitialTexts,   \* what config.toml may hold before
    MaxVersion,     \* bound: plugin updates
    MaxEdits,       \* bound: writes by kimi and by the user, and updates
    MaxSetups       \* bound: runs of setup

\* Two spellings of one interpreter, and another one (see SameFile).
NodeBins == {"stable", "versioned", "other"}
Commands == [tree : {"k3", "other", "shell"}, host : Hosts \cup {None},
             script : Nat, node : NodeBins]
Kinds == Headers \cup Comments \cup DOMAIN Keys \cup {"blank"}
TextLine == [kind : Kinds, host : Hosts \cup {None}, cmd : Commands \cup {None}]
Texts == Seq(TextLine)

ASSUME HostsAssumption == None \notin Hosts \cup Commands
ASSUME TextsAssumption == InitialTexts \subseteq Texts
ASSUME BoundsAssumption == MaxVersion \in Nat /\ MaxEdits \in Nat /\ MaxSetups \in Nat

VARIABLES
    text,      \* config.toml
    script,    \* script[h]: the version in the path of host h's hook script
    node,      \* node[h]: the interpreter that host h pins
    knowsNew,  \* the installed kimi knows the newer hook events
    run,       \* the setup that holds the lock: the command it installs, whether
               \* its kimi knows the newer events, what it read, what it will write
    edits,     \* writes by others, and updates, so far
    setups     \* setups so far

vars == <<text, script, node, knowsNew, run, edits, setups>>

Modes == {"install", "uninstall", "uninstall all"}
Idle == [host |-> None, mode |-> "idle", cmd |-> None, knows |-> TRUE,
         base |-> <<>>, next |-> <<>>]

(* buildHookShellCommand for host h, now.                                  *)
Expected(h) == Command("k3", h, script[h], node[h])

Init ==
    /\ text \in InitialTexts
    /\ script = [h \in Hosts |-> 1]
    /\ node = [h \in Hosts |-> "stable"]
    /\ knowsNew = TRUE
    /\ run = Idle
    /\ edits = 0 /\ setups = 0

-----------------------------------------------------------------------------
(* Setup.                                                                  *)

Outcome(h, mode) ==
    CASE mode = "install" -> Installed(text, Expected(h), h, knowsNew)
      [] mode = "uninstall" -> Uninstalled(text, Expected(h), h, FALSE)
      [] mode = "uninstall all" -> Uninstalled(text, Expected(h), h, TRUE)

Read(h, mode) ==
    /\ run = Idle
    /\ setups < MaxSetups
    /\ setups' = setups + 1
    /\ run' = [host |-> h, mode |-> mode, cmd |-> Expected(h), knows |-> knowsNew,
               base |-> text, next |-> Outcome(h, mode)]
    /\ UNCHANGED <<text, script, node, knowsNew, edits>>

\* writeConfigAtomic: whatever the file has become is replaced.
Write ==
    /\ run # Idle
    /\ text' = IF run.next \in {Refused, run.base} THEN text ELSE run.next
    /\ run' = Idle
    /\ UNCHANGED <<script, node, knowsNew, edits, setups>>

Crash ==
    /\ run # Idle
    /\ run' = Idle
    /\ UNCHANGED <<text, script, node, knowsNew, edits, setups>>

-----------------------------------------------------------------------------
(* The others.                                                             *)

\* kimi reads, changes a setting and writes the whole file again: comments,
\* markers among them, and blank lines are lost.
Rewritten(t) ==
    LET n == Normalized(t)
    IN Without(n, {i \in DOMAIN n : ~IsHeader(n[i]) /\ ~IsKey(n[i])})

Edit(new) ==
    /\ edits < MaxEdits
    /\ edits' = edits + 1
    /\ new # text
    /\ text' = new
    /\ UNCHANGED <<script, node, knowsNew, run, setups>>

KimiRewrites == Parses(text) /\ Edit(Rewritten(text))

InsertedAt(t, i, l) == SubSeq(t, 1, i - 1) \o <<l>> \o SubSeq(t, i, Len(t))

UserAddsHook ==
    \E event \in {"otherEvent", "newEvent"} :
        Edit(text \o <<Line("blank"), Line("hooks"), Line(event),
                       CommandLine(Command("shell", None, 0, "stable"))>>)
UserDeletesEnd ==
    \E i \in Positions(text, LAMBDA l : l.kind = "end") : Edit(Without(text, {i}))
\* A matcher inside a block, before its END, or right after it.
UserAddsMatcher ==
    \E i \in Positions(text, LAMBDA l : l.kind = "end") :
        \E k \in {"matcher", "quotedMatcher"}, j \in {i, i + 1} :
            Edit(InsertedAt(text, j, Line(k)))

PluginUpdate(h) ==
    /\ edits < MaxEdits
    /\ edits' = edits + 1
    /\ script[h] < MaxVersion
    /\ script' = [script EXCEPT ![h] = @ + 1]
    /\ \E n \in NodeBins : node' = [node EXCEPT ![h] = n]
    /\ UNCHANGED <<text, knowsNew, run, setups>>

KimiChanges ==
    /\ edits < MaxEdits
    /\ edits' = edits + 1
    /\ knowsNew' = ~knowsNew
    /\ UNCHANGED <<text, script, node, run, setups>>

Next ==
    \/ \E h \in Hosts : \E mode \in Modes : Read(h, mode)
    \/ Write \/ Crash
    \/ KimiRewrites \/ UserAddsHook \/ UserDeletesEnd \/ UserAddsMatcher
    \/ KimiChanges
    \/ \E h \in Hosts : PluginUpdate(h)

Spec == Init /\ [][Next]_vars

-----------------------------------------------------------------------------
(* Properties.                                                             *)

TypeOK ==
    /\ text \in Texts
    /\ script \in [Hosts -> Nat] /\ node \in [Hosts -> NodeBins]
    /\ knowsNew \in BOOLEAN
    /\ run \in [host : Hosts \cup {None}, mode : Modes \cup {"idle"},
                cmd : Commands \cup {None}, knows : BOOLEAN,
                base : Texts, next : Texts \cup {Refused}]
    /\ edits \in 0 .. MaxEdits /\ setups \in 0 .. MaxSetups

\* verifyHookInstalled.
Verified(t, h) ==
    ValidHookSet(t, knowsNew) /\ EvaluateInstalled(t, Expected(h), h)

\* What the verifier lets a command rely on is what kimi does: the hook of this
\* very install runs before every tool call, whoever edited the file, however.
VerifiedIsEnforced ==
    \A h \in Hosts : Verified(text, h) => Fires(text, Expected(h), knowsNew)

Computed == run.mode # "idle" /\ run.next # Refused
Base == run.base
Others == Hosts \ {run.host}
\* A key cut off from its table by a marker or a blank line: what is done to the
\* table is not done to the key, which ends up in the table above.
KeyAdrift(t) ==
    \E i \in Positions(t, LAMBDA l : IsMarker(l) \/ l.kind = "blank") : KeyFollows(t, i)

\* A host's setup, or its scoped uninstall, never takes away the hook of another
\* host that kimi was running, marked or not.
HostsCoexist ==
    Computed /\ run.mode # "uninstall all" /\ ~KeyAdrift(Base) =>
        \A o \in Others :
            Fires(Base, Expected(o), run.knows) => Fires(run.next, Expected(o), run.knows)

\* Installing leaves the file in a state that the verifier accepts, and a second
\* setup has nothing to do.
InstallEstablishes ==
    Computed /\ run.mode = "install" /\ ~KeyAdrift(Base) =>
        /\ EvaluateInstalled(run.next, run.cmd, run.host)
        /\ Installed(run.next, run.cmd, run.host, run.knows) = run.next

\* The entries and the keys that are not of this plugin.
Foreign(entries) ==
    Without(entries, {k \in DOMAIN entries :
                        \E l \in entries[k] : l.kind = "command" /\ OursByPath(l.cmd)})

\* Setup keeps what is not its own: the user's and other plugins' hooks, in
\* their order, and every other key and table.
ForeignKept ==
    Computed /\ Parses(Base) /\ ~KeyAdrift(Base) =>
        /\ Parses(run.next)
        /\ Foreign(HookEntries(run.next)) = Foreign(HookEntries(Base))
        /\ OtherData(run.next) = OtherData(Base)

\* A refusal that tells its caller to run setup and retry once is right: setup
\* does not refuse, and the verifier accepts what it writes.
RetryConverges ==
    run.mode = "install" /\ ValidHookSet(Base, run.knows) /\ ~KeyAdrift(Base)
      /\ ~EvaluateInstalled(Base, run.cmd, run.host)
      /\ Retryable(Base, run.cmd, run.host)
      => run.next # Refused /\ EvaluateInstalled(run.next, run.cmd, run.host)

\* After an uninstall the verifier no longer accepts this host.
UninstallDisarms ==
    Computed /\ run.mode \in {"uninstall", "uninstall all"} =>
        ~EvaluateInstalled(run.next, run.cmd, run.host)
=============================================================================
