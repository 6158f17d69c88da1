----------------------------- MODULE HookConfig -----------------------------
(***************************************************************************)
(* kimi's config.toml as setup, the verifier and kimi see it: the blocks   *)
(* between setup's markers (hooks/managed-block.ts), the blocks under the  *)
(* marker used before 0.6 (hooks/legacy-brand.ts), the check of the whole  *)
(* set of hooks (hooks/config-safety.ts) and the texts that setup computes *)
(* (commands/setup.ts).  A text is a sequence of lines; a line is a kind,  *)
(* with the host of a marker and the command of a command line.            *)
(*                                                                         *)
(* One spelling per kind: whitespace, quoting and escapes are left out, as *)
(* are values that span lines.  A run of blank lines counts as one.        *)
(***************************************************************************)
EXTENDS Integers, Sequences, FiniteSets, FiniteSetsExt

CONSTANT None   \* no host in a marker, no command

(* A hook command: the tree its script lives in ("k3" for an installed copy *)
(* of this plugin, "other" for any other two-token command such as the      *)
(* upstream plugin's, "shell" for a command of another shape), the host its *)
(* path belongs to, the version in its path, and the interpreter.           *)
Command(tree, host, script, node) ==
    [tree |-> tree, host |-> host, script |-> script, node |-> node]

Line(kind) == [kind |-> kind, host |-> None, cmd |-> None]
Marker(kind, host) == [Line(kind) EXCEPT !.host = host]
CommandLine(c) == [Line("command") EXCEPT !.cmd = c]
InlineHooks(c) == [Line("inline") EXCEPT !.cmd = c]

Headers == {"hooks", "table"}
Comments == {"begin", "end", "oldBegin", "oldEnd", "comment"}
(* The key that a line assigns, for the kinds that do.  quotedMatcher is the *)
(* key matcher in a spelling that setup's line patterns do not know; inline  *)
(* is a top-level hooks = [{...}] with one entry.                            *)
Keys == [event |-> "event", otherEvent |-> "event", newEvent |-> "event",
         command |-> "command", timeout |-> "timeout", matcher |-> "matcher",
         quotedMatcher |-> "matcher", inline |-> "hooks", setting |-> "setting"]

IsHeader(l) == l.kind \in Headers
IsKey(l) == l.kind \in DOMAIN Keys
IsMarker(l) == l.kind \in {"begin", "end"}

Positions(text, Test(_)) == {i \in DOMAIN text : Test(text[i])}
\* The members of a finite set of numbers, the smallest first.
InOrder(S) ==
    LET ranked == {<<Cardinality({j \in S : j <= i}), i>> : i \in S}
    IN [k \in 1 .. Cardinality(S) |-> (CHOOSE r \in ranked : r[1] = k)[2]]
Ordered(text, Test(_)) == InOrder(Positions(text, Test))

\* The text without some of its lines, and with single blank lines only.
Without(text, dropped) ==
    LET kept == InOrder(DOMAIN text \ dropped)
    IN [k \in DOMAIN kept |-> text[kept[k]]]
Collapsed(text) ==
    Without(text, {i \in DOMAIN text :
                      i > 1 /\ text[i].kind = "blank" /\ text[i - 1].kind = "blank"})

-----------------------------------------------------------------------------
(* What a TOML parser makes of the lines of a text that are kept, which are  *)
(* all of them but for the verifier.  A key belongs to the nearest header    *)
(* above it, across blank lines and comments.                                *)

TableAmong(text, kept, h) ==
    LET next == {g \in kept : g > h /\ IsHeader(text[g])}
    IN {i \in kept : i > h /\ IsKey(text[i]) /\ \A g \in next : i < g}
TableAt(text, h) == TableAmong(text, DOMAIN text, h)
EntryAmong(text, kept, h) == {text[i] : i \in TableAmong(text, kept, h)}
Entry(text, h) == EntryAmong(text, DOMAIN text, h)

IsInline(l) == l.kind = "inline"
InlineEntry(l) == {Line("otherEvent"), CommandLine(l.cmd)}
ParsesAmong(text, kept) ==
    LET hs == {h \in kept : IsHeader(text[h])}
    IN /\ \A h \in {0} \cup hs : \A i, j \in TableAmong(text, kept, h) :
             Keys[text[i].kind] = Keys[text[j].kind] => i = j
       /\ \A i \in TableAmong(text, kept, 0) :
             IsInline(text[i]) => \A h \in hs : text[h].kind # "hooks"
Parses(text) == ParsesAmong(text, DOMAIN text)

\* The entries of the hooks array, each a set of lines.
EntriesAmong(text, kept) ==
    LET inline == {l \in EntryAmong(text, kept, 0) : IsInline(l)}
    IN IF inline # {} THEN {InlineEntry(l) : l \in inline}
       ELSE {EntryAmong(text, kept, h) : h \in {h \in kept : text[h].kind = "hooks"}}
Entries(text) == EntriesAmong(text, DOMAIN text)
\* The same in the order of the text; the rest.
HookEntries(text) ==
    LET inline == {l \in Entry(text, 0) : IsInline(l)}
        tables == Ordered(text, LAMBDA l : l.kind = "hooks")
    IN IF inline # {}
       THEN <<InlineEntry(CHOOSE l \in inline : TRUE)>>
       ELSE [k \in DOMAIN tables |-> Entry(text, tables[k])]
OtherData(text) ==
    LET tables == Ordered(text, LAMBDA l : l.kind = "table")
    IN <<{l \in Entry(text, 0) : ~IsInline(l)},
         [k \in DOMAIN tables |-> Entry(text, tables[k])]>>

Has(entry, key) == \E l \in entry : Keys[l.kind] = key
Runs(entry, c) == CommandLine(c) \in entry

\* inspectKimiHookSet and validateVersionSensitiveEvents: one bad entry and
\* kimi loads no hook at all.
ValidEntry(entry, knowsNew) ==
    /\ \A l \in entry : Keys[l.kind] \in {"event", "matcher", "command", "timeout"}
    /\ Has(entry, "event") /\ Has(entry, "command")
    /\ Line("newEvent") \in entry => knowsNew
ValidHookSet(text, knowsNew) ==
    Parses(text) /\ \A e \in Entries(text) : ValidEntry(e, knowsNew)

\* kimi runs a command before every tool call.
Fires(text, c, knowsNew) ==
    /\ ValidHookSet(text, knowsNew)
    /\ \E e \in Entries(text) :
          Line("event") \in e /\ Runs(e, c) /\ ~Has(e, "matcher")

\* normalizeTopLevelInlineHooks: the assignment becomes a table where it stood.
InlineAt(text) == {i \in TableAt(text, 0) : IsInline(text[i])}
Normalized(text) ==
    IF ~Parses(text) \/ InlineAt(text) = {} THEN text
    ELSE LET i == Min(InlineAt(text))
         IN SubSeq(text, 1, i - 1)
              \o <<Line("hooks"), Line("otherEvent"), CommandLine(text[i].cmd)>>
              \o SubSeq(text, i + 1, Len(text))

-----------------------------------------------------------------------------
(* Blocks between the markers.                                             *)

OursByPath(c) == c # None /\ c.tree = "k3"                \* isOurApprovalHookCommand
HostOfCommand(c) == IF c = None \/ c.tree = "shell" THEN None ELSE c.host

IsCommand(l) == l.kind = "command"
LastCommand(lines) ==
    LET cs == Positions(lines, IsCommand)
    IN IF cs = {} THEN None ELSE lines[Max(cs)].cmd

\* validateBlockBody.  The command is the last one before the first line that
\* makes the body invalid.
StopsBody(body, i) ==
    \/ body[i].kind \in {"table", "matcher"}
    \/ body[i].kind = "hooks" /\ \E j \in 1 .. i - 1 : body[j].kind = "hooks"
BodyCommand(body) ==
    LET stops == {i \in DOMAIN body : StopsBody(body, i)}
    IN LastCommand(IF stops = {} THEN body ELSE SubSeq(body, 1, Min(stops) - 1))
ValidBody(body) ==
    /\ \A i \in DOMAIN body : ~StopsBody(body, i)
    /\ \E i \in DOMAIN body : body[i].kind = "hooks"
    /\ \E i \in DOMAIN body : body[i].kind = "event"
    /\ BodyCommand(body) # None
    /\ Parses(body)
    /\ \A e \in Entries(body) : ~Has(e, "matcher")

\* The END that closes the BEGIN at i: the next marker, if it is one.
EndOfPair(text, i) ==
    LET next == {j \in i + 1 .. Len(text) : IsMarker(text[j])}
    IN IF text[i].kind = "begin" /\ next # {} /\ text[Min(next)].kind = "end"
       THEN Min(next) ELSE 0
Begins(text) == {i \in DOMAIN text : EndOfPair(text, i) # 0}

\* pairBlocks: every marker is one of a pair.  The block is named by its BEGIN.
Balanced(text) ==
    LET ends == {EndOfPair(text, i) : i \in Begins(text)}
    IN \A i \in DOMAIN text : IsMarker(text[i]) => i \in Begins(text) \cup ends
Body(text, b) == SubSeq(text, b.begin + 1, b.end - 1)
Blocks(text) ==
    IF ~Balanced(text) THEN {}
    ELSE {[begin |-> i, end |-> EndOfPair(text, i), host |-> text[i].host] : i \in Begins(text)}
InBlocks(text) == UNION {b.begin .. b.end : b \in Blocks(text)}

EffectiveHost(text, b, me) ==
    LET derived == HostOfCommand(BodyCommand(Body(text, b)))
    IN IF b.host # None THEN b.host ELSE IF derived # None THEN derived ELSE me
OwnBlocks(text, me) == {b \in Blocks(text) : EffectiveHost(text, b, me) = me}

\* parseManagedBlock.
BlockState(text, me) ==
    IF ~Balanced(text) THEN "orphan"
    ELSE IF OwnBlocks(text, me) = {} THEN "absent"
    ELSE IF Cardinality(OwnBlocks(text, me)) > 1 THEN "duplicate" ELSE "found"
OwnBlock(text, me) == CHOOSE b \in OwnBlocks(text, me) : TRUE

\* hooksArrayHasCleanEntry, on the whole text or on what is outside the blocks.
HasCleanEntry(text, kept, c) ==
    /\ ParsesAmong(text, kept)
    /\ \E e \in EntriesAmong(text, kept) :
          /\ Line("event") \in e /\ Runs(e, c)
          /\ \A l \in e : Keys[l.kind] \in {"event", "command", "timeout"}
OutsideBlocks(text) == DOMAIN text \ InBlocks(text)

\* Trusting the block alone: a key after END may belong to its table.
EvaluateBlockOnly(text, c, me) ==
    \/ BlockState(text, me) = "absent" /\ HasCleanEntry(text, OutsideBlocks(text), c)
    \/ /\ BlockState(text, me) = "found"
       /\ ValidBody(Body(text, OwnBlock(text, me)))
       /\ BodyCommand(Body(text, OwnBlock(text, me))) = c
\* evaluateInstalled.
EvaluateInstalled(text, c, me) ==
    LET state == BlockState(text, me)
        body == Body(text, OwnBlock(text, me))
    IN \/ state = "absent" /\ HasCleanEntry(text, OutsideBlocks(text), c)
       \/ /\ state = "found"
          /\ ValidBody(body) /\ BodyCommand(body) = c
          /\ HasCleanEntry(text, DOMAIN text, c)

-----------------------------------------------------------------------------
(* Tables outside the blocks that setup may take for its own              *)
(* (findBareApprovalHookTables).                                           *)

EndOfBody(text, h) ==
    LET ends == {i \in h + 1 .. Len(text) :
                    text[i].kind = "blank" \/ IsHeader(text[i]) \/ IsMarker(text[i])}
    IN IF ends = {} THEN Len(text) + 1 ELSE Min(ends)
MatcherInSpan(text, h) ==
    \E i \in h + 1 .. Len(text) :
        /\ text[i].kind = "matcher"
        /\ \A j \in h + 1 .. i - 1 : ~IsHeader(text[j]) /\ ~IsMarker(text[j])
BareTables(text) ==
    LET managed == InBlocks(text)
        table(h) == SubSeq(text, h + 1, EndOfBody(text, h) - 1)
        ours(b) == /\ \A i \in DOMAIN b :
                         b[i].kind \in Comments \cup {"event", "command", "timeout"}
                   /\ \E i \in DOMAIN b : b[i].kind = "event"
                   /\ LastCommand(b) # None
    IN {[start |-> h, end |-> EndOfBody(text, h), cmd |-> LastCommand(table(h))] :
          h \in {h \in DOMAIN text :
                   /\ h \notin managed /\ text[h].kind = "hooks"
                   /\ ours(table(h)) /\ ~MatcherInSpan(text, h)}}

\* Every host's tables, as before 1.8.2.
PrunableUnscoped(text, c, host) ==
    {t \in BareTables(text) : t.cmd = c \/ OursByPath(t.cmd)}
\* findUnmanagedApprovalHookBlocks; no host means every host.
Prunable(text, c, host) ==
    {t \in BareTables(text) :
        \/ t.cmd = c
        \/ OursByPath(t.cmd) /\ host \in {None, HostOfCommand(t.cmd)}}
Prune(text, c, host) ==
    IF Prunable(text, c, host) = {} THEN text
    ELSE Collapsed(Without(text, UNION {t.start .. t.end - 1 : t \in Prunable(text, c, host)}))

\* Drift looked for behind an orphan marker too.
StaleBehindOrphan(text, c, me) ==
    LET bare == {t \in BareTables(text) :
                   t.cmd # c /\ OursByPath(t.cmd) /\ HostOfCommand(t.cmd) = me}
        first == CHOOSE t \in bare : \A u \in bare : t.start <= u.start
    IN IF BlockState(text, me) # "found" /\ bare # {} THEN first.cmd ELSE None
\* The drift that a refusal reports, and whether it invites a retry.
StaleCommand(text, c, me) ==
    LET bare == {t \in BareTables(text) :
                   t.cmd # c /\ OursByPath(t.cmd) /\ HostOfCommand(t.cmd) = me}
        first == CHOOSE t \in bare : \A u \in bare : t.start <= u.start
    IN CASE BlockState(text, me) = "absent" /\ bare # {} -> first.cmd
         [] BlockState(text, me) = "found" /\ ValidBody(Body(text, OwnBlock(text, me))) ->
              BodyCommand(Body(text, OwnBlock(text, me)))
         [] OTHER -> None
\* Two spellings of one interpreter: the stable link and what it links to.
SameFile(a, b) == a = b \/ {a, b} = {"stable", "versioned"}
\* Drift that a reinstall repairs: the interpreter has not moved.
BenignDrift(stale, c) ==
    /\ stale \notin {None, c}
    /\ stale.tree # "shell"
    /\ SameFile(stale.node, c.node)
Retryable(text, c, me) == BenignDrift(StaleCommand(text, c, me), c)

-----------------------------------------------------------------------------
(* Blocks under the old marker (legacy-brand.ts).                          *)

OldMarkers == {"oldBegin", "oldEnd", "begin", "end"}
\* The END that closes a BEGIN: the next marker of either brand, same suffix.
OldEnd(text, i) ==
    LET next == {j \in i + 1 .. Len(text) : text[j].kind \in OldMarkers}
        j == Min(next)
    IN IF next # {} /\ text[j].kind = "oldEnd" /\ text[j].host = text[i].host THEN j ELSE 0
KeyFollows(text, i) ==
    LET next == {j \in i + 1 .. Len(text) : text[j].kind \notin Comments \cup {"blank"}}
    IN next # {} /\ ~IsHeader(text[Min(next)])
\* The body is what a pre-0.6 setup wrote: one table, one event, one command.
SimpleBody(body) ==
    LET count(kind) == Cardinality({i \in DOMAIN body : body[i].kind = kind})
        first == Min({i \in DOMAIN body : body[i].kind = "hooks"})
    IN /\ \A i \in DOMAIN body :
             body[i].kind \in {"hooks", "event", "command", "timeout", "comment", "blank"}
       /\ count("hooks") = 1 /\ count("event") > 0 /\ count("command") = 1
       /\ \A i \in 1 .. first - 1 : ~IsKey(body[i])
OldBlockAt(text, c, i) ==
    LET body == SubSeq(text, i + 1, OldEnd(text, i) - 1)
        cmd == LastCommand(body)
    IN [begin |-> i, end |-> OldEnd(text, i), cmd |-> cmd,
        host |-> IF text[i].host # None THEN text[i].host ELSE HostOfCommand(cmd),
        ours |-> SimpleBody(body) /\ ~KeyFollows(text, OldEnd(text, i))
                   /\ (cmd = c \/ OursByPath(cmd))]
OldBlocks(text, c) ==
    {OldBlockAt(text, c, i) :
        i \in {i \in DOMAIN text : text[i].kind = "oldBegin" /\ OldEnd(text, i) # 0}}

\* removalChangesOnlyTheseHooks: one entry per removed command, and no more.
FirstEntryRemoved(entries, c) ==
    LET found == {k \in DOMAIN entries : Runs(entries[k], c)}
    IN IF found = {} THEN <<>> ELSE Without(entries, {Min(found)})
RemovalIsExact(before, after, cmds) ==
    LET rest[k \in 0 .. Len(cmds)] ==
            IF k = 0 THEN HookEntries(before) ELSE FirstEntryRemoved(rest[k - 1], cmds[k])
    IN /\ Parses(before) /\ Parses(after)
       /\ Len(HookEntries(before)) >= Len(cmds)
       /\ HookEntries(after) = rest[Len(cmds)]
       /\ OtherData(after) = OtherData(before)

\* Every block under the old marker taken for ours.
OldRemovedUnchecked(text, c, host) ==
    {b \in OldBlocks(text, c) : host \in {None, b.host} \/ b.cmd = c}
\* stripLegacyBrandBlocks: all or nothing.
OldRemoved(text, c, host) ==
    {b \in OldBlocks(text, c) : b.ours /\ (host \in {None, b.host} \/ b.cmd = c)}
OldStripped(text, c, host) ==
    Collapsed(Without(text, UNION {b.begin .. b.end : b \in OldRemoved(text, c, host)}))
OldConfirmed(text, c, host) ==
    LET removed == OldRemoved(text, c, host)
        order == InOrder({b.begin : b \in removed})
        cmds == [k \in DOMAIN order |-> (CHOOSE b \in removed : b.begin = order[k]).cmd]
    IN removed = {} \/ RemovalIsExact(text, OldStripped(text, c, host), cmds)
StripOld(text, c, host) ==
    IF OldRemoved(text, c, host) = {} THEN text ELSE OldStripped(text, c, host)

-----------------------------------------------------------------------------
(* What setup writes.  Refused stands for an error that leaves the file.   *)

Refused == <<Line("refused")>>

ManagedBlock(host, c) ==
    <<Marker("begin", host), Line("comment"), Line("hooks"), Line("event"),
      CommandLine(c), Line("timeout"), Marker("end", host)>>
SpliceKeepingEnd(text, b, block) ==
    SubSeq(text, 1, b.begin - 1) \o block \o SubSeq(text, b.end, Len(text))
Splice(text, b, block) ==
    SubSeq(text, 1, b.begin - 1) \o block \o SubSeq(text, b.end + 1, Len(text))
Append1(text, block) ==
    IF text = <<>> THEN block ELSE Collapsed(text \o <<Line("blank")>>) \o block

\* runInstall, under the lock.
Installed(text, c, me, knowsNew) ==
    LET normal == Normalized(text)
        existing == Prune(StripOld(normal, c, me), c, me)
        state == BlockState(existing, me)
        next == IF state = "found"
                THEN Splice(existing, OwnBlock(existing, me), ManagedBlock(me, c))
                ELSE Append1(existing, ManagedBlock(me, c))
    IN IF \/ InlineAt(text) # {} /\ ~ValidHookSet(text, knowsNew)
          \/ ~OldConfirmed(normal, c, me)
          \/ state \in {"orphan", "duplicate"}
          \/ ~ValidHookSet(next, knowsNew)
       THEN Refused
       ELSE next

\* stripManagedBlocks: pairs of the host, and marker lines that do not pair up.
StripManaged(text, me, all) ==
    LET begins == Begins(text)
        owner(i) == IF text[i].host # None THEN text[i].host
                    ELSE HostOfCommand(LastCommand(SubSeq(text, i, EndOfPair(text, i))))
        pairs == {i \in begins : all \/ owner(i) = me}
        ends == {EndOfPair(text, i) : i \in begins}
        orphans == {i \in DOMAIN text :
                      /\ IsMarker(text[i]) /\ i \notin begins \cup ends
                      /\ all \/ text[i].host \in {None, me}}
    IN Collapsed(Without(text, orphans \cup UNION {i .. EndOfPair(text, i) : i \in pairs}))

\* The marked blocks only: a table that lost its markers stays.
UninstalledMarked(text, c, me, all) == StripManaged(text, me, all)
\* runUninstallLocked.
Uninstalled(text, c, me, all) ==
    LET host == IF all THEN None ELSE me
        current == StripManaged(text, me, all)
    IN IF text = <<>> THEN text
       ELSE IF ~OldConfirmed(current, c, host) THEN Refused
       ELSE Prune(StripOld(current, c, host), c, host)
=============================================================================
