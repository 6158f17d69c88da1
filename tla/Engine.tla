------------------------------- MODULE Engine -------------------------------
(***************************************************************************)
(* From a command to a running kimi, and back to a session that can be     *)
(* resumed: resolveAskSession / resolveRescueSession, the execution plan   *)
(* (kimi-engine.ts), the row that carries it to a detached worker, the     *)
(* checks of the worker, the preflight of native-v2                        *)
(* (native-v2-preflight.ts), the engine marker (cli-client.ts), and what   *)
(* is written back: the observed engine and the session kimi announced.    *)
(*                                                                         *)
(* Around it move things the plugin does not own: the kimi binary is       *)
(* replaced under its path, config.toml is edited, somebody opens a        *)
(* session in kimi itself.  Each of them can happen between any two steps. *)
(*                                                                         *)
(* ask and rescue have the same steps with other names; a job here is one  *)
(* of either.  The model probe of setup plans and checks like a fresh ask  *)
(* and writes nothing back.                                                *)
(***************************************************************************)
EXTENDS Provenance, Naturals

CONSTANTS
    Initial,        \* the versions kimi may have at first
    MaxJobs,        \* bound: jobs are numbered in the order of their rows
    MaxUpgrades,    \* bound: how often the kimi binary is replaced
    MaxEdits        \* bound: edits of config.toml and of sessions by others

ASSUME BoundsAssumption ==
    Initial \subseteq Version /\ MaxJobs \in Nat /\ MaxUpgrades \in Nat /\ MaxEdits \in Nat

Job == 1..MaxJobs
NoJob == 0

\* A session is named after the job whose child made it; Desk is one that
\* somebody made with kimi itself in the same folder.
Desk == MaxJobs + 1
Session == Job \cup {Desk}
NoSession == 0

\* held[j].edited is history: something changed after the last check of that call
\* and before its kimi read its files.
VARIABLES
    installed,  \* the version of the binary at the path a plan pins
    config,     \* what config.toml holds: the hook, and no plan mode by default
    journal,    \* of every session: what a scan of its wire journals would find
    rows,       \* the jobs table
    log,        \* of every job: what its stream log proves
    pc,         \* where the process of a job is
    held,       \* what that process remembers
    child,      \* the kimi of a job
    upgrades, edits,
    took,       \* history: the engine on which a job's call got under way
    crossed     \* history: sessions continued from a job whose call never did

table == <<rows, log>>
process == <<pc, held, child>>
world == <<installed, config, journal, upgrades, edits>>
history == <<took, crossed>>
vars == <<table, process, world, history>>

NoRow == [status |-> "none", session |-> NoSession, from |-> NoJob,
          intended |-> Unknown, version |-> "old",
          observed |-> Unknown]
NoChild == [engine |-> Unknown, version |-> "old", plan |-> FALSE, hooked |-> FALSE]
NotHeld == [source |-> NoJob, observed |-> Unknown, unproven |-> FALSE,
            before |-> {}, edited |-> FALSE]

IsRunning(j) == rows[j].status = "running"
Resumes(j) == rows[j].session # NoSession /\ rows[j].from # NoJob
\* The session the kimi of a job works in: the resumed one, or one of its own.
WorksIn(j) == IF Resumes(j) THEN rows[j].session ELSE j
\* The engines that took a turn in a session.
Turns(s) == {took[j] : j \in {k \in Job : WorksIn(k) = s}} \ {Unknown}

Init ==
    /\ installed \in Initial
    /\ config = "safe"
    /\ journal = [s \in Session |-> "absent"]
    /\ rows = [j \in Job |-> NoRow]
    /\ log = [j \in Job |-> {}]
    /\ pc = [j \in Job |-> "idle"]
    /\ held = [j \in Job |-> NotHeld]
    /\ child = [j \in Job |-> NoChild]
    /\ upgrades = 0 /\ edits = 0
    /\ took = [j \in Job |-> Unknown]
    /\ crossed = {}

-----------------------------------------------------------------------------
(* What the plugin does not own.                                            *)

Upgrade ==
    /\ upgrades < MaxUpgrades
    /\ \E v \in Version \ {installed} : installed' = v
    /\ upgrades' = upgrades + 1
    /\ UNCHANGED <<table, process, config, journal, edits, history>>

\* The calls for which a change comes after the check that looks for it and before
\* their kimi reads its files: the hook is looked at before the rest.
Exposed(calls) ==
    held' = [j \in Job |-> IF j \in calls THEN [held[j] EXCEPT !.edited = TRUE] ELSE held[j]]

Checked == {j \in Job : pc[j] = "checked"}
HookChecked == {j \in Job : pc[j] \in {"cleared", "checked"}}

\* "unhooked": the managed block is gone or is not the one in force. "plan":
\* default_plan_mode, under any spelling, is other than false; it stands for all
\* that the preflight refuses in the same way and that does no harm by itself, an
\* experimental feature or a file that cannot be read or parsed.
EditConfig ==
    /\ edits < MaxEdits
    /\ \E c \in {"safe", "plan", "unhooked"} \ {config} :
           /\ config' = c
           /\ Exposed(CASE c = "unhooked" -> HookChecked [] c = "plan" -> Checked
                       [] c = "safe" -> {})
    /\ edits' = edits + 1
    /\ UNCHANGED <<table, pc, child, installed, journal, upgrades, history>>

\* Somebody enters plan mode in a session with kimi itself. A journal that is lost
\* or cannot be scanned is refused in the same way.
TouchSession ==
    /\ edits < MaxEdits
    /\ \E s \in Session :
           /\ journal[s] = "clean"
           /\ journal' = [journal EXCEPT ![s] = "plan"]
    /\ edits' = edits + 1
    /\ Exposed(Checked)
    /\ UNCHANGED <<table, pc, child, installed, config, upgrades, history>>

\* Bound: explored while a call that has noted the index has no session yet, when
\* the new one can be mistaken for its own.
OpenDesk ==
    /\ edits < MaxEdits
    /\ \E j \in Job : pc[j] \in {"cleared", "checked"}
    /\ journal[Desk] = "absent"
    /\ journal' = [journal EXCEPT ![Desk] = "clean"]
    /\ edits' = edits + 1
    /\ UNCHANGED <<table, process, installed, config, upgrades, history>>

-----------------------------------------------------------------------------
(* Provenance of a row.                                                     *)

\* Evidence of the log fills what the execution left open and never replaces
\* what it recorded.
Reconciled(j) ==
    IF rows[j].observed = Unknown
    THEN [rows[j] EXCEPT !.observed = Classify(log[j])]
    ELSE rows[j]

\* A resume that is refused has looked at its source, running or not; one that
\* has ended is looked at again by the resume that is not refused.
Inspect(j) ==
    /\ IsRunning(j)
    /\ Reconciled(j) # rows[j]
    /\ rows' = [rows EXCEPT ![j] = Reconciled(j)]
    /\ UNCHANGED <<log, process, world, history>>

-----------------------------------------------------------------------------
(* The dispatching process.                                                 *)

\* One model job at a time, asked before the plan and with the insert. With
\* --allow-concurrent both are skipped: that is the open store's matter.
Admitted == \A k \in Job : ~IsRunning(k)

\* By job id, by session id or the latest row: some row of the command, ended
\* and with a session.
MayResume(k) ==
    /\ rows[k].status = "ended"
    /\ rows[k].session # NoSession

\* The row with the next number is free and every earlier one is used.
IsNext(j) == pc[j] = "idle" /\ \A k \in 1..(j - 1) : pc[k] # "idle"

\* ask looks for the hook before this, and is refused without a row.
Resolve(j) ==
    /\ IsNext(j) /\ Admitted
    /\ \/ UNCHANGED <<rows, held>>
       \/ \E k \in Job :
              /\ MayResume(k)
              /\ rows' = [rows EXCEPT ![k] = Reconciled(k)]
              /\ held' = [held EXCEPT ![j] =
                     [NotHeld EXCEPT !.source = k, !.observed = Reconciled(k).observed]]
    /\ pc' = [pc EXCEPT ![j] = "resolved"]
    /\ UNCHANGED <<log, child, world, history>>

SessionOf(k) == IF k = NoJob THEN NoSession ELSE rows[k].session

\* What assertNativeV2Preflight reads: config.toml, and the journals of the
\* session that is to be resumed. What it cannot read it refuses.
ConfigFit == config # "plan"
JournalClean(s) == journal[s] = "clean"

Preflight(s) ==
    /\ ConfigFit
    /\ s # NoSession => JournalClean(s)

\* `kimi --version` answers with what is there, or there is no answer: it does not
\* start, fails, says something else or takes longer than five seconds.
NoVersion == "no version"
Probed == {installed, NoVersion}

\* The checks of prepareKimiExecutionPlan on what the probe found.
Plannable(j, v) ==
    LET e == SelectIntendedEngine(v)
        k == held[j].source
    IN  /\ v # NoVersion
        /\ CertifiedCapability(e, v)
        /\ k # NoJob => ResumeCompatible(held[j].observed, e)
        /\ e = Native => Preflight(SessionOf(k))

PlannedRow(j, v) ==
    [status |-> "running", session |-> SessionOf(held[j].source),
     from |-> held[j].source, intended |-> SelectIntendedEngine(v), version |-> v,
     observed |-> Unknown]

Prepare(j) ==
    /\ pc[j] = "resolved"
    /\ Admitted
    /\ \E v \in Probed :
           /\ Plannable(j, v)
           /\ rows' = [rows EXCEPT ![j] = PlannedRow(j, v)]
    /\ pc' = [pc EXCEPT ![j] = "queued"]
    /\ held' = [held EXCEPT ![j] = NotHeld]
    /\ UNCHANGED <<log, child, world, history>>

\* The command ends with an error and leaves no row.
Refuse(j) ==
    /\ pc[j] = "resolved"
    /\ \E v \in Probed : ~(Plannable(j, v) /\ Admitted)
    /\ pc' = [pc EXCEPT ![j] = "idle"]
    /\ held' = [held EXCEPT ![j] = NotHeld]
    /\ UNCHANGED <<table, child, world, history>>

-----------------------------------------------------------------------------
(* The process that executes the job: the same one, or a detached worker    *)
(* that knows only the row. Every write is guarded by status = 'running'.   *)

\* The sessions that are in kimi's index.
Indexed == {s \in Session : journal[s] # "absent"}

\* Unfaithful: the session that is new in the index since the spawn is taken
\* for the session of the job.
KeptOrCandidate(j, announced) ==
    LET new == Indexed \ held[j].before
    IN  IF rows[j].session # NoSession THEN rows[j].session
        ELSE IF announced # NoSession THEN announced
        ELSE IF Cardinality(new) = 1 THEN CHOOSE s \in new : TRUE ELSE NoSession

\* What a failed job keeps (keepFailedJobSession): only what kimi announced for
\* this child. A session that is merely new in the index is shown to a human.
Kept(j, announced) ==
    IF rows[j].session # NoSession THEN rows[j].session ELSE announced

EndedWith(j, session) ==
    IF IsRunning(j)
    THEN [rows EXCEPT ![j].status = "ended", ![j].session = session]
    ELSE rows

\* The process is at its end, and no kimi of it is left.
Over(j) ==
    /\ pc' = [pc EXCEPT ![j] = "over"]
    /\ held' = [held EXCEPT ![j] = NotHeld]
    /\ child' = [child EXCEPT ![j] = [NoChild EXCEPT !.engine = child[j].engine]]

Failed(j, announced) ==
    /\ rows' = EndedWith(j, Kept(j, announced))
    /\ Over(j)

\* The plan, as the executing process reads it from the row.
PlanOf(j) ==
    [engine |-> rows[j].intended, version |-> rows[j].version, source |-> rows[j].from]

\* assertPersistedResumeLineage, on what the store says now.
LineageHolds(j) ==
    LET k == PlanOf(j).source
    IN  /\ k # NoJob
        /\ rows[k].session = rows[j].session
        /\ ResumeCompatible(Reconciled(k).observed, PlanOf(j).engine)

\* verifyHookInstalled: what it accepts is in force (HookConfig).
HookInstalled == config # "unhooked"

\* A row that was ended meanwhile is not executed.
MayBegin(j) == pc[j] = "queued" /\ IsRunning(j) /\ HookInstalled

BeginFresh(j) ==
    /\ MayBegin(j)
    /\ rows[j].session = NoSession
    /\ held' = [held EXCEPT ![j].before = Indexed]
    /\ pc' = [pc EXCEPT ![j] = "cleared"]
    /\ UNCHANGED <<table, child, world, history>>

BeginResume(j) ==
    /\ MayBegin(j)
    /\ rows[j].session # NoSession
    /\ LineageHolds(j)
    /\ rows' = [rows EXCEPT ![rows[j].from] = Reconciled(rows[j].from)]
    /\ LET k == rows[j].from
       IN  held' = [held EXCEPT ![j].unproven =
                        rows'[k].observed = Unknown /\ took[k] = Unknown]
    /\ pc' = [pc EXCEPT ![j] = "cleared"]
    /\ UNCHANGED <<log, child, world, history>>

BeginRefused(j) ==
    /\ pc[j] = "queued"
    /\ ~MayBegin(j) \/ (rows[j].session # NoSession /\ ~LineageHolds(j))
    /\ Failed(j, NoSession)
    /\ UNCHANGED <<log, world, history>>

PlanCertified(j) == CertifiedCapability(PlanOf(j).engine, PlanOf(j).version)

\* Unfaithful: the plan of the row is checked, the files are not read again.
SpawnAllowedByPlan(j) == PlanCertified(j)

\* The last checks before the spawn (runCliPrompt): the plan of the row, and for
\* native-v2 the preflight once more.
SpawnAllowed(j) ==
    /\ PlanCertified(j)
    /\ PlanOf(j).engine = Native => Preflight(rows[j].session)

Check(j) ==
    /\ pc[j] = "cleared"
    /\ SpawnAllowed(j)
    /\ pc' = [pc EXCEPT ![j] = "checked"]
    /\ UNCHANGED <<table, held, child, world, history>>

CheckFailed(j) ==
    /\ pc[j] = "cleared"
    /\ ~SpawnAllowed(j)
    /\ Failed(j, NoSession)
    /\ UNCHANGED <<log, world, history>>

\* kimi starts: the binary that is there now, with the flag of the plan. It
\* reads config.toml when it creates or restores the session, and the journal of
\* a session it resumes; that plan mode is on goes into the journal.
Boot(j) ==
    /\ pc[j] = "checked"
    /\ LET forced == PlanOf(j).engine = Legacy
           engine == Started(installed, forced)
           plan == engine = Native /\ (config = "plan" \/ journal[WorksIn(j)] = "plan")
       IN  /\ log' = [log EXCEPT ![j] = @ \cup (IF forced THEN {"forced"} ELSE {})]
           /\ child' = [child EXCEPT ![j] =
                  [engine |-> engine, version |-> installed, plan |-> plan,
                   hooked |-> HookInstalled]]
           /\ journal' = [journal EXCEPT ![WorksIn(j)] =
                  IF plan THEN "plan" ELSE IF @ = "absent" THEN "clean" ELSE @]
           /\ IF plan THEN Exposed(Checked \ {j}) ELSE UNCHANGED held
    /\ pc' = [pc EXCEPT ![j] = "running"]
    /\ UNCHANGED <<rows, installed, config, upgrades, edits, history>>

-----------------------------------------------------------------------------
(* What kimi writes on its output.                                          *)

\* Unfaithful: entering plan mode is taken for one of the harmless tools.
HookAllowsEntry(tool) == tool # "ExitPlanMode"

\* The hook denies the tools of plan mode under every label.
HookAllows(tool) == tool \notin {"EnterPlanMode", "ExitPlanMode"}

\* Native-v2 writes its marker before anything else; releases that had both
\* engines may not.
MarkerOf(c) ==
    IF c.engine = Legacy THEN {FALSE}
    ELSE IF c.version = "both" THEN BOOLEAN ELSE {TRUE}

\* The first line agrees with the plan: no marker for a legacy plan, the marker
\* of the planned version for a native-v2 plan.
FirstLineAgrees(j, marker) ==
    IF rows[j].intended = Legacy THEN ~marker
    ELSE marker /\ child[j].version = rows[j].version

\* A resume from a job whose own call had not got under way: on legacy if nothing
\* is known of that job, on the engine of a refused call if its log names one.
Crosses(j) ==
    /\ Resumes(j)
    /\ IF held[j].unproven THEN child[j].engine = Legacy
       ELSE took[rows[j].from] = Unknown

\* The call gets under way, and the model asks for the tools it likes.
Output(j) ==
    /\ pc[j] = "running"
    /\ \E marker \in MarkerOf(child[j]) :
           /\ FirstLineAgrees(j, marker)
           /\ log' = [log EXCEPT ![j] = @ \cup {"run"} \cup (IF marker THEN {"marker"} ELSE {})]
    /\ \E tool \in {"Read", "EnterPlanMode"} :
           child' = [child EXCEPT ![j].plan =
               @ \/ (tool = "EnterPlanMode" /\ (child[j].hooked => HookAllows(tool)))]
    /\ took' = [took EXCEPT ![j] = child[j].engine]
    /\ crossed' = IF Crosses(j) THEN crossed \cup {WorksIn(j)} ELSE crossed
    /\ pc' = [pc EXCEPT ![j] = "answering"]
    /\ UNCHANGED <<rows, held, world>>

\* The first line contradicts the plan (CLI_ENGINE_PROVENANCE_MISMATCH): kimi is
\* torn down and nothing it wrote is delivered. It may have ended by itself.
Mismatch(j) ==
    /\ pc[j] = "running"
    /\ \E marker \in MarkerOf(child[j]), exit0 \in BOOLEAN :
           /\ ~FirstLineAgrees(j, marker)
           /\ log' = [log EXCEPT ![j] = @ \cup (IF marker THEN {"marker"} ELSE {})
                                          \cup (IF exit0 THEN {"run"} ELSE {})]
    /\ Failed(j, NoSession)
    /\ UNCHANGED <<world, history>>

\* The call throws: the spawn failed, kimi died before it had a session or before
\* its first line, the budget ran out, or it was aborted. No result, so neither an
\* engine nor a session is written down.
CallThrows(j) ==
    /\ pc[j] \in {"checked", "running", "answering"}
    /\ Failed(j, NoSession)
    /\ UNCHANGED <<log, world, history>>

\* The call answers, and the engine it saw goes into the row.
Observe(j) ==
    /\ pc[j] = "answering"
    /\ rows' = IF IsRunning(j)
               THEN [rows EXCEPT ![j].observed = rows[j].intended] ELSE rows
    /\ pc' = [pc EXCEPT ![j] = "judging"]
    /\ UNCHANGED <<log, held, child, world, history>>

\* kimi may have announced the session it worked in. Success keeps that one.
Announced(j) == {NoSession, WorksIn(j)}

Finish(j) ==
    /\ pc[j] = "judging"
    /\ \E announced \in Announced(j) :
           rows' = EndedWith(j,
               IF announced # NoSession THEN announced ELSE rows[j].session)
    /\ Over(j)
    /\ UNCHANGED <<log, world, history>>

Fail(j) ==
    /\ pc[j] = "judging"
    /\ \E announced \in Announced(j) : Failed(j, announced)
    /\ UNCHANGED <<log, world, history>>

-----------------------------------------------------------------------------
(* Ends that the process does not choose.                                   *)

\* A cancel ends the row as it stands while the process is still there. Bound:
\* it is explored while kimi runs, where it leaves a log that others read and
\* that still grows; a job cancelled earlier gets to that state as well.
Cancelled(j) ==
    /\ IsRunning(j) /\ pc[j] = "running"
    /\ rows' = [rows EXCEPT ![j].status = "ended"]
    /\ UNCHANGED <<log, process, world, history>>

\* The process is gone and a sweep ends its row as it stands.
KilledAndSwept(j) ==
    /\ IsRunning(j)
    /\ rows' = [rows EXCEPT ![j].status = "ended"]
    /\ Over(j)
    /\ UNCHANGED <<log, world, history>>

-----------------------------------------------------------------------------
Dispatch(j) == Resolve(j) \/ Prepare(j) \/ Refuse(j)
Begin(j) == BeginFresh(j) \/ BeginResume(j) \/ BeginRefused(j)
Spawn(j) == Check(j) \/ CheckFailed(j) \/ Boot(j)
Call(j) == Output(j) \/ Mismatch(j) \/ CallThrows(j) \/ Observe(j)
Close(j) == Finish(j) \/ Fail(j) \/ Cancelled(j) \/ KilledAndSwept(j)

Others == Upgrade \/ EditConfig \/ TouchSession \/ OpenDesk

Next ==
    \/ Others
    \/ \E j \in Job :
           Inspect(j) \/ Dispatch(j) \/ Begin(j) \/ Spawn(j) \/ Call(j) \/ Close(j)

Spec == Init /\ [][Next]_vars

-----------------------------------------------------------------------------
(* Properties.                                                              *)

\* The engine written in a row is the one that ran for it, whether the call
\* reported it or a later look at the log found it, and whatever binary was
\* there when kimi started.
ObservedIsTrue ==
    \A j \in Job : rows[j].observed # Unknown => rows[j].observed = child[j].engine

\* A row names only the session its own kimi worked in, or that of the row it
\* continues: never one that was made beside it.
SessionIsOwn ==
    \A j \in Job : rows[j].session # NoSession =>
        \/ rows[j].from = NoJob /\ rows[j].session = j
        \/ rows[j].from # NoJob /\ rows[j].session = rows[rows[j].from].session

\* A call that continues a session gets under way only on the engine that took
\* every turn of it before, and there was such a turn. Excepted are sessions that
\* were continued from a job whose own call never got under way.
EngineSticky ==
    [][\A j \in Job :
        (pc[j] = "running" /\ pc'[j] = "answering" /\ Resumes(j)) =>
            \/ WorksIn(j) \in crossed'
            \/ Turns(WorksIn(j)) = {child[j].engine}]_vars

\* No call runs without the hook, and none on native-v2 with plan mode on, unless a
\* file changed after the check of that very call that looks for it and before its
\* kimi read it.
GuardsHold ==
    \A j \in Job :
        (/\ pc[j] \in {"answering", "judging"}
         /\ child[j].hooked => child[j].engine = Native /\ child[j].plan)
        => held[j].edited
=============================================================================
