------------------------------ MODULE CliClient -------------------------------
(***************************************************************************)
(* One call of kimi: runCliPromptWithBudget around runCliPrompt, as the    *)
(* event machine it is.  One process runs it; an action is one turn of its *)
(* event loop (a handler with the microtasks it releases), or a step of    *)
(* what it does not control: kimi, the processes kimi starts, the clock,   *)
(* and the command that may cancel the call.                               *)
(*                                                                         *)
(* The engine marker: a native-v2 kimi announces itself with the record    *)
(* system.version before anything else, a legacy one never does.           *)
(*                                                                         *)
(* Abstracted: what records say; chunks (one item of output per event);    *)
(* clocks (a time limit strikes at any moment); the effect of SIGTERM,     *)
(* which kimi may honour by exiting or ignore; SIGKILL kills at once;      *)
(* identity reads do not fail.  The platform is POSIX, and a teardown      *)
(* never throws (none of its steps can; only a test makes it).             *)
(***************************************************************************)
EXTENDS Naturals, FiniteSets

CONSTANTS
    Descendant, \* processes that kimi may start
    MaxItems    \* bound: items of output handled while kimi's pipes are open

ASSUME MaxItemsIsNat == MaxItems \in Nat

Plan == {"legacy-v1", "native-v2"}

\* The two owners of a teardown: onAbort and handleEngineMismatch.
Teardown == {"abort", "mismatch"}

\* system.version with the certified version, or with another; an assistant or
\* tool record (goal.summary included); a record that announces the session; a
\* line that is not of these.
Item == {"rightMarker", "wrongMarker", "record", "sessionHint", "junk"}

VARIABLES
    plannedEngine,
    grouped,    \* descendants that stay in kimi's process group
    holders,    \* descendants that inherit kimi's pipes
    pc,         \* called, starting (before the spawn), running, done
    signal,     \* the AbortController's signal has fired
    timeoutFired,
    kimi,       \* none, unborn (failed to start), alive, dead, exited (processExited)
    exitCode,
    descendants,
    closed,     \* the close event has been handled
    draining,   \* its handler awaits the log
    announcedSystemVersion,
    announcedSession,
    records,    \* how many were delivered to the caller
    items,
    engineMismatchDetected,
    aborted,
    teardown,   \* how far each teardown is
    captured,   \* the descendants each of them found
    cancellationTeardown,   \* the teardown a settlement will wait for
    settlement, \* none, resolve, reject
    awaited,    \* the teardown the settlement does wait for
    outcome     \* what the caller of runCliPromptWithBudget got

constVars  == <<plannedEngine, grouped, holders>>
procVars   == <<kimi, exitCode, descendants>>
outputVars == <<announcedSystemVersion, announcedSession, records>>
ownVars    == <<engineMismatchDetected, aborted>>
downVars   == <<teardown, captured, cancellationTeardown>>
settleVars == <<settlement, awaited>>

vars == <<constVars, pc, signal, timeoutFired, procVars, closed, draining, outputVars,
          items, ownVars, downVars, settleVars, outcome>>

processExited == kimi = "exited"

Alive(d) == descendants[d] = "alive"

\* Besides the types: a settlement waits for a teardown that has begun.
TypeOK ==
    /\ plannedEngine \in Plan
    /\ grouped \subseteq Descendant /\ holders \subseteq Descendant
    /\ pc \in {"called", "starting", "running", "done"}
    /\ signal \in BOOLEAN /\ timeoutFired \in BOOLEAN
    /\ kimi \in {"none", "unborn", "alive", "dead", "exited"}
    /\ exitCode \in {"none", "clean", "failed"}
    /\ descendants \in [Descendant -> {"none", "alive", "gone"}]
    /\ closed \in BOOLEAN /\ draining \in BOOLEAN
    /\ announcedSystemVersion \in {"none", "right", "wrong"}
    /\ announcedSession \in BOOLEAN
    /\ records \in 0..(MaxItems + 1) /\ items \in 0..MaxItems
    /\ engineMismatchDetected \in BOOLEAN /\ aborted \in BOOLEAN
    /\ teardown \in [Teardown -> {"none", "capture", "grace", "killed", "done"}]
    /\ captured \in [Teardown -> SUBSET Descendant]
    /\ cancellationTeardown \in Teardown \cup {"none"}
    /\ settlement \in {"none", "resolve", "reject"}
    /\ awaited \in Teardown \cup {"none"}
    /\ outcome \in {"none", "result", "aborted", "error", "timeout"}
    /\ \A t \in Teardown : awaited = t => teardown[t] # "none"

Init ==
    /\ plannedEngine \in Plan
    /\ grouped \in SUBSET Descendant /\ holders \in SUBSET Descendant
    /\ pc = "called"
    /\ signal \in BOOLEAN       \* the caller's signal may have fired already
    /\ timeoutFired = FALSE
    /\ kimi = "none" /\ exitCode = "none"
    /\ descendants = [d \in Descendant |-> "none"]
    /\ closed = FALSE /\ draining = FALSE
    /\ announcedSystemVersion = "none" /\ announcedSession = FALSE
    /\ records = 0 /\ items = 0
    /\ engineMismatchDetected = FALSE /\ aborted = FALSE
    /\ teardown = [t \in Teardown |-> "none"]
    /\ captured = [t \in Teardown |-> {}]
    /\ cancellationTeardown = "none"
    /\ settlement = "none" /\ awaited = "none"
    /\ outcome = "none"

-----------------------------------------------------------------------------
(***************************************************************************)
(* Settling, tearing down, aborting.                                       *)
(***************************************************************************)

\* Mutated form: a refusal does not wait for the teardown it has begun.
SettleUnlessRefused(kind, wait) ==
    IF settlement = "none"
    THEN settlement' = kind /\ awaited' = IF kind = "reject" THEN "none" ELSE wait
    ELSE UNCHANGED settleVars

\* settle: the first call decides.  It removes the abort listener and waits for
\* the teardown that is the current one at that time.
Settle(kind, wait) ==
    IF settlement = "none"
    THEN settlement' = kind /\ awaited' = wait
    ELSE UNCHANGED settleVars

\* Mutated form: when there is nothing to tear down, nobody says it is done.
BeginTeardownOfLive(t) ==
    /\ teardown' = [teardown EXCEPT ![t] = IF kimi \in {"unborn", "exited"} THEN @ ELSE "capture"]
    /\ cancellationTeardown' = t
    /\ UNCHANGED captured

\* teardownChildTree, up to its first await of a turn: there is nothing to do
\* for a kimi that never started or whose exit was seen.
BeginTeardown(t) ==
    /\ teardown' = [teardown EXCEPT ![t] = IF kimi \in {"unborn", "exited"} THEN "done" ELSE "capture"]
    /\ cancellationTeardown' = t
    /\ UNCHANGED captured

\* The abort listener is in place from the spawn to the settlement.
Listening == pc = "running" /\ settlement = "none" /\ ~aborted

\* What runCliPromptWithBudget makes of the settled call.
Verdict ==
    IF timeoutFired THEN "timeout"
    ELSE IF settlement = "reject" THEN "error"
    ELSE IF aborted THEN "aborted" ELSE "result"

Settled ==
    /\ pc = "running" /\ settlement # "none"
    /\ \A t \in Teardown : awaited = t => teardown[t] = "done"

Answer ==
    /\ Settled
    /\ pc' = "done"
    /\ outcome' = Verdict
    /\ UNCHANGED <<constVars, signal, timeoutFired, procVars, closed, draining, outputVars,
                   items, ownVars, downVars, settleVars>>

\* The signal fires.  A settled call answers in the same turn of the event loop.
Abort ==
    /\ pc # "done" /\ ~Settled
    /\ signal' = TRUE
    /\ IF Listening /\ ~signal
       THEN aborted' = TRUE /\ BeginTeardown("abort")
       ELSE UNCHANGED <<aborted, downVars>>
    /\ UNCHANGED <<constVars, pc, procVars, closed, draining, outputVars, items,
                   engineMismatchDetected, settleVars, outcome>>

\* The command is cancelled ...
Cancel ==
    /\ ~signal
    /\ Abort
    /\ UNCHANGED timeoutFired

\* ... or out of budget.  The timer is started with the call.
Timeout ==
    /\ pc # "called" /\ ~timeoutFired
    /\ Abort
    /\ timeoutFired' = TRUE

-----------------------------------------------------------------------------
(***************************************************************************)
(* The start.                                                              *)
(***************************************************************************)

Call ==
    /\ pc = "called"
    /\ \/ signal /\ pc' = "done" /\ outcome' = "error"
       \/ ~signal /\ pc' = "starting" /\ UNCHANGED outcome
    /\ UNCHANGED <<constVars, signal, timeoutFired, procVars, closed, draining, outputVars,
                   items, ownVars, downVars, settleVars>>

\* The plan, the trusted root, the preflight or the spawn itself is refused.
Refuse ==
    /\ pc = "starting"
    /\ pc' = "done"
    /\ outcome' = IF timeoutFired THEN "timeout" ELSE "error"
    /\ UNCHANGED <<constVars, signal, timeoutFired, procVars, closed, draining, outputVars,
                   items, ownVars, downVars, settleVars>>

\* Mutated form: a listener is all there is.
AbortSeenByListener == FALSE

\* An abort during the awaits before the spawn is looked for after the listener
\* is attached.
AbortSeenAtSpawn == signal

Spawn ==
    /\ pc = "starting"
    /\ pc' = "running"
    /\ \E start \in {"alive", "unborn"} :
        /\ kimi' = start
        /\ IF AbortSeenAtSpawn
           THEN /\ aborted' = TRUE
                /\ teardown' = [teardown EXCEPT !["abort"] =
                                    IF start = "unborn" THEN "done" ELSE "capture"]
                /\ cancellationTeardown' = "abort"
           ELSE UNCHANGED <<aborted, teardown, cancellationTeardown>>
    /\ UNCHANGED <<constVars, signal, timeoutFired, exitCode, descendants, closed, draining,
                   outputVars, items, engineMismatchDetected, captured, settleVars, outcome>>

\* The error event of a spawn that failed, early or not.
ProcessError ==
    /\ kimi = "unborn" /\ settlement = "none"
    /\ Settle("reject", cancellationTeardown)
    /\ UNCHANGED <<constVars, pc, signal, timeoutFired, procVars, closed, draining, outputVars,
                   items, ownVars, downVars, outcome>>

-----------------------------------------------------------------------------
(***************************************************************************)
(* Output.                                                                 *)
(***************************************************************************)

\* handleEngineMismatch.
Mismatch ==
    /\ engineMismatchDetected' = TRUE
    /\ BeginTeardown("mismatch")
    /\ Settle("reject", "mismatch")

IsMarker(item) == item \in {"rightMarker", "wrongMarker"}

\* Mutated form: only records have to wait for the marker.
OutOfPlaceUnlessRecord(item) ==
    \/ plannedEngine = "native-v2" /\ announcedSystemVersion = "none" /\ item \in {"wrongMarker", "record"}
    \/ plannedEngine = "legacy-v1" /\ announcedSystemVersion = "none" /\ IsMarker(item)

\* A native-v2 plan must see the marker before anything else, with the version
\* it was made for; a legacy plan must never see it.  Only the first counts.
OutOfPlace(item) ==
    /\ announcedSystemVersion = "none"
    /\ IF plannedEngine = "native-v2" THEN item # "rightMarker" ELSE IsMarker(item)

Announce(item) ==
    announcedSystemVersion' =
        IF IsMarker(item) /\ announcedSystemVersion = "none"
        THEN IF item = "rightMarker" THEN "right" ELSE "wrong"
        ELSE announcedSystemVersion

\* Mutated form: the output after a mismatch is still read.
ReadsOn == TRUE

Reads == ~engineMismatchDetected

\* consumeOutcomes, for one item.
Consume(item) ==
    IF ~Reads THEN UNCHANGED <<outputVars, ownVars, downVars, settleVars>>
    ELSE /\ Announce(item)
         /\ UNCHANGED aborted
         /\ \/ /\ OutOfPlace(item)
               /\ Mismatch
               /\ UNCHANGED <<announcedSession, records>>
            \/ /\ ~OutOfPlace(item)
               /\ announcedSession' = (announcedSession \/ item = "sessionHint")
               /\ records' = IF item = "record" THEN records + 1 ELSE records
               /\ UNCHANGED <<engineMismatchDetected, downVars, settleVars>>

\* The handlers stay attached after the call has answered.  What kimi wrote
\* before it died may be read after its exit.
Data ==
    /\ kimi \in {"alive", "dead", "exited"} /\ ~closed
    /\ items < MaxItems
    /\ items' = items + 1
    /\ \E item \in Item : Consume(item)
    /\ UNCHANGED <<constVars, pc, signal, timeoutFired, procVars, closed, draining, outcome>>

-----------------------------------------------------------------------------
(***************************************************************************)
(* The end of kimi.                                                        *)
(***************************************************************************)

Exit ==
    /\ kimi = "dead"
    /\ kimi' = "exited"
    /\ UNCHANGED <<constVars, pc, signal, timeoutFired, exitCode, descendants, closed, draining,
                   outputVars, items, ownVars, downVars, settleVars, outcome>>

PipesOpen == \E d \in holders : Alive(d)

\* A clean exit without the marker of a native-v2 plan.
Unproven ==
    /\ ~engineMismatchDetected /\ exitCode = "clean" /\ ~aborted
    /\ plannedEngine = "native-v2" /\ announcedSystemVersion = "none"

\* The close event: kimi has exited and nobody holds its pipes.  The parser is
\* flushed of a last line without a newline, if there is one.
Close ==
    /\ processExited /\ ~PipesOpen /\ ~closed
    /\ closed' = TRUE
    /\ \/ /\ \E item \in Item : Consume(item)
          /\ draining' = TRUE
       \/ /\ Unproven
          /\ Mismatch
          /\ UNCHANGED <<outputVars, aborted, draining>>
       \/ /\ ~Unproven
          /\ draining' = TRUE
          /\ UNCHANGED <<outputVars, ownVars, downVars, settleVars>>
    /\ UNCHANGED <<constVars, pc, signal, timeoutFired, procVars, items, outcome>>

\* The log is written, or 250 ms are over.
Drained ==
    /\ draining
    /\ draining' = FALSE
    /\ Settle("resolve", cancellationTeardown)
    /\ UNCHANGED <<constVars, pc, signal, timeoutFired, procVars, closed, outputVars,
                   items, ownVars, downVars, outcome>>

-----------------------------------------------------------------------------
(***************************************************************************)
(* A teardown: find the descendants, SIGTERM, wait, SIGKILL, wait.         *)
(***************************************************************************)

\* captureDescendantIdentities and the SIGTERM: the list is empty when it
\* failed or took too long, or when kimi has died meanwhile and its
\* descendants are nobody's.
Capture(t) ==
    /\ teardown[t] = "capture"
    /\ teardown' = [teardown EXCEPT ![t] = "grace"]
    /\ \E found \in {{}, {d \in Descendant : kimi = "alive" /\ Alive(d)}} :
        captured' = [captured EXCEPT ![t] = found]
    /\ UNCHANGED <<constVars, pc, signal, timeoutFired, procVars, closed, draining, outputVars,
                   items, ownVars, cancellationTeardown, settleVars, outcome>>

\* waitForProcessTreeExit.
TreeExited(t) == processExited /\ \A d \in captured[t] : ~Alive(d)

Quiet(t) ==
    /\ teardown[t] = "grace"
    /\ TreeExited(t)
    /\ teardown' = [teardown EXCEPT ![t] = "done"]
    /\ UNCHANGED <<constVars, pc, signal, timeoutFired, procVars, closed, draining, outputVars,
                   items, ownVars, captured, cancellationTeardown, settleVars, outcome>>

\* Mutated form: SIGKILL goes to kimi's process group only.
SigkillGroup(t) == IF kimi = "exited" THEN {} ELSE grouped

\* Who gets the SIGKILL beside kimi: its group, as long as its exit has not
\* been seen, and every captured descendant.
SigkillTargets(t) == captured[t] \cup (IF kimi = "exited" THEN {} ELSE grouped)

\* Mutated form: kimi is trusted to honour SIGTERM.
NeverEscalates(t) == FALSE

Escalates(t) == ~TreeExited(t)

Escalate(t) ==
    /\ teardown[t] = "grace"
    /\ Escalates(t)
    /\ teardown' = [teardown EXCEPT ![t] = "killed"]
    /\ kimi' = IF kimi = "alive" THEN "dead" ELSE kimi
    /\ exitCode' = IF kimi = "alive" THEN "failed" ELSE exitCode
    /\ descendants' = [d \in Descendant |->
                        IF d \in SigkillTargets(t) /\ Alive(d) THEN "gone" ELSE descendants[d]]
    /\ UNCHANGED <<constVars, pc, signal, timeoutFired, closed, draining, outputVars,
                   items, ownVars, captured, cancellationTeardown, settleVars, outcome>>

\* Quiescent, or 500 ms are over.
Confirm(t) ==
    /\ teardown[t] = "killed"
    /\ teardown' = [teardown EXCEPT ![t] = "done"]
    /\ UNCHANGED <<constVars, pc, signal, timeoutFired, procVars, closed, draining, outputVars,
                   items, ownVars, captured, cancellationTeardown, settleVars, outcome>>

TeardownStep(t) == Capture(t) \/ Quiet(t) \/ Escalate(t) \/ Confirm(t)

-----------------------------------------------------------------------------
(***************************************************************************)
(* kimi and the processes it starts.                                       *)
(***************************************************************************)

Die ==
    /\ kimi = "alive"
    /\ kimi' = "dead"
    /\ exitCode' \in {"clean", "failed"}
    /\ UNCHANGED <<constVars, pc, signal, timeoutFired, descendants, closed, draining,
                   outputVars, items, ownVars, downVars, settleVars, outcome>>

Fork(d) ==
    /\ kimi = "alive" /\ descendants[d] = "none"
    /\ descendants' = [descendants EXCEPT ![d] = "alive"]
    /\ UNCHANGED <<constVars, pc, signal, timeoutFired, kimi, exitCode, closed, draining,
                   outputVars, items, ownVars, downVars, settleVars, outcome>>

DescendantDies(d) ==
    /\ Alive(d)
    /\ descendants' = [descendants EXCEPT ![d] = "gone"]
    /\ UNCHANGED <<constVars, pc, signal, timeoutFired, kimi, exitCode, closed, draining,
                   outputVars, items, ownVars, downVars, settleVars, outcome>>

Next ==
    \/ Call \/ Refuse \/ Spawn \/ ProcessError
    \/ Cancel \/ Timeout
    \/ Data \/ Exit \/ Close \/ Drained \/ Answer
    \/ \E t \in Teardown : TeardownStep(t)
    \/ Die
    \/ \E d \in Descendant : Fork(d) \/ DescendantDies(d)

Spec == Init /\ [][Next]_vars

\* Fairness: the event loop runs and time passes.  Nothing is asked of kimi or
\* of its descendants: they may never exit unless killed.
Fairness ==
    /\ WF_vars(Call) /\ WF_vars(Refuse \/ Spawn) /\ WF_vars(ProcessError)
    /\ WF_vars(Timeout)
    /\ WF_vars(Exit) /\ WF_vars(Close) /\ WF_vars(Drained) /\ WF_vars(Answer)
    /\ \A t \in Teardown : WF_vars(TeardownStep(t))

FairSpec == Spec /\ Fairness

-----------------------------------------------------------------------------
(***************************************************************************)
(* Properties.                                                             *)
(***************************************************************************)

\* The call promises what the commands rely on (KimiCall): kimi runs once, and
\* whatever order its exit, its output, the abort and the timer come in, the
\* call answers once and finds kimi dead when it does.
KimiProcess ==
    CASE kimi \in {"none", "unborn"} -> "none"
      [] kimi = "alive" -> "live"
      [] kimi \in {"dead", "exited"} -> "ended"

GivenAnswer ==
    CASE outcome = "none" -> "none"
      [] outcome \in {"result", "aborted"} -> "result"
      [] outcome \in {"error", "timeout"} -> "error"

Promise == INSTANCE KimiCall WITH kimi <- KimiProcess, answer <- GivenAnswer

ImplementsCall == Promise!Spec

\* Nothing that kimi wrote reaches the caller, no record and no session to
\* resume, unless kimi had proved by then to be the engine of the plan; and a
\* clean result is never one of an engine that did not.
OutputIsProven ==
    /\ plannedEngine = "native-v2" /\ (records > 0 \/ announcedSession)
       => announcedSystemVersion = "right"
    /\ outcome = "result" /\ exitCode = "clean"
       => announcedSystemVersion = IF plannedEngine = "native-v2" THEN "right" ELSE "none"

\* From the mismatch on, nothing more of kimi's output is delivered, although
\* kimi may go on writing for as long as its teardown takes and after the call
\* has answered.
NothingAfterMismatch ==
    [][engineMismatchDetected => UNCHANGED <<records, announcedSession>>]_vars

\* A call that answered with a plain result was not cancelled and not out of
\* budget: an abort is not lost in the awaits before the spawn, while the
\* output is read, or while the log is written.
AbortIsReported == outcome = "result" => ~signal /\ ~timeoutFired

\* When the call answers, the descendants that its teardown found are gone as
\* well.  Excused: a teardown that another one took the place of (see
\* TeardownIsBarrier).
CapturedTreeIsGone ==
    outcome # "none"
    => \A t \in Teardown : \A d \in captured[t] :
        Alive(d) => /\ t = "abort"
                    /\ teardown["mismatch"] # "none"

\* kimi is gone, and a descendant that nobody signals holds its pipes.
Orphaned == processExited /\ PipesOpen

\* Every call ends, however stubborn kimi is, unless it is orphaned for ever
\* (see BudgetEndsCall).
CallEnds == <>[]~Orphaned => <>(outcome # "none")

\* docs/invariants.md: "neither a normal result nor a budget error reaches its
\* caller while the owned teardown is still running".
TeardownIsBarrier ==
    outcome # "none" => \A t \in Teardown : teardown[t] \in {"none", "done"}

\* cli-client.ts: "When the budget expires, abort the internal controller, await
\* the subprocess/tree teardown, then reject with RESPONSE_TIMEOUT".
BudgetEndsCall == timeoutFired ~> outcome # "none"
==============================================================================
