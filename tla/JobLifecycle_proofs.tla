------------------------- MODULE JobLifecycle_proofs -------------------------
(***************************************************************************)
(* Proofs about the life of jobs, for every set of jobs, commands,         *)
(* cancellers and watchers and every number of crashes: the processes use  *)
(* the store as it allows, and rows and calls agree.                       *)
(***************************************************************************)
EXTENDS JobLifecycle, TLAPS

-----------------------------------------------------------------------------
(***************************************************************************)
(* Every step of a process is a step of the store, or leaves it alone.     *)
(***************************************************************************)

LEMMA OwnersExist == \A j \in Job : Launcher(j) \in Owner /\ Worker(j) \in Owner
BY DEF Owner

LEMMA CommandsAreTyped ==
    ASSUME cmd \in [Job -> Command], NEW j \in Job
    PROVE  /\ RowType(j) \in Store!CommandType
           /\ cmd[j].background \in BOOLEAN
           /\ cmd[j].forced \in BOOLEAN
BY CommandShape, NullsAreNoProcesses DEF RowType, IsProbe, Store!CommandType

LEMMA CreateRowIsCreate ==
    ASSUME cmd \in [Job -> Command], NEW j \in Job, CreateRow(j)
    PROVE  Store!Create(j)
<1> DEFINE phase == IF cmd[j].background THEN "queued" ELSE "starting"
<1>1. /\ Launcher(j) \in Owner
      /\ RowType(j) \in Store!CommandType
      /\ cmd[j].forced \in BOOLEAN
      /\ NoSession \in {} \cup {NoSession}
      /\ phase \in {"queued", "starting"}
    BY OwnersExist, CommandsAreTyped
<1>2. Store!CreateJob(j, Store!NewRow(RowType(j), Launcher(j), NoSession, phase, cmd[j].forced))
    BY DEF CreateRow, InsertedRow
<1> QED
    BY <1>1, <1>2 DEF Store!Create

LEMMA HandOverIsClaim ==
    ASSUME NEW j \in Job, HandOver(j)
    PROVE  Store!Claim(j)
BY OwnersExist DEF HandOver, MayHandOver, Store!Claim, Store!ClaimRunningJobPid

LEMMA ClaimRowIsClaim ==
    ASSUME NEW j \in Job, ClaimRow(j)
    PROVE  Store!Claim(j)
<1>1. PICK p \in {Worker(j), Launcher(j)} : Store!CanClaim(j, {p})
    BY DEF ClaimRow, MayClaim, Store!CanClaim
<1> QED
    BY <1>1, OwnersExist DEF ClaimRow, Store!Claim, Store!ClaimRunningJobPid

LEMMA StartCallIsUpdate ==
    ASSUME NEW j \in Job, StartCall(j)
    PROVE  Store!Update(j) \/ UNCHANGED jobs
BY DEF StartCall, Store!Update

LEMMA CompleteIsEnd ==
    ASSUME NEW j \in Job, Complete(j)
    PROVE  Store!End(j)
BY DEF Complete, Store!End, Store!Terminal

LEMMA ProbeEndsAreEnds ==
    ASSUME NEW j \in Job, ProbeAnswered(j) \/ ProbeReleased(j)
    PROVE  Store!End(j)
BY DEF ProbeAnswered, ProbeReleased, Store!End, Store!Terminal

LEMMA EndRowIsEnd ==
    ASSUME TypeOK, NEW p \in Process, EndRow(p)
    PROVE  \E j \in Job : Store!End(j)
<1>1. mark[p] \in Ending
    BY DEF TypeOK, EndRow, Ends
<1>2. mark[p].job \in Job /\ mark[p].status \in Store!Terminal
    BY <1>1 DEF Ending
<1> QED
    BY <1>2 DEF EndRow, Store!End

\* The other steps of launchers, runners, cancels, watchers and the environment.
LEMMA OthersLeaveStore ==
    /\ \A j \in Job :
        /\ LauncherStep(j) => CreateRow(j) \/ HandOver(j) \/ UNCHANGED jobs
        /\ RunnerStep(j) => \/ ClaimRow(j) \/ StartCall(j) \/ Complete(j)
                            \/ ProbeAnswered(j) \/ ProbeReleased(j) \/ UNCHANGED jobs
        /\ Start(j) \/ KimiEnds(j) \/ Age(j) \/ Interrupt(j) => UNCHANGED jobs
    /\ \A c \in Canceller : StartCancel(c) \/ CancellerStep(c) => UNCHANGED jobs
    /\ \A w \in Watcher : Watch(w) \/ DoneWatching(w) => UNCHANGED jobs
    /\ \A p \in Process :
        /\ ProcessStep(p) => EndRow(p) \/ UNCHANGED jobs
        /\ AgeListed(p) \/ Crash(p) => UNCHANGED jobs
<1>1. ASSUME NEW j \in Job
      PROVE  LauncherStep(j) => CreateRow(j) \/ HandOver(j) \/ UNCHANGED jobs
    BY DEF LauncherStep, EarlyCheck, GiveUp, HeaderWritten, HeaderFailed, SpawnWorker,
        SpawnFailed, HandOverDone, HandOverLost, EarlyExit, StopWaiting
<1>2. ASSUME NEW j \in Job
      PROVE  RunnerStep(j) => \/ ClaimRow(j) \/ StartCall(j) \/ Complete(j)
                              \/ ProbeAnswered(j) \/ ProbeReleased(j) \/ UNCHANGED jobs
    BY DEF RunnerStep, ClaimLost, BootFailed, HookVerified, HookMissing, CallRefused,
        CallReturns, CallTornDown, WriteResult, ResultRefused, ArtifactFailed,
        CancelledAfterArtifact, Caught
<1>3. ASSUME NEW j \in Job
      PROVE  Start(j) \/ KimiEnds(j) \/ Age(j) \/ Interrupt(j) => UNCHANGED jobs
    BY DEF Start, BeginSweep, KimiEnds, Age, Interrupt
<1>4. ASSUME NEW c \in Canceller
      PROVE  StartCancel(c) \/ CancellerStep(c) => UNCHANGED jobs
    BY DEF StartCancel, BeginSweep, CancellerStep, LookUp, NothingToCancel, SendTerm,
        SeesEnd, GivesUpWaiting, SendKill, Recheck
<1>5. ASSUME NEW w \in Watcher
      PROVE  Watch(w) \/ DoneWatching(w) => UNCHANGED jobs
    BY DEF Watch, BeginSweep, DoneWatching
<1>6. ASSUME NEW p \in Process
      PROVE  /\ ProcessStep(p) => EndRow(p) \/ UNCHANGED jobs
             /\ AgeListed(p) \/ Crash(p) => UNCHANGED jobs
    BY DEF ProcessStep, WriteArtifact, SweepRow, AgeListed, Crash
<1> QED
    BY <1>1, <1>2, <1>3, <1>4, <1>5, <1>6

LEMMA NextIsStoreStep == TypeOK /\ [Next]_vars => [Store!Next]_jobs
<1> SUFFICES ASSUME TypeOK, [Next]_vars
             PROVE  (\E j \in Job : Store!Create(j) \/ Store!Claim(j) \/ Store!Update(j) \/ Store!End(j))
                    \/ UNCHANGED jobs
    BY DEF Store!Next
<1>1. CASE UNCHANGED vars
    BY <1>1 DEF vars
<1>2. CASE Next
    <2>1. cmd \in [Job -> Command]
        BY DEF TypeOK
    <2>2. ASSUME NEW j \in Job, Start(j) \/ LauncherStep(j) \/ RunnerStep(j) \/ KimiEnds(j) \/ Age(j) \/ Interrupt(j)
          PROVE  \/ Store!Create(j) \/ Store!Claim(j) \/ Store!Update(j) \/ Store!End(j)
                 \/ UNCHANGED jobs
        BY <2>1, <2>2, OthersLeaveStore, CreateRowIsCreate, HandOverIsClaim, ClaimRowIsClaim,
            StartCallIsUpdate, CompleteIsEnd, ProbeEndsAreEnds
    <2>3. ASSUME NEW p \in Process, ProcessStep(p) \/ AgeListed(p) \/ Crash(p)
          PROVE  (\E j \in Job : Store!End(j)) \/ UNCHANGED jobs
        BY <2>3, OthersLeaveStore, EndRowIsEnd
    <2> QED
        BY <1>2, <2>2, <2>3, OthersLeaveStore DEF Next
<1> QED
    BY <1>1, <1>2

\* The types of the store survive its steps, here with owners for pids and
\* without sessions.
LEMMA StoreKeepsTypes == Store!TypeOK /\ [Store!Next]_jobs => Store!TypeOK'
<1> SUFFICES ASSUME Store!TypeOK, [Store!Next]_jobs PROVE Store!TypeOK'
    OBVIOUS
<1>1. CASE UNCHANGED jobs
    BY <1>1 DEF Store!TypeOK
<1>2. ASSUME NEW j \in Job,
             Store!Create(j) \/ Store!Claim(j) \/ Store!Update(j) \/ Store!End(j),
             jobs' # jobs
      PROVE  Store!TypeOK'
    <2>1. ASSUME NEW row \in Store!Row, jobs' = [jobs EXCEPT ![j] = row]
          PROVE  Store!TypeOK'
        BY <2>1 DEF Store!TypeOK
    <2>2. jobs \in [Job -> Store!Row] /\ jobs[j] \in Store!Row
        BY DEF Store!TypeOK
    <2>3. CASE Store!Create(j)
        <3>1. PICK type \in Store!CommandType, pid \in Owner,
                   session \in {} \cup {NoSession}, phase \in {"queued", "starting"},
                   forced \in BOOLEAN :
                Store!CreateJob(j, Store!NewRow(type, pid, session, phase, forced))
            BY <2>3 DEF Store!Create
        <3>2. Store!NewRow(type, pid, session, phase, forced) \in Store!Row
            BY DEF Store!NewRow, Store!Row, Store!Phase
        <3> QED
            BY <2>1, <3>1, <3>2 DEF Store!CreateJob
    <2>4. CASE Store!Claim(j)
        <3>1. PICK pid \in Owner, phase \in {"worker-spawned", "worker-running"} :
                jobs' = [jobs EXCEPT ![j].pid = pid, ![j].phase = phase]
            BY <2>4 DEF Store!Claim, Store!ClaimRunningJobPid
        <3>2. [jobs[j] EXCEPT !.pid = pid, !.phase = phase] \in Store!Row
            BY <2>2 DEF Store!Row, Store!Phase
        <3>3. jobs' = [jobs EXCEPT ![j] = [jobs[j] EXCEPT !.pid = pid, !.phase = phase]]
            BY <2>2, <3>1
        <3> QED
            BY <2>1, <3>2, <3>3
    <2>5. CASE Store!Update(j)
        <3>1. jobs' = [jobs EXCEPT ![j].phase = "turn-running"]
            BY <1>2, <2>5 DEF Store!Update, Store!UpdateRunningPhase
        <3>2. [jobs[j] EXCEPT !.phase = "turn-running"] \in Store!Row
            BY <2>2 DEF Store!Row, Store!Phase
        <3>3. jobs' = [jobs EXCEPT ![j] = [jobs[j] EXCEPT !.phase = "turn-running"]]
            BY <2>2, <3>1
        <3> QED
            BY <2>1, <3>2, <3>3
    <2>6. CASE Store!End(j)
        <3>1. PICK status \in Store!Terminal :
                jobs' = [jobs EXCEPT ![j] = Store!EndedRow(jobs[j], status)]
            BY <1>2, <2>6 DEF Store!End, Store!MarkEnded
        <3>2. Store!EndedRow(jobs[j], status) \in Store!Row
            BY <2>2 DEF Store!EndedRow, Store!Row, Store!Phase
        <3> QED
            BY <2>1, <3>1, <3>2
    <2> QED
        BY <1>2, <2>3, <2>4, <2>5, <2>6
<1> QED
    BY <1>1, <1>2 DEF Store!Next

-----------------------------------------------------------------------------
(***************************************************************************)
(* Type correctness.  ProcessTypes is TypeOK without the table.            *)
(***************************************************************************)

ProcessTypes ==
    /\ artifact \in [Job -> {"none"} \cup Store!Terminal]
    /\ fresh \subseteq Job
    /\ cmd \in [Job -> Command]
    /\ pc \in [Process -> Step]
    /\ armed \subseteq Job
    /\ cancelling \subseteq Job
    /\ call \in [Job -> {"none", "live", "ended"}]
    /\ sweep \in [Process -> SUBSET Listed]
    /\ mark \in [Process -> Ending \cup {NoMark}]
    /\ target \in [Canceller -> Seen \cup {NoTarget}]
    /\ overtaken \subseteq Job
    /\ crashes \in 0..MaxCrashes
    /\ \A p \in Process : Ends(p) => mark[p] # NoMark
    /\ \A c \in Canceller : HasTarget(c) => target[c] # NoTarget

LEMMA TypesSplit == TypeOK <=> Store!TypeOK /\ ProcessTypes
BY DEF TypeOK, ProcessTypes

LEMMA ProcessesExist ==
    /\ \A j \in Job : /\ Launcher(j) \in Process /\ Launcher(j) \in Owner
                      /\ Worker(j) \in Process /\ Worker(j) \in Owner
                      /\ Runner(j) \in Process /\ Runner(j) \in Owner
    /\ Canceller \subseteq Process
    /\ Watcher \subseteq Process
BY DEF Process, Owner, Runner

\* A decision to end a row leaves a mark.
LEMMA MarksAreRecords ==
    ASSUME NEW j \in Job, NEW status \in Store!Terminal, NEW p \in Owner
    PROVE  /\ [job |-> j, status |-> status, pid |-> p] \in Ending
           /\ [job |-> j, status |-> status, pid |-> p] # NoMark
BY NullsAreNoRecords DEF Ending

LEMMA DecidingKeepsTypes ==
    ASSUME ProcessTypes, NEW p \in Process, NEW seen, seen.job \in Job, seen.pid \in Owner,
           NEW status \in Store!Terminal, NEW step \in {"sweepWrite", "endWrite"},
           Decide(p, seen, status, step),
           UNCHANGED target
    PROVE  /\ pc' \in [Process -> Step]
           /\ mark' \in [Process -> Ending \cup {NoMark}]
           /\ \A q \in Process : Ends(q)' => mark'[q] # NoMark
           /\ \A c \in Canceller : HasTarget(c)' => target'[c] # NoTarget
<1>1. PICK m \in Ending : mark' = [mark EXCEPT ![p] = m] /\ m # NoMark
    BY MarksAreRecords DEF Decide
<1>2. pc' = [pc EXCEPT ![p] = step] /\ step \in Step
    BY DEF Decide, Goto, Step
<1>3. pc \in [Process -> Step] /\ mark \in [Process -> Ending \cup {NoMark}]
    BY DEF ProcessTypes
<1>4. \A q \in Process : Ends(q)' => mark'[q] # NoMark
    BY <1>1, <1>2, <1>3 DEF ProcessTypes, Ends
<1>5. \A c \in Canceller : HasTarget(c)' => HasTarget(c)
    BY <1>2, <1>3 DEF HasTarget, Process
<1> QED
    BY <1>1, <1>2, <1>3, <1>4, <1>5 DEF ProcessTypes

\* Steps at which a process neither ends a row nor has a target.
Quiet == Step \ {"sweepWrite", "sweepMark", "endWrite", "endMark",
                 "term", "poll", "kill", "recheck"}

LEMMA QuietMoveKeepsTypes ==
    ASSUME ProcessTypes,
           pc' \in [Process -> Step],
           \A q \in Process : pc'[q] # pc[q] => pc'[q] \in Quiet,
           cancelling' \subseteq Job,
           UNCHANGED <<artifact, cmd, armed, call, sweep, mark, target, overtaken, crashes>>,
           fresh' \subseteq Job
    PROVE  ProcessTypes'
<1>1. \A q \in Process : Ends(q)' => Ends(q)
    BY DEF Ends, Quiet
<1>2. \A c \in Canceller : HasTarget(c)' => HasTarget(c)
    BY DEF HasTarget, Quiet, Process
<1> QED
    BY <1>1, <1>2 DEF ProcessTypes

LEMMA EndOwnKeepsTypes ==
    ASSUME ProcessTypes, NEW p \in Owner, NEW j \in Job,
           NEW status \in {"completed", "failed", "cancelled"},
           EndOwn(p, j, status),
           UNCHANGED <<artifact, fresh, cmd, runnerVars, sweep, target, overtaken, crashes>>
    PROVE  ProcessTypes'
<1>1. p \in Process /\ status \in Store!Terminal
    BY DEF Process, Store!Terminal
<1>2. /\ pc' \in [Process -> Step]
      /\ mark' \in [Process -> Ending \cup {NoMark}]
      /\ \A q \in Process : Ends(q)' => mark'[q] # NoMark
      /\ \A c \in Canceller : HasTarget(c)' => target'[c] # NoTarget
    BY <1>1, DecidingKeepsTypes DEF EndOwn
<1> QED
    BY <1>2 DEF ProcessTypes, runnerVars

LEMMA GotoKeepsTypes ==
    ASSUME ProcessTypes, NEW p \in Process, NEW step \in Quiet, Goto(p, step),
           UNCHANGED <<artifact, fresh, cmd, runnerVars, sweep, mark, target, overtaken, crashes>>
    PROVE  ProcessTypes'
<1>1. /\ pc' \in [Process -> Step]
      /\ \A q \in Process : pc'[q] # pc[q] => pc'[q] \in Quiet
    BY DEF ProcessTypes, Goto, Quiet
<1> QED
    BY <1>1, QuietMoveKeepsTypes DEF ProcessTypes, runnerVars

\* SIGTERM and SIGKILL kill at most, and latch at most the jobs of the runner.
LEMMA SignalsAreQuiet ==
    ASSUME ProcessTypes, NEW p \in Process
    PROVE  /\ Terminated(p) \in [Process -> Step]
           /\ Killed(p) \in [Process -> Step]
           /\ \A q \in Process : /\ Terminated(p)[q] \in {pc[q], "killed"}
                                 /\ Killed(p)[q] \in {pc[q], "killed"}
           /\ Latched(p) \subseteq Job
BY DEF ProcessTypes, Terminated, Killed, Latched, Step, Gone

LEMMA LauncherKeepsTypes ==
    ASSUME TypeOK, NEW j \in Job, LauncherStep(j)
    PROVE  ProcessTypes'
<1> USE DEF ProcessTypes, Ends, HasTarget, Goto, Step, Gone, runnerVars
<1>0. ProcessTypes /\ Launcher(j) \in Process /\ Launcher(j) \in Owner /\ Worker(j) \in Process
    BY TypesSplit, ProcessesExist DEF ProcessTypes
<1>1. CASE EarlyCheck(j)
    BY <1>0, <1>1 DEF EarlyCheck
<1>2. CASE CreateRow(j)
    BY <1>0, <1>2 DEF CreateRow
<1>3. CASE GiveUp(j)
    BY <1>0, <1>3 DEF GiveUp
<1>4. CASE HeaderWritten(j)
    BY <1>0, <1>4 DEF HeaderWritten
<1>5. CASE HeaderFailed(j)
    <2> HIDE DEF ProcessTypes, Goto
    <2>1. "failed" \in Quiet /\ "exited" \in Quiet
        BY DEF Quiet
    <2> QED
        BY <1>0, <1>5, <2>1, EndOwnKeepsTypes, GotoKeepsTypes DEF HeaderFailed
<1>6. CASE SpawnWorker(j)
    <2>1. /\ pc' \in [Process -> Step]
          /\ \A q \in Process : pc'[q] # pc[q] => pc'[q] \in Quiet
        BY <1>0, <1>6 DEF SpawnWorker, Quiet
    <2> HIDE DEF ProcessTypes
    <2> QED
        BY <1>0, <1>6, <2>1, QuietMoveKeepsTypes DEF SpawnWorker, ProcessTypes
<1>7. CASE SpawnFailed(j)
    <2> HIDE DEF ProcessTypes, Goto
    <2>1. "failed" \in Quiet /\ "exited" \in Quiet
        BY DEF Quiet
    <2> QED
        BY <1>0, <1>7, <2>1, EndOwnKeepsTypes, GotoKeepsTypes DEF SpawnFailed
<1>8. CASE HandOver(j)
    BY <1>0, <1>8 DEF HandOver
<1>9. CASE HandOverDone(j)
    BY <1>0, <1>9 DEF HandOverDone
<1>10. CASE HandOverLost(j)
    <2> HIDE DEF ProcessTypes
    <2>1. /\ pc' \in [Process -> Step]
          /\ \A q \in Process : pc'[q] # pc[q] => pc'[q] \in Quiet
        BY <1>0, <1>10, SignalsAreQuiet DEF HandOverLost, Quiet
    <2>2. cancelling' \subseteq Job /\ fresh' \subseteq Job
        BY <1>0, <1>10, SignalsAreQuiet DEF HandOverLost, ProcessTypes
    <2> QED
        BY <1>0, <1>10, <2>1, <2>2, QuietMoveKeepsTypes DEF HandOverLost
<1>11. CASE EarlyExit(j)
    <2> HIDE DEF ProcessTypes, Goto
    <2>1. "failed" \in Quiet /\ "exited" \in Quiet
        BY DEF Quiet
    <2> QED
        BY <1>0, <1>11, <2>1, EndOwnKeepsTypes, GotoKeepsTypes DEF EarlyExit
<1>12. CASE StopWaiting(j)
    BY <1>0, <1>12 DEF StopWaiting
<1> QED
    BY <1>1, <1>2, <1>3, <1>4, <1>5, <1>6, <1>7, <1>8, <1>9, <1>10, <1>11, <1>12 DEF
        LauncherStep

LEMMA RunnerKeepsTypes ==
    ASSUME TypeOK, NEW j \in Job, RunnerStep(j)
    PROVE  ProcessTypes'
<1> USE DEF ProcessTypes, Ends, HasTarget, Goto, Step, Gone, runnerVars
<1>0. ProcessTypes /\ Runner(j) \in Process /\ Runner(j) \in Owner /\ Worker(j) \in Process
    BY TypesSplit, ProcessesExist DEF ProcessTypes
<1>1. CASE ClaimRow(j)
    BY <1>0, <1>1 DEF ClaimRow
<1>2. CASE ClaimLost(j)
    BY <1>0, <1>2 DEF ClaimLost
<1>3. CASE BootFailed(j)
    BY <1>0, <1>3 DEF BootFailed
<1>4. CASE HookVerified(j)
    BY <1>0, <1>4 DEF HookVerified
<1>5. CASE HookMissing(j)
    <2> HIDE DEF ProcessTypes, Goto
    <2> QED
        BY <1>0, <1>5, EndOwnKeepsTypes DEF HookMissing
<1>6. CASE StartCall(j)
    BY <1>0, <1>6 DEF StartCall, Touched
<1>7. CASE CallRefused(j)
    BY <1>0, <1>7 DEF CallRefused
<1>8. CASE CallReturns(j)
    BY <1>0, <1>8 DEF CallReturns, Touched
<1>9. CASE CallTornDown(j)
    BY <1>0, <1>9 DEF CallTornDown
<1>10. CASE WriteResult(j)
    BY <1>0, <1>10 DEF WriteResult, Store!Terminal
<1>11. CASE ResultRefused(j)
    BY <1>0, <1>11 DEF ResultRefused
<1>12. CASE Complete(j)
    BY <1>0, <1>12 DEF Complete
<1>13. CASE CancelledAfterArtifact(j)
    BY <1>0, <1>13 DEF CancelledAfterArtifact
<1>14. CASE Caught(j)
    <2> HIDE DEF ProcessTypes, Goto
    <2> QED
        BY <1>0, <1>14, EndOwnKeepsTypes DEF Caught
<1>15. CASE ArtifactFailed(j)
    <2> HIDE DEF ProcessTypes, Goto
    <2> QED
        BY <1>0, <1>15, EndOwnKeepsTypes DEF ArtifactFailed
<1>16. CASE ProbeAnswered(j)
    BY <1>0, <1>16 DEF ProbeAnswered
<1>17. CASE ProbeReleased(j)
    BY <1>0, <1>17 DEF ProbeReleased
<1> QED
    BY <1>1, <1>2, <1>3, <1>4, <1>5, <1>6, <1>7, <1>8, <1>9, <1>10, <1>11, <1>12, <1>13,
        <1>14, <1>15, <1>16, <1>17 DEF RunnerStep

\* A cancel that has its target moves on.
LEMMA TargetMoveKeepsTypes ==
    ASSUME ProcessTypes, NEW c \in Canceller,
           pc' \in [Process -> Step],
           \A q \in Process : pc'[q] # pc[q] => pc'[q] \in Quiet \/ q = c,
           pc'[c] \in {"term", "poll", "kill", "recheck"},
           target' \in [Canceller -> Seen \cup {NoTarget}],
           target'[c] # NoTarget,
           \A d \in Canceller \ {c} : target'[d] = target[d],
           cancelling' \subseteq Job,
           UNCHANGED <<artifact, fresh, cmd, armed, call, sweep, mark, overtaken, crashes>>
    PROVE  ProcessTypes'
<1>1. c \in Process /\ Canceller \subseteq Process
    BY ProcessesExist
<1>2. \A q \in Process : Ends(q)' => Ends(q)
    BY <1>1 DEF Ends, Quiet
<1>3. \A d \in Canceller \ {c} : HasTarget(d)' => HasTarget(d)
    BY <1>1 DEF HasTarget, Quiet
<1> QED
    BY <1>2, <1>3 DEF ProcessTypes

LEMMA CancellerKeepsTypes ==
    ASSUME TypeOK, NEW c \in Canceller, CancellerStep(c)
    PROVE  ProcessTypes'
<1>0. ProcessTypes /\ c \in Process /\ Canceller \subseteq Process
    BY TypesSplit, ProcessesExist
<1>1. pc \in [Process -> Step] /\ target \in [Canceller -> Seen \cup {NoTarget}]
    BY <1>0 DEF ProcessTypes
<1>2. "exited" \in Quiet /\ "killed" \in Quiet
    BY DEF Quiet, Step, Gone
<1>3. {"term", "poll", "kill", "recheck"} \subseteq Step
    BY DEF Step
<1>4. HasTarget(c) => target[c] # NoTarget /\ target[c] \in Seen
    BY <1>0, <1>1 DEF ProcessTypes
<1>5. cancelling \subseteq Job
    BY <1>0 DEF ProcessTypes
<1>6. CASE LookUp(c)
    <2>1. PICK j \in Job :
            /\ jobs[j].pid # NoPid
            /\ target' = [target EXCEPT ![c] = [job |-> j, pid |-> jobs[j].pid]]
        BY <1>6 DEF LookUp
    <2>2. jobs[j].pid \in Owner
        BY <2>1 DEF TypeOK, Store!TypeOK, Store!Row
    <2>3. target'[c] # NoTarget /\ target' \in [Canceller -> Seen \cup {NoTarget}]
        BY <1>1, <2>1, <2>2, NullsAreNoRecords DEF Seen
    <2>4. pc' = [pc EXCEPT ![c] = "term"]
        BY <1>6 DEF LookUp, Goto
    <2>5. UNCHANGED <<artifact, fresh, cmd, armed, cancelling, call, sweep, mark, overtaken, crashes>>
        BY <1>6 DEF LookUp, runnerVars
    <2> QED
        BY <1>0, <1>1, <1>3, <1>5, <2>1, <2>3, <2>4, <2>5, TargetMoveKeepsTypes
<1>7. CASE NothingToCancel(c)
    BY <1>0, <1>2, <1>7, GotoKeepsTypes DEF NothingToCancel
<1>8. CASE SendTerm(c)
    <2>1. target[c] # NoTarget /\ target[c].pid \in Process
        BY <1>4, <1>8 DEF SendTerm, HasTarget, Seen, Process
    <2>2. /\ pc' = [Terminated(target[c].pid) EXCEPT ![c] = "poll"]
          /\ cancelling' = cancelling \cup Latched(target[c].pid)
          /\ UNCHANGED <<artifact, fresh, cmd, armed, call, sweep, mark, target, overtaken, crashes>>
        BY <1>8 DEF SendTerm
    <2>3. /\ pc' \in [Process -> Step]
          /\ \A q \in Process : pc'[q] # pc[q] => pc'[q] \in Quiet \/ q = c
          /\ pc'[c] = "poll"
          /\ cancelling' \subseteq Job
        BY <1>0, <1>2, <1>3, <1>5, <2>1, <2>2, SignalsAreQuiet
    <2> QED
        BY <1>0, <1>1, <2>1, <2>2, <2>3, TargetMoveKeepsTypes
<1>9. CASE SeesEnd(c)
    BY <1>0, <1>2, <1>9, GotoKeepsTypes DEF SeesEnd
<1>10. CASE GivesUpWaiting(c)
    <2>1. /\ target[c] # NoTarget
          /\ pc' = [pc EXCEPT ![c] = "kill"]
          /\ UNCHANGED <<artifact, fresh, cmd, armed, cancelling, call, sweep, mark, target,
                        overtaken, crashes>>
        BY <1>4, <1>10 DEF GivesUpWaiting, HasTarget, Goto, runnerVars
    <2> QED
        BY <1>0, <1>1, <1>3, <1>5, <2>1, TargetMoveKeepsTypes
<1>11. CASE SendKill(c)
    <2>1. target[c] # NoTarget /\ target[c].pid \in Process
        BY <1>4, <1>11 DEF SendKill, HasTarget, Seen, Process
    <2>2. /\ pc' = [Killed(target[c].pid) EXCEPT ![c] = "recheck"]
          /\ UNCHANGED <<artifact, fresh, cmd, armed, cancelling, call, sweep, mark, target,
                        overtaken, crashes>>
        BY <1>11 DEF SendKill, runnerVars
    <2>3. /\ pc' \in [Process -> Step]
          /\ \A q \in Process : pc'[q] # pc[q] => pc'[q] \in Quiet \/ q = c
          /\ pc'[c] = "recheck"
        BY <1>0, <1>2, <1>3, <2>1, <2>2, SignalsAreQuiet
    <2> QED
        BY <1>0, <1>1, <1>5, <2>1, <2>2, <2>3, TargetMoveKeepsTypes
<1>12. CASE Recheck(c)
    <2>1. target[c].job \in Job /\ target[c].pid \in Owner
        BY <1>4, <1>12 DEF Recheck, HasTarget, Seen
    <2>2. UNCHANGED <<artifact, fresh, cmd, runnerVars, sweep, target, overtaken, crashes>>
        BY <1>12 DEF Recheck
    <2>3. CASE Decide(c, target[c], "cancelled", "endWrite")
        <3>1. "cancelled" \in Store!Terminal
            BY DEF Store!Terminal
        <3>2. /\ pc' \in [Process -> Step]
              /\ mark' \in [Process -> Ending \cup {NoMark}]
              /\ \A q \in Process : Ends(q)' => mark'[q] # NoMark
              /\ \A d \in Canceller : HasTarget(d)' => target'[d] # NoTarget
            BY <1>0, <2>1, <2>2, <2>3, <3>1, DecidingKeepsTypes
        <3> QED
            BY <1>0, <2>2, <3>2 DEF ProcessTypes, runnerVars
    <2>4. CASE Goto(c, "exited") /\ UNCHANGED mark
        BY <1>0, <1>2, <2>2, <2>4, GotoKeepsTypes
    <2> QED
        BY <1>12, <2>3, <2>4 DEF Recheck
<1> QED
    BY <1>6, <1>7, <1>8, <1>9, <1>10, <1>11, <1>12 DEF CancellerStep

LEMMA BeginSweepKeepsTypes ==
    ASSUME TypeOK, NEW p \in Process, BeginSweep(p), armed' \subseteq Job
    PROVE  ProcessTypes'
<1>1. SweepList \subseteq Listed
    <2>1. ASSUME NEW j \in Job, jobs[j].pid # NoPid
          PROVE  [job |-> j, pid |-> jobs[j].pid, young |-> j \in fresh] \in Listed
        <3>1. jobs[j].pid \in Owner
            BY <2>1 DEF TypeOK, Store!TypeOK, Store!Row
        <3>2. (j \in fresh) \in BOOLEAN
            OBVIOUS
        <3>3. \A y \in BOOLEAN : [job |-> j, pid |-> jobs[j].pid, young |-> y] \in Listed
            BY <3>1 DEF Listed
        <3> QED
            BY <3>2, <3>3, Zenon
    <2> QED
        BY <2>1 DEF SweepList
<1>2. ProcessTypes
    BY TypesSplit
<1>3. /\ sweep' = [sweep EXCEPT ![p] = SweepList]
      /\ pc' = [pc EXCEPT ![p] = "sweep"]
      /\ UNCHANGED <<artifact, fresh, cmd, cancelling, call, mark, target, overtaken, crashes>>
    BY DEF BeginSweep, Goto
<1>4. sweep' \in [Process -> SUBSET Listed]
    BY <1>1, <1>2, <1>3 DEF ProcessTypes
<1>5. pc' \in [Process -> Step] /\ (\A q \in Process : Ends(q)' => Ends(q))
    BY <1>2, <1>3 DEF ProcessTypes, Ends, Step
<1>6. \A c \in Canceller : HasTarget(c)' => HasTarget(c)
    BY <1>2, <1>3, ProcessesExist DEF ProcessTypes, HasTarget
<1> QED
    BY <1>2, <1>3, <1>4, <1>5, <1>6 DEF ProcessTypes

LEMMA ProcessStepKeepsTypes ==
    ASSUME TypeOK, NEW p \in Process, ProcessStep(p)
    PROVE  ProcessTypes'
<1>0. ProcessTypes
    BY TypesSplit
<1>1. pc \in [Process -> Step] /\ mark \in [Process -> Ending \cup {NoMark}]
    BY <1>0 DEF ProcessTypes
<1>2. CASE WriteArtifact(p)
    <2>1. Ends(p) /\ mark[p] \in Ending
        BY <1>0, <1>1, <1>2 DEF ProcessTypes, Ends, WriteArtifact
    <2>2. /\ artifact' = [artifact EXCEPT ![mark[p].job] = mark[p].status]
          /\ overtaken' \subseteq overtaken \cup {mark[p].job}
          /\ pc' = [pc EXCEPT ![p] = IF pc[p] = "sweepWrite" THEN "sweepMark" ELSE "endMark"]
          /\ UNCHANGED <<fresh, cmd, armed, cancelling, call, sweep, mark, target, crashes>>
        BY <1>2 DEF WriteArtifact, GoesBy, Goto, runnerVars
    <2>3. mark[p].job \in Job /\ mark[p].status \in Store!Terminal
        BY <2>1 DEF Ending
    <2>4. artifact' \in [Job -> {"none"} \cup Store!Terminal] /\ overtaken' \subseteq Job
        BY <1>0, <2>2, <2>3 DEF ProcessTypes
    <2>5. pc' \in [Process -> Step] /\ (\A q \in Process : Ends(q)' => Ends(q))
        <3>1. /\ pc'[p] \in Step
              /\ \A q \in Process \ {p} : pc'[q] = pc[q]
            BY <1>1, <2>2 DEF Step
        <3> QED
            BY <1>1, <2>1, <2>2, <3>1 DEF Ends
    <2>6. \A c \in Canceller : HasTarget(c)' => HasTarget(c)
        BY <1>1, <2>2, ProcessesExist DEF HasTarget
    <2> QED
        BY <1>0, <2>2, <2>4, <2>5, <2>6 DEF ProcessTypes
<1>3. CASE EndRow(p)
    <2>1. Ends(p) /\ mark[p] \in Ending
        BY <1>0, <1>1, <1>3 DEF ProcessTypes, Ends, EndRow
    <2>2. /\ fresh' \subseteq fresh
          /\ overtaken' \subseteq overtaken \cup {mark[p].job}
          /\ mark' = [mark EXCEPT ![p] = NoMark]
          /\ pc' = [pc EXCEPT ![p] = IF pc[p] = "sweepMark" THEN "sweep" ELSE "exited"]
          /\ UNCHANGED <<artifact, cmd, armed, cancelling, call, sweep, target, crashes>>
        BY <1>3 DEF EndRow, GoesBy, Goto, runnerVars
    <2>3. overtaken' \subseteq Job /\ fresh' \subseteq Job
        BY <1>0, <2>1, <2>2 DEF ProcessTypes, Ending
    <2>4. pc' \in [Process -> Step] /\ (\A q \in Process : Ends(q)' => Ends(q) /\ q # p)
        BY <1>1, <2>2 DEF Ends, Step, Gone
    <2>5. \A c \in Canceller : HasTarget(c)' => HasTarget(c)
        BY <1>1, <2>2, ProcessesExist DEF HasTarget
    <2>6. mark' \in [Process -> Ending \cup {NoMark}] /\ (\A q \in Process : q # p => mark'[q] = mark[q])
        BY <1>1, <2>2
    <2> QED
        BY <1>0, <2>2, <2>3, <2>4, <2>5, <2>6 DEF ProcessTypes
<1>4. CASE SweepRow(p)
    <2>1. PICK row \in sweep[p] :
            /\ sweep' = [sweep EXCEPT ![p] = @ \ {row}]
            /\ \/ Decide(p, row, "failed", "sweepWrite")
               \/ UNCHANGED <<pc, mark>>
        BY <1>4 DEF SweepRow
    <2>2. UNCHANGED <<artifact, fresh, cmd, armed, cancelling, call, target, overtaken, crashes>>
        BY <1>4 DEF SweepRow, runnerVars
    <2>3. row.job \in Job /\ row.pid \in Owner /\ "failed" \in Store!Terminal
        BY <1>0 DEF ProcessTypes, Listed, Store!Terminal
    <2>4. sweep' \in [Process -> SUBSET Listed]
        BY <1>0, <2>1 DEF ProcessTypes
    <2>5. CASE Decide(p, row, "failed", "sweepWrite")
        <3>1. /\ pc' \in [Process -> Step]
              /\ mark' \in [Process -> Ending \cup {NoMark}]
              /\ \A q \in Process : Ends(q)' => mark'[q] # NoMark
              /\ \A d \in Canceller : HasTarget(d)' => target'[d] # NoTarget
            BY <1>0, <2>2, <2>3, <2>5, DecidingKeepsTypes
        <3> QED
            BY <1>0, <2>2, <2>4, <3>1 DEF ProcessTypes
    <2>6. CASE UNCHANGED <<pc, mark>>
        BY <1>0, <2>2, <2>4, <2>6 DEF ProcessTypes, Ends, HasTarget
    <2> QED
        BY <2>1, <2>5, <2>6
<1> QED
    BY <1>2, <1>3, <1>4 DEF ProcessStep

LEMMA EnvironmentKeepsTypes ==
    ASSUME TypeOK,
           \/ \E j \in Job : KimiEnds(j) \/ Age(j) \/ Interrupt(j)
           \/ \E w \in Watcher : DoneWatching(w)
           \/ \E p \in Process : AgeListed(p) \/ Crash(p)
    PROVE  ProcessTypes'
<1>0. ProcessTypes
    BY TypesSplit
<1>1. ASSUME NEW j \in Job, KimiEnds(j) \/ Age(j) \/ Interrupt(j)
      PROVE  ProcessTypes'
    BY <1>0, <1>1 DEF KimiEnds, Age, Interrupt, ProcessTypes, Ends, HasTarget, runnerVars
<1>2. ASSUME NEW w \in Watcher, DoneWatching(w)
      PROVE  ProcessTypes'
    <2>1. w \in Process /\ "off" \in Quiet
        BY ProcessesExist DEF Quiet, Step, Gone
    <2> QED
        BY <1>0, <1>2, <2>1, GotoKeepsTypes DEF DoneWatching
<1>3. ASSUME NEW p \in Process, AgeListed(p)
      PROVE  ProcessTypes'
    <2>1. PICK row \in sweep[p] :
            sweep' = [sweep EXCEPT ![p] = (@ \ {row}) \cup {[row EXCEPT !.young = FALSE]}]
        BY <1>3 DEF AgeListed
    <2>2. row \in Listed
        BY <1>0 DEF ProcessTypes
    <2>3. [row EXCEPT !.young = FALSE] \in Listed
        BY <2>2 DEF Listed
    <2>4. sweep' \in [Process -> SUBSET Listed]
        BY <1>0, <2>1, <2>3 DEF ProcessTypes
    <2> QED
        BY <1>0, <1>3, <2>4 DEF AgeListed, ProcessTypes, Ends, HasTarget, runnerVars
<1>4. ASSUME NEW p \in Process, Crash(p)
      PROVE  ProcessTypes'
    <2>1. crashes' \in 0..MaxCrashes
        BY <1>0, <1>4, NullsAreNoProcesses DEF ProcessTypes, Crash
    <2>2. sweep' \in [Process -> SUBSET Listed]
        BY <1>0, <1>4 DEF ProcessTypes, Crash
    <2>3. pc' = [pc EXCEPT ![p] = "killed"]
        BY <1>4 DEF Crash, Goto
    <2>4. pc' \in [Process -> Step] /\ (\A q \in Process : Ends(q)' => Ends(q))
        BY <1>0, <2>3 DEF ProcessTypes, Ends, Step, Gone
    <2>5. \A c \in Canceller : HasTarget(c)' => HasTarget(c)
        BY <1>0, <2>3, ProcessesExist DEF ProcessTypes, HasTarget
    <2> QED
        BY <1>0, <1>4, <2>1, <2>2, <2>4, <2>5 DEF Crash, ProcessTypes, runnerVars
<1> QED
    BY <1>1, <1>2, <1>3, <1>4

LEMMA NextKeepsTypes == TypeOK /\ [Next]_vars => TypeOK'
<1> SUFFICES ASSUME TypeOK, [Next]_vars PROVE TypeOK'
    OBVIOUS
<1>1. Store!TypeOK'
    BY TypesSplit, NextIsStoreStep, StoreKeepsTypes
<1>2. ProcessTypes'
    <2>1. CASE UNCHANGED vars
        BY <2>1, TypesSplit DEF vars, ProcessTypes, Ends, HasTarget
    <2>2. CASE Next
        <3>1. armed \subseteq Job
            BY TypesSplit DEF ProcessTypes
        <3>2. ASSUME NEW j \in Job, Start(j) PROVE ProcessTypes'
            BY <3>1, <3>2, ProcessesExist, BeginSweepKeepsTypes DEF Start, ArmedAtStart
        <3>3. ASSUME NEW c \in Canceller, StartCancel(c) PROVE ProcessTypes'
            BY <3>1, <3>3, ProcessesExist, BeginSweepKeepsTypes DEF StartCancel
        <3>4. ASSUME NEW w \in Watcher, Watch(w) PROVE ProcessTypes'
            BY <3>1, <3>4, ProcessesExist, BeginSweepKeepsTypes DEF Watch
        <3> QED
            BY <2>2, <3>2, <3>3, <3>4, LauncherKeepsTypes, RunnerKeepsTypes,
                CancellerKeepsTypes, ProcessStepKeepsTypes, EnvironmentKeepsTypes DEF Next
    <2> QED
        BY <2>1, <2>2
<1>3. (Store!TypeOK /\ ProcessTypes)' => TypeOK'
    BY DEF TypeOK, ProcessTypes
<1> QED
    BY <1>1, <1>2, <1>3

LEMMA InitTypes == Init => TypeOK
<1> SUFFICES ASSUME Init PROVE TypeOK
    OBVIOUS
<1>1. Store!NoRow \in Store!Row
    BY NullsAreNoProcesses DEF Store!NoRow, Store!Row, Store!CommandType, Store!Phase
<1>2. Store!TypeOK
    BY <1>1 DEF Init, Store!Init, Store!TypeOK
<1>3. ProcessTypes
    BY NullsAreNoProcesses, ProcessesExist
       DEF Init, ProcessTypes, Ends, HasTarget, Step, Gone
<1> QED
    BY <1>2, <1>3, TypesSplit

-----------------------------------------------------------------------------
(***************************************************************************)
(* The theorems.                                                           *)
(***************************************************************************)

\* Type correctness: among the rest, whoever is about to end a row knows which,
\* and no cancel sends a signal without having found a row.
THEOREM TypeCorrect == Spec => []TypeOK
BY InitTypes, NextKeepsTypes, PTL DEF Spec

\* Launchers, workers, sweeps and cancels, however they interleave and wherever
\* they die, use the table as JobStore allows: what JobStore_proofs proves of
\* every behaviour of the table is true of theirs.
THEOREM UsesStore == Spec => ImplementsStore
<1>1. Init => Store!Init
    BY DEF Init
<1> QED
    BY <1>1, TypeCorrect, NextIsStoreStep, PTL DEF Spec, ImplementsStore, Store!Spec

-----------------------------------------------------------------------------
(***************************************************************************)
(* Rows and calls agree: who may work on a row, who may end it, and that   *)
(* it is nobody's turn to do both.                                         *)
(*                                                                         *)
(* A launcher, sweep or cancel that ends a row goes by an owner the row    *)
(* had once.  Two facts make that safe.  Whoever it goes by has stopped    *)
(* working and never works again (MarkedOwner, lemma OwnersGoOn); and      *)
(* while a runner works, its row is running and names it (Owned,           *)
(* WorksOnRunningRow).  So either nobody works on the row, or the ending   *)
(* goes by the launcher after the row has passed to the worker, which      *)
(* `overtaken` remembers.                                                  *)
(***************************************************************************)

\* Owners at these steps are about to end a row or have gone, for good.
Finished == {"endWrite", "endMark", "exited", "failed", "killed"}

\* A runner at these steps holds its row.
Working == {"header", "hook", "arm", "call", "return", "written", "caught"}

Works(j) == pc[Runner(j)] \in Working

\* Owner p of job j has started: a launcher when the command was typed, a worker
\* when it was spawned.
Known(j, p) == p \in {Launcher(j), Worker(j)} /\ pc[p] # "off"

\* Where the two processes of a job may be.  A worker is spawned once, for a
\* background job, by a launcher that has inserted the row, and never sweeps.
Placed(j) ==
    /\ pc[Worker(j)] \notin {"sweep", "sweepWrite", "sweepMark"}
    /\ pc[Launcher(j)] \in {"header", "spawn"} => jobs[j].status # "absent"
    /\ pc[Launcher(j)] = "spawn" => cmd[j].background
    /\ pc[Launcher(j)] \in {"handover", "wait"} => pc[Worker(j)] # "off"
    /\ pc[Worker(j)] # "off" =>
        /\ cmd[j].background
        /\ jobs[j].status # "absent"
        /\ pc[Launcher(j)] \in {"handover", "wait"} \cup Finished

\* A running row names an owner that has started, the runner if that works on it,
\* and says what the command said.
Owned(j) ==
    /\ ~Store!IsRunning(j) => jobs[j].pid = NoPid
    /\ Store!IsRunning(j) =>
        /\ Known(j, jobs[j].pid)
        /\ Works(j) => jobs[j].pid = Runner(j)
        /\ jobs[j].type # "review_gate"
        /\ jobs[j].forced => cmd[j].forced

WorksOnRunningRow(j) == Works(j) /\ ~Store!IsRunning(j) => j \in overtaken

\* A live call has its runner at the call, or has lost it.
CalledByRunner(j) == call[j] = "live" => pc[Runner(j)] \in {"call", "killed"}

SparesResult(j) ==
    jobs[j].status = "completed" /\ artifact[j] = "cancelled" => j \in overtaken

\* Who can still complete a row whose artifact says cancelled: the worker of a
\* background job, which first writes its own.
Spared(j) ==
    /\ jobs[j].status = "completed" => pc[Runner(j)] \in Finished
    /\ artifact[j] = "cancelled" /\ ~cmd[j].background => pc[Runner(j)] \in Finished
    /\ artifact[j] = "cancelled" /\ pc[Runner(j)] = "written" /\ Store!IsRunning(j)
        => j \in overtaken

JobInv(j) ==
    /\ Placed(j)
    /\ Owned(j)
    /\ WorksOnRunningRow(j)
    /\ CalledByRunner(j)
    /\ SparesResult(j)
    /\ Spared(j)

\* Whatever a sweep has listed was an owner of the job.
ListedOwners == \A p \in Process : \A row \in sweep[p] : Known(row.job, row.pid)

\* So was whatever a cancel has looked up; after SIGKILL it is done.
TargetedOwner(c) ==
    HasTarget(c) =>
        /\ Known(target[c].job, target[c].pid)
        /\ pc[c] = "recheck" => pc[target[c].pid] \in Finished

\* By the time somebody ends a row, the owner it goes by is done, and a row that is
\* cancelled by its runner's pid was not completed before.
MarkedOwner(p) ==
    Ends(p) =>
        /\ Known(mark[p].job, mark[p].pid)
        /\ pc[mark[p].pid] \in Finished
        /\ mark[p].status # "completed"
        /\ mark[p].status = "cancelled" /\ mark[p].pid = Runner(mark[p].job)
            => jobs[mark[p].job].status # "completed"

IInv ==
    /\ TypeOK
    /\ Store!AdmittedAlone
    /\ \A j \in Job : JobInv(j)
    /\ ListedOwners
    /\ \A c \in Canceller : TargetedOwner(c)
    /\ \A p \in Process : MarkedOwner(p)

-----------------------------------------------------------------------------
(***************************************************************************)
(* Processes.                                                              *)
(***************************************************************************)

LEMMA OwnersDiffer ==
    /\ \A j, k \in Job : /\ Launcher(j) # Worker(k)
                         /\ Launcher(j) = Launcher(k) => j = k
                         /\ Worker(j) = Worker(k) => j = k
    /\ \A p \in Owner : p \notin Canceller /\ p \notin Watcher
BY OwnersAreApart DEF Launcher, Worker

\* What the steps of one job need to know of it.
JobTypes(j) ==
    /\ jobs \in [Job -> Store!Row]
    /\ jobs[j].pid \in Owner \cup {NoPid}
    /\ pc \in [Process -> Step]
    /\ artifact \in [Job -> {"none"} \cup Store!Terminal]
    /\ call \in [Job -> {"none", "live", "ended"}]
    /\ cmd[j].background \in BOOLEAN /\ cmd[j].forced \in BOOLEAN
    /\ cmd[j].background => ~IsProbe(j) /\ ~IsReview(j)
    /\ RowType(j) # "review_gate"
    /\ Launcher(j) \in Process /\ Worker(j) \in Process /\ Launcher(j) # Worker(j)
    /\ Launcher(j) # NoPid /\ Worker(j) # NoPid

LEMMA TypesOfJob == ASSUME TypeOK, NEW j \in Job PROVE JobTypes(j)
<1>1. /\ jobs \in [Job -> Store!Row]
      /\ artifact \in [Job -> {"none"} \cup Store!Terminal]
      /\ call \in [Job -> {"none", "live", "ended"}]
      /\ cmd \in [Job -> Command]
      /\ pc \in [Process -> Step]
    BY DEF TypeOK, Store!TypeOK
<1>2. jobs[j].pid \in Owner \cup {NoPid}
    BY <1>1 DEF Store!Row
<1>3. cmd[j] \in Command
    BY <1>1
<1>4. /\ cmd[j].background => ~IsProbe(j) /\ ~IsReview(j)
      /\ RowType(j) # "review_gate"
    BY <1>3, CommandShape, NullsAreNoProcesses DEF RowType, IsProbe, IsReview
<1>5. Launcher(j) # NoPid /\ Worker(j) # NoPid
    BY ProcessesExist, NullsAreNoProcesses
<1> QED
    BY <1>1, <1>2, <1>4, <1>5, CommandsAreTyped, ProcessesExist, OwnersDiffer DEF JobTypes

-----------------------------------------------------------------------------
(***************************************************************************)
(* The steps of a launcher and of a runner, for their own job.             *)
(***************************************************************************)

LEMMA LauncherKeepsJob ==
    ASSUME NEW j \in Job, JobTypes(j), JobInv(j), LauncherStep(j)
    PROVE  JobInv(j)'
<1> USE DEF JobTypes, JobInv, Placed, Owned, WorksOnRunningRow, CalledByRunner, SparesResult,
        Spared, Works, Known, Runner, Store!IsRunning, Goto, Finished, Working, runnerVars
<1>1. CASE EarlyCheck(j)
    BY <1>1 DEF EarlyCheck, Swept
<1>2. CASE CreateRow(j)
    BY <1>2 DEF CreateRow, Store!CreateJob, InsertedRow, Store!NewRow
<1>3. CASE GiveUp(j)
    BY <1>3 DEF GiveUp
<1>4. CASE HeaderWritten(j)
    BY <1>4 DEF HeaderWritten
<1>5. CASE HeaderFailed(j)
    BY <1>5 DEF HeaderFailed, EndOwn, Decide
<1>6. CASE SpawnWorker(j)
    BY <1>6 DEF SpawnWorker
<1>7. CASE SpawnFailed(j)
    BY <1>7 DEF SpawnFailed, EndOwn, Decide
<1>8. CASE HandOver(j)
    BY <1>8 DEF HandOver, MayHandOver, Store!CanClaim
<1>9. CASE HandOverDone(j)
    BY <1>9 DEF HandOverDone
<1>10. CASE HandOverLost(j)
    BY <1>10 DEF HandOverLost, Terminated, Alive, Gone
<1>11. CASE EarlyExit(j)
    BY <1>11 DEF EarlyExit, EndOwn, Decide
<1>12. CASE StopWaiting(j)
    BY <1>12 DEF StopWaiting
<1> QED
    BY <1>1, <1>2, <1>3, <1>4, <1>5, <1>6, <1>7, <1>8, <1>9, <1>10, <1>11, <1>12
       DEF LauncherStep

LEMMA RunnerKeepsJob ==
    ASSUME NEW j \in Job, JobTypes(j), JobInv(j), RunnerStep(j)
    PROVE  JobInv(j)'
<1> USE DEF JobTypes, JobInv, Placed, Owned, WorksOnRunningRow, CalledByRunner, SparesResult,
        Spared, Works, Known, Runner, Store!IsRunning, Goto, Finished, Working, runnerVars
<1>1. CASE ClaimRow(j)
    BY <1>1 DEF ClaimRow, MayClaim, Store!CanClaim
<1>2. CASE ClaimLost(j)
    BY <1>2 DEF ClaimLost
<1>3. CASE BootFailed(j)
    BY <1>3 DEF BootFailed
<1>4. CASE HookVerified(j)
    BY <1>4 DEF HookVerified
<1>5. CASE HookMissing(j)
    BY <1>5 DEF HookMissing, EndOwn, Decide
<1>6. CASE StartCall(j)
    <2>1. jobs' = jobs \/ jobs' = [jobs EXCEPT ![j].phase = "turn-running"]
        BY <1>6 DEF StartCall, Store!UpdateRunningPhase
    <2>2. /\ jobs'[j].status = jobs[j].status
          /\ jobs'[j].pid = jobs[j].pid
          /\ jobs'[j].type = jobs[j].type
          /\ jobs'[j].forced = jobs[j].forced
        BY <2>1 DEF Store!Row
    <2> QED
        BY <1>6, <2>2 DEF StartCall
<1>7. CASE CallRefused(j)
    BY <1>7 DEF CallRefused
<1>8. CASE CallReturns(j)
    BY <1>8 DEF CallReturns
<1>9. CASE CallTornDown(j)
    BY <1>9 DEF CallTornDown
<1>10. CASE WriteResult(j)
    BY <1>10 DEF WriteResult
<1>11. CASE ResultRefused(j)
    BY <1>11 DEF ResultRefused
<1>12. CASE ArtifactFailed(j)
    BY <1>12 DEF ArtifactFailed, EndOwn, Decide
<1>13. CASE Complete(j)
    BY <1>13 DEF Complete, Store!MarkEnded, Store!EndedRow
<1>14. CASE CancelledAfterArtifact(j)
    BY <1>14 DEF CancelledAfterArtifact
<1>15. CASE Caught(j)
    BY <1>15 DEF Caught, EndOwn, Decide
<1>16. CASE ProbeAnswered(j)
    BY <1>16 DEF ProbeAnswered, Store!MarkEnded, Store!EndedRow
<1>17. CASE ProbeReleased(j)
    BY <1>17 DEF ProbeReleased, Store!MarkEnded, Store!EndedRow
<1> QED
    BY <1>1, <1>2, <1>3, <1>4, <1>5, <1>6, <1>7, <1>8, <1>9, <1>10, <1>11, <1>12, <1>13,
        <1>14, <1>15, <1>16, <1>17 DEF RunnerStep

-----------------------------------------------------------------------------
(***************************************************************************)
(* What somebody else's step does to a job.                                *)
(***************************************************************************)

\* A process that is about to end a row knows a job and an owner of it.
LEMMA EndingsAreRecords ==
    ASSUME TypeOK, NEW p \in Process, Ends(p)
    PROVE  mark[p] \in Ending /\ mark[p].job \in Job
BY DEF TypeOK, Ending

LEMMA WriteKeepsJob ==
    ASSUME NEW j \in Job, JobTypes(j), JobInv(j), NEW p \in Process,
           WriteArtifact(p), Ends(p), MarkedOwner(p)
    PROVE  JobInv(j)'
<1> USE DEF JobTypes, JobInv, Placed, Owned, WorksOnRunningRow, CalledByRunner, SparesResult,
        Spared, Works, Known, Runner, Store!IsRunning, Goto, Finished, Working, runnerVars
<1>1. /\ pc' = [pc EXCEPT ![p] = IF pc[p] = "sweepWrite" THEN "sweepMark" ELSE "endMark"]
      /\ pc[p] \in {"sweepWrite", "endWrite"}
      /\ overtaken' = IF mark[p].pid \in {jobs[mark[p].job].pid, Runner(mark[p].job)}
                      THEN overtaken ELSE overtaken \cup {mark[p].job}
      /\ artifact' = [artifact EXCEPT ![mark[p].job] = mark[p].status]
      /\ UNCHANGED <<jobs, cmd, call>>
    BY DEF WriteArtifact, GoesBy
<1>2. CASE mark[p].job = j
    BY <1>1, <1>2 DEF MarkedOwner
<1>3. CASE mark[p].job # j
    BY <1>1, <1>3
<1> QED
    BY <1>2, <1>3

LEMMA EndKeepsJob ==
    ASSUME NEW j \in Job, JobTypes(j), JobInv(j), NEW p \in Process,
           EndRow(p), Ends(p), MarkedOwner(p), mark[p] \in Ending
    PROVE  JobInv(j)'
<1> USE DEF JobTypes, JobInv, Placed, Owned, WorksOnRunningRow, CalledByRunner, SparesResult,
        Spared, Works, Known, Runner, Store!IsRunning, Goto, Finished, Working, runnerVars
<1>1. /\ pc' = [pc EXCEPT ![p] = IF pc[p] = "sweepMark" THEN "sweep" ELSE "exited"]
      /\ pc[p] \in {"sweepMark", "endMark"}
      /\ overtaken' = IF mark[p].pid \in {jobs[mark[p].job].pid, Runner(mark[p].job)}
                      THEN overtaken ELSE overtaken \cup {mark[p].job}
      /\ Store!MarkEnded(mark[p].job, mark[p].status)
      /\ UNCHANGED <<artifact, cmd, call>>
    BY DEF EndRow, GoesBy
<1>2. CASE mark[p].job = j
    <2>1. CASE ~Store!IsRunning(j)
        BY <1>1, <1>2, <2>1 DEF MarkedOwner, Store!MarkEnded
    <2>2. CASE Store!IsRunning(j)
        <3>1. jobs' = [jobs EXCEPT ![j] = Store!EndedRow(jobs[j], mark[p].status)]
            BY <1>1, <1>2, <2>2 DEF Store!MarkEnded
        <3>2. /\ jobs'[j].status = mark[p].status
              /\ jobs'[j].pid = NoPid
            BY <3>1 DEF Store!EndedRow, Store!Row
        <3>3. mark[p].status \in {"completed", "failed", "cancelled"}
            BY DEF Ending, Store!Terminal
        <3> QED
            BY <1>1, <1>2, <2>2, <3>2, <3>3 DEF MarkedOwner
    <2> QED
        BY <2>1, <2>2
<1>3. CASE mark[p].job # j
    <2>1. jobs'[j] = jobs[j]
        BY <1>1, <1>3 DEF Store!MarkEnded
    <2> QED
        BY <1>1, <1>3, <2>1
<1> QED
    BY <1>2, <1>3

\* Process p stands still or is struck dead.
Aside(p) ==
    \/ pc'[p] = pc[p]
    \/ Alive(p) /\ pc'[p] = "killed"

\* Process p goes about its first sweep.
Sweeps(p) == pc[p] \in {"off", "sweep"} /\ pc'[p] \in {"sweep", "sweepWrite"}

\* A step at which the processes of a job stand aside, or its launcher sweeps, and
\* that leaves its row and its artifact alone; the call may end by itself.
LEMMA AsideKeepsJob ==
    ASSUME NEW j \in Job, JobTypes(j), JobInv(j),
           Aside(Launcher(j)) \/ Sweeps(Launcher(j)),
           Aside(Worker(j)),
           jobs'[j] = jobs[j], artifact'[j] = artifact[j], UNCHANGED <<cmd, overtaken>>,
           call'[j] \in {call[j], "ended"}
    PROVE  JobInv(j)'
BY DEF Aside, Sweeps, Alive, Gone, JobTypes, JobInv, Placed, Owned, WorksOnRunningRow,
    CalledByRunner, SparesResult, Spared, Works, Known, Runner, Store!IsRunning, Finished,
    Working

\* Steps that move no owner, or strike one down.
LEMMA OwnersStandAside ==
    ASSUME TypeOK, NEW o \in Owner, NEW q, NEW p \in Process \ {o}, NEW s \in Step,
           \/ Goto(p, s)
           \/ pc' = [Terminated(q) EXCEPT ![p] = s]
           \/ pc' = [Killed(q) EXCEPT ![p] = s]
    PROVE  Aside(o)
<1>1. o \in Process /\ pc \in [Process -> Step]
    BY DEF Process, TypeOK
<1> QED
    BY <1>1 DEF Aside, Terminated, Killed, Goto

\* Whatever a cancel, a status or a result command does but end a row, it moves
\* itself and at most strikes down the owner it has looked up.
LEMMA OthersStandAside ==
    ASSUME NEW p \in Canceller \cup Watcher,
           \/ p \in Canceller /\ (StartCancel(p) \/ CancellerStep(p))
           \/ p \in Watcher /\ (Watch(p) \/ DoneWatching(p))
    PROVE  /\ UNCHANGED <<jobs, cmd, artifact, overtaken, call>>
           /\ \E s \in Step :
                \/ Goto(p, s)
                \/ pc' = [Terminated(target[p].pid) EXCEPT ![p] = s]
                \/ pc' = [Killed(target[p].pid) EXCEPT ![p] = s]
<1>1. UNCHANGED <<jobs, cmd, artifact, overtaken, call>>
    BY DEF StartCancel, Watch, BeginSweep, DoneWatching, CancellerStep, LookUp, NothingToCancel,
        SendTerm, SeesEnd, GivesUpWaiting, SendKill, Recheck, runnerVars
<1>2. \E s \in Step :
        \/ Goto(p, s)
        \/ pc' = [Terminated(target[p].pid) EXCEPT ![p] = s]
        \/ pc' = [Killed(target[p].pid) EXCEPT ![p] = s]
    BY DEF StartCancel, Watch, BeginSweep, DoneWatching, CancellerStep, LookUp, NothingToCancel,
        SendTerm, SeesEnd, GivesUpWaiting, SendKill, Recheck, Decide, Step, Gone
<1> QED
    BY <1>1, <1>2

LEMMA OthersKeepJob ==
    ASSUME TypeOK, NEW j \in Job, JobInv(j), NEW p \in Canceller \cup Watcher,
           \/ p \in Canceller /\ (StartCancel(p) \/ CancellerStep(p))
           \/ p \in Watcher /\ (Watch(p) \/ DoneWatching(p))
    PROVE  JobInv(j)'
<1>1. JobTypes(j) /\ Launcher(j) \in Owner /\ Worker(j) \in Owner
    BY TypesOfJob, OwnersExist
<1>2. p \in Process \ {Launcher(j), Worker(j)}
    BY <1>1, OwnersDiffer, ProcessesExist
<1>3. Aside(Launcher(j)) /\ Aside(Worker(j))
    BY <1>1, <1>2, OthersStandAside, OwnersStandAside
<1>4. UNCHANGED <<jobs, cmd, artifact, overtaken, call>>
    BY OthersStandAside
<1> QED
    BY <1>1, <1>3, <1>4, AsideKeepsJob

\* The processes of a job leave other jobs and other processes alone.
LEMMA LaunchersKeepToTheirJob ==
    ASSUME TypeOK, NEW k \in Job, LauncherStep(k)
    PROVE  /\ \A p \in Process \ {Launcher(k), Worker(k)} : pc'[p] = pc[p]
           /\ \A j \in Job \ {k} : jobs'[j] = jobs[j]
           /\ UNCHANGED <<cmd, artifact, call, overtaken>>
<1>1. pc \in [Process -> Step] /\ jobs \in [Job -> Store!Row]
    BY DEF TypeOK, Store!TypeOK
<1> QED
    BY <1>1 DEF LauncherStep, EarlyCheck, CreateRow, Store!CreateJob, GiveUp, HeaderWritten,
        HeaderFailed, SpawnWorker, SpawnFailed, HandOver, HandOverDone, HandOverLost,
        Terminated, EarlyExit, StopWaiting, EndOwn, Decide, Goto, runnerVars

LEMMA RunnersKeepToTheirJob ==
    ASSUME TypeOK, NEW k \in Job, RunnerStep(k)
    PROVE  /\ \A p \in Process \ {Launcher(k), Worker(k)} : pc'[p] = pc[p]
           /\ \A j \in Job \ {k} : /\ jobs'[j] = jobs[j]
                                   /\ artifact'[j] = artifact[j]
                                   /\ call'[j] = call[j]
           /\ UNCHANGED <<cmd, overtaken>>
<1>1. /\ pc \in [Process -> Step]
      /\ jobs \in [Job -> Store!Row]
      /\ artifact \in [Job -> {"none"} \cup Store!Terminal]
      /\ call \in [Job -> {"none", "live", "ended"}]
    BY DEF TypeOK, Store!TypeOK
<1> QED
    BY <1>1 DEF RunnerStep, ClaimRow, ClaimLost, BootFailed, HookVerified, HookMissing,
        StartCall, Store!UpdateRunningPhase, CallRefused, CallReturns, CallTornDown,
        WriteResult, ResultRefused, ArtifactFailed, Complete, Store!MarkEnded,
        CancelledAfterArtifact, Caught, ProbeAnswered, ProbeReleased, EndOwn, Decide, Goto,
        Runner, runnerVars

LEMMA JobsKeepJob ==
    ASSUME TypeOK, NEW j \in Job, JobInv(j), NEW k \in Job,
           \/ Start(k) \/ LauncherStep(k) \/ RunnerStep(k)
           \/ KimiEnds(k) \/ Age(k) \/ Interrupt(k)
    PROVE  JobInv(j)'
<1>1. JobTypes(j)
    BY TypesOfJob
<1>2. CASE k = j /\ (LauncherStep(k) \/ RunnerStep(k))
    BY <1>1, <1>2, LauncherKeepsJob, RunnerKeepsJob
<1>3. CASE k # j /\ (LauncherStep(k) \/ RunnerStep(k))
    <2>1. {Launcher(j), Worker(j)} \subseteq Process \ {Launcher(k), Worker(k)}
        BY <1>3, OwnersDiffer, ProcessesExist
    <2>2. Aside(Launcher(j)) /\ Aside(Worker(j))
        BY <1>3, <2>1, LaunchersKeepToTheirJob, RunnersKeepToTheirJob DEF Aside
    <2>3. /\ jobs'[j] = jobs[j] /\ artifact'[j] = artifact[j] /\ call'[j] = call[j]
          /\ UNCHANGED <<cmd, overtaken>>
        BY <1>3, LaunchersKeepToTheirJob, RunnersKeepToTheirJob
    <2> QED
        BY <1>1, <2>2, <2>3, AsideKeepsJob
<1>4. CASE Start(k)
    <2>1. Aside(Launcher(j)) \/ Sweeps(Launcher(j))
        BY <1>1, <1>4 DEF Start, BeginSweep, Goto, Aside, Sweeps, JobTypes
    <2>2. Aside(Worker(j))
        BY <1>1, <1>4, OwnersDiffer DEF Start, BeginSweep, Goto, Aside, JobTypes
    <2> QED
        BY <1>1, <1>4, <2>1, <2>2, AsideKeepsJob DEF Start, BeginSweep
<1>5. CASE KimiEnds(k) \/ Age(k) \/ Interrupt(k)
    <2>1. /\ UNCHANGED <<jobs, artifact, cmd, pc, overtaken>>
          /\ call'[j] \in {call[j], "ended"}
        BY <1>1, <1>5 DEF KimiEnds, Age, Interrupt, JobTypes, runnerVars
    <2>2. Aside(Launcher(j)) /\ Aside(Worker(j))
        BY <2>1 DEF Aside
    <2> QED
        BY <1>1, <2>1, <2>2, AsideKeepsJob
<1> QED
    BY <1>2, <1>3, <1>4, <1>5

LEMMA ProcessesKeepJob ==
    ASSUME TypeOK, NEW j \in Job, JobInv(j), NEW p \in Process, MarkedOwner(p),
           ProcessStep(p) \/ AgeListed(p) \/ Crash(p)
    PROVE  JobInv(j)'
<1>1. JobTypes(j)
    BY TypesOfJob
<1>2. CASE WriteArtifact(p)
    BY <1>1, <1>2, WriteKeepsJob DEF WriteArtifact, Ends
<1>3. CASE EndRow(p)
    BY <1>1, <1>3, EndKeepsJob, EndingsAreRecords DEF EndRow, Ends
<1>4. CASE SweepRow(p)
    <2>1. \/ UNCHANGED pc
          \/ pc[p] = "sweep" /\ Goto(p, "sweepWrite")
        BY <1>4 DEF SweepRow, Decide
    <2>2. p # Worker(j) \/ UNCHANGED pc
        BY <2>1 DEF JobInv, Placed
    <2>3. Aside(Worker(j))
        BY <1>1, <2>1, <2>2 DEF Goto, Aside, JobTypes
    <2>4. Aside(Launcher(j)) \/ Sweeps(Launcher(j))
        BY <1>1, <2>1 DEF Goto, Aside, Sweeps, JobTypes
    <2> QED
        BY <1>1, <1>4, <2>3, <2>4, AsideKeepsJob DEF SweepRow, runnerVars
<1>5. CASE AgeListed(p)
    BY <1>1, <1>5, AsideKeepsJob DEF AgeListed, Aside, runnerVars
<1>6. CASE Crash(p)
    <2>1. Aside(Launcher(j)) /\ Aside(Worker(j))
        BY <1>1, <1>6 DEF Crash, Goto, Aside, JobTypes
    <2> QED
        BY <1>1, <1>6, <2>1, AsideKeepsJob DEF Crash, runnerVars
<1> QED
    BY <1>2, <1>3, <1>4, <1>5, <1>6 DEF ProcessStep

-----------------------------------------------------------------------------
(***************************************************************************)
(* No owner starts twice, and one that is done stays so.                   *)
(***************************************************************************)

GoesOn(o) ==
    /\ pc[o] # "off" => pc'[o] # "off"
    /\ pc[o] \in Finished => pc'[o] \in Finished

LEMMA AsideGoesOn == ASSUME NEW o, Aside(o) \/ Sweeps(o) PROVE GoesOn(o)
BY DEF Aside, Sweeps, GoesOn, Alive, Gone, Finished

LEMMA JobsGoOn ==
    ASSUME TypeOK, NEW k \in Job, JobInv(k), LauncherStep(k) \/ RunnerStep(k), NEW o \in Owner
    PROVE  GoesOn(o)
<1>1. JobTypes(k) /\ o \in Process /\ Runner(k) \in {Launcher(k), Worker(k)}
    BY TypesOfJob DEF Process, Runner
<1>2. CASE o \notin {Launcher(k), Worker(k)}
    BY <1>1, <1>2, LaunchersKeepToTheirJob, RunnersKeepToTheirJob DEF GoesOn
<1>3. CASE o \in {Launcher(k), Worker(k)} /\ LauncherStep(k)
    BY <1>1, <1>3 DEF JobTypes, GoesOn, Finished, JobInv, Placed, LauncherStep, EarlyCheck, Swept,
        CreateRow, GiveUp, HeaderWritten, HeaderFailed, SpawnWorker, SpawnFailed, HandOver,
        HandOverDone, HandOverLost, Terminated, EarlyExit, StopWaiting, EndOwn, Decide, Goto
<1>4. CASE o \in {Launcher(k), Worker(k)} /\ RunnerStep(k)
    BY <1>1, <1>4 DEF JobTypes, GoesOn, Finished, RunnerStep, ClaimRow, ClaimLost, BootFailed,
        HookVerified, HookMissing, StartCall, CallRefused, CallReturns, CallTornDown,
        WriteResult, ResultRefused, ArtifactFailed, Complete, CancelledAfterArtifact, Caught,
        ProbeAnswered, ProbeReleased, EndOwn, Decide, Goto
<1> QED
    BY <1>2, <1>3, <1>4

LEMMA OwnersGoOn ==
    ASSUME TypeOK, \A j \in Job : JobInv(j), [Next]_vars, NEW o \in Owner
    PROVE  GoesOn(o)
<1>1. o \in Process /\ pc \in [Process -> Step]
    BY DEF Process, TypeOK
<1>2. CASE UNCHANGED vars
    BY <1>2 DEF vars, GoesOn
<1>3. ASSUME NEW k \in Job, LauncherStep(k) \/ RunnerStep(k)
      PROVE  GoesOn(o)
    BY <1>3, JobsGoOn
<1>4. ASSUME NEW k \in Job, Start(k) \/ KimiEnds(k) \/ Age(k) \/ Interrupt(k)
      PROVE  GoesOn(o)
    BY <1>1, <1>4 DEF Start, BeginSweep, Goto, KimiEnds, Age, Interrupt, GoesOn, Finished
<1>5. ASSUME NEW p \in Canceller \cup Watcher,
             \/ p \in Canceller /\ (StartCancel(p) \/ CancellerStep(p))
             \/ p \in Watcher /\ (Watch(p) \/ DoneWatching(p))
      PROVE  GoesOn(o)
    <2>1. p \in Process \ {o}
        BY OwnersDiffer, ProcessesExist
    <2>2. Aside(o)
        BY <1>5, <2>1, OthersStandAside, OwnersStandAside
    <2> QED
        BY <2>2, AsideGoesOn
<1>6. ASSUME NEW p \in Process, ProcessStep(p) \/ AgeListed(p) \/ Crash(p)
      PROVE  GoesOn(o)
    BY <1>1, <1>6 DEF ProcessStep, WriteArtifact, EndRow, SweepRow, Decide, AgeListed, Crash, Alive,
        Gone, Goto, GoesOn, Finished
<1> QED
    BY <1>2, <1>3, <1>4, <1>5, <1>6 DEF Next

\* Owners stay known.
LEMMA KnownStays ==
    ASSUME TypeOK, NEW j \in Job, NEW p, Known(j, p), GoesOn(Launcher(j)), GoesOn(Worker(j))
    PROVE  Known(j, p)' /\ (pc[p] \in Finished => pc'[p] \in Finished)
BY DEF Known, GoesOn

-----------------------------------------------------------------------------
(***************************************************************************)
(* What sweeps have listed, cancels looked up and endings go by.           *)
(***************************************************************************)

LEMMA SweepChanges ==
    ASSUME [Next]_vars
    PROVE  UNCHANGED sweep \/ \E p \in Process :
                BeginSweep(p) \/ SweepRow(p) \/ AgeListed(p) \/ Crash(p)
<1>1. ASSUME NEW j \in Job, \/ Start(j) \/ LauncherStep(j) \/ RunnerStep(j)
                            \/ KimiEnds(j) \/ Age(j) \/ Interrupt(j)
      PROVE  UNCHANGED sweep \/ BeginSweep(Launcher(j))
    BY <1>1 DEF Start, LauncherStep, EarlyCheck, CreateRow, GiveUp, HeaderWritten, HeaderFailed,
        SpawnWorker, SpawnFailed, HandOver, HandOverDone, HandOverLost, EarlyExit, StopWaiting,
        RunnerStep, ClaimRow, ClaimLost, BootFailed, HookVerified, HookMissing, StartCall,
        CallRefused, CallReturns, CallTornDown, WriteResult, ResultRefused, ArtifactFailed,
        Complete, CancelledAfterArtifact, Caught, ProbeAnswered, ProbeReleased, KimiEnds, Age,
        Interrupt
<1>2. ASSUME NEW c \in Canceller, StartCancel(c) \/ CancellerStep(c)
      PROVE  UNCHANGED sweep \/ BeginSweep(c)
    BY <1>2 DEF StartCancel, CancellerStep, LookUp, NothingToCancel, SendTerm, SeesEnd,
        GivesUpWaiting, SendKill, Recheck
<1>3. ASSUME NEW w \in Watcher, Watch(w) \/ DoneWatching(w)
      PROVE  UNCHANGED sweep \/ BeginSweep(w)
    BY <1>3 DEF Watch, DoneWatching
<1>4. ASSUME NEW p \in Process, ProcessStep(p)
      PROVE  UNCHANGED sweep \/ SweepRow(p)
    BY <1>4 DEF ProcessStep, WriteArtifact, EndRow
<1> QED
    BY <1>1, <1>2, <1>3, <1>4, ProcessesExist DEF Next, vars

\* A listed row was listed before or has just been read from the table.
LEMMA ListedRows ==
    ASSUME TypeOK, [Next]_vars, NEW p \in Process, NEW row \in sweep'[p]
    PROVE  \/ \E old \in sweep[p] : old.job = row.job /\ old.pid = row.pid
           \/ row.job \in Job /\ Store!IsRunning(row.job) /\ row.pid = jobs[row.job].pid
<1>1. sweep \in [Process -> SUBSET Listed]
    BY DEF TypeOK
<1>2. CASE UNCHANGED sweep
    BY <1>2
<1>3. ASSUME NEW q \in Process, BeginSweep(q)
      PROVE  row \in sweep[p] \/ row \in SweepList
    BY <1>1, <1>3 DEF BeginSweep
<1>4. ASSUME NEW q \in Process, SweepRow(q) \/ Crash(q)
      PROVE  row \in sweep[p]
    BY <1>1, <1>4 DEF SweepRow, Crash
<1>5. ASSUME NEW q \in Process, AgeListed(q)
      PROVE  \E old \in sweep[p] : old.job = row.job /\ old.pid = row.pid
    <2>1. PICK aged \in sweep[q] :
            sweep' = [sweep EXCEPT ![q] = (@ \ {aged}) \cup {[aged EXCEPT !.young = FALSE]}]
        BY <1>5 DEF AgeListed
    <2>2. row \in sweep[p] \/ (p = q /\ row = [aged EXCEPT !.young = FALSE])
        BY <1>1, <2>1
    <2>3. aged \in Listed
        BY <1>1, <2>1
    <2> QED
        BY <2>1, <2>2, <2>3 DEF Listed
<1>6. row \in SweepList => row.job \in Job /\ Store!IsRunning(row.job) /\ row.pid = jobs[row.job].pid
    BY DEF SweepList
<1> QED
    BY <1>2, <1>3, <1>4, <1>5, <1>6, SweepChanges

LEMMA ListedStay ==
    ASSUME TypeOK, \A j \in Job : JobInv(j), ListedOwners, [Next]_vars
    PROVE  ListedOwners'
<1> SUFFICES ASSUME NEW p \in Process, NEW row \in sweep'[p]
             PROVE  Known(row.job, row.pid)'
    BY DEF ListedOwners
<1>1. sweep \in [Process -> SUBSET Listed]
    BY DEF TypeOK
<1>2. row.job \in Job /\ Known(row.job, row.pid)
    <2>1. CASE \E old \in sweep[p] : old.job = row.job /\ old.pid = row.pid
        BY <1>1, <2>1 DEF ListedOwners, Listed
    <2>2. CASE row.job \in Job /\ Store!IsRunning(row.job) /\ row.pid = jobs[row.job].pid
        BY <2>2 DEF JobInv, Owned
    <2> QED
        BY <2>1, <2>2, ListedRows
<1> QED
    BY <1>2, OwnersExist, OwnersGoOn, KnownStays

\* Which step gives or moves a target: only the cancel's own.
LEMMA TargetChanges ==
    ASSUME TypeOK, [Next]_vars, NEW c \in Canceller, HasTarget(c)'
    PROVE  \/ HasTarget(c) /\ target'[c] = target[c] /\ (pc'[c] = "recheck" => pc[c] = "recheck")
           \/ LookUp(c)
           \/ SendKill(c)
<1>1. /\ pc \in [Process -> Step]
      /\ target \in [Canceller -> Seen \cup {NoTarget}]
      /\ c \in Process /\ c \notin Owner
    BY ProcessesExist, OwnersDiffer DEF TypeOK
<1> USE DEF HasTarget
<1>2. CASE UNCHANGED vars
    BY <1>2 DEF vars
<1>3. ASSUME NEW k \in Job, LauncherStep(k) \/ RunnerStep(k)
      PROVE  pc'[c] = pc[c] /\ UNCHANGED target
    <2>1. c \in Process \ {Launcher(k), Worker(k)}
        BY <1>1, ProcessesExist
    <2>2. pc'[c] = pc[c]
        BY <1>3, <2>1, LaunchersKeepToTheirJob, RunnersKeepToTheirJob
    <2>3. UNCHANGED target
        BY <1>3 DEF LauncherStep, EarlyCheck, CreateRow, GiveUp, HeaderWritten, HeaderFailed,
            SpawnWorker, SpawnFailed, HandOver, HandOverDone, HandOverLost, EarlyExit,
            StopWaiting, RunnerStep, ClaimRow, ClaimLost, BootFailed, HookVerified, HookMissing,
            StartCall, CallRefused, CallReturns, CallTornDown, WriteResult, ResultRefused,
            ArtifactFailed, Complete, CancelledAfterArtifact, Caught, ProbeAnswered,
            ProbeReleased
    <2> QED
        BY <2>2, <2>3
<1>4. ASSUME NEW k \in Job, Start(k) \/ KimiEnds(k) \/ Age(k) \/ Interrupt(k)
      PROVE  pc'[c] = pc[c] /\ UNCHANGED target
    BY <1>1, <1>4, ProcessesExist DEF Start, BeginSweep, Goto, KimiEnds, Age, Interrupt
<1>5. ASSUME NEW w \in Watcher, Watch(w) \/ DoneWatching(w)
      PROVE  UNCHANGED target /\ (pc'[c] = pc[c] \/ pc'[c] \in {"off", "sweep"})
    BY <1>1, <1>5 DEF Watch, BeginSweep, DoneWatching, Goto
<1>6. ASSUME NEW p \in Process, ProcessStep(p) \/ AgeListed(p) \/ Crash(p)
      PROVE  /\ UNCHANGED target
             /\ \/ pc'[c] = pc[c]
                \/ pc'[c] \in {"killed", "sweep", "sweepWrite", "sweepMark", "endMark", "exited"}
    BY <1>1, <1>6 DEF ProcessStep, WriteArtifact, EndRow, SweepRow, Decide, AgeListed, Crash, Goto
<1>7. ASSUME NEW d \in Canceller, StartCancel(d) \/ CancellerStep(d), d # c
      PROVE  target'[c] = target[c] /\ pc'[c] \in {pc[c], "killed"}
    <2>1. target'[c] = target[c]
        BY <1>1, <1>7 DEF StartCancel, BeginSweep, CancellerStep, LookUp, NothingToCancel,
            SendTerm, SeesEnd, GivesUpWaiting, SendKill, Recheck
    <2>2. PICK s \in Step :
            \/ Goto(d, s)
            \/ pc' = [Terminated(target[d].pid) EXCEPT ![d] = s]
            \/ pc' = [Killed(target[d].pid) EXCEPT ![d] = s]
        BY <1>7, OthersStandAside
    <2>3. pc'[c] \in {pc[c], "killed"}
        BY <1>1, <1>7, <2>2 DEF Goto, Terminated, Killed
    <2> QED
        BY <2>1, <2>3
<1>8. ASSUME StartCancel(c) \/ CancellerStep(c)
      PROVE  \/ HasTarget(c) /\ target'[c] = target[c] /\ pc'[c] # "recheck"
             \/ LookUp(c) \/ SendKill(c)
    <2>1. CASE SendTerm(c)
        BY <1>1, <2>1 DEF SendTerm, Terminated
    <2>2. CASE \/ StartCancel(c) \/ NothingToCancel(c) \/ SeesEnd(c)
               \/ GivesUpWaiting(c) \/ Recheck(c)
        BY <1>1, <2>2 DEF StartCancel, BeginSweep, NothingToCancel, SeesEnd, GivesUpWaiting,
            Recheck, Decide, Goto
    <2> QED
        BY <1>8, <2>1, <2>2 DEF CancellerStep
<1> QED
    BY <1>1, <1>2, <1>3, <1>4, <1>5, <1>6, <1>7, <1>8 DEF Next

LEMMA TargetStays ==
    ASSUME TypeOK, \A j \in Job : JobInv(j), NEW c \in Canceller, TargetedOwner(c), [Next]_vars
    PROVE  TargetedOwner(c)'
<1> SUFFICES ASSUME HasTarget(c)'
             PROVE  /\ Known(target[c].job, target[c].pid)'
                    /\ pc'[c] = "recheck" => pc'[target'[c].pid] \in Finished
    BY DEF TargetedOwner
<1>1. /\ pc \in [Process -> Step]
      /\ target \in [Canceller -> Seen \cup {NoTarget}]
      /\ c \in Process /\ c \notin Owner
      /\ HasTarget(c) => target[c] \in Seen
    BY ProcessesExist, OwnersDiffer DEF TypeOK
<1>2. CASE HasTarget(c) /\ target'[c] = target[c] /\ (pc'[c] = "recheck" => pc[c] = "recheck")
    <2>1. target[c].job \in Job
        BY <1>1, <1>2 DEF Seen
    <2> QED
        BY <1>2, <2>1, OwnersExist, OwnersGoOn, KnownStays DEF TargetedOwner
<1>3. CASE LookUp(c)
    <2>1. PICK j \in Job :
            /\ Store!IsRunning(j)
            /\ target' = [target EXCEPT ![c] = [job |-> j, pid |-> jobs[j].pid]]
        BY <1>3 DEF LookUp
    <2>2. Known(j, jobs[j].pid)
        BY <2>1 DEF JobInv, Owned
    <2>3. Known(j, jobs[j].pid)' /\ UNCHANGED jobs /\ pc'[c] = "term"
        BY <1>1, <1>3, <2>2 DEF LookUp, Goto, Known
    <2>4. target'[c].job = j /\ target'[c].pid = jobs[j].pid
        BY <1>1, <2>1
    <2> QED
        BY <2>3, <2>4 DEF Known
<1>4. CASE SendKill(c)
    <2>1. /\ target[c].job \in Job /\ target[c].pid \in Owner
          /\ Known(target[c].job, target[c].pid)
        BY <1>1, <1>4 DEF SendKill, HasTarget, Seen, TargetedOwner
    <2>2. target' = target /\ pc' = [Killed(target[c].pid) EXCEPT ![c] = "recheck"]
        BY <1>4 DEF SendKill
    <2>3. target[c].pid \in Process \ {c}
        BY <1>1, <2>1 DEF Process
    <2>4. \/ pc'[target[c].pid] = "killed"
          \/ pc'[target[c].pid] = pc[target[c].pid] /\ ~Alive(target[c].pid)
        BY <1>1, <2>2, <2>3 DEF Killed
    <2>5. pc'[target[c].pid] \in Finished
        BY <2>1, <2>4 DEF Alive, Gone, Finished, Known
    <2> QED
        BY <2>1, <2>2, <2>5, OwnersExist, OwnersGoOn, KnownStays
<1> QED
    BY <1>2, <1>3, <1>4, TargetChanges

-----------------------------------------------------------------------------
\* Who decides to end a row.
Decides(p) ==
    /\ UNCHANGED jobs
    /\ \/ \E k \in Job :
            /\ p \in {Launcher(k), Worker(k)}
            /\ \/ EndOwn(p, k, "failed")
               \/ EndOwn(p, k, "cancelled") /\ pc[Runner(k)] = "caught"
       \/ \E row \in sweep[p] :
            /\ ~Alive(row.pid)
            /\ Decide(p, row, "failed", "sweepWrite")
       \/ /\ p \in Canceller /\ pc[p] = "recheck"
          /\ Store!IsRunning(target[p].job)
          /\ Decide(p, target[p], "cancelled", "endWrite")

Goes(p) == Ends(p) /\ mark'[p] = mark[p]

LEMMA DecidingMarks ==
    ASSUME pc \in [Process -> Step], mark \in [Process -> Ending \cup {NoMark}],
           NEW p \in Process, Ends(p)', NEW q, NEW seen, NEW status, NEW step,
           Decide(q, seen, status, step)
    PROVE  p = q \/ Goes(p)
BY DEF Decide, Goto, Ends, Goes

LEMMA JobsDecide ==
    ASSUME TypeOK, NEW k \in Job, LauncherStep(k) \/ RunnerStep(k), NEW p \in Process, Ends(p)'
    PROVE  Goes(p) \/ Decides(p)
<1>1. /\ pc \in [Process -> Step] /\ mark \in [Process -> Ending \cup {NoMark}]
      /\ {Launcher(k), Worker(k), Runner(k)} \subseteq Process
      /\ Runner(k) \in {Launcher(k), Worker(k)}
    BY ProcessesExist DEF TypeOK, Runner
<1>2. ASSUME NEW q \in {Launcher(k), Worker(k)}, UNCHANGED jobs,
             \/ EndOwn(q, k, "failed")
             \/ EndOwn(q, k, "cancelled") /\ pc[Runner(k)] = "caught"
      PROVE  Goes(p) \/ Decides(p)
    <2>1. p = q \/ Goes(p)
        BY <1>1, <1>2, DecidingMarks DEF EndOwn
    <2> QED
        BY <1>2, <2>1 DEF Decides
<1>3. CASE \/ EarlyCheck(k) \/ CreateRow(k) \/ GiveUp(k) \/ HeaderWritten(k) \/ SpawnWorker(k)
           \/ HandOver(k) \/ HandOverDone(k) \/ HandOverLost(k) \/ StopWaiting(k)
    BY <1>1, <1>3 DEF EarlyCheck, CreateRow, GiveUp, HeaderWritten, SpawnWorker, HandOver,
        HandOverDone, HandOverLost, Terminated, StopWaiting, Goto, Ends, Goes
<1>4. CASE HeaderFailed(k) \/ SpawnFailed(k) \/ EarlyExit(k)
    <2>1. \/ EndOwn(Launcher(k), k, "failed") /\ UNCHANGED jobs
          \/ UNCHANGED mark /\ \E s \in {"failed", "exited"} : Goto(Launcher(k), s)
        BY <1>4 DEF HeaderFailed, SpawnFailed, EarlyExit
    <2> QED
        BY <1>1, <1>2, <2>1 DEF Goto, Ends, Goes
<1>5. CASE \/ ClaimRow(k) \/ ClaimLost(k) \/ BootFailed(k) \/ HookVerified(k) \/ StartCall(k)
           \/ CallRefused(k) \/ CallReturns(k) \/ CallTornDown(k) \/ WriteResult(k)
           \/ ResultRefused(k) \/ Complete(k) \/ CancelledAfterArtifact(k)
           \/ ProbeAnswered(k) \/ ProbeReleased(k)
    BY <1>1, <1>5 DEF ClaimRow, ClaimLost, BootFailed, HookVerified, StartCall, CallRefused,
        CallReturns, CallTornDown, WriteResult, ResultRefused, Complete,
        CancelledAfterArtifact, ProbeAnswered, ProbeReleased, Goto, Ends, Goes
<1>6. CASE HookMissing(k) \/ ArtifactFailed(k)
    <2>1. EndOwn(Runner(k), k, "failed") /\ UNCHANGED jobs
        BY <1>6 DEF HookMissing, ArtifactFailed
    <2> QED
        BY <1>1, <1>2, <2>1
<1>7. CASE Caught(k)
    <2>1. /\ EndOwn(Runner(k), k, "failed") \/ EndOwn(Runner(k), k, "cancelled")
          /\ pc[Runner(k)] = "caught"
          /\ UNCHANGED jobs
        BY <1>7 DEF Caught
    <2> QED
        BY <1>1, <1>2, <2>1
<1> QED
    BY <1>3, <1>4, <1>5, <1>6, <1>7 DEF LauncherStep, RunnerStep

LEMMA MarkChanges ==
    ASSUME TypeOK, [Next]_vars, NEW p \in Process, Ends(p)'
    PROVE  Goes(p) \/ Decides(p)
<1>1. pc \in [Process -> Step] /\ mark \in [Process -> Ending \cup {NoMark}]
    BY DEF TypeOK
<1>2. CASE UNCHANGED vars
    BY <1>2 DEF vars, Ends, Goes
<1>3. ASSUME NEW k \in Job, LauncherStep(k) \/ RunnerStep(k)
      PROVE  Goes(p) \/ Decides(p)
    BY <1>3, JobsDecide
<1>4. ASSUME NEW k \in Job, Start(k) \/ KimiEnds(k) \/ Age(k) \/ Interrupt(k)
      PROVE  Goes(p)
    BY <1>1, <1>4 DEF Start, BeginSweep, KimiEnds, Age, Interrupt, Goto, Ends, Goes
<1>5. ASSUME NEW w \in Watcher, Watch(w) \/ DoneWatching(w)
      PROVE  Goes(p)
    BY <1>1, <1>5 DEF Watch, BeginSweep, DoneWatching, Goto, Ends, Goes
<1>6. ASSUME NEW q \in Process, WriteArtifact(q) \/ EndRow(q) \/ AgeListed(q) \/ Crash(q)
      PROVE  Goes(p)
    BY <1>1, <1>6 DEF WriteArtifact, EndRow, AgeListed, Crash, Goto, Ends, Goes
<1>7. ASSUME NEW q \in Process, SweepRow(q)
      PROVE  Goes(p) \/ Decides(p)
    <2>1. PICK row \in sweep[q] :
            \/ ~Alive(row.pid) /\ Decide(q, row, "failed", "sweepWrite")
            \/ UNCHANGED <<pc, mark>>
        BY <1>7 DEF SweepRow, ShouldSweep
    <2>2. CASE UNCHANGED <<pc, mark>>
        BY <2>2 DEF Ends, Goes
    <2>3. CASE ~Alive(row.pid) /\ Decide(q, row, "failed", "sweepWrite")
        <3>1. p = q \/ Goes(p)
            BY <1>1, <2>3, DecidingMarks
        <3> QED
            BY <1>7, <2>3, <3>1 DEF Decides, SweepRow
    <2> QED
        BY <2>1, <2>2, <2>3
<1>8. ASSUME NEW c \in Canceller, StartCancel(c) \/ CancellerStep(c)
      PROVE  Goes(p) \/ Decides(p)
    <2>1. c \in Process
        BY ProcessesExist
    <2>2. CASE Recheck(c)
        <3>1. CASE MayForce(c) /\ Decide(c, target[c], "cancelled", "endWrite")
            <4>1. p = c \/ Goes(p)
                BY <1>1, <3>1, DecidingMarks
            <4> QED
                BY <2>2, <3>1, <4>1 DEF Decides, Recheck, MayForce
        <3>2. CASE Goto(c, "exited") /\ UNCHANGED mark
            BY <1>1, <2>1, <3>2 DEF Goto, Ends, Goes
        <3> QED
            BY <2>2, <3>1, <3>2 DEF Recheck
    <2>3. CASE \/ StartCancel(c) \/ LookUp(c) \/ NothingToCancel(c) \/ SendTerm(c) \/ SeesEnd(c)
               \/ GivesUpWaiting(c) \/ SendKill(c)
        BY <1>1, <2>1, <2>3 DEF StartCancel, BeginSweep, LookUp, NothingToCancel, SendTerm,
            SeesEnd, GivesUpWaiting, SendKill, Terminated, Killed, Goto, Ends, Goes
    <2> QED
        BY <1>8, <2>2, <2>3 DEF CancellerStep
<1> QED
    BY <1>2, <1>3, <1>4, <1>5, <1>6, <1>7, <1>8 DEF Next, ProcessStep

\* Only a runner that works on its row completes it.
LEMMA CompletedByRunner ==
    ASSUME TypeOK, \A p \in Process : MarkedOwner(p), [Next]_vars, NEW k \in Job,
           jobs[k].status # "completed", jobs'[k].status = "completed"
    PROVE  Works(k)
<1>1. jobs \in [Job -> Store!Row]
    BY DEF TypeOK, Store!TypeOK
<1>2. ASSUME NEW j \in Job, Complete(j) \/ ProbeAnswered(j)
      PROVE  Works(k)
    <2>1. Works(j) /\ (j # k => jobs'[k] = jobs[k])
        BY <1>1, <1>2 DEF Complete, ProbeAnswered, Store!MarkEnded, Works, Working
    <2> QED
        BY <2>1
<1>3. ASSUME NEW j \in Job, CreateRow(j) \/ HandOver(j) \/ ClaimRow(j) \/ StartCall(j)
      PROVE  FALSE
    <2>1. CASE CreateRow(j)
        BY <1>1, <2>1 DEF CreateRow, Store!CreateJob, InsertedRow, Store!NewRow
    <2>2. CASE HandOver(j) \/ ClaimRow(j)
        <3>1. \E p, phase : jobs' = [jobs EXCEPT ![j].pid = p, ![j].phase = phase]
            BY <2>2 DEF HandOver, ClaimRow
        <3> QED
            BY <1>1, <3>1 DEF Store!Row
    <2>3. CASE StartCall(j)
        <3>1. jobs' = jobs \/ jobs' = [jobs EXCEPT ![j].phase = "turn-running"]
            BY <2>3 DEF StartCall, Store!UpdateRunningPhase
        <3> QED
            BY <1>1, <3>1 DEF Store!Row
    <2> QED
        BY <1>3, <2>1, <2>2, <2>3
<1>4. ASSUME NEW j \in Job, ProbeReleased(j)
      PROVE  FALSE
    <2>1. PICK status \in {"cancelled", "failed"} : Store!MarkEnded(j, status)
        BY <1>4 DEF ProbeReleased
    <2> QED
        BY <1>1, <2>1 DEF Store!MarkEnded, Store!EndedRow, Store!Row
<1>5. ASSUME NEW p \in Process, EndRow(p)
      PROVE  FALSE
    <2>1. mark[p].status # "completed" /\ Store!MarkEnded(mark[p].job, mark[p].status)
        BY <1>5 DEF EndRow, MarkedOwner, Ends
    <2> QED
        BY <1>1, <2>1 DEF Store!MarkEnded, Store!EndedRow, Store!Row
<1>6. CASE UNCHANGED jobs
    BY <1>6
<1>7. CASE UNCHANGED vars
    BY <1>6, <1>7 DEF vars
<1> QED
    BY <1>2, <1>3, <1>4, <1>5, <1>6, <1>7, OthersLeaveStore DEF Next

LEMMA CommandsStay == ASSUME [Next]_vars PROVE UNCHANGED cmd
<1>1. ASSUME NEW j \in Job, \/ Start(j) \/ LauncherStep(j) \/ RunnerStep(j)
                            \/ KimiEnds(j) \/ Age(j) \/ Interrupt(j)
      PROVE  UNCHANGED cmd
    BY <1>1 DEF Start, BeginSweep, LauncherStep, EarlyCheck, CreateRow, GiveUp, HeaderWritten,
        HeaderFailed, SpawnWorker, SpawnFailed, HandOver, HandOverDone, HandOverLost, EarlyExit,
        StopWaiting, RunnerStep, ClaimRow, ClaimLost, BootFailed, HookVerified, HookMissing,
        StartCall, CallRefused, CallReturns, CallTornDown, WriteResult, ResultRefused,
        ArtifactFailed, Complete, CancelledAfterArtifact, Caught, ProbeAnswered, ProbeReleased,
        KimiEnds, Age, Interrupt
<1>2. ASSUME NEW p \in Canceller \cup Watcher,
             \/ p \in Canceller /\ (StartCancel(p) \/ CancellerStep(p))
             \/ p \in Watcher /\ (Watch(p) \/ DoneWatching(p))
      PROVE  UNCHANGED cmd
    BY <1>2, OthersStandAside
<1>3. ASSUME NEW p \in Process, ProcessStep(p) \/ AgeListed(p) \/ Crash(p)
      PROVE  UNCHANGED cmd
    BY <1>3 DEF ProcessStep, WriteArtifact, EndRow, SweepRow, AgeListed, Crash
<1> QED
    BY <1>1, <1>2, <1>3 DEF Next, vars

\* MarkedOwner, of an ending spelt out.
LEMMA MarkedOwnerOf ==
    ASSUME NEW p \in Process, NEW j, NEW o, NEW s,
           mark'[p].job = j, mark'[p].pid = o, mark'[p].status = s,
           Known(j, o)', pc'[o] \in Finished, s # "completed",
           s = "cancelled" /\ o = Runner(j)' => jobs'[j].status # "completed"
    PROVE  MarkedOwner(p)'
BY DEF MarkedOwner, Known, Runner

LEMMA MarkStays ==
    ASSUME IInv, [Next]_vars, NEW p \in Process
    PROVE  MarkedOwner(p)'
<1>1. /\ TypeOK
      /\ \A j \in Job : JobInv(j) /\ JobTypes(j)
      /\ \A q \in Process : MarkedOwner(q)
      /\ mark \in [Process -> Ending \cup {NoMark}]
      /\ pc \in [Process -> Step]
    BY TypesOfJob DEF IInv, TypeOK
<1>2. \A j : Runner(j)' = Runner(j)
    BY CommandsStay DEF Runner
<1>3. CASE ~Ends(p)'
    BY <1>3 DEF MarkedOwner
<1>4. CASE Goes(p)
    <2>1. /\ Ends(p) /\ mark[p].job \in Job
          /\ mark[p].pid \in Owner /\ mark[p].status \in Store!Terminal
        BY <1>1, <1>4, EndingsAreRecords DEF Goes, Ending
    <2>2. PICK j \in Job, o \in Owner, s \in Store!Terminal :
            mark[p].job = j /\ mark[p].pid = o /\ mark[p].status = s
        BY <2>1
    <2>3. Known(j, o) /\ pc[o] \in Finished /\ s # "completed"
        BY <1>1, <2>1, <2>2 DEF MarkedOwner
    <2>4. Known(j, o)' /\ pc'[o] \in Finished
        BY <1>1, <2>3, OwnersExist, OwnersGoOn, KnownStays
    <2>5. ASSUME s = "cancelled", o = Runner(j)
          PROVE  jobs'[j].status # "completed"
        <3>1. jobs[j].status # "completed" /\ ~Works(j)
            BY <1>1, <2>1, <2>2, <2>3, <2>5 DEF MarkedOwner, Works, Finished, Working
        <3> QED
            BY <1>1, <3>1, CompletedByRunner
    <2> QED
        BY <1>2, <1>4, <2>2, <2>3, <2>4, <2>5, MarkedOwnerOf DEF Goes
<1>5. CASE Decides(p)
    <2>1. UNCHANGED jobs
        BY <1>5 DEF Decides
    <2>2. ASSUME NEW k \in Job, p \in {Launcher(k), Worker(k)},
                 \/ EndOwn(p, k, "failed")
                 \/ EndOwn(p, k, "cancelled") /\ pc[Runner(k)] = "caught"
          PROVE  MarkedOwner(p)'
        <3>1. PICK s \in {"failed", "cancelled"} :
                /\ s = "cancelled" => pc[Runner(k)] = "caught"
                /\ mark' = [mark EXCEPT ![p] = [job |-> k, status |-> s, pid |-> p]]
                /\ pc' = [pc EXCEPT ![p] = "endWrite"]
            BY <2>2 DEF EndOwn, Decide, Goto
        <3>2. Known(k, p)' /\ pc'[p] \in Finished
            BY <1>1, <2>2, <3>1 DEF Known, Finished
        <3>3. s = "cancelled" => jobs[k].status # "completed"
            BY <1>1, <3>1 DEF JobInv, Spared, Finished
        <3>4. mark'[p].job = k /\ mark'[p].pid = p /\ mark'[p].status = s
            BY <1>1, <3>1
        <3> QED
            BY <2>1, <3>2, <3>3, <3>4, MarkedOwnerOf
    <2>3. ASSUME NEW row \in sweep[p], ~Alive(row.pid), Decide(p, row, "failed", "sweepWrite")
          PROVE  MarkedOwner(p)'
        <3>1. row.job \in Job /\ row.pid \in Owner /\ Known(row.job, row.pid)
            BY <1>1 DEF IInv, ListedOwners, TypeOK, Listed
        <3>2. PICK j \in Job, o \in Owner : row.job = j /\ row.pid = o
            BY <3>1
        <3>3. pc[o] \in Finished
            BY <2>3, <3>1, <3>2 DEF Alive, Gone, Known, Finished
        <3>4. Known(j, o)' /\ pc'[o] \in Finished
            BY <1>1, <3>1, <3>2, <3>3, OwnersExist, OwnersGoOn, KnownStays
        <3>5. mark'[p].job = j /\ mark'[p].pid = o /\ mark'[p].status = "failed"
            BY <1>1, <2>3, <3>2 DEF Decide
        <3> QED
            BY <3>4, <3>5, MarkedOwnerOf
    <2>4. ASSUME p \in Canceller, pc[p] = "recheck", Store!IsRunning(target[p].job),
                 Decide(p, target[p], "cancelled", "endWrite")
          PROVE  MarkedOwner(p)'
        <3>1. HasTarget(p) /\ target[p] \in Seen
            BY <1>1, <2>4 DEF TypeOK, HasTarget
        <3>2. PICK j \in Job, o \in Owner : target[p].job = j /\ target[p].pid = o
            BY <3>1 DEF Seen
        <3>3. Known(j, o) /\ pc[o] \in Finished
            BY <2>4, <3>1, <3>2 DEF IInv, TargetedOwner
        <3>4. Known(j, o)' /\ pc'[o] \in Finished
            BY <1>1, <3>3, OwnersExist, OwnersGoOn, KnownStays
        <3>5. mark'[p].job = j /\ mark'[p].pid = o /\ mark'[p].status = "cancelled"
            BY <1>1, <2>4, <3>2 DEF Decide
        <3>6. jobs'[j].status # "completed"
            BY <2>1, <2>4, <3>2 DEF Store!IsRunning
        <3> QED
            BY <3>4, <3>5, <3>6, MarkedOwnerOf
    <2> QED
        BY <1>5, <2>2, <2>3, <2>4 DEF Decides
<1> QED
    BY <1>1, <1>3, <1>4, <1>5, MarkChanges

-----------------------------------------------------------------------------
(***************************************************************************)
(* Admission, as in JobStore_proofs, and the invariant as a whole.         *)
(***************************************************************************)

LEMMA AdmissionStays ==
    ASSUME Store!TypeOK, Store!AdmittedAlone, [Store!Next]_jobs
    PROVE  Store!AdmittedAlone'
<1> USE DEF Store!AdmittedAlone, Store!Blocking, Store!Blocks, Store!IsRunning
<1>1. jobs \in [Job -> Store!Row]
    BY DEF Store!TypeOK
<1>2. ASSUME \A k \in Job :
                jobs'[k].status = "running" =>
                    /\ jobs[k].status = "running"
                    /\ jobs'[k].type = jobs[k].type
                    /\ jobs'[k].forced = jobs[k].forced
      PROVE  Store!AdmittedAlone'
    BY <1>2
<1>3. ASSUME NEW j \in Job, Store!Create(j)
      PROVE  Store!AdmittedAlone'
    <2>1. PICK type, pid, session, phase, forced :
            Store!CreateJob(j, Store!NewRow(type, pid, session, phase, forced))
        BY <1>3 DEF Store!Create
    <2> DEFINE row == Store!NewRow(type, pid, session, phase, forced)
    <2>2. /\ jobs' = [jobs EXCEPT ![j] = row]
          /\ row.type # "review_gate" /\ ~row.forced => Store!Blocking \subseteq {j}
        BY <2>1 DEF Store!CreateJob, Store!Admits
    <2> HIDE DEF row
    <2> QED
        BY <1>1, <2>2
<1>4. ASSUME NEW j \in Job, Store!Claim(j)
      PROVE  Store!AdmittedAlone'
    <2>1. PICK pid, phase : jobs[j].status = "running"
                            /\ jobs' = [jobs EXCEPT ![j].pid = pid, ![j].phase = phase]
        BY <1>4 DEF Store!Claim, Store!ClaimRunningJobPid, Store!CanClaim
    <2> QED
        BY <1>1, <1>2, <2>1 DEF Store!Row
<1>5. ASSUME NEW j \in Job, Store!Update(j)
      PROVE  Store!AdmittedAlone'
    <2>1. jobs' = jobs \/ jobs' = [jobs EXCEPT ![j].phase = "turn-running"]
        BY <1>5 DEF Store!Update, Store!UpdateRunningPhase
    <2> QED
        BY <1>1, <1>2, <2>1 DEF Store!Row
<1>6. ASSUME NEW j \in Job, Store!End(j)
      PROVE  Store!AdmittedAlone'
    <2>1. PICK status \in Store!Terminal : Store!MarkEnded(j, status)
        BY <1>6 DEF Store!End
    <2>2. \A k \in Job : jobs'[k].status = "running" => jobs'[k] = jobs[k]
        BY <1>1, <2>1 DEF Store!MarkEnded, Store!EndedRow, Store!Row, Store!Terminal
    <2> QED
        BY <1>2, <2>2
<1>7. CASE UNCHANGED jobs
    BY <1>2, <1>7
<1> QED
    BY <1>3, <1>4, <1>5, <1>6, <1>7 DEF Store!Next

LEMMA InitIInv == Init => IInv
<1> SUFFICES ASSUME Init PROVE IInv
    OBVIOUS
<1>1. /\ jobs = [j \in Job |-> Store!NoRow]
      /\ pc = [p \in Process |-> "off"]
      /\ artifact = [j \in Job |-> "none"]
      /\ call = [j \in Job |-> "none"]
      /\ sweep = [p \in Process |-> {}]
    BY DEF Init, Store!Init
<1>2. \A j \in Job : jobs[j].status = "absent" /\ jobs[j].pid = NoPid
    BY <1>1 DEF Store!NoRow
<1>3. Store!AdmittedAlone
    BY <1>2 DEF Store!AdmittedAlone, Store!Blocking, Store!Blocks, Store!IsRunning
<1>4. \A j \in Job : JobInv(j)
    BY <1>1, <1>2, ProcessesExist DEF JobInv, Placed, Owned, WorksOnRunningRow, CalledByRunner,
        SparesResult, Spared, Works, Working, Finished, Store!IsRunning
<1>5. ListedOwners
    BY <1>1 DEF ListedOwners
<1>6. /\ \A c \in Canceller : TargetedOwner(c)
      /\ \A p \in Process : MarkedOwner(p)
    BY <1>1, ProcessesExist DEF TargetedOwner, MarkedOwner, HasTarget, Ends
<1> QED
    BY <1>3, <1>4, <1>5, <1>6, InitTypes DEF IInv

LEMMA NextKeepsIInv == IInv /\ [Next]_vars => IInv'
<1> SUFFICES ASSUME IInv, [Next]_vars PROVE IInv'
    OBVIOUS
<1>1. /\ TypeOK
      /\ \A j \in Job : JobInv(j)
      /\ ListedOwners
      /\ \A c \in Canceller : TargetedOwner(c)
      /\ \A p \in Process : MarkedOwner(p)
    BY DEF IInv
<1>2. TypeOK'
    BY <1>1, NextKeepsTypes
<1>3. Store!AdmittedAlone'
    BY <1>1, NextIsStoreStep, AdmissionStays DEF IInv, TypeOK
<1>4. ASSUME NEW j \in Job
      PROVE  JobInv(j)'
    <2>1. JobTypes(j)
        BY <1>1, TypesOfJob
    <2>2. CASE UNCHANGED vars
        BY <1>1, <2>1, <2>2, AsideKeepsJob DEF vars, Aside
    <2>3. CASE Next
        <3>1. ASSUME NEW p \in Canceller \cup Watcher,
                     \/ p \in Canceller /\ (StartCancel(p) \/ CancellerStep(p))
                     \/ p \in Watcher /\ (Watch(p) \/ DoneWatching(p))
              PROVE  JobInv(j)'
            BY <1>1, <3>1, OthersKeepJob
        <3>2. ASSUME NEW p \in Process, ProcessStep(p) \/ AgeListed(p) \/ Crash(p)
              PROVE  JobInv(j)'
            BY <1>1, <3>2, ProcessesKeepJob
        <3>3. ASSUME NEW k \in Job, \/ Start(k) \/ LauncherStep(k) \/ RunnerStep(k)
                                    \/ KimiEnds(k) \/ Age(k) \/ Interrupt(k)
              PROVE  JobInv(j)'
            BY <1>1, <3>3, JobsKeepJob
        <3> QED
            BY <2>3, <3>1, <3>2, <3>3 DEF Next
    <2> QED
        BY <2>2, <2>3
<1>5. ListedOwners'
    BY <1>1, ListedStay
<1>6. \A c \in Canceller : TargetedOwner(c)'
    BY <1>1, TargetStays
<1>7. \A p \in Process : MarkedOwner(p)'
    BY MarkStays
<1> QED
    BY <1>2, <1>3, <1>4, <1>5, <1>6, <1>7 DEF IInv

-----------------------------------------------------------------------------
(***************************************************************************)
(* The theorems.                                                           *)
(***************************************************************************)

\* Rows, processes and endings agree, as IInv says in its parts, in every state.
THEOREM Ownership == Spec => []IInv
BY InitIInv, NextKeepsIInv, PTL DEF Spec

\* A runner is inside its model call only while its row is running: neither a
\* sweep nor a cancel of the job ends the row of a runner at work, unless it went by
\* the launcher's pid after the worker had taken the row over.
THEOREM CallsHaveRunningRows == Spec => []CallOnRunningRow
<1>1. IInv => CallOnRunningRow
    BY DEF IInv, JobInv, WorksOnRunningRow, Works, Working, CallOnRunningRow
<1> QED
    BY <1>1, Ownership, PTL

LEMMA NoCallOfEndedRow == IInv => EndedRowHasNoCall
<1> SUFFICES ASSUME IInv, NEW j \in Job, Store!Ended(j), call[j] = "live"
             PROVE  j \in overtaken \/ pc[Runner(j)] = "killed"
    BY DEF EndedRowHasNoCall
<1>1. JobInv(j)
    BY DEF IInv
<1>2. ~Store!IsRunning(j)
    BY DEF Store!Ended, Store!IsRunning, Store!Terminal
<1> QED
    BY <1>1, <1>2 DEF JobInv, WorksOnRunningRow, CalledByRunner, Works, Working

\* When a row says its job is over, kimi no longer runs for it: the artifact, the
\* update of the row and the teardown of the call happen in an order that no
\* interleaving with a sweep, a cancel or a crash elsewhere upsets.
THEOREM EndedRowsHaveNoCall == Spec => []EndedRowHasNoCall
BY NoCallOfEndedRow, Ownership, PTL

\* Two kimi calls are live at once only with --allow-concurrent: the admission
\* rule, which is about rows, carries over to calls because a live call has a
\* running row of its own command.
THEOREM OneCall == Spec => []OneCallAtATime
<1>1. IInv => OneCallAtATime
    <2> SUFFICES ASSUME IInv, NEW a \in Job, NEW b \in Job, a # b,
                        call[a] = "live", call[b] = "live",
                        \A j \in {a, b} : j \notin overtaken /\ pc[Runner(j)] # "killed"
                 PROVE  cmd[a].forced \/ cmd[b].forced
        BY DEF OneCallAtATime
    <2>1. ASSUME NEW j \in {a, b}
          PROVE  j \in Store!Blocking /\ (jobs[j].forced => cmd[j].forced)
        <3>1. JobInv(j)
            BY DEF IInv
        <3>2. Store!IsRunning(j)
            BY <3>1 DEF JobInv, CalledByRunner, WorksOnRunningRow, Works, Working
        <3> QED
            BY <3>1, <3>2 DEF JobInv, Owned, Store!Blocking, Store!Blocks
    <2> QED
        BY <2>1 DEF IInv, Store!AdmittedAlone
<1> QED
    BY <1>1, Ownership, PTL

\* A row that says completed keeps its artifact: a cancel that comes too late never
\* leaves its own on it, although it writes the file before it looks whether it may
\* still end the row.
THEOREM CancelSpares == Spec => []CancelSparesResult
<1>1. IInv => CancelSparesResult
    BY DEF IInv, JobInv, SparesResult, CancelSparesResult
<1> QED
    BY <1>1, Ownership, PTL

==============================================================================
