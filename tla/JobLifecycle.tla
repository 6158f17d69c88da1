---------------------------- MODULE JobLifecycle -----------------------------
(***************************************************************************)
(* The life of model jobs: the commands that start them, the detached      *)
(* workers that run background ones, the sweep of jobs whose process died, *)
(* and /k3:cancel.  All of them are separate operating-system processes    *)
(* that share nothing but the job store (JobStore.tla), the artifact files *)
(* and signals, so every step between two awaits, transactions or signals  *)
(* is an action of its own and they interleave freely.                     *)
(*                                                                         *)
(* A job j has up to two processes: its launcher, the k3 command that was  *)
(* typed, and for a background job its worker.  The process that talks to  *)
(* kimi is the job's runner: the worker of a background job, the launcher  *)
(* itself otherwise.                                                       *)
(*                                                                         *)
(* Abstracted: prompts, sessions, engines and rendered text; clocks (a     *)
(* deadline may strike at any moment, and `fresh` says which rows are too  *)
(* young to sweep); process ids, which are never reused here.              *)
(***************************************************************************)
EXTENDS Naturals, FiniteSets

CONSTANTS
    Job,        \* jobs that may be started, each at most once
    Command,    \* the ways a job may be started: see CommandShape
    Canceller,  \* /k3:cancel commands, each run at most once
    Watcher,    \* /k3:status and /k3:result commands, run again and again
    ModelType,  \* command types that make model calls
    NoPid,      \* the NULL pid
    NoSession,  \* the NULL kimi session
    NoMark,     \* "this process is not ending a row"
    NoTarget,   \* "this cancel has not picked a job"
    MaxCrashes  \* bound: how many processes may die for no reason of ours

Launcher(j) == <<"launcher", j>>
Worker(j)   == <<"worker", j>>

Owner == {Launcher(j) : j \in Job} \cup {Worker(j) : j \in Job}

Process == Owner \cup Canceller \cup Watcher

ASSUME CommandShape ==
    \A c \in Command :
        /\ c \in [type : ModelType \cup {"probe"}, background : BOOLEAN, forced : BOOLEAN]
        /\ c.background => c.type \in {"ask", "rescue"}

ASSUME NullsAreNoProcesses ==
    /\ NoPid \notin Process
    /\ MaxCrashes \in Nat
    /\ "ask" \in ModelType
    /\ ModelType \subseteq {"ask", "rescue", "review", "challenge"}

\* A process runs one command: a k3 command that starts a job, or its worker, is
\* no cancel, status or result.
ASSUME OwnersAreApart == Owner \cap (Canceller \cup Watcher) = {}

VARIABLES
    jobs,       \* the job table
    artifact,   \* what the artifact file of a job says: one file per job
    fresh,      \* jobs whose running row was updated less than 15 s ago
    cmd,        \* how each job is started; never changes
    pc,         \* where each process is
    armed,      \* jobs whose runner has installed its SIGTERM handler
    cancelling, \* jobs whose runner has seen SIGTERM
    call,       \* the kimi call of a job
    sweep,      \* the rows a sweeping process has still to look at
    mark,       \* the ending a process is about to write
    target,     \* the row a cancel looked up
    overtaken,  \* history: see GoesBy
    crashes     \* processes that have died by themselves

runnerVars == <<armed, cancelling, call>>
vars == <<jobs, artifact, fresh, cmd, pc, armed, cancelling, call, sweep, mark,
          target, overtaken, crashes>>

Store == INSTANCE JobStore WITH Pid <- Owner, Session <- {}

Runner(j) == IF cmd[j].background THEN Worker(j) ELSE Launcher(j)

\* exited: done; failed: exited non-zero before it owned a row; killed: dead by
\* a signal.
Gone == {"off", "exited", "failed", "killed"}

Step == Gone \cup
    {"sweep", "sweepWrite", "sweepMark",                      \* every command
     "endWrite", "endMark",                                   \* whoever ends a row
     "insert", "header", "spawn", "handover", "wait",         \* launcher
     "boot", "hook", "arm", "call", "return", "written", "caught",  \* runner
     "term", "poll", "kill", "recheck"}                       \* cancel

\* isPidAlive, hasLiveRecordedProcess.
Alive(p) == pc[p] \notin Gone

\* A row as a sweep or a cancel saw it: the owner it had then.
Seen == [job : Job, pid : Owner]

Listed == [job : Job, pid : Owner, young : BOOLEAN]

\* `pid` is the owner the process that ends the row goes by.
Ending == [job : Job, status : Store!Terminal, pid : Owner]

ASSUME NullsAreNoRecords ==
    /\ NoMark \notin Ending
    /\ NoTarget \notin Seen

Ends(p) == pc[p] \in {"sweepWrite", "sweepMark", "endWrite", "endMark"}

HasTarget(c) == pc[c] \in {"term", "poll", "kill", "recheck"}

\* Besides the types: a process that ends a row knows which, and a cancel that
\* got past its look-up has a row.
TypeOK ==
    /\ Store!TypeOK
    /\ artifact \in [Job -> {"none"} \cup Store!Terminal]
    /\ fresh \subseteq Job
    /\ cmd \in [Job -> Command]
    /\ pc \in [Process -> Step]
    /\ armed \subseteq Job
    /\ cancelling \subseteq Job
    /\ call \in [Job -> {"none", "live", "ended"}]
    /\ sweep \in [Process -> SUBSET Listed]
    /\ mark \in [Process -> Ending \cup {NoMark}]
    /\ target \in [Canceller -> Seen \cup {NoTarget}]
    /\ overtaken \subseteq Job
    /\ crashes \in 0..MaxCrashes
    /\ \A p \in Process : Ends(p) => mark[p] # NoMark
    /\ \A c \in Canceller : HasTarget(c) => target[c] # NoTarget

Init ==
    /\ Store!Init
    /\ artifact = [j \in Job |-> "none"]
    /\ fresh = {}
    /\ cmd \in [Job -> Command]
    /\ pc = [p \in Process |-> "off"]
    /\ armed = {}
    /\ cancelling = {}
    /\ call = [j \in Job |-> "none"]
    /\ sweep = [p \in Process |-> {}]
    /\ mark = [p \in Process |-> NoMark]
    /\ target = [c \in Canceller |-> NoTarget]
    /\ overtaken = {}
    /\ crashes = 0

Goto(p, step) == pc' = [pc EXCEPT ![p] = step]

-----------------------------------------------------------------------------
(***************************************************************************)
(* Ending a row: markJobFailed, markJobCancelled.  The artifact is written *)
(* first and awaited; the guarded UPDATE follows.  A process that decides  *)
(* to end a row goes through Decide, WriteArtifact and EndRow; a sweep     *)
(* then goes on with its list, every other process exits.                  *)
(***************************************************************************)

Decide(p, seen, status, step) ==
    /\ Goto(p, step)
    /\ mark' = [mark EXCEPT ![p] = [job |-> seen.job, status |-> status, pid |-> seen.pid]]

\* A process ends the row it owns.
EndOwn(p, j, status) == Decide(p, [job |-> j, pid |-> p], status, "endWrite")

\* History: jobs somebody acted on by the pid of their launcher after the row
\* had passed to the worker.
GoesBy(p) ==
    overtaken' = IF mark[p].pid \in {jobs[mark[p].job].pid, Runner(mark[p].job)}
                 THEN overtaken ELSE overtaken \cup {mark[p].job}

WriteArtifact(p) ==
    /\ pc[p] \in {"sweepWrite", "endWrite"}
    /\ artifact' = [artifact EXCEPT ![mark[p].job] = mark[p].status]
    /\ GoesBy(p)
    /\ Goto(p, IF pc[p] = "sweepWrite" THEN "sweepMark" ELSE "endMark")
    /\ UNCHANGED <<jobs, fresh, cmd, runnerVars, sweep, mark, target, crashes>>

EndRow(p) ==
    /\ pc[p] \in {"sweepMark", "endMark"}
    /\ Store!MarkEnded(mark[p].job, mark[p].status)
    /\ fresh' = fresh \ {mark[p].job}
    /\ GoesBy(p)
    /\ mark' = [mark EXCEPT ![p] = NoMark]
    /\ Goto(p, IF pc[p] = "sweepMark" THEN "sweep" ELSE "exited")
    /\ UNCHANGED <<artifact, cmd, runnerVars, sweep, target, crashes>>

-----------------------------------------------------------------------------
(***************************************************************************)
(* sweepStaleJobs, which every command runs first.  The list is read once; *)
(* each row is then judged by the pid and the last update it had in that   *)
(* list, while other processes go on.  A row is swept when its owner is    *)
(* dead (a dead owner has nothing left to signal, and kimi_pid is always   *)
(* NULL) and its last update is 15 s old by then.                          *)
(***************************************************************************)

SweepList == {[job |-> j, pid |-> jobs[j].pid, young |-> j \in fresh] :
                j \in {k \in Job : Store!IsRunning(k) /\ jobs[k].pid # NoPid}}

BeginSweep(p) ==
    /\ Goto(p, "sweep")
    /\ sweep' = [sweep EXCEPT ![p] = SweepList]
    /\ UNCHANGED <<jobs, artifact, fresh, cmd, cancelling, call, mark, target, overtaken, crashes>>

\* Mutated form: the sweep of the upstream plugin, which left foreground rows
\* of a dead command alone.
ShouldSweepBackgroundOnly(row) == ~row.young /\ ~Alive(row.pid) /\ cmd[row.job].background

\* Mutated form: a row expires after 15 s without an update.
ShouldSweepExpired(row) == ~row.young

\* Background: companionMissing.  Foreground: the companion is not alive.
ShouldSweep(row) == ~row.young /\ ~Alive(row.pid)

SweepRow(p) ==
    /\ pc[p] = "sweep"
    /\ \E row \in sweep[p] :
        /\ sweep' = [sweep EXCEPT ![p] = @ \ {row}]
        /\ \/ /\ ShouldSweep(row)
              /\ Decide(p, row, "failed", "sweepWrite")
           \/ /\ ~ShouldSweep(row)
              /\ UNCHANGED <<pc, mark>>
    /\ UNCHANGED <<jobs, artifact, fresh, cmd, runnerVars, target, overtaken, crashes>>

Swept(p) == pc[p] = "sweep" /\ sweep[p] = {}

-----------------------------------------------------------------------------
(***************************************************************************)
(* The launcher: runAsk, runRescue, runReview and startBackgroundJob.      *)
(***************************************************************************)

\* setup --check --probe-model sends one prompt. It is admitted like any other
\* job, has a row to hold its place, and neither log header nor artifact.
IsProbe(j) == cmd[j].type = "probe"

\* The probe has its handlers before anything else.
ArmedAtStart(j) == IF IsProbe(j) THEN {j} ELSE {}

Start(j) ==
    /\ pc[Launcher(j)] = "off"
    /\ armed' = armed \cup ArmedAtStart(j)
    /\ BeginSweep(Launcher(j))

\* assertNoModelJobRunning, the early check: a fast refusal.
EarlyCheck(j) ==
    /\ Swept(Launcher(j))
    /\ Goto(Launcher(j), IF ~cmd[j].forced /\ Store!Blocking # {} THEN "exited" ELSE "insert")
    /\ UNCHANGED <<jobs, artifact, fresh, cmd, runnerVars, sweep, mark, target, overtaken, crashes>>

\* The type of the row: a probe stands as an ask that no ask resumes.
RowType(j) == IF IsProbe(j) THEN "ask" ELSE cmd[j].type

\* The row is born owned by the launcher, background or not.
InsertedRow(j) ==
    Store!NewRow(RowType(j), Launcher(j), NoSession,
                 IF cmd[j].background THEN "queued" ELSE "starting", cmd[j].forced)

CreateRow(j) ==
    /\ pc[Launcher(j)] = "insert"
    /\ Store!CreateJob(j, InsertedRow(j))
    /\ fresh' = fresh \cup {j}
    /\ Goto(Launcher(j), IF IsProbe(j) THEN "arm" ELSE "header")
    /\ UNCHANGED <<artifact, cmd, runnerVars, sweep, mark, target, overtaken, crashes>>

\* The execution plan could not be prepared, or the insert was refused.
GiveUp(j) ==
    /\ pc[Launcher(j)] = "insert"
    /\ Goto(Launcher(j), "exited")
    /\ UNCHANGED <<jobs, artifact, fresh, cmd, runnerVars, sweep, mark, target, overtaken, crashes>>

IsReview(j) == cmd[j].type \in {"review", "challenge"}

\* writeInvocationLogHeader.  review checked its hook before the insert and
\* installs its handlers next; rescue and ask check the hook while running.
HeaderWritten(j) ==
    /\ pc[Launcher(j)] = "header"
    /\ Goto(Launcher(j), IF cmd[j].background THEN "spawn"
                         ELSE IF IsReview(j) THEN "arm" ELSE "hook")
    /\ armed' = IF IsReview(j) THEN armed \cup {j} ELSE armed
    /\ UNCHANGED <<jobs, artifact, fresh, cmd, cancelling, call, sweep, mark, target, overtaken, crashes>>

\* rescue and ask end the row; review leaves it running and dies.
HeaderFailed(j) ==
    /\ pc[Launcher(j)] = "header"
    /\ \/ /\ ~IsReview(j)
          /\ EndOwn(Launcher(j), j, "failed")
       \/ /\ IsReview(j)
          /\ Goto(Launcher(j), "failed")
          /\ UNCHANGED mark
    /\ UNCHANGED <<jobs, artifact, fresh, cmd, runnerVars, sweep, target, overtaken, crashes>>

SpawnWorker(j) ==
    /\ pc[Launcher(j)] = "spawn"
    /\ pc' = [pc EXCEPT ![Launcher(j)] = "handover", ![Worker(j)] = "boot"]
    /\ UNCHANGED <<jobs, artifact, fresh, cmd, runnerVars, sweep, mark, target, overtaken, crashes>>

\* persistBackgroundFailure, without a worker: the row is ended if still running.
SpawnFailed(j) ==
    /\ pc[Launcher(j)] = "spawn"
    /\ \/ /\ Store!IsRunning(j)
          /\ EndOwn(Launcher(j), j, "failed")
       \/ /\ ~Store!IsRunning(j)
          /\ Goto(Launcher(j), "exited")
          /\ UNCHANGED mark
    /\ UNCHANGED <<jobs, artifact, fresh, cmd, runnerVars, sweep, target, overtaken, crashes>>

-----------------------------------------------------------------------------
(***************************************************************************)
(* Signals.  Node's default for SIGTERM is to die; a runner that has       *)
(* installed its handlers latches `cancelling` instead.                    *)
(***************************************************************************)

HandlesTerm(p) == \E j \in armed : p = Runner(j)

\* pc after SIGTERM to process p.
Terminated(p) ==
    IF Alive(p) /\ ~HandlesTerm(p) THEN [pc EXCEPT ![p] = "killed"] ELSE pc

Latched(p) == {j \in armed : Runner(j) = p /\ Alive(p)}

\* pc after SIGKILL to process p.
Killed(p) == IF Alive(p) THEN [pc EXCEPT ![p] = "killed"] ELSE pc

-----------------------------------------------------------------------------
(***************************************************************************)
(* The handover of the row from launcher to worker.                        *)
(***************************************************************************)

MayHandOver(j) == Store!CanClaim(j, {Launcher(j)})

HandOver(j) ==
    /\ pc[Launcher(j)] = "handover"
    /\ MayHandOver(j)
    /\ jobs' = [jobs EXCEPT ![j].pid = Worker(j), ![j].phase = "worker-spawned"]
    /\ fresh' = fresh \cup {j}
    /\ Goto(Launcher(j), "wait")
    /\ UNCHANGED <<artifact, cmd, runnerVars, sweep, mark, target, overtaken, crashes>>

\* The worker was faster and has claimed the row already.
HandOverDone(j) ==
    /\ pc[Launcher(j)] = "handover"
    /\ ~MayHandOver(j)
    /\ jobs[j].pid = Worker(j)
    /\ Goto(Launcher(j), "wait")
    /\ UNCHANGED <<jobs, artifact, fresh, cmd, runnerVars, sweep, mark, target, overtaken, crashes>>

\* Neither: the worker is stopped and the user told that it was not started.
HandOverLost(j) ==
    /\ pc[Launcher(j)] = "handover"
    /\ ~MayHandOver(j)
    /\ jobs[j].pid # Worker(j)
    /\ pc' = [Terminated(Worker(j)) EXCEPT ![Launcher(j)] = "exited"]
    /\ cancelling' = cancelling \cup Latched(Worker(j))
    /\ UNCHANGED <<jobs, artifact, fresh, cmd, armed, call, sweep, mark, target, overtaken, crashes>>

\* markEarlyExit: the worker exited with an error before it claimed the row.
EarlyExit(j) ==
    /\ pc[Launcher(j)] = "wait"
    /\ pc[Worker(j)] = "failed"
    /\ Store!IsRunning(j)
    /\ jobs[j].phase \in {"queued", "worker-spawned"}
    /\ EndOwn(Launcher(j), j, "failed")
    /\ UNCHANGED <<jobs, artifact, fresh, cmd, runnerVars, sweep, target, overtaken, crashes>>

\* No --wait, a terminal row, or JOB_WAIT_TIMEOUT.
StopWaiting(j) ==
    /\ pc[Launcher(j)] = "wait"
    /\ Goto(Launcher(j), "exited")
    /\ UNCHANGED <<jobs, artifact, fresh, cmd, runnerVars, sweep, mark, target, overtaken, crashes>>

LauncherStep(j) ==
    \/ EarlyCheck(j) \/ CreateRow(j) \/ GiveUp(j)
    \/ HeaderWritten(j) \/ HeaderFailed(j)
    \/ SpawnWorker(j) \/ SpawnFailed(j)
    \/ HandOver(j) \/ HandOverDone(j) \/ HandOverLost(j)
    \/ EarlyExit(j) \/ StopWaiting(j)

-----------------------------------------------------------------------------
(***************************************************************************)
(* The runner: executeRescueJob, executeAskJob, and the second half of     *)
(* runReview.                                                              *)
(***************************************************************************)

\* Mutated form: the worker does not look at the row before it starts.
MayClaimAnyway(j) == TRUE

MayClaim(j) == Store!CanClaim(j, {Worker(j), Launcher(j)})

ClaimRow(j) ==
    /\ pc[Worker(j)] = "boot"
    /\ MayClaim(j)
    /\ jobs' = [jobs EXCEPT ![j].pid = Worker(j), ![j].phase = "worker-running"]
    /\ fresh' = fresh \cup {j}
    /\ Goto(Worker(j), "hook")
    /\ UNCHANGED <<artifact, cmd, runnerVars, sweep, mark, target, overtaken, crashes>>

\* The claim is lost: return without a model call.
ClaimLost(j) ==
    /\ pc[Worker(j)] = "boot"
    /\ ~MayClaim(j)
    /\ Goto(Worker(j), "exited")
    /\ UNCHANGED <<jobs, artifact, fresh, cmd, runnerVars, sweep, mark, target, overtaken, crashes>>

\* The worker fails before it gets to the claim and exits non-zero.
BootFailed(j) ==
    /\ pc[Worker(j)] = "boot"
    /\ Goto(Worker(j), "failed")
    /\ UNCHANGED <<jobs, artifact, fresh, cmd, runnerVars, sweep, mark, target, overtaken, crashes>>

HookVerified(j) ==
    /\ pc[Runner(j)] = "hook"
    /\ armed' = armed \cup {j}
    /\ Goto(Runner(j), "arm")
    /\ UNCHANGED <<jobs, artifact, fresh, cmd, cancelling, call, sweep, mark, target, overtaken, crashes>>

HookMissing(j) ==
    /\ pc[Runner(j)] = "hook"
    /\ EndOwn(Runner(j), j, "failed")
    /\ UNCHANGED <<jobs, artifact, fresh, cmd, runnerVars, sweep, target, overtaken, crashes>>

\* runCliPrompt refuses an already aborted signal.
MayCall(j) == j \notin cancelling

\* updateRunningJob: any patch also renews updated_at.
Touched(j) == IF Store!IsRunning(j) THEN fresh \cup {j} ELSE fresh

\* The last look at the row was the claim.
StartCall(j) ==
    /\ pc[Runner(j)] = "arm"
    /\ MayCall(j)
    /\ \/ /\ cmd[j].type = "rescue"
          /\ Store!UpdateRunningPhase(j, "turn-running")
          /\ fresh' = Touched(j)
       \/ /\ cmd[j].type # "rescue"
          /\ UNCHANGED <<jobs, fresh>>
    /\ call' = [call EXCEPT ![j] = "live"]
    /\ Goto(Runner(j), "call")
    /\ UNCHANGED <<artifact, cmd, armed, cancelling, sweep, mark, target, overtaken, crashes>>

\* Already cancelled, or the stored plan or the resume lineage is refused.
CallRefused(j) ==
    /\ pc[Runner(j)] = "arm"
    /\ Goto(Runner(j), "caught")
    /\ UNCHANGED <<jobs, artifact, fresh, cmd, runnerVars, sweep, mark, target, overtaken, crashes>>

\* kimi ends by itself; it does so too when its runner is dead.
KimiEnds(j) ==
    /\ call[j] = "live"
    /\ call' = [call EXCEPT ![j] = "ended"]
    /\ UNCHANGED <<jobs, artifact, fresh, cmd, pc, armed, cancelling, sweep, mark, target, overtaken, crashes>>

\* What was observed of the call is stored in the row, if it still runs.
CallReturns(j) ==
    /\ pc[Runner(j)] = "call" /\ ~IsProbe(j)
    /\ call[j] = "ended"
    /\ fresh' = Touched(j)
    /\ Goto(Runner(j), "return")
    /\ UNCHANGED <<jobs, artifact, cmd, runnerVars, sweep, mark, target, overtaken, crashes>>

\* Mutated form: the promise settles while kimi is still running.
CallAbandoned(j) ==
    /\ pc[Runner(j)] = "call"
    /\ Goto(Runner(j), "caught")
    /\ UNCHANGED <<jobs, artifact, fresh, cmd, runnerVars, sweep, mark, target, overtaken, crashes>>

\* Cancelled, out of budget, or a provenance mismatch: kimi's process tree is
\* torn down before the promise settles.
CallTornDown(j) ==
    /\ pc[Runner(j)] = "call"
    /\ call' = [call EXCEPT ![j] = "ended"]
    /\ Goto(Runner(j), "caught")
    /\ UNCHANGED <<jobs, artifact, fresh, cmd, armed, cancelling, sweep, mark, target, overtaken, crashes>>

MayKeepResult(j) == j \notin cancelling

WriteResult(j) ==
    /\ pc[Runner(j)] = "return"
    /\ MayKeepResult(j)
    /\ artifact' = [artifact EXCEPT ![j] = "completed"]
    /\ Goto(Runner(j), "written")
    /\ UNCHANGED <<jobs, fresh, cmd, runnerVars, sweep, mark, target, overtaken, crashes>>

\* Cancelled, kimi failed, or the result could not be rendered or written.
ResultRefused(j) ==
    /\ pc[Runner(j)] = "return"
    /\ Goto(Runner(j), "caught")
    /\ UNCHANGED <<jobs, artifact, fresh, cmd, runnerVars, sweep, mark, target, overtaken, crashes>>

\* rescue ends its row as failed when the artifact cannot be written, even if a
\* signal came meanwhile.
ArtifactFailed(j) ==
    /\ pc[Runner(j)] = "return"
    /\ cmd[j].type = "rescue"
    /\ EndOwn(Runner(j), j, "failed")
    /\ UNCHANGED <<jobs, artifact, fresh, cmd, runnerVars, sweep, target, overtaken, crashes>>

Complete(j) ==
    /\ pc[Runner(j)] = "written"
    /\ MayKeepResult(j)
    /\ Store!MarkEnded(j, "completed")
    /\ fresh' = fresh \ {j}
    /\ Goto(Runner(j), "exited")
    /\ UNCHANGED <<artifact, cmd, runnerVars, sweep, mark, target, overtaken, crashes>>

CancelledAfterArtifact(j) ==
    /\ pc[Runner(j)] = "written"
    /\ ~MayKeepResult(j)
    /\ Goto(Runner(j), "caught")
    /\ UNCHANGED <<jobs, artifact, fresh, cmd, runnerVars, sweep, mark, target, overtaken, crashes>>

\* The catch block: cancelled if a signal was seen by now, failed otherwise.
Caught(j) ==
    /\ pc[Runner(j)] = "caught" /\ ~IsProbe(j)
    /\ EndOwn(Runner(j), j, IF j \in cancelling THEN "cancelled" ELSE "failed")
    /\ UNCHANGED <<jobs, artifact, fresh, cmd, runnerVars, sweep, target, overtaken, crashes>>

\* The probe judges its answer and ends its row at once: nothing is awaited, so no
\* signal is seen in between, and an aborted call gives no answer (CliClient).
ProbeAnswered(j) ==
    /\ pc[Runner(j)] = "call" /\ IsProbe(j)
    /\ call[j] = "ended"
    /\ j \notin cancelling
    /\ \E status \in {"completed", "failed"} : Store!MarkEnded(j, status)
    /\ fresh' = fresh \ {j}
    /\ Goto(Runner(j), "exited")
    /\ UNCHANGED <<artifact, cmd, runnerVars, sweep, mark, target, overtaken, crashes>>

\* Whatever was thrown, the row of the probe is released.
ProbeReleased(j) ==
    /\ pc[Runner(j)] = "caught" /\ IsProbe(j)
    /\ Store!MarkEnded(j, IF j \in cancelling THEN "cancelled" ELSE "failed")
    /\ fresh' = fresh \ {j}
    /\ Goto(Runner(j), "exited")
    /\ UNCHANGED <<artifact, cmd, runnerVars, sweep, mark, target, overtaken, crashes>>

RunnerStep(j) ==
    \/ ClaimRow(j) \/ ClaimLost(j) \/ BootFailed(j)
    \/ HookVerified(j) \/ HookMissing(j)
    \/ StartCall(j) \/ CallRefused(j) \/ CallReturns(j) \/ CallTornDown(j)
    \/ WriteResult(j) \/ ResultRefused(j) \/ ArtifactFailed(j)
    \/ Complete(j) \/ CancelledAfterArtifact(j) \/ Caught(j)
    \/ ProbeAnswered(j) \/ ProbeReleased(j)

-----------------------------------------------------------------------------
(***************************************************************************)
(* /k3:cancel.  The row is looked up once; both signals go to the pid it   *)
(* had then, while the wait and the last check read it again.              *)
(***************************************************************************)

StartCancel(c) ==
    /\ pc[c] = "off"
    /\ BeginSweep(c)
    /\ UNCHANGED armed

LookUp(c) ==
    /\ Swept(c)
    /\ \E j \in Job :
        /\ Store!IsRunning(j)
        /\ jobs[j].pid # NoPid
        /\ target' = [target EXCEPT ![c] = [job |-> j, pid |-> jobs[j].pid]]
    /\ Goto(c, "term")
    /\ UNCHANGED <<jobs, artifact, fresh, cmd, runnerVars, sweep, mark, overtaken, crashes>>

\* Mutated form: the early return is missing.
NothingToCancelGoesOn(c) ==
    /\ Swept(c)
    /\ \E j \in Job : ~Store!IsRunning(j) \/ jobs[j].pid = NoPid
    /\ Goto(c, "term")
    /\ UNCHANGED <<jobs, artifact, fresh, cmd, runnerVars, sweep, mark, target, overtaken, crashes>>

\* No job, a terminal one (a no-op) or one without a pid (refused).
NothingToCancel(c) ==
    /\ Swept(c)
    /\ \E j \in Job : ~Store!IsRunning(j) \/ jobs[j].pid = NoPid
    /\ Goto(c, "exited")
    /\ UNCHANGED <<jobs, artifact, fresh, cmd, runnerVars, sweep, mark, target, overtaken, crashes>>

SendTerm(c) ==
    /\ pc[c] = "term"
    /\ pc' = [Terminated(target[c].pid) EXCEPT ![c] = "poll"]
    /\ cancelling' = cancelling \cup Latched(target[c].pid)
    /\ UNCHANGED <<jobs, artifact, fresh, cmd, armed, call, sweep, mark, target, overtaken, crashes>>

\* waitForCancellation: the job ended by itself.
SeesEnd(c) ==
    /\ pc[c] = "poll"
    /\ ~Store!IsRunning(target[c].job)
    /\ Goto(c, "exited")
    /\ UNCHANGED <<jobs, artifact, fresh, cmd, runnerVars, sweep, mark, target, overtaken, crashes>>

\* waitForCancellation returns null: no live recorded process, or 4 s are over.
GivesUpWaiting(c) ==
    /\ pc[c] = "poll"
    /\ Goto(c, "kill")
    /\ UNCHANGED <<jobs, artifact, fresh, cmd, runnerVars, sweep, mark, target, overtaken, crashes>>

SendKill(c) ==
    /\ pc[c] = "kill"
    /\ pc' = [Killed(target[c].pid) EXCEPT ![c] = "recheck"]
    /\ UNCHANGED <<jobs, artifact, fresh, cmd, runnerVars, sweep, mark, target, overtaken, crashes>>

\* Mutated form: the row is not read again before it is cancelled.
MayForceAnyway(c) == TRUE

MayForce(c) == Store!IsRunning(target[c].job)

Recheck(c) ==
    /\ pc[c] = "recheck"
    /\ \/ /\ MayForce(c)
          /\ Decide(c, target[c], "cancelled", "endWrite")
       \/ /\ ~MayForce(c)
          /\ Goto(c, "exited")
          /\ UNCHANGED mark
    /\ UNCHANGED <<jobs, artifact, fresh, cmd, runnerVars, sweep, target, overtaken, crashes>>

CancellerStep(c) ==
    \/ LookUp(c) \/ NothingToCancel(c) \/ SendTerm(c)
    \/ SeesEnd(c) \/ GivesUpWaiting(c) \/ SendKill(c) \/ Recheck(c)

-----------------------------------------------------------------------------
(***************************************************************************)
(* /k3:status and /k3:result sweep and read.                               *)
(***************************************************************************)

Watch(w) ==
    /\ ~Alive(w)
    /\ BeginSweep(w)
    /\ UNCHANGED armed

DoneWatching(w) ==
    /\ Swept(w)
    /\ Goto(w, "off")
    /\ UNCHANGED <<jobs, artifact, fresh, cmd, runnerVars, sweep, mark, target, overtaken, crashes>>

-----------------------------------------------------------------------------
(***************************************************************************)
(* The environment.                                                        *)
(***************************************************************************)

\* Fifteen seconds since the last update of the row ...
Age(j) ==
    /\ j \in fresh
    /\ fresh' = fresh \ {j}
    /\ UNCHANGED <<jobs, artifact, cmd, pc, runnerVars, sweep, mark, target, overtaken, crashes>>

\* ... and since the last update that a sweep knows of.
AgeListed(p) ==
    /\ \E row \in sweep[p] :
        /\ row.young
        /\ sweep' = [sweep EXCEPT ![p] = (@ \ {row}) \cup {[row EXCEPT !.young = FALSE]}]
    /\ UNCHANGED <<jobs, artifact, fresh, cmd, pc, runnerVars, mark, target, overtaken, crashes>>

\* Ctrl-C, or the host stops the command.  One without handlers dies: Crash.
Interrupt(j) ==
    /\ Launcher(j) = Runner(j)
    /\ HandlesTerm(Launcher(j)) /\ Alive(Launcher(j))
    /\ cancelling' = cancelling \cup {j}
    /\ UNCHANGED <<jobs, artifact, fresh, cmd, pc, armed, call, sweep, mark, target, overtaken, crashes>>

\* A process dies where it stands; a kimi it started lives on.
Crash(p) ==
    /\ crashes < MaxCrashes
    /\ Alive(p)
    /\ crashes' = crashes + 1
    /\ Goto(p, "killed")
    /\ sweep' = [sweep EXCEPT ![p] = {}]
    /\ UNCHANGED <<jobs, artifact, fresh, cmd, runnerVars, mark, target, overtaken>>

ProcessStep(p) == WriteArtifact(p) \/ EndRow(p) \/ SweepRow(p)

Next ==
    \/ \E j \in Job : Start(j) \/ LauncherStep(j) \/ RunnerStep(j) \/ KimiEnds(j)
                  \/ Age(j) \/ Interrupt(j)
    \/ \E c \in Canceller : StartCancel(c) \/ CancellerStep(c)
    \/ \E w \in Watcher : Watch(w) \/ DoneWatching(w)
    \/ \E p \in Process : ProcessStep(p) \/ AgeListed(p) \/ Crash(p)

Spec == Init /\ [][Next]_vars

\* Fairness: a process that is alive goes on, time passes, and a user (or an
\* agent that follows its job) looks at the status again and again.
Fairness ==
    /\ \A j \in Job : /\ WF_vars(LauncherStep(j))
                      /\ WF_vars(RunnerStep(j))
                      /\ WF_vars(Age(j))
    /\ \A c \in Canceller : WF_vars(CancellerStep(c))
    /\ \A w \in Watcher : WF_vars(Watch(w)) /\ WF_vars(DoneWatching(w))
    /\ \A p \in Process : WF_vars(ProcessStep(p))

FairSpec == Spec /\ Fairness

-----------------------------------------------------------------------------
(***************************************************************************)
(* Properties.                                                             *)
(***************************************************************************)

\* The processes use the store as its open specification allows, so whatever
\* holds of JobStore (one job at a time, frozen ended rows) holds here.
ImplementsStore == Store!Spec

\* A runner is inside its model call only while its row is running: the claim
\* keeps out the worker of a row that was swept or cancelled first, a cancel
\* stops the runner before it ends the row, and only a dead owner is swept.
\* Excused: `overtaken` rows, which a sweep or a cancel ended while it still
\* went by the launcher's pid (see CancelledRowHasNoCall).
CallOnRunningRow ==
    \A j \in Job :
        pc[Runner(j)] = "call" /\ ~Store!IsRunning(j) => j \in overtaken

\* When a row says its job is over, kimi is no longer running for it: every
\* path that ends a row comes after the teardown of the call.  Excused: the
\* kimi of a runner that died without a chance to tear it down.
EndedRowHasNoCall ==
    \A j \in Job :
        Store!Ended(j) /\ call[j] = "live"
        => j \in overtaken \/ pc[Runner(j)] = "killed"

\* The rule the admission exists for, in terms of calls instead of rows: two
\* kimi calls are live at once only if one was started with --allow-concurrent.
OneCallAtATime ==
    \A a, b \in Job :
        a # b /\ call[a] = "live" /\ call[b] = "live"
        => \/ cmd[a].forced \/ cmd[b].forced
           \/ \E j \in {a, b} : j \in overtaken \/ pc[Runner(j)] = "killed"

\* A cancel that arrives as the job completes leaves the result alone, although
\* it writes to the artifact of the job before it finds out whether it may end
\* the row: it looks at the row again when nobody can complete it any more.
CancelSparesResult ==
    \A j \in Job :
        jobs[j].status = "completed" /\ artifact[j] = "cancelled" => j \in overtaken

\* Every row that starts to run comes to an end, so that no row blocks the
\* guard for ever: if its owner does not end it, a sweep does.
RunningRowEnds == \A j \in Job : Store!IsRunning(j) ~> Store!Ended(j)

\* README.md: "a worker whose row was swept or cancelled makes no model call".
CancelledRowHasNoCall ==
    \A j \in Job : pc[Worker(j)] = "call" => jobs[j].status # "cancelled"

\* commands/result.md: /k3:result returns "the stored rendered result" of a
\* terminal job.
CompletedHasResult ==
    \A j \in Job : jobs[j].status = "completed" => artifact[j] = "completed"
==============================================================================
