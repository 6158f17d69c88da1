------------------------------ MODULE JobStore -------------------------------
(***************************************************************************)
(* The SQLite job table of runtime/job-store.ts and the admission rule of  *)
(* runtime/admission.ts.  One action per transaction or guarded UPDATE:    *)
(* SQLite serialises writers, so each of them is one step, whichever       *)
(* process issues it.  The callers are open here: any process may call any *)
(* operation at any time with any argument, which is what the store has to *)
(* stand up to.  JobLifecycle composes these operations with the processes *)
(* that really call them.                                                  *)
(*                                                                         *)
(* A row keeps the columns some decision reads: status, command type,      *)
(* owner pid, kimi session and phase.  kimi_pid is left out because no     *)
(* code path ever stores a value in it, and repo_id because every row is   *)
(* of one repository.  `forced` is not a column: it remembers that the     *)
(* insert skipped the admission check.                                     *)
(***************************************************************************)
CONSTANTS
    Job,        \* job ids (random UUIDs, never used twice)
    Pid,        \* operating-system process ids
    Session,    \* kimi session ids
    ModelType,  \* command types that make model calls
    NoPid,      \* the NULL pid
    NoSession   \* the NULL session

ASSUME NullsAreNoValues ==
    /\ NoPid \notin Pid
    /\ NoSession \notin Session

ASSUME ModelTypes ==
    /\ {"ask"} \subseteq ModelType
    /\ ModelType \subseteq {"ask", "rescue", "review", "challenge"}

VARIABLE jobs   \* the table: one row per job id

Terminal == {"completed", "failed", "cancelled"}

CommandType == ModelType \cup {"review_gate"}

Phase == {"queued", "starting", "worker-spawned", "worker-running",
          "turn-running", "ended"}

Row == [status  : {"absent", "running"} \cup Terminal,
        type    : CommandType,
        pid     : Pid \cup {NoPid},
        session : Session \cup {NoSession},
        phase   : Phase,
        forced  : BOOLEAN]

NoRow == [status  |-> "absent", type |-> "ask", pid |-> NoPid,
          session |-> NoSession, phase |-> "ended", forced |-> FALSE]

\* Mutated form: a background row has no pid until its worker is spawned.
NewRowWithoutLauncher(type, pid, session, phase, forced) ==
    [status  |-> "running", type |-> type,
     pid     |-> IF type = "review_gate" \/ phase = "queued" THEN NoPid ELSE pid,
     session |-> session, phase |-> phase,
     forced  |-> forced /\ type # "review_gate"]

\* The row a command inserts.  A review-gate row has no pid and is exempt from
\* admission, so nothing distinguishes a forced one.
NewRow(type, pid, session, phase, forced) ==
    [status  |-> "running", type |-> type,
     pid     |-> IF type = "review_gate" THEN NoPid ELSE pid,
     session |-> session, phase |-> phase,
     forced  |-> forced /\ type # "review_gate"]

IsRunning(j) == jobs[j].status = "running"

Ended(j) == jobs[j].status \in Terminal

-----------------------------------------------------------------------------
(***************************************************************************)
(* Admission.                                                              *)
(***************************************************************************)

\* blockingJobs: every running row counts, except the review gate's.
Blocks(j) == IsRunning(j) /\ jobs[j].type # "review_gate"

Blocking == {j \in Job : Blocks(j)}

\* Mutated form: the index of the first releases, which covered rescue only.
IndexedRescueOnly(row) ==
    row.status = "running" /\ row.type = "rescue" /\ row.session # NoSession

\* The rows covered by the partial unique index jobs_running_session_idx.
Indexed(row) ==
    /\ row.status = "running"
    /\ row.type \in {"rescue", "ask"}
    /\ row.session # NoSession

SameKey(row, other) ==
    /\ Indexed(row) /\ Indexed(other)
    /\ row.type = other.type
    /\ row.session = other.session

UniqueIndexAllows(j, row) == \A k \in Job \ {j} : ~SameKey(row, jobs[k])

\* Mutated form: a row that has not started yet does not count.
AdmitsBesideQueued(j, row) ==
    row.type # "review_gate" /\ ~row.forced =>
        {k \in Blocking : jobs[k].phase # "queued"} \subseteq {j}

\* createJob: the insert and the final admission check are one transaction, so
\* the check sees every row committed before this one.
Admits(j, row) ==
    row.type # "review_gate" /\ ~row.forced => Blocking \subseteq {j}

\* Mutated form: an insert that replaces an ended row of the same id.
CreateOrReplaceJob(j, row) ==
    /\ ~IsRunning(j)
    /\ UniqueIndexAllows(j, row)
    /\ Admits(j, row)
    /\ jobs' = [jobs EXCEPT ![j] = row]

CreateJob(j, row) ==
    /\ jobs[j].status = "absent"
    /\ UniqueIndexAllows(j, row)
    /\ Admits(j, row)
    /\ jobs' = [jobs EXCEPT ![j] = row]

-----------------------------------------------------------------------------
(***************************************************************************)
(* Updates of a running row.                                               *)
(***************************************************************************)

\* claimRunningJobPid: compare-and-set of the owner pid.
CanClaim(j, expected) ==
    /\ IsRunning(j)
    /\ jobs[j].pid # NoPid
    /\ jobs[j].pid \in expected

ClaimRunningJobPid(j, expected, pid, phase) ==
    /\ CanClaim(j, expected)
    /\ jobs' = [jobs EXCEPT ![j].pid = pid, ![j].phase = phase]

UpdateRunningPhase(j, phase) ==
    jobs' = IF IsRunning(j) THEN [jobs EXCEPT ![j].phase = phase] ELSE jobs

\* The session kimi announced is stored in the running row; the index refuses
\* one that another running row of the type holds.
UpdateRunningSession(j, session) ==
    /\ IsRunning(j)
    /\ UniqueIndexAllows(j, [jobs[j] EXCEPT !.session = session])
    /\ jobs' = [jobs EXCEPT ![j].session = session]

\* Mutated form: the end of a job clears the phase.
EndedRowWithoutPhase(row, status) ==
    [row EXCEPT !.status = status, !.pid = NoPid, !.phase = NoPid]

EndedRow(row, status) ==
    [row EXCEPT !.status = status, !.pid = NoPid, !.phase = "ended"]

\* Mutated form: the UPDATE without its WHERE status = 'running'.
MarkEndedAnyway(j, status) ==
    /\ jobs[j].status # "absent"
    /\ jobs' = [jobs EXCEPT ![j] = EndedRow(jobs[j], status)]

\* markCompleted, markFailed and markCancelled: UPDATE ... WHERE status = 'running'.
MarkEnded(j, status) ==
    jobs' = IF IsRunning(j)
            THEN [jobs EXCEPT ![j] = EndedRow(jobs[j], status)]
            ELSE jobs

-----------------------------------------------------------------------------
Init == jobs = [j \in Job |-> NoRow]

Create(j) ==
    \E type \in CommandType, pid \in Pid, session \in Session \cup {NoSession},
       phase \in {"queued", "starting"}, forced \in BOOLEAN :
        CreateJob(j, NewRow(type, pid, session, phase, forced))

\* A claim that expects one of several owners is the claim that expects the one
\* the row has.
Claim(j) ==
    \E expected \in Pid, pid \in Pid, phase \in {"worker-spawned", "worker-running"} :
        ClaimRunningJobPid(j, {expected}, pid, phase)

Update(j) ==
    \/ UpdateRunningPhase(j, "turn-running")
    \/ \E session \in Session : UpdateRunningSession(j, session)

End(j) == \E status \in Terminal : MarkEnded(j, status)

Next == \E j \in Job : Create(j) \/ Claim(j) \/ Update(j) \/ End(j)

Spec == Init /\ [][Next]_jobs

-----------------------------------------------------------------------------
(***************************************************************************)
(* Properties.                                                             *)
(***************************************************************************)

TypeOK == jobs \in [Job -> Row]

\* Of two model jobs running at once, one was let in by --allow-concurrent:
\* the admission check and the insert cannot be separated by another insert.
AdmittedAlone ==
    \A a, b \in Blocking : a # b => jobs[a].forced \/ jobs[b].forced

\* No two running rescue rows, and no two running ask rows, continue one kimi
\* session, whether the session came with the insert or was stored later.
OneRunningJobPerSession ==
    \A a, b \in Job :
        /\ IsRunning(a) /\ IsRunning(b)
        /\ jobs[a].type = jobs[b].type
        /\ jobs[a].type \in {"ask", "rescue"}
        /\ jobs[a].session = jobs[b].session
        /\ jobs[a].session # NoSession
        => a = b

\* A running row that counts always names an owner, so that the sweep and
\* cancel have a process to look at; only a review-gate row is without one.
BlockingRowHasOwner == \A j \in Blocking : jobs[j].pid # NoPid

\* What a row says when its job has ended is never rewritten: neither by a
\* late claim, nor by the loser of two concurrent endings.
EndedRowsAreFrozen == [][\A j \in Job : Ended(j) => jobs'[j] = jobs[j]]_jobs

\* The table implements the slot.
Slot == INSTANCE ModelSlot WITH
            holders <- Blocking,
            left    <- {j \in Job : Ended(j) /\ jobs[j].type # "review_gate"},
            beside  <- {j \in Job : jobs[j].forced}

ImplementsSlot == Slot!Spec
==============================================================================
