--------------------------- MODULE JobStore_proofs ---------------------------
(***************************************************************************)
(* Proofs about the job store, for every set of jobs, pids and sessions.   *)
(*                                                                         *)
(* Each of the four invariants is inductive beside TypeOK.  The refinement *)
(* of the slot needs one fact more, that a job without a row was never     *)
(* forced in (AbsentIsNotForced).                                          *)
(***************************************************************************)
EXTENDS JobStore, TLAPS

AbsentIsNotForced == \A j \in Job : jobs[j].status = "absent" => ~jobs[j].forced

IInv ==
    /\ TypeOK
    /\ AdmittedAlone
    /\ OneRunningJobPerSession
    /\ BlockingRowHasOwner
    /\ AbsentIsNotForced

-----------------------------------------------------------------------------
(***************************************************************************)
(* What a step does to the table: one lemma per operation.                 *)
(***************************************************************************)

\* An insert changes one absent row into a running one that was admitted.
LEMMA CreateStep ==
    ASSUME TypeOK, NEW j \in Job, Create(j)
    PROVE  \E row \in Row :
            /\ jobs[j].status = "absent"
            /\ jobs' = [jobs EXCEPT ![j] = row]
            /\ row.status = "running"
            /\ row.type = "review_gate" => ~row.forced
            /\ row.type # "review_gate" => row.pid # NoPid
            /\ UniqueIndexAllows(j, row)
            /\ Admits(j, row)
<1>1. PICK type \in CommandType, pid \in Pid, session \in Session \cup {NoSession},
           phase \in {"queued", "starting"}, forced \in BOOLEAN :
            CreateJob(j, NewRow(type, pid, session, phase, forced))
    BY DEF Create
<1> DEFINE row == NewRow(type, pid, session, phase, forced)
<1>2. row \in Row
    BY DEF NewRow, Row, Phase
<1>3. /\ row.status = "running"
      /\ row.type = "review_gate" => ~row.forced
      /\ row.type # "review_gate" => row.pid # NoPid
    BY NullsAreNoValues DEF NewRow
<1>4. /\ jobs[j].status = "absent"
      /\ UniqueIndexAllows(j, row)
      /\ Admits(j, row)
      /\ jobs' = [jobs EXCEPT ![j] = row]
    BY <1>1 DEF CreateJob
<1> QED
    BY <1>2, <1>3, <1>4

\* A claim gives a running row another owner.
LEMMA ClaimStep ==
    ASSUME TypeOK, NEW j \in Job, Claim(j)
    PROVE  \E pid \in Pid, phase \in Phase :
            /\ jobs[j].status = "running"
            /\ jobs' = [jobs EXCEPT ![j] = [jobs[j] EXCEPT !.pid = pid, !.phase = phase]]
<1>1. PICK pid \in Pid, phase \in {"worker-spawned", "worker-running"} :
            /\ IsRunning(j)
            /\ jobs' = [jobs EXCEPT ![j].pid = pid, ![j].phase = phase]
    BY DEF Claim, ClaimRunningJobPid, CanClaim
<1>2. phase \in Phase
    BY DEF Phase
<1>3. jobs' = [jobs EXCEPT ![j] = [jobs[j] EXCEPT !.pid = pid, !.phase = phase]]
    BY <1>1 DEF TypeOK
<1> QED
    BY <1>1, <1>2, <1>3 DEF IsRunning

\* An update changes the phase of a running row, or stores a session in it that
\* no other row of its key holds, or does nothing.
LEMMA UpdateStep ==
    ASSUME TypeOK, NEW j \in Job, Update(j)
    PROVE  \/ UNCHANGED jobs
           \/ /\ jobs[j].status = "running"
              /\ \/ \E phase \in Phase :
                      jobs' = [jobs EXCEPT ![j] = [jobs[j] EXCEPT !.phase = phase]]
                 \/ \E session \in Session :
                      /\ UniqueIndexAllows(j, [jobs[j] EXCEPT !.session = session])
                      /\ jobs' = [jobs EXCEPT ![j] = [jobs[j] EXCEPT !.session = session]]
<1>1. CASE UpdateRunningPhase(j, "turn-running")
    <2>1. "turn-running" \in Phase
        BY DEF Phase
    <2>2. jobs' = [jobs EXCEPT ![j] = [jobs[j] EXCEPT !.phase = "turn-running"]]
            \/ UNCHANGED jobs
        BY <1>1 DEF UpdateRunningPhase, TypeOK
    <2> QED
        BY <1>1, <2>1, <2>2 DEF UpdateRunningPhase, IsRunning
<1>2. ASSUME NEW session \in Session, UpdateRunningSession(j, session)
      PROVE  /\ jobs[j].status = "running"
             /\ UniqueIndexAllows(j, [jobs[j] EXCEPT !.session = session])
             /\ jobs' = [jobs EXCEPT ![j] = [jobs[j] EXCEPT !.session = session]]
    BY <1>2 DEF UpdateRunningSession, IsRunning, TypeOK
<1> QED
    BY <1>1, <1>2 DEF Update

\* Ending a job ends its row if that is running, and does nothing otherwise.
LEMMA EndStep ==
    ASSUME TypeOK, NEW j \in Job, End(j)
    PROVE  \/ UNCHANGED jobs
           \/ \E status \in Terminal :
                /\ jobs[j].status = "running"
                /\ jobs' = [jobs EXCEPT ![j] = EndedRow(jobs[j], status)]
BY DEF End, MarkEnded, IsRunning

-----------------------------------------------------------------------------
(***************************************************************************)
(* The invariants.  A lemma for each kind of change to one row.            *)
(***************************************************************************)

LEMMA InitIInv == Init => IInv
<1> SUFFICES ASSUME Init PROVE IInv
    OBVIOUS
<1>1. NoRow \in Row
    BY ModelTypes DEF NoRow, Row, CommandType, Phase
<1>2. TypeOK
    BY <1>1 DEF Init, TypeOK
<1>3. \A j \in Job : jobs[j].status = "absent" /\ ~jobs[j].forced
    BY DEF Init, NoRow
<1> QED
    BY <1>2, <1>3 DEF IInv, AdmittedAlone, OneRunningJobPerSession, BlockingRowHasOwner,
        AbsentIsNotForced, Blocking, Blocks, IsRunning

\* Inserting an admitted row.
LEMMA InsertKeepsIInv ==
    ASSUME IInv, NEW j \in Job, Create(j)
    PROVE  IInv'
<1> USE DEF IInv
<1>1. PICK row \in Row :
            /\ jobs[j].status = "absent"
            /\ jobs' = [jobs EXCEPT ![j] = row]
            /\ row.status = "running"
            /\ row.type = "review_gate" => ~row.forced
            /\ row.type # "review_gate" => row.pid # NoPid
            /\ UniqueIndexAllows(j, row)
            /\ Admits(j, row)
    BY CreateStep
<1>2. TypeOK'
    BY <1>1 DEF TypeOK
<1>3. /\ jobs'[j] = row
      /\ \A k \in Job \ {j} : jobs'[k] = jobs[k]
    BY <1>1 DEF TypeOK
<1>4. AdmittedAlone'
    <2> SUFFICES ASSUME NEW a \in Job, NEW b \in Job, a # b, Blocks(a)', Blocks(b)'
                 PROVE  jobs'[a].forced \/ jobs'[b].forced
        BY DEF AdmittedAlone, Blocking
    <2>1. CASE a # j /\ b # j
        BY <2>1, <1>3 DEF AdmittedAlone, Blocking, Blocks, IsRunning
    <2>2. ASSUME NEW k \in Job, k # j, Blocks(k)', row.type # "review_gate"
          PROVE  row.forced
        <3>1. k \in Blocking
            BY <2>2, <1>3 DEF Blocking, Blocks, IsRunning
        <3> QED
            BY <2>2, <3>1, <1>1 DEF Admits
    <2>3. CASE a = j \/ b = j
        BY <2>2, <2>3, <1>3 DEF Blocks
    <2> QED
        BY <2>1, <2>3
<1>5. OneRunningJobPerSession'
    <2> SUFFICES ASSUME NEW k \in Job, k # j, IsRunning(k),
                        row.type = jobs[k].type, row.type \in {"ask", "rescue"},
                        row.session = jobs[k].session, row.session # NoSession
                 PROVE  FALSE
        BY <1>3 DEF OneRunningJobPerSession, IsRunning
    <2> QED
        BY <1>1 DEF UniqueIndexAllows, SameKey, Indexed, IsRunning
<1>6. BlockingRowHasOwner'
    BY <1>1, <1>3 DEF BlockingRowHasOwner, Blocking, Blocks, IsRunning
<1>7. AbsentIsNotForced'
    BY <1>1, <1>3 DEF AbsentIsNotForced
<1> QED
    BY <1>2, <1>4, <1>5, <1>6, <1>7

\* A row that keeps its type, its session and the way it was admitted, and is
\* running only if it was: a claim, a new phase and an ending.
LEMMA ChangeKeepsIInv ==
    ASSUME IInv, NEW j \in Job, NEW row \in Row,
           jobs' = [jobs EXCEPT ![j] = row],
           jobs[j].status = "running",
           row.status # "absent",
           row.type = jobs[j].type,
           row.session = jobs[j].session,
           row.forced = jobs[j].forced,
           row.status = "running" /\ row.type # "review_gate" => row.pid # NoPid
    PROVE  IInv'
<1> USE DEF IInv
<1>1. TypeOK'
    BY DEF TypeOK
<1>2. /\ jobs'[j] = row
      /\ \A k \in Job \ {j} : jobs'[k] = jobs[k]
    BY DEF TypeOK
<1>3. \A k \in Job : IsRunning(k)' => /\ IsRunning(k)
                                      /\ jobs'[k].type = jobs[k].type
                                      /\ jobs'[k].session = jobs[k].session
                                      /\ jobs'[k].forced = jobs[k].forced
    BY <1>2 DEF IsRunning
<1>4. AdmittedAlone'
    BY <1>3 DEF AdmittedAlone, Blocking, Blocks
<1>5. OneRunningJobPerSession'
    BY <1>3 DEF OneRunningJobPerSession
<1>6. BlockingRowHasOwner'
    BY <1>2 DEF BlockingRowHasOwner, Blocking, Blocks, IsRunning
<1>7. AbsentIsNotForced'
    BY <1>2 DEF AbsentIsNotForced
<1> QED
    BY <1>1, <1>4, <1>5, <1>6, <1>7

\* Storing a session that the index allows.
LEMMA SessionKeepsIInv ==
    ASSUME IInv, NEW j \in Job, NEW session \in Session,
           jobs[j].status = "running",
           UniqueIndexAllows(j, [jobs[j] EXCEPT !.session = session]),
           jobs' = [jobs EXCEPT ![j] = [jobs[j] EXCEPT !.session = session]]
    PROVE  IInv'
<1> USE DEF IInv
<1> DEFINE row == [jobs[j] EXCEPT !.session = session]
<1>1. /\ row \in Row
      /\ row.status = "running"
      /\ row.type = jobs[j].type
      /\ row.session = session
      /\ row.forced = jobs[j].forced
      /\ row.pid = jobs[j].pid
    BY DEF TypeOK, Row
<1>2. /\ jobs'[j] = row
      /\ \A k \in Job \ {j} : jobs'[k] = jobs[k]
    BY DEF TypeOK
<1>3. UniqueIndexAllows(j, row)
    OBVIOUS
<1> HIDE DEF row
<1>4. TypeOK'
    BY <1>1, <1>2 DEF TypeOK
<1>5. \A k \in Job : /\ IsRunning(k)' <=> IsRunning(k)
                     /\ jobs'[k].type = jobs[k].type
                     /\ jobs'[k].forced = jobs[k].forced
                     /\ jobs'[k].pid = jobs[k].pid
    BY <1>1, <1>2 DEF IsRunning
<1>6. AdmittedAlone'
    BY <1>5 DEF AdmittedAlone, Blocking, Blocks
<1>7. OneRunningJobPerSession'
    <2> SUFFICES ASSUME NEW k \in Job, k # j, IsRunning(k),
                        row.type = jobs[k].type, row.type \in {"ask", "rescue"},
                        row.session = jobs[k].session, row.session # NoSession
                 PROVE  FALSE
        BY <1>1, <1>2, <1>5 DEF OneRunningJobPerSession, IsRunning
    <2> QED
        BY <1>1, <1>3 DEF UniqueIndexAllows, SameKey, Indexed, IsRunning
<1>8. BlockingRowHasOwner'
    BY <1>5 DEF BlockingRowHasOwner, Blocking, Blocks
<1>9. AbsentIsNotForced'
    BY <1>1, <1>2 DEF AbsentIsNotForced
<1> QED
    BY <1>4, <1>6, <1>7, <1>8, <1>9

\* A step of the table, sorted by what it does to the rows.
LEMMA StepCases ==
    ASSUME TypeOK, NEW j \in Job, Create(j) \/ Claim(j) \/ Update(j) \/ End(j)
    PROVE  \/ UNCHANGED jobs
           \/ Create(j)
           \/ /\ jobs[j].status = "running"
              /\ \/ \E row \in Row :
                      /\ jobs' = [jobs EXCEPT ![j] = row]
                      /\ row.status # "absent"
                      /\ row.type = jobs[j].type
                      /\ row.session = jobs[j].session
                      /\ row.forced = jobs[j].forced
                      /\ row.status = "running" => row.pid # NoPid \/ row.pid = jobs[j].pid
                 \/ \E session \in Session :
                      /\ UniqueIndexAllows(j, [jobs[j] EXCEPT !.session = session])
                      /\ jobs' = [jobs EXCEPT ![j] = [jobs[j] EXCEPT !.session = session]]
<1> DEFINE Changed(row) ==
        /\ jobs' = [jobs EXCEPT ![j] = row]
        /\ row.status # "absent"
        /\ row.type = jobs[j].type
        /\ row.session = jobs[j].session
        /\ row.forced = jobs[j].forced
        /\ row.status = "running" => row.pid # NoPid \/ row.pid = jobs[j].pid
<1>0. jobs[j] \in Row
    BY DEF TypeOK
<1>1. CASE Claim(j)
    <2>1. PICK pid \in Pid, phase \in Phase :
                /\ jobs[j].status = "running"
                /\ jobs' = [jobs EXCEPT ![j] = [jobs[j] EXCEPT !.pid = pid, !.phase = phase]]
        BY <1>1, ClaimStep
    <2>2. [jobs[j] EXCEPT !.pid = pid, !.phase = phase] \in Row
        BY <1>0 DEF Row
    <2>3. Changed([jobs[j] EXCEPT !.pid = pid, !.phase = phase])
        BY <1>0, <2>1, NullsAreNoValues DEF Row
    <2> QED
        BY <2>1, <2>2, <2>3
<1>2. CASE Update(j)
    <2>1. ASSUME jobs[j].status = "running", NEW phase \in Phase,
                 jobs' = [jobs EXCEPT ![j] = [jobs[j] EXCEPT !.phase = phase]]
          PROVE  \E row \in Row : Changed(row)
        <3>1. [jobs[j] EXCEPT !.phase = phase] \in Row
            BY <1>0 DEF Row
        <3>2. Changed([jobs[j] EXCEPT !.phase = phase])
            BY <1>0, <2>1 DEF Row
        <3> QED
            BY <3>1, <3>2
    <2> QED
        BY <1>2, <2>1, UpdateStep
<1>3. CASE End(j)
    <2>1. ASSUME NEW status \in Terminal, jobs[j].status = "running",
                 jobs' = [jobs EXCEPT ![j] = EndedRow(jobs[j], status)]
          PROVE  \E row \in Row : Changed(row)
        <3>1. EndedRow(jobs[j], status) \in Row
            BY <1>0 DEF Row, EndedRow, Phase
        <3>2. Changed(EndedRow(jobs[j], status))
            BY <1>0, <2>1 DEF Row, EndedRow, Terminal
        <3> QED
            BY <3>1, <3>2
    <2> QED
        BY <1>3, <2>1, EndStep
<1> QED
    BY <1>1, <1>2, <1>3

LEMMA NextKeepsIInv == IInv /\ [Next]_jobs => IInv'
<1> SUFFICES ASSUME IInv, [Next]_jobs PROVE IInv'
    OBVIOUS
<1>1. CASE UNCHANGED jobs
    BY <1>1 DEF IInv, TypeOK, AdmittedAlone, OneRunningJobPerSession, BlockingRowHasOwner,
        AbsentIsNotForced, Blocking, Blocks, IsRunning
<1>2. ASSUME NEW j \in Job, Create(j) \/ Claim(j) \/ Update(j) \/ End(j), jobs' # jobs
      PROVE  IInv'
    <2>1. CASE Create(j)
        BY <2>1, InsertKeepsIInv
    <2>2. ASSUME jobs[j].status = "running", NEW row \in Row,
                 jobs' = [jobs EXCEPT ![j] = row],
                 row.status # "absent",
                 row.type = jobs[j].type,
                 row.session = jobs[j].session,
                 row.forced = jobs[j].forced,
                 row.status = "running" => row.pid # NoPid \/ row.pid = jobs[j].pid
          PROVE  IInv'
        <3>1. row.status = "running" /\ row.type # "review_gate" => row.pid # NoPid
            BY <2>2 DEF IInv, BlockingRowHasOwner, Blocking, Blocks, IsRunning
        <3> QED
            BY <2>2, <3>1, ChangeKeepsIInv
    <2>3. ASSUME jobs[j].status = "running", NEW session \in Session,
                 UniqueIndexAllows(j, [jobs[j] EXCEPT !.session = session]),
                 jobs' = [jobs EXCEPT ![j] = [jobs[j] EXCEPT !.session = session]]
          PROVE  IInv'
        BY <2>3, SessionKeepsIInv
    <2>4. TypeOK
        BY DEF IInv
    <2> QED
        BY <1>2, <2>1, <2>2, <2>3, <2>4, StepCases
<1> QED
    BY <1>1, <1>2 DEF Next

-----------------------------------------------------------------------------
(***************************************************************************)
(* The theorems.                                                           *)
(***************************************************************************)

\* The inductive invariant holds in every reachable table.
THEOREM Invariance == Spec => []IInv
<1>1. Init => IInv
    BY InitIInv
<1>2. IInv /\ [Next]_jobs => IInv'
    BY NextKeepsIInv
<1> QED
    BY <1>1, <1>2, PTL DEF Spec

\* Every row has its type.
THEOREM TypeCorrect == Spec => []TypeOK
<1>1. IInv => TypeOK
    BY DEF IInv
<1> QED
    BY <1>1, Invariance, PTL

\* Of two model jobs that run at once, one was let in by --allow-concurrent.
THEOREM Admission == Spec => []AdmittedAlone
<1>1. IInv => AdmittedAlone
    BY DEF IInv
<1> QED
    BY <1>1, Invariance, PTL

\* One running rescue, and one running ask, per kimi session.
THEOREM SessionLock == Spec => []OneRunningJobPerSession
<1>1. IInv => OneRunningJobPerSession
    BY DEF IInv
<1> QED
    BY <1>1, Invariance, PTL

\* A row that blocks others names a process that can be looked at.
THEOREM OwnedRows == Spec => []BlockingRowHasOwner
<1>1. IInv => BlockingRowHasOwner
    BY DEF IInv
<1> QED
    BY <1>1, Invariance, PTL

\* A row that has ended is never changed.
THEOREM Frozen == Spec => EndedRowsAreFrozen
<1>1. IInv /\ [Next]_jobs => [\A j \in Job : Ended(j) => jobs'[j] = jobs[j]]_jobs
    <2> SUFFICES ASSUME IInv, NEW j \in Job, NEW k \in Job, Ended(k),
                        Create(j) \/ Claim(j) \/ Update(j) \/ End(j)
                 PROVE  jobs'[k] = jobs[k]
        BY DEF Next
    <2>1. TypeOK
        BY DEF IInv
    <2>2. CASE k = j
        BY <2>1, <2>2, StepCases, CreateStep DEF Ended, Terminal
    <2>3. CASE k # j
        BY <2>1, <2>3, StepCases, CreateStep DEF TypeOK
    <2> QED
        BY <2>2, <2>3
<1> QED
    BY <1>1, Invariance, PTL DEF Spec, EndedRowsAreFrozen

-----------------------------------------------------------------------------
(***************************************************************************)
(* The table implements the slot.                                          *)
(***************************************************************************)

Left == {j \in Job : Ended(j) /\ jobs[j].type # "review_gate"}

Beside == {j \in Job : jobs[j].forced}

\* A step that changes neither of the three sets is a stutter of the slot.
SlotUnchanged == Blocking' = Blocking /\ Left' = Left /\ Beside' = Beside

\* An insert takes the slot if it was free, takes a place beside its holders if
\* it was forced, and leaves it alone if it is the review gate's.
LEMMA CreateTakesSlot ==
    ASSUME IInv, NEW j \in Job, Create(j)
    PROVE  Slot!Acquire(j) \/ Slot!AcquireBeside(j) \/ SlotUnchanged
<1>1. TypeOK /\ AbsentIsNotForced
    BY DEF IInv
<1>2. PICK row \in Row :
            /\ jobs[j].status = "absent"
            /\ jobs' = [jobs EXCEPT ![j] = row]
            /\ row.status = "running"
            /\ row.type = "review_gate" => ~row.forced
            /\ Admits(j, row)
    BY <1>1, CreateStep
<1>3. /\ jobs'[j] = row
      /\ \A k \in Job \ {j} : jobs'[k] = jobs[k]
    BY <1>1, <1>2 DEF TypeOK
<1>4. /\ j \notin Blocking
      /\ j \notin Left
      /\ j \notin Beside
    BY <1>1, <1>2 DEF Blocking, Blocks, IsRunning, Left, Ended, Terminal, Beside,
        AbsentIsNotForced
<1>5. Blocking' = IF row.type = "review_gate" THEN Blocking ELSE Blocking \cup {j}
    BY <1>2, <1>3, <1>4 DEF Blocking, Blocks, IsRunning
<1>6. Left' = Left
    BY <1>2, <1>3, <1>4 DEF Left, Ended, Terminal
<1>7. Beside' = IF row.forced THEN Beside \cup {j} ELSE Beside
    <2>1. row.forced \in BOOLEAN
        BY DEF Row
    <2>2. \A k \in Job : k \in Beside' <=> jobs'[k].forced
        BY DEF Beside
    <2>3. \A k \in Job : k \in Beside <=> jobs[k].forced
        BY DEF Beside
    <2>4. Beside' \subseteq Job /\ Beside \subseteq Job
        BY DEF Beside
    <2>5. \A k \in Job \ {j} : k \in Beside' <=> k \in Beside
        BY <1>3, <2>2, <2>3
    <2>6. j \in Beside' <=> row.forced
        BY <1>3, <2>2
    <2> HIDE DEF Beside
    <2> QED
        BY <1>4, <2>1, <2>4, <2>5, <2>6
<1>8. CASE row.type = "review_gate"
    BY <1>2, <1>5, <1>6, <1>7, <1>8 DEF SlotUnchanged
<1>9. CASE row.type # "review_gate" /\ row.forced
    BY <1>4, <1>5, <1>6, <1>7, <1>9 DEF Slot!AcquireBeside, Left, Beside
<1>10. CASE row.type # "review_gate" /\ ~row.forced
    <2>1. Blocking = {}
        BY <1>2, <1>4, <1>10 DEF Admits
    <2> QED
        BY <1>4, <1>5, <1>6, <1>7, <1>10, <2>1 DEF Slot!Acquire, Left, Beside
<1> QED
    BY <1>8, <1>9, <1>10

\* A change of a running row frees the slot if it ends the row of a model job,
\* and leaves the slot alone otherwise.
LEMMA ChangeLeavesSlot ==
    ASSUME TypeOK, NEW j \in Job, NEW row \in Row,
           jobs' = [jobs EXCEPT ![j] = row],
           jobs[j].status = "running",
           row.status # "absent",
           row.type = jobs[j].type,
           row.forced = jobs[j].forced
    PROVE  Slot!Leave(j) \/ SlotUnchanged
<1>1. /\ jobs'[j] = row
      /\ \A k \in Job \ {j} : jobs'[k] = jobs[k]
    BY DEF TypeOK
<1>2. row.status \in {"running"} \cup Terminal /\ "running" \notin Terminal
    BY DEF Row, Terminal
<1>3. Beside' = Beside
    BY <1>1 DEF Beside
<1>4. CASE row.status = "running" \/ row.type = "review_gate"
    <2>1. Blocking' = Blocking
        BY <1>1, <1>4 DEF Blocking, Blocks, IsRunning
    <2>2. Left' = Left
        BY <1>1, <1>2, <1>4 DEF Left, Ended
    <2> QED
        BY <1>3, <2>1, <2>2 DEF SlotUnchanged
<1>5. CASE row.status \in Terminal /\ row.type # "review_gate"
    <2>1. j \in Blocking
        BY <1>5 DEF Blocking, Blocks, IsRunning
    <2>2. Blocking' = Blocking \ {j}
        BY <1>1, <1>2, <1>5 DEF Blocking, Blocks, IsRunning
    <2>3. Left' = Left \cup {j}
        BY <1>1, <1>2, <1>5 DEF Left, Ended
    <2> QED
        BY <1>3, <2>1, <2>2, <2>3 DEF Slot!Leave, Left, Beside
<1> QED
    BY <1>2, <1>4, <1>5

\* The store promises the slot: one model job at a time, save those that
\* --allow-concurrent let in beside it, and no job comes back.
THEOREM Implementation == Spec => ImplementsSlot
<1>1. Init => Slot!Init
    BY DEF Init, NoRow, Slot!Init, Blocking, Blocks, IsRunning, Ended, Terminal
<1>2. IInv /\ [Next]_jobs => [Slot!Next]_(Slot!slotVars)
    <2> SUFFICES ASSUME IInv, [Next]_jobs
                 PROVE  (\E j \in Job : Slot!Acquire(j) \/ Slot!AcquireBeside(j) \/ Slot!Leave(j))
                        \/ SlotUnchanged
        BY DEF Slot!Next, Slot!slotVars, SlotUnchanged, Left, Beside
    <2>1. CASE UNCHANGED jobs
        BY <2>1 DEF SlotUnchanged, Blocking, Blocks, IsRunning, Left, Ended, Beside
    <2>2. ASSUME NEW j \in Job, Create(j) \/ Claim(j) \/ Update(j) \/ End(j), jobs' # jobs
          PROVE  Slot!Acquire(j) \/ Slot!AcquireBeside(j) \/ Slot!Leave(j) \/ SlotUnchanged
        <3>1. TypeOK
            BY DEF IInv
        <3>2. CASE Create(j)
            BY <3>2, CreateTakesSlot
        <3>3. ASSUME NEW session \in Session
              PROVE  LET row == [jobs[j] EXCEPT !.session = session]
                     IN  /\ row \in Row
                         /\ row.status = jobs[j].status
                         /\ row.type = jobs[j].type
                         /\ row.forced = jobs[j].forced
            BY <3>1 DEF TypeOK, Row
        <3>4. ASSUME jobs[j].status = "running", NEW session \in Session,
                     jobs' = [jobs EXCEPT ![j] = [jobs[j] EXCEPT !.session = session]]
              PROVE  Slot!Leave(j) \/ SlotUnchanged
            BY <3>1, <3>3, <3>4, ChangeLeavesSlot
        <3> QED
            BY <2>2, <3>1, <3>2, <3>4, StepCases, ChangeLeavesSlot
    <2> QED
        BY <2>1, <2>2 DEF Next
<1> QED
    BY <1>1, <1>2, Invariance, PTL DEF Spec, Slot!Spec, ImplementsSlot
==============================================================================
