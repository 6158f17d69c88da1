--------------------------- MODULE ConfigLock_proofs ---------------------------
(***************************************************************************)
(* Proofs about the lock of config.toml, for any number of setups, of dead *)
(* processes before them and of recovery attempts.                         *)
(*                                                                         *)
(* Mutual exclusion rests on two files at once.  A recoverer takes a file  *)
(* off the public path by its name, not by its identity, so it has to be   *)
(* known that the file there is still the stale one; that is so because no *)
(* other recoverer of it is at work, because the lease at its recovery     *)
(* path is this recoverer's; and that is so because leases are removed by  *)
(* their owner, or by somebody who found a dead owner's.                   *)
(***************************************************************************)
EXTENDS ConfigLock, TLAPS

\* Where a process has a lease, and where it has the lock.
Leased == {"LeaseHeld", "LeaseChecked", "Steal", "Return", "ReturnRename",
           "Fail", "FailRename"}
Owning == {"Verify", "Inside", "Release", "ReleaseRename"}

\* A recoverer, and who claims a lease, goes by the file of a dead process.
SeenIsDead ==
    \A p \in Pids : pc[p] \in Leased \cup {"Claim"} =>
        seen[p] \in Pids /\ pc[seen[p]] = "Gone"
ClaimIsOfDead ==
    \A p \in Pids : claim[p] # NoLease =>
        claim[p][1] \in Pids /\ pc[claim[p][1]] = "Gone"

\* The bound: an attempt that has not begun is one of MaxLeases.
AttemptsLeft ==
    \A p \in Pids :
        /\ pc[p] = "Claim" => tries[p] < MaxLeases
        /\ pc[p] \in Leased => tries[p] > 0

\* The lease at the recovery path is that of the one recoverer.
LeaseIsKept ==
    raced \/ \A p \in Pids : pc[p] \in Leased => LeaseAt(p) = MyLease(p)

\* The file it renames is the stale one.
StealsStale == raced \/ \A p \in Pids : pc[p] = "Steal" => lock = seen[p]

\* Who has taken the lock has it.
LockIsKept == raced \/ \A p \in Pids : pc[p] \in Owning => lock = p

IInv ==
    /\ TypeOK
    /\ SeenIsDead /\ ClaimIsOfDead /\ AttemptsLeft
    /\ LeaseIsKept /\ StealsStale /\ LockIsKept

-----------------------------------------------------------------------------
\* No two recoverers of one file, and a lease is of one process.
LEMMA OneLeasePerFile ==
    ASSUME IInv, ~raced, NEW p \in Pids, NEW q \in Pids,
           pc[p] \in Leased, pc[q] \in Leased, seen[p] = seen[q]
    PROVE  p = q
BY DEF IInv, LeaseIsKept, LeaseAt, MyLease, LeaseFile

\* The dead stay dead.
LEMMA DeadStayDead ==
    ASSUME TypeOK, [Next]_vars, NEW p \in Pids, pc[p] = "Gone"
    PROVE  pc'[p] = "Gone"
<1>1. CASE UNCHANGED vars
    BY <1>1 DEF vars
<1>2. ASSUME NEW q \in Procs, Start(q) \/ Step(q) \/ TimeOut(q) \/ Crash(q)
      PROVE  pc'[p] = "Gone"
    <2> USE DEF TypeOK, Goto, Pids
    <2>1. CASE Start(q) \/ TimeOut(q) \/ Crash(q)
        BY <2>1 DEF Start, TimeOut, Crash
    <2>2. CASE Acquire(q) \/ FindStale(q) \/ Verify(q) \/ Leave(q) \/ LookAtLock(q) \/ ReleaseLock(q)
        BY <2>2 DEF Acquire, FindStale, Verify, Leave, LookAtLock, ReleaseLock
    <2>3. CASE TakeLease(q) \/ FindLease(q) \/ RemoveLease(q) \/ CheckLease(q) \/ Recheck(q) \/ Steal(q)
        BY <2>3 DEF TakeLease, FindLease, RemoveLease, CheckLease, Recheck, Steal
    <2>4. CASE LookAtLease(q) \/ ReturnLease(q)
        BY <2>4 DEF LookAtLease, ReturnLease
    <2> QED
        BY <1>2, <2>1, <2>2, <2>3, <2>4 DEF Step, Recover
<1> QED
    BY <1>1, <1>2 DEF Next

-----------------------------------------------------------------------------
(***************************************************************************)
(* Every action keeps IInv.                                                *)
(***************************************************************************)

LEMMA InitIInv == Init => IInv
<1> SUFFICES ASSUME Init PROVE IInv
    OBVIOUS
<1> USE ProcsAssumption, LeaseAssumption DEF Init, Pids
<1>1. TypeOK
    <2>1. lock \in Pids \cup {None} /\ seen \in [Pids -> Pids \cup {None}] /\ raced \in BOOLEAN
        OBVIOUS
    <2>2. lease \in [Pids -> LeaseFiles] /\ claim \in [Pids -> LeaseFiles]
        BY DEF LeaseFiles
    <2>3. pc \in [Pids -> States] /\ tries \in [Pids -> 0 .. MaxLeases]
        BY DEF States
    <2> QED
        BY <2>1, <2>2, <2>3 DEF TypeOK
<1>2. SeenIsDead /\ ClaimIsOfDead /\ AttemptsLeft
    BY DEF SeenIsDead, ClaimIsOfDead, AttemptsLeft, Leased
<1>3. LeaseIsKept /\ StealsStale /\ LockIsKept
    BY DEF LeaseIsKept, StealsStale, LockIsKept, Leased, Owning
<1> QED
    BY <1>1, <1>2, <1>3 DEF IInv

\* Steps that only go on: no file is touched.
Moves(p) ==
    \/ Start(p) \/ TimeOut(p) \/ Crash(p) \/ Verify(p) \/ Leave(p) \/ LookAtLock(p)
    \/ CheckLease(p) \/ Recheck(p) \/ LookAtLease(p)

LEMMA MovesKeepIInv ==
    ASSUME IInv, NEW p \in Procs, Moves(p), [Next]_vars
    PROVE  IInv'
<1> USE DEF IInv, Moves, Start, TimeOut, Crash, Verify, Leave, LookAtLock, CheckLease,
        Recheck, LookAtLease, Goto
<1>0. p \in Pids /\ \A q \in Pids : pc[q] = "Gone" => pc'[q] = "Gone"
    BY DeadStayDead DEF Pids
<1>1. TypeOK'
    BY <1>0 DEF TypeOK, States
<1>2. SeenIsDead'
    BY <1>0 DEF TypeOK, SeenIsDead, Leased
<1>3. ClaimIsOfDead'
    BY <1>0 DEF TypeOK, ClaimIsOfDead
<1>4. AttemptsLeft'
    BY <1>0 DEF TypeOK, AttemptsLeft, Leased
<1>5. LeaseIsKept'
    BY <1>0 DEF TypeOK, LeaseIsKept, Leased, LeaseAt, MyLease
<1>6. StealsStale'
    BY <1>0 DEF TypeOK, StealsStale
<1>7. LockIsKept'
    BY <1>0 DEF TypeOK, LockIsKept, Owning
<1> QED
    BY <1>1, <1>2, <1>3, <1>4, <1>5, <1>6, <1>7

LEMMA LockStepsKeepIInv ==
    ASSUME IInv, NEW p \in Procs, Acquire(p) \/ Steal(p) \/ ReleaseLock(p), [Next]_vars
    PROVE  IInv'
<1> USE DEF IInv, Acquire, Steal, ReleaseLock, Goto
<1>0. p \in Pids /\ None \notin Pids /\ \A q \in Pids : pc[q] = "Gone" => pc'[q] = "Gone"
    BY DeadStayDead, ProcsAssumption DEF Pids
<1>1. TypeOK'
    BY <1>0 DEF TypeOK, States
<1>2. SeenIsDead'
    BY <1>0 DEF TypeOK, SeenIsDead, Leased
<1>3. ClaimIsOfDead'
    BY <1>0 DEF TypeOK, ClaimIsOfDead
<1>4. AttemptsLeft'
    BY <1>0 DEF TypeOK, AttemptsLeft, Leased
<1>5. LeaseIsKept'
    BY <1>0 DEF TypeOK, LeaseIsKept, Leased, LeaseAt, MyLease
<1>6. StealsStale'
    <2> SUFFICES ASSUME ~raced, NEW q \in Pids, pc'[q] = "Steal"
                 PROVE  lock' = seen'[q]
        BY DEF StealsStale
    <2>1. pc[q] = "Steal" /\ q # p /\ lock = seen[q] /\ seen[q] \in Pids /\ pc[seen[q]] = "Gone"
        BY <1>0 DEF TypeOK, StealsStale, SeenIsDead, Leased
    <2>2. CASE Acquire(p)
        BY <1>0, <2>1, <2>2
    <2>3. CASE Steal(p)
        <3>1. lock = seen[p]
            BY <1>0, <2>3 DEF StealsStale
        <3> QED
            BY <1>0, <2>1, <2>3, <3>1, OneLeasePerFile DEF Leased
    <2>4. CASE ReleaseLock(p)
        BY <1>0, <2>1, <2>4 DEF LockIsKept, Owning
    <2> QED
        BY <2>2, <2>3, <2>4
<1>7. LockIsKept'
    <2> SUFFICES ASSUME ~raced, NEW q \in Pids, pc'[q] \in Owning
                 PROVE  lock' = q
        BY DEF LockIsKept
    <2>1. CASE Acquire(p)
        BY <1>0, <2>1 DEF TypeOK, LockIsKept, Owning
    <2>2. CASE Steal(p)
        <3>1. lock = seen[p] /\ pc[seen[p]] = "Gone"
            BY <1>0, <2>2 DEF StealsStale, SeenIsDead, Leased
        <3> QED
            BY <1>0, <2>2, <3>1 DEF TypeOK, LockIsKept, Owning
    <2>3. CASE ReleaseLock(p)
        BY <1>0, <2>3 DEF TypeOK, LockIsKept, Owning
    <2> QED
        BY <2>1, <2>2, <2>3
<1> QED
    BY <1>1, <1>2, <1>3, <1>4, <1>5, <1>6, <1>7

\* A lease file is of a process and is none of the null ones.
LEMMA LeaseFilesAre ==
    ASSUME NEW q \in Pids, NEW n \in 1 .. MaxLeases
    PROVE  LeaseFile(q, n) \in LeaseFiles /\ LeaseFile(q, n) # NoLease
           /\ LeaseFile(q, n)[1] = q
BY ProcsAssumption DEF LeaseFile, LeaseFiles, NoLease, Pids

LEMMA FindsKeepIInv ==
    ASSUME IInv, NEW p \in Procs, FindStale(p) \/ FindLease(p), [Next]_vars
    PROVE  IInv'
<1> USE DEF IInv, FindStale, FindLease, Goto, Stale, Alive
<1>0. p \in Pids /\ \A q \in Pids : pc[q] = "Gone" => pc'[q] = "Gone"
    BY DeadStayDead DEF Pids
<1>1. TypeOK'
    <2>1. CASE FindStale(p)
        BY <1>0, <2>1 DEF TypeOK, States
    <2>2. CASE FindLease(p)
        <3>1. LeaseAt(p) \in LeaseFiles
            BY <1>0, <2>2 DEF TypeOK, LeaseAt, SeenIsDead
        <3>2. claim' \in [Pids -> LeaseFiles]
            BY <1>0, <2>2, <3>1 DEF TypeOK
        <3>3. pc' \in [Pids -> States]
            BY <1>0, <2>2 DEF TypeOK, States
        <3> QED
            BY <2>2, <3>2, <3>3 DEF TypeOK
    <2> QED
        BY <2>1, <2>2
<1>2. SeenIsDead'
    BY <1>0 DEF TypeOK, SeenIsDead, Leased
<1>3. ClaimIsOfDead'
    <2>1. CASE FindStale(p)
        BY <1>0, <2>1 DEF TypeOK, ClaimIsOfDead
    <2>2. CASE FindLease(p)
        <3>1. LeaseAt(p) \in Pids \X (1 .. MaxLeases)
            BY <1>0, <2>2 DEF TypeOK, LeaseFiles, LeaseAt, SeenIsDead
        <3> QED
            BY <1>0, <2>2, <3>1 DEF TypeOK, ClaimIsOfDead
    <2> QED
        BY <2>1, <2>2
<1>4. AttemptsLeft'
    BY <1>0 DEF TypeOK, AttemptsLeft, Leased
<1>5. LeaseIsKept'
    BY <1>0 DEF TypeOK, LeaseIsKept, Leased, LeaseAt, MyLease
<1>6. StealsStale'
    BY <1>0 DEF TypeOK, StealsStale
<1>7. LockIsKept'
    BY <1>0 DEF TypeOK, LockIsKept, Owning
<1> QED
    BY <1>1, <1>2, <1>3, <1>4, <1>5, <1>6, <1>7

LEMMA TakeLeaseKeepsIInv ==
    ASSUME IInv, NEW p \in Procs, TakeLease(p), [Next]_vars
    PROVE  IInv'
<1> USE DEF IInv, TakeLease, Goto
<1>0. p \in Pids /\ \A q \in Pids : pc[q] = "Gone" => pc'[q] = "Gone"
    BY DeadStayDead DEF Pids
<1>1. tries[p] + 1 \in 1 .. MaxLeases /\ seen[p] \in Pids
    BY <1>0, LeaseAssumption DEF TypeOK, AttemptsLeft, SeenIsDead
<1>2. TypeOK'
    BY <1>0, <1>1, LeaseFilesAre DEF TypeOK, States
<1>3. SeenIsDead'
    BY <1>0 DEF TypeOK, SeenIsDead, Leased
<1>4. ClaimIsOfDead'
    BY <1>0 DEF TypeOK, ClaimIsOfDead
<1>5. AttemptsLeft'
    BY <1>0, <1>1 DEF TypeOK, AttemptsLeft, Leased
<1>6. LeaseIsKept'
    <2> SUFFICES ASSUME ~raced, NEW q \in Pids, pc'[q] \in Leased
                 PROVE  LeaseAt(q)' = MyLease(q)'
        BY DEF LeaseIsKept
    <2>1. CASE q = p
        BY <1>0, <1>1, <2>1 DEF TypeOK, LeaseAt, MyLease
    <2>2. CASE q # p
        <3>1. pc[q] \in Leased /\ LeaseAt(q) = MyLease(q) /\ tries[q] \in 1 .. MaxLeases
            BY <1>0, <2>2 DEF TypeOK, LeaseIsKept, AttemptsLeft
        <3>2. seen[q] # seen[p]
            BY <3>1, LeaseFilesAre DEF LeaseAt, MyLease
        <3> QED
            BY <1>0, <2>2, <3>1, <3>2 DEF TypeOK, LeaseAt, MyLease
    <2> QED
        BY <2>1, <2>2
<1>7. StealsStale'
    BY <1>0 DEF TypeOK, StealsStale
<1>8. LockIsKept'
    BY <1>0 DEF TypeOK, LockIsKept, Owning
<1> QED
    BY <1>2, <1>3, <1>4, <1>5, <1>6, <1>7, <1>8

\* A lease leaves its path: its owner returns it, or somebody removes a dead one's.
LEMMA LeaseLeavesKeepIInv ==
    ASSUME IInv, NEW p \in Procs, RemoveLease(p) \/ ReturnLease(p), [Next]_vars
    PROVE  IInv'
<1> USE DEF IInv, RemoveLease, ReturnLease, Goto
<1>0. p \in Pids /\ NoLease \in LeaseFiles /\ \A q \in Pids : pc[q] = "Gone" => pc'[q] = "Gone"
    BY DeadStayDead DEF Pids, LeaseFiles
<1>1. TypeOK'
    <2>1. lease' \in [Pids -> LeaseFiles]
        BY <1>0 DEF TypeOK
    <2>2. claim' \in [Pids -> LeaseFiles]
        BY <1>0 DEF TypeOK
    <2>3. pc' \in [Pids -> States]
        BY <1>0 DEF TypeOK, States
    <2>4. raced' \in BOOLEAN
        BY <1>0 DEF TypeOK
    <2>5. UNCHANGED <<lock, seen, tries>>
        OBVIOUS
    <2> QED
        BY <2>1, <2>2, <2>3, <2>4, <2>5 DEF TypeOK
<1>2. SeenIsDead'
    BY <1>0 DEF TypeOK, SeenIsDead, Leased
<1>3. ClaimIsOfDead'
    BY <1>0 DEF TypeOK, ClaimIsOfDead
<1>4. AttemptsLeft'
    BY <1>0 DEF TypeOK, AttemptsLeft, Leased
<1>5. LeaseIsKept'
    <2> SUFFICES ASSUME ~raced', NEW q \in Pids, pc'[q] \in Leased
                 PROVE  LeaseAt(q)' = MyLease(q)'
        BY DEF LeaseIsKept
    <2>1. ~raced /\ q # p /\ pc[q] \in Leased
        BY <1>0 DEF TypeOK, Leased
    <2>2. LeaseAt(q) = MyLease(q) /\ tries[q] \in 1 .. MaxLeases /\ pc[q] # "Gone"
        BY <2>1 DEF TypeOK, LeaseIsKept, AttemptsLeft, Leased
    <2>3. seen[q] # seen[p]
        <3>1. CASE RemoveLease(p)
            <4>1. claim[p][1] # q
                BY <1>0, <2>2, <3>1 DEF ClaimIsOfDead
            <4>2. LeaseAt(p) \in {claim[p], NoLease}
                BY <2>1, <3>1 DEF TypeOK
            <4> QED
                BY <2>2, <4>1, <4>2, LeaseFilesAre DEF LeaseAt, MyLease
        <3>2. CASE ReturnLease(p)
            BY <1>0, <2>1, <3>2, OneLeasePerFile DEF Leased
        <3> QED
            BY <3>1, <3>2
    <2>4. seen' = seen /\ tries' = tries /\ lease' = [lease EXCEPT ![seen[p]] = NoLease]
        OBVIOUS
    <2>5. seen[q] \in Pids
        BY <2>1 DEF SeenIsDead
    <2>6. lease'[seen[q]] = lease[seen[q]]
        BY <2>3, <2>4, <2>5 DEF TypeOK
    <2> QED
        BY <2>2, <2>4, <2>6 DEF LeaseAt, MyLease
<1>6. StealsStale'
    BY <1>0 DEF TypeOK, StealsStale
<1>7. LockIsKept'
    BY <1>0 DEF TypeOK, LockIsKept, Owning
<1> QED
    BY <1>1, <1>2, <1>3, <1>4, <1>5, <1>6, <1>7

LEMMA NextKeepsIInv == IInv /\ [Next]_vars => IInv'
<1> SUFFICES ASSUME IInv, [Next]_vars PROVE IInv'
    OBVIOUS
<1>1. CASE UNCHANGED vars
    BY <1>1 DEF vars, IInv, TypeOK, SeenIsDead, ClaimIsOfDead, AttemptsLeft, LeaseIsKept,
        StealsStale, LockIsKept, LeaseAt, MyLease
<1>2. ASSUME NEW p \in Procs, Start(p) \/ Step(p) \/ TimeOut(p) \/ Crash(p)
      PROVE  IInv'
    BY <1>2, MovesKeepIInv, LockStepsKeepIInv, FindsKeepIInv, TakeLeaseKeepsIInv,
        LeaseLeavesKeepIInv DEF Step, Recover, Moves
<1> QED
    BY <1>1, <1>2 DEF Next

LEMMA Invariance == Spec => []IInv
BY InitIInv, NextKeepsIInv, PTL DEF Spec

-----------------------------------------------------------------------------
(***************************************************************************)
(* What the runs check, for every number of processes.                     *)
(***************************************************************************)

\* The lock, the leases and what a setup remembers of them always have their
\* types (withKimiConfigLock).
THEOREM TypeCorrect == Spec => []TypeOK
<1>1. IInv => TypeOK
    BY DEF IInv
<1> QED
    BY <1>1, Invariance, PTL

\* Two setups are never inside their read-modify-write at once, however many
\* come, die and recover one another's lock (withKimiConfigLock).
THEOREM Exclusion == Spec => []MutualExclusion
<1>1. IInv => MutualExclusion
    BY DEF IInv, LockIsKept, MutualExclusion, Owning, Pids
<1> QED
    BY <1>1, Invariance, PTL

\* Two recoverers never stand before the rename of the public path at once
\* (tryRecoverStaleLock).
THEOREM SingleRecoverer == Spec => []OneRecoverer
<1>1. IInv => OneRecoverer
    <2> SUFFICES ASSUME IInv, ~raced, NEW p \in Procs, NEW q \in Procs,
                        pc[p] = "Steal", pc[q] = "Steal"
                 PROVE  p = q
        BY DEF OneRecoverer
    <2>1. seen[p] = seen[q]
        BY DEF IInv, StealsStale, Pids
    <2> QED
        BY <2>1, OneLeasePerFile DEF Leased, Pids
<1> QED
    BY <1>1, Invariance, PTL

\* The lock of a live process is taken away by nobody else (tryRecoverStaleLock,
\* releaseOwnedLock).
THEOREM OwnerKept == Spec => LiveOwnerKept
<1>1. IInv /\ [Next]_vars =>
        [\A p \in Procs : lock = p /\ Alive(p) /\ lock' # p
                            => raced \/ pc[p] = "ReleaseRename"]_vars
    <2> SUFFICES ASSUME IInv, Next, ~raced, NEW p \in Procs, lock = p, Alive(p), lock' # p
                 PROVE  pc[p] = "ReleaseRename"
        BY DEF vars
    <2>1. PICK q \in Procs : Start(q) \/ Step(q) \/ TimeOut(q) \/ Crash(q)
        BY DEF Next
    <2>2. CASE Acquire(q)
        BY <2>2, ProcsAssumption DEF Acquire
    <2>3. CASE Steal(q)
        BY <2>3 DEF Steal, IInv, StealsStale, SeenIsDead, Leased, Alive, Pids
    <2>4. CASE ReleaseLock(q)
        BY <2>4 DEF ReleaseLock, IInv, LockIsKept, Owning, Pids
    <2>5. Acquire(q) \/ Steal(q) \/ ReleaseLock(q)
        BY <2>1 DEF Step, Recover, Start, TimeOut, Crash, FindStale, Verify, Leave, LookAtLock,
            TakeLease, FindLease, RemoveLease, CheckLease, Recheck, LookAtLease, ReturnLease
    <2> QED
        BY <2>2, <2>3, <2>4, <2>5
<1> QED
    BY <1>1, Invariance, PTL DEF Spec, LiveOwnerKept
================================================================================
