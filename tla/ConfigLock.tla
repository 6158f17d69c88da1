----------------------------- MODULE ConfigLock -----------------------------
(***************************************************************************)
(* The lock file that serializes setup's read-modify-write of kimi's       *)
(* config.toml (hooks/config-safety.ts).  Any number of setup processes    *)
(* share a directory; a process takes the lock by linking a file of its    *)
(* own to the public path, and a file whose owner is dead is moved out of  *)
(* the way by whoever holds the recovery lease of that file, a lock file   *)
(* of the same kind whose path is made of the identity of the stale one.   *)
(*                                                                         *)
(* A step is one file operation that other processes can observe.  A       *)
(* failed link and the read that follows it are one step: had the file     *)
(* changed in between, the step is the one of a process that came later.   *)
(* A file that was renamed to a private name is nobody else's, so the      *)
(* check and the removal that follow a rename belong to it.  Files are     *)
(* never confused: identity and token are compared together.  A file of a  *)
(* dead owner counts as old enough: a process that sees it earlier retries *)
(* and changes nothing.                                                    *)
(***************************************************************************)
EXTENDS Integers, FiniteSets

CONSTANTS
    Procs,      \* setup processes that may come
    Ghosts,     \* processes that died before, one of them perhaps in the lock
    MaxLeases,  \* bound: recovery attempts of one process
    None

ASSUME ProcsAssumption == None \notin Procs \cup Ghosts /\ Procs \cap Ghosts = {}
ASSUME LeaseAssumption == MaxLeases \in Nat \ {0}

VARIABLES
    lock,    \* whose file is at the public path
    lease,   \* lease[f]: the file at the recovery path of lock file f
    pc,      \* where a process is
    seen,    \* the lock file a process found stale
    claim,   \* the lease file a process found stale
    tries,   \* recovery attempts so far; names the lease files of a process
    raced    \* a lease claimed as stale turned out to be another one

vars == <<lock, lease, pc, seen, claim, tries, raced>>

Pids == Procs \cup Ghosts

\* The lock file of a process is named by the process, its n-th lease by both.
LeaseFile(p, n) == <<p, n>>
NoLease == <<None, 0>>
LeaseFiles == (Pids \X (1 .. MaxLeases)) \cup {NoLease}

(* What withKimiConfigLock goes through.  Outside stands for a process that *)
(* has not come, Gone for one that ended or died: its pid is not alive.     *)
States == {"Outside", "Try", "Claim", "LeaseHeld", "LeaseChecked", "Steal",
           "Return", "ReturnRename", "Fail", "FailRename",
           "Verify", "Inside", "Release", "ReleaseRename", "Gone"}

Alive(p) == pc[p] # "Gone"

\* By age alone.
StaleByAge(p) == TRUE
(* isStaleLock.                                                            *)
Stale(p) == ~Alive(p)

MyLease(p) == LeaseFile(p, tries[p])
LeaseAt(p) == lease[seen[p]]

TypeOK ==
    /\ lock \in Pids \cup {None}
    /\ lease \in [Pids -> LeaseFiles]
    /\ pc \in [Pids -> States]
    /\ seen \in [Pids -> Pids \cup {None}]
    /\ claim \in [Pids -> LeaseFiles]
    /\ tries \in [Pids -> 0 .. MaxLeases]
    /\ raced \in BOOLEAN

Init ==
    /\ lock \in Ghosts \cup {None}
    /\ lease \in {f \in [Pids -> LeaseFiles] :
                     \A q \in Pids : f[q] # NoLease =>
                        /\ q = lock
                        /\ \E g \in Ghosts \ {lock} : f[q] = LeaseFile(g, 1)}
    /\ pc = [p \in Pids |-> IF p \in Ghosts THEN "Gone" ELSE "Outside"]
    /\ seen = [p \in Pids |-> None]
    /\ claim = [p \in Pids |-> NoLease]
    /\ tries = [p \in Pids |-> IF p \in Ghosts THEN 1 ELSE 0]
    /\ raced = FALSE

Goto(p, s) == pc' = [pc EXCEPT ![p] = s]

-----------------------------------------------------------------------------
(* Taking the lock.                                                        *)

Start(p) ==
    /\ pc[p] = "Outside"
    /\ Goto(p, "Try")
    /\ UNCHANGED <<lock, lease, seen, claim, tries, raced>>

\* createPrivateLockFile: the link succeeds.
Acquire(p) ==
    /\ pc[p] = "Try"
    /\ lock = None
    /\ lock' = p
    /\ Goto(p, "Verify")
    /\ UNCHANGED <<lease, seen, claim, tries, raced>>

\* The link fails and the file found is stale: go for the recovery lease.
FindStale(p) ==
    /\ pc[p] = "Try"
    /\ lock # None
    /\ Stale(lock)
    /\ tries[p] < MaxLeases
    /\ seen' = [seen EXCEPT ![p] = lock]
    /\ Goto(p, "Claim")
    /\ UNCHANGED <<lock, lease, claim, tries, raced>>

\* The link fails until the deadline: the process gives up.
TimeOut(p) ==
    /\ pc[p] = "Try"
    /\ lock # None
    /\ Goto(p, "Gone")
    /\ UNCHANGED <<lock, lease, seen, claim, tries, raced>>

\* The file at the path is read back, twice, before the operation begins.
Verify(p) ==
    /\ pc[p] = "Verify"
    /\ Goto(p, IF lock = p THEN "Inside" ELSE "Gone")
    /\ UNCHANGED <<lock, lease, seen, claim, tries, raced>>

-----------------------------------------------------------------------------
(* Recovering the file of a dead owner (tryRecoverStaleLock).              *)

\* The lease is written, not linked.
TakeLeaseOverwriting(p) ==
    /\ pc[p] = "Claim"
    /\ tries' = [tries EXCEPT ![p] = @ + 1]
    /\ lease' = [lease EXCEPT ![seen[p]] = LeaseFile(p, tries[p] + 1)]
    /\ Goto(p, "LeaseHeld")
    /\ UNCHANGED <<lock, seen, claim, raced>>
TakeLease(p) ==
    /\ pc[p] = "Claim"
    /\ LeaseAt(p) = NoLease
    /\ tries' = [tries EXCEPT ![p] = @ + 1]
    /\ lease' = [lease EXCEPT ![seen[p]] = LeaseFile(p, tries[p] + 1)]
    /\ Goto(p, "LeaseHeld")
    /\ UNCHANGED <<lock, seen, claim, raced>>

\* Only a pid is remembered of a lease, not which file it was.
FindLeaseByPid(p) ==
    /\ pc[p] = "Claim"
    /\ LeaseAt(p) # NoLease
    /\ IF Stale(LeaseAt(p)[1])
       THEN claim' = [claim EXCEPT ![p] = LeaseAt(p)[1]] /\ UNCHANGED pc
       ELSE Goto(p, "Try") /\ UNCHANGED claim
    /\ UNCHANGED <<lock, lease, seen, tries, raced>>
\* A lease is waited for, whoever holds it.
FindLeaseOnly(p) ==
    /\ pc[p] = "Claim"
    /\ LeaseAt(p) # NoLease
    /\ Goto(p, "Try")
    /\ UNCHANGED <<lock, lease, seen, claim, tries, raced>>
\* The lease exists.  A stale one is claimed once, then the lock is tried again.
FindLease(p) ==
    /\ pc[p] = "Claim"
    /\ claim[p] = NoLease
    /\ LeaseAt(p) # NoLease
    /\ IF Stale(LeaseAt(p)[1])
       THEN claim' = [claim EXCEPT ![p] = LeaseAt(p)] /\ UNCHANGED pc
       ELSE Goto(p, "Try") /\ UNCHANGED claim
    /\ UNCHANGED <<lock, lease, seen, tries, raced>>

\* removeStaleRecoveryLease: whatever is at the path is renamed away; only then
\* is it compared with what was found there.
RemoveLease(p) ==
    /\ pc[p] = "Claim"
    /\ claim[p] # NoLease
    /\ lease' = [lease EXCEPT ![seen[p]] = NoLease]
    /\ claim' = [claim EXCEPT ![p] = NoLease]
    /\ IF LeaseAt(p) \in {claim[p], NoLease}
       THEN Goto(p, "Try") /\ UNCHANGED raced
       ELSE Goto(p, "Gone") /\ raced' = TRUE
    /\ UNCHANGED <<lock, seen, tries>>

CheckLease(p) ==
    /\ pc[p] = "LeaseHeld"
    /\ Goto(p, IF LeaseAt(p) = MyLease(p) THEN "LeaseChecked" ELSE "Fail")
    /\ UNCHANGED <<lock, lease, seen, claim, tries, raced>>

\* The lease is taken for enough.
RecheckNothing(p) ==
    /\ pc[p] = "LeaseChecked"
    /\ Goto(p, "Steal")
    /\ UNCHANGED <<lock, lease, seen, claim, tries, raced>>
\* Under the lease: is the stale file still the one at the public path?
Recheck(p) ==
    /\ pc[p] = "LeaseChecked"
    /\ Goto(p, IF lock = seen[p] /\ Stale(seen[p]) THEN "Steal" ELSE "Return")
    /\ UNCHANGED <<lock, lease, seen, claim, tries, raced>>

\* The public path is renamed away; only then is the file compared.
Steal(p) ==
    /\ pc[p] = "Steal"
    /\ lock' = None
    /\ Goto(p, IF lock \in {seen[p], None} THEN "Return" ELSE "Fail")
    /\ UNCHANGED <<lease, seen, claim, tries, raced>>

(* releaseOwnedLock on the lease, before the next attempt (Return) or      *)
(* before the error leaves (Fail): look, then rename whatever is there.    *)
LookAtLease(p) ==
    /\ pc[p] \in {"Return", "Fail"}
    /\ Goto(p, IF LeaseAt(p) = MyLease(p)
               THEN IF pc[p] = "Return" THEN "ReturnRename" ELSE "FailRename"
               ELSE IF pc[p] = "Return" THEN "Try" ELSE "Gone")
    /\ UNCHANGED <<lock, lease, seen, claim, tries, raced>>

ReturnLease(p) ==
    /\ pc[p] \in {"ReturnRename", "FailRename"}
    /\ lease' = [lease EXCEPT ![seen[p]] = NoLease]
    /\ Goto(p, IF pc[p] = "ReturnRename" /\ LeaseAt(p) \in {MyLease(p), NoLease}
               THEN "Try" ELSE "Gone")
    /\ UNCHANGED <<lock, seen, claim, tries, raced>>

-----------------------------------------------------------------------------
(* The protected operation ends; releaseOwnedLock on the lock.             *)

Leave(p) ==
    /\ pc[p] = "Inside"
    /\ Goto(p, "Release")
    /\ UNCHANGED <<lock, lease, seen, claim, tries, raced>>

LookAtLock(p) ==
    /\ pc[p] = "Release"
    /\ Goto(p, IF lock = p THEN "ReleaseRename" ELSE "Gone")
    /\ UNCHANGED <<lock, lease, seen, claim, tries, raced>>

ReleaseLock(p) ==
    /\ pc[p] = "ReleaseRename"
    /\ lock' = None
    /\ Goto(p, "Gone")
    /\ UNCHANGED <<lease, seen, claim, tries, raced>>

\* A process dies anywhere.
Crash(p) ==
    /\ pc[p] \notin {"Outside", "Gone"}
    /\ Goto(p, "Gone")
    /\ UNCHANGED <<lock, lease, seen, claim, tries, raced>>

Recover(p) ==
    \/ TakeLease(p) \/ FindLease(p) \/ RemoveLease(p) \/ CheckLease(p)
    \/ Recheck(p) \/ Steal(p) \/ LookAtLease(p) \/ ReturnLease(p)

Step(p) ==
    \/ Acquire(p) \/ FindStale(p) \/ Verify(p) \/ Recover(p)
    \/ Leave(p) \/ LookAtLock(p) \/ ReleaseLock(p)

Next == \E p \in Procs : Start(p) \/ Step(p) \/ TimeOut(p) \/ Crash(p)

Spec == Init /\ [][Next]_vars

FairSpec == Spec /\ \A p \in Procs : WF_vars(Step(p))

-----------------------------------------------------------------------------
(* Properties.  raced is what the code reports as a recovery race on the   *)
(* lease, after the fact.                                                  *)

\* Two setups never run their read-modify-write at the same time, whoever of
\* them recovered whose lock, as long as no lease was claimed by mistake.
MutualExclusion ==
    raced \/ \A p, q \in Procs : pc[p] = "Inside" /\ pc[q] = "Inside" => p = q

\* The recovery of a dead owner's lock is done by one process at a time: two
\* of them never stand before the rename of the public path.
OneRecoverer ==
    raced \/ \A p, q \in Procs : pc[p] = "Steal" /\ pc[q] = "Steal" => p = q

\* Whoever takes the file of a live process off the public path is that process,
\* as long as no lease was claimed by mistake.
LiveOwnerKept ==
    [][\A p \in Procs : lock = p /\ Alive(p) /\ lock' # p
                            => raced \/ pc[p] = "ReleaseRename"]_vars

Trying(p) == pc[p] \notin {"Outside", "Gone", "Inside", "Release", "ReleaseRename"}

\* A dead owner, or a dead recoverer of a dead owner, does not keep the lock for
\* ever: it is cleared unless everybody who tries gives up, dies or has made as
\* many attempts as the bound allows.
DeadOwnerCleared ==
    \A g \in Pids :
        (lock = g /\ ~Alive(g))
            ~> (lock # g \/ \A p \in Procs : ~Trying(p) \/ tries[p] = MaxLeases)
=============================================================================
