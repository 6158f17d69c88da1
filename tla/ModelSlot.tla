------------------------------ MODULE ModelSlot ------------------------------
(***************************************************************************)
(* What the job store promises the commands, with no row, process or       *)
(* database in it: a slot that one model job holds at a time.  A job takes *)
(* the slot only when it is free, unless its call was made with            *)
(* --allow-concurrent, in which case it takes it beside the holders.       *)
(* Nobody waits for the slot (a call that finds it taken is refused, which *)
(* is no step here), and a job that has left it never holds it again.      *)
(***************************************************************************)
CONSTANT Job

VARIABLES
    holders,    \* the jobs that hold the slot
    left,       \* the jobs that have held it and have left
    beside      \* the jobs that took it with --allow-concurrent

slotVars == <<holders, left, beside>>

Init ==
    /\ holders = {}
    /\ left = {}
    /\ beside = {}

Acquire(j) ==
    /\ holders = {}
    /\ j \notin left
    /\ holders' = {j}
    /\ UNCHANGED <<left, beside>>

AcquireBeside(j) ==
    /\ j \notin holders \cup left
    /\ holders' = holders \cup {j}
    /\ beside' = beside \cup {j}
    /\ UNCHANGED left

Leave(j) ==
    /\ j \in holders
    /\ holders' = holders \ {j}
    /\ left' = left \cup {j}
    /\ UNCHANGED beside

Next == \E j \in Job : Acquire(j) \/ AcquireBeside(j) \/ Leave(j)

Spec == Init /\ [][Next]_slotVars
==============================================================================
