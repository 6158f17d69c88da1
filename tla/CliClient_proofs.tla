--------------------------- MODULE CliClient_proofs ---------------------------
(***************************************************************************)
(* Proofs about one call of kimi, for any descendants and any amount of    *)
(* output.                                                                 *)
(*                                                                         *)
(* That kimi is dead when the call answers is not inductive: whether it is *)
(* depends on what the settlement waits for.  IInv says what is known of   *)
(* kimi at every stage of a teardown, and before and after the settlement. *)
(***************************************************************************)
EXTENDS CliClient, TLAPS

\* TypeOK in parts that a prover takes at a time.
CountsTyped == records \in 0..(MaxItems + 1) /\ items \in 0..MaxItems

FlagsTyped ==
    /\ signal \in BOOLEAN /\ timeoutFired \in BOOLEAN
    /\ closed \in BOOLEAN /\ draining \in BOOLEAN
    /\ announcedSession \in BOOLEAN
    /\ engineMismatchDetected \in BOOLEAN /\ aborted \in BOOLEAN

TreeTyped ==
    /\ descendants \in [Descendant -> {"none", "alive", "gone"}]
    /\ teardown \in [Teardown -> {"none", "capture", "grace", "killed", "done"}]
    /\ captured \in [Teardown -> SUBSET Descendant]

WaitTyped ==
    /\ cancellationTeardown \in Teardown \cup {"none"}
    /\ awaited \in Teardown \cup {"none"}
    /\ \A t \in Teardown : awaited = t => teardown[t] # "none"

StagesTyped ==
    /\ plannedEngine \in Plan
    /\ grouped \subseteq Descendant /\ holders \subseteq Descendant
    /\ pc \in {"called", "starting", "running", "done"}
    /\ kimi \in {"none", "unborn", "alive", "dead", "exited"}
    /\ exitCode \in {"none", "clean", "failed"}
    /\ announcedSystemVersion \in {"none", "right", "wrong"}
    /\ settlement \in {"none", "resolve", "reject"}
    /\ outcome \in {"none", "result", "aborted", "error", "timeout"}

LEMMA TypeParts ==
    TypeOK <=> CountsTyped /\ FlagsTyped /\ TreeTyped /\ WaitTyped /\ StagesTyped
BY DEF TypeOK, CountsTyped, FlagsTyped, TreeTyped, WaitTyped, StagesTyped

\* Nothing happens before the spawn, and kimi is not spawned twice.
BeforeSpawn ==
    /\ pc \in {"called", "starting"} =>
        /\ kimi = "none" /\ settlement = "none" /\ outcome = "none" /\ ~draining
        /\ cancellationTeardown = "none"
        /\ \A t \in Teardown : teardown[t] = "none"
    /\ pc = "running" => kimi # "none" /\ outcome = "none"
    /\ kimi = "none" => settlement = "none" /\ ~draining

\* A teardown that got as far as SIGKILL, or is over, has seen kimi's end.
TeardownEndsKimi ==
    \A t \in Teardown : teardown[t] \in {"killed", "done"} => kimi # "alive"

\* A settlement waits for a teardown, or comes when there is nothing to wait for.
SettlementWaits ==
    /\ closed => kimi = "exited"
    /\ draining => closed
    /\ settlement = "resolve" => kimi = "exited"
    /\ settlement # "none" => (awaited # "none" \/ kimi \in {"unborn", "exited"})
    /\ settlement = "none" => awaited = "none"
    /\ \A t \in Teardown : cancellationTeardown = t => teardown[t] # "none"

\* Records are items; the last one may come with the close event.
RecordsAreItems == records <= items + (IF closed THEN 1 ELSE 0)

IInv ==
    /\ CountsTyped /\ FlagsTyped /\ TreeTyped /\ WaitTyped /\ StagesTyped
    /\ BeforeSpawn
    /\ TeardownEndsKimi
    /\ SettlementWaits
    /\ RecordsAreItems

-----------------------------------------------------------------------------
(***************************************************************************)
(* Every action keeps IInv.                                                *)
(***************************************************************************)

LEMMA InitIInv == Init => IInv
<1> SUFFICES ASSUME Init PROVE IInv
    OBVIOUS
<1> USE MaxItemsIsNat DEF Init
<1>1. CountsTyped
    BY DEF CountsTyped
<1>2. FlagsTyped
    BY DEF FlagsTyped
<1>3. TreeTyped /\ WaitTyped
    BY DEF TreeTyped, WaitTyped, Teardown
<1>4. StagesTyped
    BY DEF StagesTyped, Plan
<1>5. BeforeSpawn /\ TeardownEndsKimi /\ SettlementWaits /\ RecordsAreItems
    BY DEF BeforeSpawn, TeardownEndsKimi, SettlementWaits, RecordsAreItems, Teardown
<1> QED
    BY <1>1, <1>2, <1>3, <1>4, <1>5 DEF IInv

LEMMA CallKeepsIInv ==
    ASSUME IInv, Call
    PROVE  IInv'
<1> USE DEF IInv, Call, constVars, procVars, outputVars, ownVars, downVars, settleVars
<1>1. CountsTyped'
    BY DEF CountsTyped
<1>2. FlagsTyped'
    BY DEF FlagsTyped
<1>3. TreeTyped'
    BY DEF TreeTyped, Teardown
<1>4. WaitTyped'
    BY DEF TreeTyped, WaitTyped, SettlementWaits, Teardown
<1>5. StagesTyped'
    BY DEF StagesTyped
<1>6. BeforeSpawn'
    BY DEF StagesTyped, TreeTyped, BeforeSpawn, Teardown
<1>7. TeardownEndsKimi'
    BY DEF TreeTyped, BeforeSpawn, TeardownEndsKimi, Teardown
<1>8. SettlementWaits'
    BY DEF TreeTyped, StagesTyped, BeforeSpawn, SettlementWaits, Teardown
<1>9. RecordsAreItems'
    BY DEF CountsTyped, RecordsAreItems
<1> QED
    BY <1>1, <1>2, <1>3, <1>4, <1>5, <1>6, <1>7, <1>8, <1>9

LEMMA RefuseKeepsIInv ==
    ASSUME IInv, Refuse
    PROVE  IInv'
<1> USE DEF IInv, Refuse, constVars, procVars, outputVars, ownVars, downVars, settleVars
<1>1. CountsTyped'
    BY DEF CountsTyped
<1>2. FlagsTyped'
    BY DEF FlagsTyped
<1>3. TreeTyped'
    BY DEF TreeTyped, Teardown
<1>4. WaitTyped'
    BY DEF TreeTyped, WaitTyped, SettlementWaits, Teardown
<1>5. StagesTyped'
    BY DEF StagesTyped
<1>6. BeforeSpawn'
    BY DEF StagesTyped, TreeTyped, BeforeSpawn, Teardown
<1>7. TeardownEndsKimi'
    BY DEF TreeTyped, BeforeSpawn, TeardownEndsKimi, Teardown
<1>8. SettlementWaits'
    BY DEF TreeTyped, StagesTyped, BeforeSpawn, SettlementWaits, Teardown
<1>9. RecordsAreItems'
    BY DEF CountsTyped, RecordsAreItems
<1> QED
    BY <1>1, <1>2, <1>3, <1>4, <1>5, <1>6, <1>7, <1>8, <1>9

LEMMA SpawnKeepsIInv ==
    ASSUME IInv, Spawn
    PROVE  IInv'
<1> USE DEF IInv, Spawn, AbortSeenAtSpawn, constVars, procVars, outputVars, ownVars, downVars, settleVars
<1>1. CountsTyped'
    BY DEF CountsTyped
<1>2. FlagsTyped'
    BY DEF FlagsTyped
<1>3. TreeTyped'
    BY DEF TreeTyped, Teardown
<1>4. WaitTyped'
    BY DEF TreeTyped, WaitTyped, SettlementWaits, Teardown
<1>5. StagesTyped'
    BY DEF StagesTyped
<1>6. BeforeSpawn'
    BY DEF StagesTyped, TreeTyped, BeforeSpawn, Teardown
<1>7. TeardownEndsKimi'
    BY DEF TreeTyped, BeforeSpawn, TeardownEndsKimi, Teardown
<1>8. SettlementWaits'
    BY DEF TreeTyped, StagesTyped, BeforeSpawn, SettlementWaits, Teardown
<1>9. RecordsAreItems'
    BY DEF CountsTyped, RecordsAreItems
<1> QED
    BY <1>1, <1>2, <1>3, <1>4, <1>5, <1>6, <1>7, <1>8, <1>9

LEMMA ProcessErrorKeepsIInv ==
    ASSUME IInv, ProcessError
    PROVE  IInv'
<1> USE DEF IInv, ProcessError, Settle, constVars, procVars, outputVars, ownVars, downVars, settleVars
<1>1. CountsTyped'
    BY DEF CountsTyped
<1>2. FlagsTyped'
    BY DEF FlagsTyped
<1>3. TreeTyped'
    BY DEF TreeTyped, Teardown
<1>4. WaitTyped'
    BY DEF TreeTyped, WaitTyped, SettlementWaits, Teardown
<1>5. StagesTyped'
    BY DEF StagesTyped
<1>6. BeforeSpawn'
    BY DEF StagesTyped, TreeTyped, BeforeSpawn, Teardown
<1>7. TeardownEndsKimi'
    BY DEF TreeTyped, BeforeSpawn, TeardownEndsKimi, Teardown
<1>8. SettlementWaits'
    BY DEF TreeTyped, StagesTyped, BeforeSpawn, SettlementWaits, Teardown
<1>9. RecordsAreItems'
    BY DEF CountsTyped, RecordsAreItems
<1> QED
    BY <1>1, <1>2, <1>3, <1>4, <1>5, <1>6, <1>7, <1>8, <1>9

LEMMA AbortKeepsIInv ==
    ASSUME IInv, Abort, timeoutFired' \in BOOLEAN
    PROVE  IInv'
<1> USE DEF IInv, Abort, Listening, Settled, BeginTeardown, constVars, procVars, outputVars, ownVars, downVars, settleVars
<1>1. CountsTyped'
    BY DEF CountsTyped
<1>2. FlagsTyped'
    BY DEF FlagsTyped
<1>3. TreeTyped'
    BY DEF TreeTyped, Teardown
<1>4. WaitTyped'
    BY DEF TreeTyped, WaitTyped, SettlementWaits, Teardown
<1>5. StagesTyped'
    BY DEF StagesTyped
<1>6. BeforeSpawn'
    BY DEF StagesTyped, TreeTyped, BeforeSpawn, Teardown
<1>7. TeardownEndsKimi'
    BY DEF TreeTyped, BeforeSpawn, TeardownEndsKimi, Teardown
<1>8. SettlementWaits'
    BY DEF TreeTyped, StagesTyped, BeforeSpawn, SettlementWaits, Teardown
<1>9. RecordsAreItems'
    BY DEF CountsTyped, RecordsAreItems
<1> QED
    BY <1>1, <1>2, <1>3, <1>4, <1>5, <1>6, <1>7, <1>8, <1>9

LEMMA ExitKeepsIInv ==
    ASSUME IInv, Exit
    PROVE  IInv'
<1> USE DEF IInv, Exit, constVars, procVars, outputVars, ownVars, downVars, settleVars
<1>1. CountsTyped'
    BY DEF CountsTyped
<1>2. FlagsTyped'
    BY DEF FlagsTyped
<1>3. TreeTyped'
    BY DEF TreeTyped, Teardown
<1>4. WaitTyped'
    BY DEF TreeTyped, WaitTyped, SettlementWaits, Teardown
<1>5. StagesTyped'
    BY DEF StagesTyped
<1>6. BeforeSpawn'
    BY DEF StagesTyped, TreeTyped, BeforeSpawn, Teardown
<1>7. TeardownEndsKimi'
    BY DEF TreeTyped, BeforeSpawn, TeardownEndsKimi, Teardown
<1>8. SettlementWaits'
    BY DEF TreeTyped, StagesTyped, BeforeSpawn, SettlementWaits, Teardown
<1>9. RecordsAreItems'
    BY DEF CountsTyped, RecordsAreItems
<1> QED
    BY <1>1, <1>2, <1>3, <1>4, <1>5, <1>6, <1>7, <1>8, <1>9

LEMMA DrainedKeepsIInv ==
    ASSUME IInv, Drained
    PROVE  IInv'
<1> USE DEF IInv, Drained, Settle, constVars, procVars, outputVars, ownVars, downVars, settleVars
<1>1. CountsTyped'
    BY DEF CountsTyped
<1>2. FlagsTyped'
    BY DEF FlagsTyped
<1>3. TreeTyped'
    BY DEF TreeTyped, Teardown
<1>4. WaitTyped'
    BY DEF TreeTyped, WaitTyped, SettlementWaits, Teardown
<1>5. StagesTyped'
    BY DEF StagesTyped
<1>6. BeforeSpawn'
    BY DEF StagesTyped, TreeTyped, BeforeSpawn, Teardown
<1>7. TeardownEndsKimi'
    BY DEF TreeTyped, BeforeSpawn, TeardownEndsKimi, Teardown
<1>8. SettlementWaits'
    BY DEF TreeTyped, StagesTyped, BeforeSpawn, SettlementWaits, Teardown
<1>9. RecordsAreItems'
    BY DEF CountsTyped, RecordsAreItems
<1> QED
    BY <1>1, <1>2, <1>3, <1>4, <1>5, <1>6, <1>7, <1>8, <1>9

LEMMA AnswerKeepsIInv ==
    ASSUME IInv, Answer
    PROVE  IInv'
<1> USE DEF IInv, Answer, Settled, Verdict, constVars, procVars, outputVars, ownVars, downVars, settleVars
<1>1. CountsTyped'
    BY DEF CountsTyped
<1>2. FlagsTyped'
    BY DEF FlagsTyped
<1>3. TreeTyped'
    BY DEF TreeTyped, Teardown
<1>4. WaitTyped'
    BY DEF TreeTyped, WaitTyped, SettlementWaits, Teardown
<1>5. StagesTyped'
    BY DEF StagesTyped
<1>6. BeforeSpawn'
    BY DEF StagesTyped, TreeTyped, BeforeSpawn, Teardown
<1>7. TeardownEndsKimi'
    BY DEF TreeTyped, BeforeSpawn, TeardownEndsKimi, Teardown
<1>8. SettlementWaits'
    BY DEF TreeTyped, StagesTyped, BeforeSpawn, SettlementWaits, Teardown
<1>9. RecordsAreItems'
    BY DEF CountsTyped, RecordsAreItems
<1> QED
    BY <1>1, <1>2, <1>3, <1>4, <1>5, <1>6, <1>7, <1>8, <1>9

LEMMA DieKeepsIInv ==
    ASSUME IInv, Die
    PROVE  IInv'
<1> USE DEF IInv, Die, constVars, procVars, outputVars, ownVars, downVars, settleVars
<1>1. CountsTyped'
    BY DEF CountsTyped
<1>2. FlagsTyped'
    BY DEF FlagsTyped
<1>3. TreeTyped'
    BY DEF TreeTyped, Teardown
<1>4. WaitTyped'
    BY DEF TreeTyped, WaitTyped, SettlementWaits, Teardown
<1>5. StagesTyped'
    BY DEF StagesTyped
<1>6. BeforeSpawn'
    BY DEF StagesTyped, TreeTyped, BeforeSpawn, Teardown
<1>7. TeardownEndsKimi'
    BY DEF TreeTyped, BeforeSpawn, TeardownEndsKimi, Teardown
<1>8. SettlementWaits'
    BY DEF TreeTyped, StagesTyped, BeforeSpawn, SettlementWaits, Teardown
<1>9. RecordsAreItems'
    BY DEF CountsTyped, RecordsAreItems
<1> QED
    BY <1>1, <1>2, <1>3, <1>4, <1>5, <1>6, <1>7, <1>8, <1>9

LEMMA ForkKeepsIInv ==
    ASSUME IInv, NEW d \in Descendant, Fork(d)
    PROVE  IInv'
<1> USE DEF IInv, Fork, constVars, procVars, outputVars, ownVars, downVars, settleVars
<1>1. CountsTyped'
    BY DEF CountsTyped
<1>2. FlagsTyped'
    BY DEF FlagsTyped
<1>3. TreeTyped'
    BY DEF TreeTyped, Teardown
<1>4. WaitTyped'
    BY DEF TreeTyped, WaitTyped, SettlementWaits, Teardown
<1>5. StagesTyped'
    BY DEF StagesTyped
<1>6. BeforeSpawn'
    BY DEF StagesTyped, TreeTyped, BeforeSpawn, Teardown
<1>7. TeardownEndsKimi'
    BY DEF TreeTyped, BeforeSpawn, TeardownEndsKimi, Teardown
<1>8. SettlementWaits'
    BY DEF TreeTyped, StagesTyped, BeforeSpawn, SettlementWaits, Teardown
<1>9. RecordsAreItems'
    BY DEF CountsTyped, RecordsAreItems
<1> QED
    BY <1>1, <1>2, <1>3, <1>4, <1>5, <1>6, <1>7, <1>8, <1>9

LEMMA DescendantDiesKeepsIInv ==
    ASSUME IInv, NEW d \in Descendant, DescendantDies(d)
    PROVE  IInv'
<1> USE DEF IInv, DescendantDies, constVars, procVars, outputVars, ownVars, downVars, settleVars
<1>1. CountsTyped'
    BY DEF CountsTyped
<1>2. FlagsTyped'
    BY DEF FlagsTyped
<1>3. TreeTyped'
    BY DEF TreeTyped, Teardown
<1>4. WaitTyped'
    BY DEF TreeTyped, WaitTyped, SettlementWaits, Teardown
<1>5. StagesTyped'
    BY DEF StagesTyped
<1>6. BeforeSpawn'
    BY DEF StagesTyped, TreeTyped, BeforeSpawn, Teardown
<1>7. TeardownEndsKimi'
    BY DEF TreeTyped, BeforeSpawn, TeardownEndsKimi, Teardown
<1>8. SettlementWaits'
    BY DEF TreeTyped, StagesTyped, BeforeSpawn, SettlementWaits, Teardown
<1>9. RecordsAreItems'
    BY DEF CountsTyped, RecordsAreItems
<1> QED
    BY <1>1, <1>2, <1>3, <1>4, <1>5, <1>6, <1>7, <1>8, <1>9

LEMMA CaptureKeepsIInv ==
    ASSUME IInv, NEW t \in Teardown, Capture(t)
    PROVE  IInv'
<1> USE DEF IInv, Capture, constVars, procVars, outputVars, ownVars, downVars, settleVars
<1>1. CountsTyped'
    BY DEF CountsTyped
<1>2. FlagsTyped'
    BY DEF FlagsTyped
<1>3. TreeTyped'
    BY DEF TreeTyped, Teardown
<1>4. WaitTyped'
    BY DEF TreeTyped, WaitTyped, SettlementWaits, Teardown
<1>5. StagesTyped'
    BY DEF StagesTyped
<1>6. BeforeSpawn'
    BY DEF StagesTyped, TreeTyped, BeforeSpawn, Teardown
<1>7. TeardownEndsKimi'
    BY DEF TreeTyped, BeforeSpawn, TeardownEndsKimi, Teardown
<1>8. SettlementWaits'
    BY DEF TreeTyped, StagesTyped, BeforeSpawn, SettlementWaits, Teardown
<1>9. RecordsAreItems'
    BY DEF CountsTyped, RecordsAreItems
<1> QED
    BY <1>1, <1>2, <1>3, <1>4, <1>5, <1>6, <1>7, <1>8, <1>9

LEMMA QuietKeepsIInv ==
    ASSUME IInv, NEW t \in Teardown, Quiet(t)
    PROVE  IInv'
<1> USE DEF IInv, Quiet, TreeExited, processExited, constVars, procVars, outputVars, ownVars, downVars, settleVars
<1>1. CountsTyped'
    BY DEF CountsTyped
<1>2. FlagsTyped'
    BY DEF FlagsTyped
<1>3. TreeTyped'
    BY DEF TreeTyped, Teardown
<1>4. WaitTyped'
    BY DEF TreeTyped, WaitTyped, SettlementWaits, Teardown
<1>5. StagesTyped'
    BY DEF StagesTyped
<1>6. BeforeSpawn'
    BY DEF StagesTyped, TreeTyped, BeforeSpawn, Teardown
<1>7. TeardownEndsKimi'
    BY DEF TreeTyped, BeforeSpawn, TeardownEndsKimi, Teardown
<1>8. SettlementWaits'
    BY DEF TreeTyped, StagesTyped, BeforeSpawn, SettlementWaits, Teardown
<1>9. RecordsAreItems'
    BY DEF CountsTyped, RecordsAreItems
<1> QED
    BY <1>1, <1>2, <1>3, <1>4, <1>5, <1>6, <1>7, <1>8, <1>9

LEMMA EscalateKeepsIInv ==
    ASSUME IInv, NEW t \in Teardown, Escalate(t)
    PROVE  IInv'
<1> USE DEF IInv, Escalate, constVars, procVars, outputVars, ownVars, downVars, settleVars
<1>1. CountsTyped'
    BY DEF CountsTyped
<1>2. FlagsTyped'
    BY DEF FlagsTyped
<1>3. TreeTyped'
    BY DEF TreeTyped, Teardown
<1>4. WaitTyped'
    BY DEF TreeTyped, WaitTyped, SettlementWaits, Teardown
<1>5. StagesTyped'
    BY DEF StagesTyped
<1>6. BeforeSpawn'
    BY DEF StagesTyped, TreeTyped, BeforeSpawn, Teardown
<1>7. TeardownEndsKimi'
    BY DEF TreeTyped, BeforeSpawn, TeardownEndsKimi, Teardown
<1>8. SettlementWaits'
    BY DEF TreeTyped, StagesTyped, BeforeSpawn, SettlementWaits, Teardown
<1>9. RecordsAreItems'
    BY DEF CountsTyped, RecordsAreItems
<1> QED
    BY <1>1, <1>2, <1>3, <1>4, <1>5, <1>6, <1>7, <1>8, <1>9

LEMMA ConfirmKeepsIInv ==
    ASSUME IInv, NEW t \in Teardown, Confirm(t)
    PROVE  IInv'
<1> USE DEF IInv, Confirm, constVars, procVars, outputVars, ownVars, downVars, settleVars
<1>1. CountsTyped'
    BY DEF CountsTyped
<1>2. FlagsTyped'
    BY DEF FlagsTyped
<1>3. TreeTyped'
    BY DEF TreeTyped, Teardown
<1>4. WaitTyped'
    BY DEF TreeTyped, WaitTyped, SettlementWaits, Teardown
<1>5. StagesTyped'
    BY DEF StagesTyped
<1>6. BeforeSpawn'
    BY DEF StagesTyped, TreeTyped, BeforeSpawn, Teardown
<1>7. TeardownEndsKimi'
    BY DEF TreeTyped, BeforeSpawn, TeardownEndsKimi, Teardown
<1>8. SettlementWaits'
    BY DEF TreeTyped, StagesTyped, BeforeSpawn, SettlementWaits, Teardown
<1>9. RecordsAreItems'
    BY DEF CountsTyped, RecordsAreItems
<1> QED
    BY <1>1, <1>2, <1>3, <1>4, <1>5, <1>6, <1>7, <1>8, <1>9

-----------------------------------------------------------------------------
(***************************************************************************)
(* Output and the close event may find a mismatch.                         *)
(***************************************************************************)

\* What becomes of the teardowns and the settlement.
MaybeRefused ==
    \/ UNCHANGED <<downVars, settleVars>>
    \/ BeginTeardown("mismatch") /\ Settle("reject", "mismatch")

LEMMA ConsumeStep ==
    ASSUME IInv, NEW item \in Item, Consume(item)
    PROVE  /\ announcedSystemVersion' \in {"none", "right", "wrong"}
           /\ announcedSession' \in BOOLEAN
           /\ engineMismatchDetected' \in BOOLEAN
           /\ aborted' = aborted
           /\ records' = records \/ records' = records + 1
           /\ MaybeRefused
<1> USE DEF Consume, outputVars, ownVars
<1>1. CASE ~Reads
    BY <1>1 DEF IInv, FlagsTyped, StagesTyped, MaybeRefused
<1>2. CASE Reads /\ OutOfPlace(item)
    BY <1>2 DEF IInv, FlagsTyped, StagesTyped, MaybeRefused, Mismatch, Announce
<1>3. CASE Reads /\ ~OutOfPlace(item)
    BY <1>3 DEF IInv, FlagsTyped, StagesTyped, MaybeRefused, Announce
<1> QED
    BY <1>1, <1>2, <1>3

\* Whatever the output was, the teardowns and the settlement stay in order.
LEMMA MaybeRefusedKeeps ==
    ASSUME IInv, MaybeRefused,
           kimi \in {"alive", "dead", "exited"}, kimi' = kimi, pc' = pc, outcome' = outcome,
           closed' = closed \/ (closed' /\ kimi = "exited"), draining' => closed'
    PROVE  /\ TreeTyped' <=> (TreeTyped /\ descendants' \in [Descendant -> {"none", "alive", "gone"}])
           /\ WaitTyped' /\ settlement' \in {"none", "resolve", "reject"}
           /\ BeforeSpawn' /\ TeardownEndsKimi' /\ SettlementWaits'
<1> USE DEF IInv, MaybeRefused, BeginTeardown, Settle, downVars, settleVars
<1>1. TreeTyped' <=> (TreeTyped /\ descendants' \in [Descendant -> {"none", "alive", "gone"}])
    BY DEF TreeTyped, Teardown
<1>2. WaitTyped' /\ settlement' \in {"none", "resolve", "reject"}
    BY DEF TreeTyped, WaitTyped, StagesTyped, SettlementWaits, Teardown
<1>3. BeforeSpawn'
    BY DEF StagesTyped, BeforeSpawn
<1>4. TeardownEndsKimi'
    BY DEF TreeTyped, TeardownEndsKimi, Teardown
<1>5. SettlementWaits'
    BY DEF TreeTyped, StagesTyped, SettlementWaits, Teardown
<1> QED
    BY <1>1, <1>2, <1>3, <1>4, <1>5

LEMMA DataKeepsIInv ==
    ASSUME IInv, Data
    PROVE  IInv'
<1> USE DEF Data, constVars, procVars
<1>1. PICK item \in Item : Consume(item)
    OBVIOUS
<1>2. /\ announcedSystemVersion' \in {"none", "right", "wrong"}
      /\ announcedSession' \in BOOLEAN
      /\ engineMismatchDetected' \in BOOLEAN
      /\ aborted' = aborted
      /\ records' = records \/ records' = records + 1
      /\ MaybeRefused
    BY <1>1, ConsumeStep
<1>3. /\ TreeTyped' /\ WaitTyped' /\ settlement' \in {"none", "resolve", "reject"}
      /\ BeforeSpawn' /\ TeardownEndsKimi' /\ SettlementWaits'
    <2>1. (closed' = closed \/ (closed' /\ kimi = "exited")) /\ (draining' => closed')
        BY DEF IInv, SettlementWaits
    <2>2. TreeTyped /\ descendants' \in [Descendant -> {"none", "alive", "gone"}]
        BY DEF IInv, TreeTyped
    <2> QED
        BY <1>2, <2>1, <2>2, MaybeRefusedKeeps
<1>4. CountsTyped' /\ RecordsAreItems'
    BY <1>2, MaxItemsIsNat DEF IInv, CountsTyped, RecordsAreItems
<1>5. FlagsTyped'
    BY <1>2 DEF IInv, FlagsTyped
<1>6. StagesTyped'
    BY <1>2, <1>3 DEF IInv, StagesTyped
<1> QED
    BY <1>3, <1>4, <1>5, <1>6 DEF IInv

LEMMA CloseKeepsIInv ==
    ASSUME IInv, Close
    PROVE  IInv'
<1> USE DEF Close, constVars, procVars
<1>1. /\ announcedSystemVersion' \in {"none", "right", "wrong"}
      /\ announcedSession' \in BOOLEAN
      /\ engineMismatchDetected' \in BOOLEAN
      /\ aborted' \in BOOLEAN
      /\ draining' \in BOOLEAN
      /\ records' = records \/ records' = records + 1
      /\ MaybeRefused
    <2>1. CASE \E item \in Item : Consume(item) /\ draining' = TRUE
        BY <2>1, ConsumeStep DEF IInv, FlagsTyped
    <2>2. CASE Unproven /\ Mismatch /\ UNCHANGED <<outputVars, aborted, draining>>
        BY <2>2 DEF IInv, FlagsTyped, StagesTyped, Mismatch, MaybeRefused, outputVars
    <2>3. CASE draining' = TRUE /\ UNCHANGED <<outputVars, ownVars, downVars, settleVars>>
        BY <2>3 DEF IInv, FlagsTyped, StagesTyped, MaybeRefused, outputVars, ownVars
    <2> QED
        BY <2>1, <2>2, <2>3
<1>2. /\ TreeTyped' /\ WaitTyped' /\ settlement' \in {"none", "resolve", "reject"}
      /\ BeforeSpawn' /\ TeardownEndsKimi' /\ SettlementWaits'
    <2>1. /\ closed' = closed \/ (closed' /\ kimi = "exited")
          /\ draining' => closed'
          /\ kimi \in {"alive", "dead", "exited"}
        BY DEF processExited
    <2>2. TreeTyped /\ descendants' \in [Descendant -> {"none", "alive", "gone"}]
        BY DEF IInv, TreeTyped
    <2>3. kimi' = kimi /\ pc' = pc /\ outcome' = outcome
        OBVIOUS
    <2> QED
        BY <1>1, <2>1, <2>2, <2>3, MaybeRefusedKeeps
<1>3. CountsTyped' /\ RecordsAreItems'
    BY <1>1, MaxItemsIsNat DEF IInv, CountsTyped, RecordsAreItems
<1>4. FlagsTyped'
    BY <1>1 DEF IInv, FlagsTyped
<1>5. StagesTyped'
    BY <1>1, <1>2 DEF IInv, StagesTyped
<1> QED
    BY <1>2, <1>3, <1>4, <1>5 DEF IInv

LEMMA NextKeepsIInv == IInv /\ [Next]_vars => IInv'
<1> SUFFICES ASSUME IInv, [Next]_vars PROVE IInv'
    OBVIOUS
<1>1. CASE UNCHANGED vars
    BY <1>1 DEF vars, constVars, procVars, outputVars, ownVars, downVars, settleVars, IInv,
        CountsTyped, FlagsTyped, TreeTyped, WaitTyped, StagesTyped, BeforeSpawn,
        TeardownEndsKimi, SettlementWaits, RecordsAreItems
<1>2. CASE Call \/ Refuse \/ Spawn \/ ProcessError
    BY <1>2, CallKeepsIInv, RefuseKeepsIInv, SpawnKeepsIInv, ProcessErrorKeepsIInv
<1>3. CASE Cancel \/ Timeout
    <2>1. Abort /\ timeoutFired' \in BOOLEAN
        BY <1>3 DEF Cancel, Timeout, IInv, FlagsTyped
    <2> QED
        BY <2>1, AbortKeepsIInv
<1>4. CASE Data \/ Exit \/ Close \/ Drained \/ Answer
    BY <1>4, DataKeepsIInv, ExitKeepsIInv, CloseKeepsIInv, DrainedKeepsIInv, AnswerKeepsIInv
<1>5. ASSUME NEW t \in Teardown, TeardownStep(t)
      PROVE  IInv'
    BY <1>5, CaptureKeepsIInv, QuietKeepsIInv, EscalateKeepsIInv, ConfirmKeepsIInv DEF TeardownStep
<1>6. CASE Die
    BY <1>6, DieKeepsIInv
<1>7. ASSUME NEW d \in Descendant, Fork(d) \/ DescendantDies(d)
      PROVE  IInv'
    BY <1>7, ForkKeepsIInv, DescendantDiesKeepsIInv
<1> QED
    BY <1>1, <1>2, <1>3, <1>4, <1>5, <1>6, <1>7 DEF Next

\* IInv holds in every state of every call.
THEOREM Invariance == Spec => []IInv
BY InitIInv, NextKeepsIInv, PTL DEF Spec

\* The variables of the event machine have their types, and a settlement waits
\* for a teardown that was begun (cli-client.ts, settle).
THEOREM TypeCorrect == Spec => []TypeOK
<1>1. IInv => TypeOK
    BY TypeParts DEF IInv
<1> QED
    BY <1>1, Invariance, PTL

-----------------------------------------------------------------------------
(***************************************************************************)
(* The call implements KimiCall.                                           *)
(***************************************************************************)

LEMMA AnswerIsAnswer ==
    ASSUME IInv, Answer
    PROVE  Promise!Return \/ Promise!Throw
<1>1. kimi \in {"unborn", "dead", "exited"}
    BY DEF Answer, Settled, IInv, WaitTyped, StagesTyped, BeforeSpawn, TeardownEndsKimi, SettlementWaits
<1>2. outcome = "none" /\ UNCHANGED kimi
    BY DEF Answer, Settled, IInv, BeforeSpawn, procVars
<1>3. outcome' \in {"result", "aborted"} => kimi = "exited"
    BY DEF Answer, Settled, Verdict, IInv, StagesTyped, SettlementWaits
<1>4. outcome' \in {"result", "aborted", "error", "timeout"}
    BY DEF Answer, Verdict
<1> QED
    BY <1>1, <1>2, <1>3, <1>4
    DEF Promise!Return, Promise!Throw, KimiProcess, GivenAnswer

\* What the steps of a call are to its caller.
LEMMA NextImplements == IInv /\ [Next]_vars => [Promise!Next]_(Promise!callVars)
<1> SUFFICES ASSUME IInv, [Next]_vars
             PROVE  \/ Promise!Start \/ Promise!End \/ Promise!Return \/ Promise!Throw
                    \/ UNCHANGED <<KimiProcess, GivenAnswer>>
    BY DEF Promise!Next, Promise!callVars
<1> USE DEF KimiProcess, GivenAnswer, procVars
<1>1. CASE UNCHANGED <<kimi, outcome>>
    BY <1>1
<1>2. CASE Call \/ Refuse
    BY <1>2 DEF Call, Refuse, Promise!Throw, IInv, BeforeSpawn
<1>3. CASE Spawn
    BY <1>3 DEF Spawn, Promise!Start, IInv, BeforeSpawn
<1>4. CASE Answer
    BY <1>4, AnswerIsAnswer
<1>5. CASE Exit \/ Die
    BY <1>5 DEF Exit, Die, Promise!End
<1>6. ASSUME NEW t \in Teardown, Escalate(t)
      PROVE  Promise!End \/ UNCHANGED <<KimiProcess, GivenAnswer>>
    BY <1>6 DEF Escalate, Promise!End
<1>7. Next => \/ UNCHANGED <<kimi, outcome>> \/ Call \/ Refuse \/ Spawn \/ Answer \/ Exit \/ Die
              \/ \E t \in Teardown : Escalate(t)
    BY DEF Next, ProcessError, Cancel, Timeout, Abort, Data, Close, Drained, TeardownStep,
        Capture, Quiet, Confirm, Fork, DescendantDies
<1>8. UNCHANGED vars => UNCHANGED <<kimi, outcome>>
    BY DEF vars
<1> QED
    BY <1>1, <1>2, <1>3, <1>4, <1>5, <1>6, <1>7, <1>8

\* A call answers once and finds kimi dead when it does, in whatever order
\* output, exit, close, abort, timer and teardown come (runCliPrompt).
THEOREM Implementation == Spec => ImplementsCall
<1>1. Init => Promise!Init
    BY DEF Init, Promise!Init, KimiProcess, GivenAnswer
<1>2. IInv /\ [Next]_vars => [Promise!Next]_(Promise!callVars)
    BY NextImplements
<1> QED
    BY <1>1, <1>2, Invariance, PTL DEF Spec, ImplementsCall, Promise!Spec

-----------------------------------------------------------------------------
\* After a mismatch nothing of kimi's output is delivered, by any event, for
\* ever (consumeOutcomes).
THEOREM Refused == Spec => NothingAfterMismatch
<1>1. [Next]_vars => [engineMismatchDetected => UNCHANGED <<records, announcedSession>>]_vars
    <2> SUFFICES ASSUME Next, engineMismatchDetected
                 PROVE  UNCHANGED <<records, announcedSession>>
        OBVIOUS
    <2> USE DEF outputVars
    <2>1. CASE Data \/ Close
        BY <2>1 DEF Data, Close, Consume, Reads
    <2>2. CASE Call \/ Refuse \/ Spawn \/ ProcessError \/ Cancel \/ Timeout
        BY <2>2 DEF Call, Refuse, Spawn, ProcessError, Cancel, Timeout, Abort
    <2>3. CASE Exit \/ Drained \/ Answer \/ Die
        BY <2>3 DEF Exit, Drained, Answer, Die
    <2>4. ASSUME NEW t \in Teardown, TeardownStep(t)
          PROVE  UNCHANGED <<records, announcedSession>>
        BY <2>4 DEF TeardownStep, Capture, Quiet, Escalate, Confirm
    <2>5. ASSUME NEW d \in Descendant, Fork(d) \/ DescendantDies(d)
          PROVE  UNCHANGED <<records, announcedSession>>
        BY <2>5 DEF Fork, DescendantDies
    <2> QED
        BY <2>1, <2>2, <2>3, <2>4, <2>5 DEF Next
<1> QED
    BY <1>1, PTL DEF Spec, NothingAfterMismatch

-----------------------------------------------------------------------------
(***************************************************************************)
(* What a call of kimi gives to its caller: output of a proven engine      *)
(* only, no result after an abort, and no captured process left.  The      *)
(* proofs rest on IInv and on what the flags of the event machine say of   *)
(* one another.                                                            *)
(*                                                                         *)
(* Each flag is set by one handler and read by others, at any later time.  *)
(* The argument is that a settlement is the last word: it comes after the  *)
(* close event, for a kimi that never started, or with the mismatch        *)
(* itself, and in none of these can output or an abort still be handled.   *)
(***************************************************************************)

\* Who is right and who is wrong is known as soon as anything was delivered.
EngineIsJudged ==
    /\ announcedSystemVersion = "wrong" => engineMismatchDetected
    /\ plannedEngine = "legacy-v1" /\ announcedSystemVersion # "none" => engineMismatchDetected
    /\ plannedEngine = "native-v2" /\ (records > 0 \/ announcedSession)
           => announcedSystemVersion = "right"
    /\ plannedEngine = "native-v2" /\ closed /\ exitCode = "clean" /\ ~aborted
           => announcedSystemVersion # "none" \/ engineMismatchDetected

\* When a call is settled there is nothing more to handle.
SettledLast ==
    /\ engineMismatchDetected => settlement = "reject"
    /\ settlement = "resolve" => closed
    /\ settlement # "none" => closed \/ kimi = "unborn" \/ engineMismatchDetected

\* A teardown belongs to the flag of its owner, and a settlement to the last of them.
TeardownsAreOwned ==
    /\ teardown["abort"] # "none" <=> aborted
    /\ teardown["mismatch"] # "none" <=> engineMismatchDetected
    /\ cancellationTeardown = "mismatch" <=> engineMismatchDetected
    /\ cancellationTeardown = "none" => ~aborted
    /\ settlement # "none" /\ awaited # "mismatch" => ~engineMismatchDetected
    /\ settlement # "none" /\ awaited = "none" => ~aborted

\* A signal is an abort from the spawn to the settlement.
SignalIsAbort ==
    /\ timeoutFired => signal
    /\ pc = "running" /\ signal /\ settlement # "reject" => aborted

\* What a teardown has captured it has ended.
CaptureIsEnded ==
    \A t \in Teardown :
        /\ teardown[t] \in {"none", "capture"} => captured[t] = {}
        /\ teardown[t] \in {"killed", "done"} => \A d \in captured[t] : ~Alive(d)

\* What an answer says was so when it was given, and stays so.
AnswerStands ==
    /\ outcome # "none" => pc = "done" /\ \A t \in Teardown : awaited = t => teardown[t] = "done"
    /\ outcome = "result" => settlement = "resolve" /\ ~aborted /\ ~signal /\ ~timeoutFired
    /\ pc = "done" /\ settlement = "none" => kimi = "none"
    /\ kimi = "none" => ~aborted /\ ~engineMismatchDetected /\ ~closed

Answers ==
    /\ EngineIsJudged /\ SettledLast /\ TeardownsAreOwned
    /\ SignalIsAbort /\ CaptureIsEnded /\ AnswerStands

AInv == IInv /\ Answers

-----------------------------------------------------------------------------
(***************************************************************************)
(* Every action keeps Answers.                                             *)
(***************************************************************************)

LEMMA InitAnswers == Init => Answers
BY DEF Init, Answers, EngineIsJudged, SettledLast, TeardownsAreOwned, SignalIsAbort,
    CaptureIsEnded, AnswerStands, Teardown, Plan

LEMMA CallKeepsAnswers ==
    ASSUME AInv, Call
    PROVE  Answers'
<1> USE DEF AInv, IInv, Answers, Call, constVars, procVars, outputVars, ownVars, downVars, settleVars
<1>1. EngineIsJudged'
    BY DEF EngineIsJudged, StagesTyped, SettlementWaits
<1>2. SettledLast'
    BY DEF SettledLast, StagesTyped, BeforeSpawn, SettlementWaits
<1>3. TeardownsAreOwned'
    BY DEF TeardownsAreOwned, TreeTyped, StagesTyped, BeforeSpawn, SettlementWaits, Teardown
<1>4. SignalIsAbort'
    BY DEF SignalIsAbort, FlagsTyped, StagesTyped, BeforeSpawn
<1>5. CaptureIsEnded'
    BY DEF CaptureIsEnded, TreeTyped, TeardownEndsKimi, Alive, Teardown
<1>6. AnswerStands'
    BY DEF AnswerStands, FlagsTyped, TreeTyped, StagesTyped, WaitTyped, BeforeSpawn, SettlementWaits, Teardown
<1> QED
    BY <1>1, <1>2, <1>3, <1>4, <1>5, <1>6

LEMMA RefuseKeepsAnswers ==
    ASSUME AInv, Refuse
    PROVE  Answers'
<1> USE DEF AInv, IInv, Answers, Refuse, constVars, procVars, outputVars, ownVars, downVars, settleVars
<1>1. EngineIsJudged'
    BY DEF EngineIsJudged, StagesTyped, SettlementWaits
<1>2. SettledLast'
    BY DEF SettledLast, StagesTyped, BeforeSpawn, SettlementWaits
<1>3. TeardownsAreOwned'
    BY DEF TeardownsAreOwned, TreeTyped, StagesTyped, BeforeSpawn, SettlementWaits, Teardown
<1>4. SignalIsAbort'
    BY DEF SignalIsAbort, FlagsTyped, StagesTyped, BeforeSpawn
<1>5. CaptureIsEnded'
    BY DEF CaptureIsEnded, TreeTyped, TeardownEndsKimi, Alive, Teardown
<1>6. AnswerStands'
    BY DEF AnswerStands, FlagsTyped, TreeTyped, StagesTyped, WaitTyped, BeforeSpawn, SettlementWaits, Teardown
<1> QED
    BY <1>1, <1>2, <1>3, <1>4, <1>5, <1>6

LEMMA SpawnKeepsAnswers ==
    ASSUME AInv, Spawn
    PROVE  Answers'
<1> USE DEF AInv, IInv, Answers, Spawn, AbortSeenAtSpawn, constVars, procVars, outputVars, ownVars, downVars, settleVars
<1>1. EngineIsJudged'
    BY DEF EngineIsJudged, AnswerStands, BeforeSpawn, StagesTyped, SettlementWaits
<1>2. SettledLast'
    BY DEF SettledLast, StagesTyped, BeforeSpawn, SettlementWaits
<1>3. TeardownsAreOwned'
    BY DEF TeardownsAreOwned, AnswerStands, TreeTyped, StagesTyped, BeforeSpawn, SettlementWaits, Teardown
<1>4. SignalIsAbort'
    BY DEF SignalIsAbort, FlagsTyped, StagesTyped, BeforeSpawn
<1>5. CaptureIsEnded'
    BY DEF CaptureIsEnded, BeforeSpawn, TreeTyped, TeardownEndsKimi, Alive, Teardown
<1>6. AnswerStands'
    BY DEF AnswerStands, FlagsTyped, TreeTyped, StagesTyped, WaitTyped, BeforeSpawn, SettlementWaits, Teardown
<1> QED
    BY <1>1, <1>2, <1>3, <1>4, <1>5, <1>6

LEMMA ProcessErrorKeepsAnswers ==
    ASSUME AInv, ProcessError
    PROVE  Answers'
<1> USE DEF AInv, IInv, Answers, ProcessError, Settle, constVars, procVars, outputVars, ownVars, downVars, settleVars
<1>1. EngineIsJudged'
    BY DEF EngineIsJudged, StagesTyped, SettlementWaits
<1>2. SettledLast'
    BY DEF SettledLast, StagesTyped, BeforeSpawn, SettlementWaits
<1>3. TeardownsAreOwned'
    BY DEF TeardownsAreOwned, TreeTyped, StagesTyped, BeforeSpawn, SettlementWaits, Teardown
<1>4. SignalIsAbort'
    BY DEF SignalIsAbort, FlagsTyped, StagesTyped, BeforeSpawn
<1>5. CaptureIsEnded'
    BY DEF CaptureIsEnded, TreeTyped, TeardownEndsKimi, Alive, Teardown
<1>6. AnswerStands'
    BY DEF AnswerStands, FlagsTyped, TreeTyped, StagesTyped, WaitTyped, BeforeSpawn, SettlementWaits, Teardown
<1> QED
    BY <1>1, <1>2, <1>3, <1>4, <1>5, <1>6

LEMMA AbortKeepsAnswers ==
    ASSUME AInv, Abort, timeoutFired' \in BOOLEAN, timeoutFired' => timeoutFired \/ signal'
    PROVE  Answers'
<1> USE DEF AInv, IInv, Answers, Abort, Listening, Settled, BeginTeardown, constVars, procVars, outputVars, ownVars, downVars, settleVars
<1>1. EngineIsJudged'
    BY DEF EngineIsJudged, StagesTyped, SettlementWaits
<1>2. SettledLast'
    BY DEF SettledLast, StagesTyped, BeforeSpawn, SettlementWaits
<1>3. TeardownsAreOwned'
    BY DEF TeardownsAreOwned, SettledLast, FlagsTyped, TreeTyped, StagesTyped, BeforeSpawn, SettlementWaits, Teardown
<1>4. SignalIsAbort'
    <2>1. (timeoutFired => signal)'
        OBVIOUS
    <2>2. CASE pc = "running" /\ settlement = "none"
        BY <2>2 DEF SignalIsAbort, FlagsTyped
    <2>3. CASE pc = "running" /\ settlement = "resolve"
        <3>1. PICK t \in Teardown : awaited = t /\ teardown[t] # "none"
            BY <2>3 DEF WaitTyped
        <3>2. ~engineMismatchDetected
            BY <2>3 DEF SettledLast
        <3>3. aborted
            BY <3>1, <3>2 DEF TeardownsAreOwned, Teardown
        <3> QED
            BY <2>1, <2>3, <3>3 DEF SignalIsAbort
    <2> QED
        BY <2>1, <2>2, <2>3 DEF SignalIsAbort, StagesTyped
<1>5. CaptureIsEnded'
    BY DEF CaptureIsEnded, TeardownsAreOwned, FlagsTyped, TreeTyped, TeardownEndsKimi, Alive, Teardown
<1>6. AnswerStands'
    BY DEF AnswerStands, TeardownsAreOwned, SettledLast, FlagsTyped, TreeTyped, StagesTyped, WaitTyped, BeforeSpawn, SettlementWaits, Teardown
<1> QED
    BY <1>1, <1>2, <1>3, <1>4, <1>5, <1>6

LEMMA ExitKeepsAnswers ==
    ASSUME AInv, Exit
    PROVE  Answers'
<1> USE DEF AInv, IInv, Answers, Exit, constVars, procVars, outputVars, ownVars, downVars, settleVars
<1>1. EngineIsJudged'
    BY DEF EngineIsJudged, StagesTyped, SettlementWaits
<1>2. SettledLast'
    BY DEF SettledLast, StagesTyped, BeforeSpawn, SettlementWaits
<1>3. TeardownsAreOwned'
    BY DEF TeardownsAreOwned, TreeTyped, StagesTyped, BeforeSpawn, SettlementWaits, Teardown
<1>4. SignalIsAbort'
    BY DEF SignalIsAbort, FlagsTyped, StagesTyped, BeforeSpawn
<1>5. CaptureIsEnded'
    BY DEF CaptureIsEnded, TreeTyped, TeardownEndsKimi, Alive, Teardown
<1>6. AnswerStands'
    BY DEF AnswerStands, FlagsTyped, TreeTyped, StagesTyped, WaitTyped, BeforeSpawn, SettlementWaits, Teardown
<1> QED
    BY <1>1, <1>2, <1>3, <1>4, <1>5, <1>6

LEMMA DrainedKeepsAnswers ==
    ASSUME AInv, Drained
    PROVE  Answers'
<1> USE DEF AInv, IInv, Answers, Drained, Settle, constVars, procVars, outputVars, ownVars, downVars, settleVars
<1>1. EngineIsJudged'
    BY DEF EngineIsJudged, StagesTyped, SettlementWaits
<1>2. SettledLast'
    BY DEF SettledLast, TeardownsAreOwned, StagesTyped, BeforeSpawn, SettlementWaits
<1>3. TeardownsAreOwned'
    BY DEF TeardownsAreOwned, TreeTyped, StagesTyped, BeforeSpawn, SettlementWaits, Teardown
<1>4. SignalIsAbort'
    BY DEF SignalIsAbort, FlagsTyped, StagesTyped, BeforeSpawn
<1>5. CaptureIsEnded'
    BY DEF CaptureIsEnded, TreeTyped, TeardownEndsKimi, Alive, Teardown
<1>6. AnswerStands'
    BY DEF AnswerStands, FlagsTyped, TreeTyped, StagesTyped, WaitTyped, BeforeSpawn, SettlementWaits, Teardown
<1> QED
    BY <1>1, <1>2, <1>3, <1>4, <1>5, <1>6

LEMMA AnswerKeepsAnswers ==
    ASSUME AInv, Answer
    PROVE  Answers'
<1> USE DEF AInv, IInv, Answers, Answer, Settled, Verdict, constVars, procVars, outputVars, ownVars, downVars, settleVars
<1>1. EngineIsJudged'
    BY DEF EngineIsJudged, StagesTyped, SettlementWaits
<1>2. SettledLast'
    BY DEF SettledLast, StagesTyped, BeforeSpawn, SettlementWaits
<1>3. TeardownsAreOwned'
    BY DEF TeardownsAreOwned, TreeTyped, StagesTyped, BeforeSpawn, SettlementWaits, Teardown
<1>4. SignalIsAbort'
    BY DEF SignalIsAbort, FlagsTyped, StagesTyped, BeforeSpawn
<1>5. CaptureIsEnded'
    BY DEF CaptureIsEnded, TreeTyped, TeardownEndsKimi, Alive, Teardown
<1>6. AnswerStands'
    BY DEF AnswerStands, SignalIsAbort, SettledLast, TeardownsAreOwned, FlagsTyped, TreeTyped, StagesTyped, WaitTyped, BeforeSpawn, SettlementWaits, Teardown
<1> QED
    BY <1>1, <1>2, <1>3, <1>4, <1>5, <1>6

LEMMA DieKeepsAnswers ==
    ASSUME AInv, Die
    PROVE  Answers'
<1> USE DEF AInv, IInv, Answers, Die, constVars, procVars, outputVars, ownVars, downVars, settleVars
<1>1. EngineIsJudged'
    BY DEF EngineIsJudged, StagesTyped, SettlementWaits
<1>2. SettledLast'
    BY DEF SettledLast, StagesTyped, BeforeSpawn, SettlementWaits
<1>3. TeardownsAreOwned'
    BY DEF TeardownsAreOwned, TreeTyped, StagesTyped, BeforeSpawn, SettlementWaits, Teardown
<1>4. SignalIsAbort'
    BY DEF SignalIsAbort, FlagsTyped, StagesTyped, BeforeSpawn
<1>5. CaptureIsEnded'
    BY DEF CaptureIsEnded, TreeTyped, TeardownEndsKimi, Alive, Teardown
<1>6. AnswerStands'
    BY DEF AnswerStands, FlagsTyped, TreeTyped, StagesTyped, WaitTyped, BeforeSpawn, SettlementWaits, Teardown
<1> QED
    BY <1>1, <1>2, <1>3, <1>4, <1>5, <1>6

LEMMA ForkKeepsAnswers ==
    ASSUME AInv, NEW d \in Descendant, Fork(d)
    PROVE  Answers'
<1> USE DEF AInv, IInv, Answers, Fork, constVars, procVars, outputVars, ownVars, downVars, settleVars
<1>1. EngineIsJudged'
    BY DEF EngineIsJudged, StagesTyped, SettlementWaits
<1>2. SettledLast'
    BY DEF SettledLast, StagesTyped, BeforeSpawn, SettlementWaits
<1>3. TeardownsAreOwned'
    BY DEF TeardownsAreOwned, TreeTyped, StagesTyped, BeforeSpawn, SettlementWaits, Teardown
<1>4. SignalIsAbort'
    BY DEF SignalIsAbort, FlagsTyped, StagesTyped, BeforeSpawn
<1>5. CaptureIsEnded'
    BY DEF CaptureIsEnded, TreeTyped, TeardownEndsKimi, Alive, Teardown
<1>6. AnswerStands'
    BY DEF AnswerStands, FlagsTyped, TreeTyped, StagesTyped, WaitTyped, BeforeSpawn, SettlementWaits, Teardown
<1> QED
    BY <1>1, <1>2, <1>3, <1>4, <1>5, <1>6

LEMMA DescendantDiesKeepsAnswers ==
    ASSUME AInv, NEW d \in Descendant, DescendantDies(d)
    PROVE  Answers'
<1> USE DEF AInv, IInv, Answers, DescendantDies, constVars, procVars, outputVars, ownVars, downVars, settleVars
<1>1. EngineIsJudged'
    BY DEF EngineIsJudged, StagesTyped, SettlementWaits
<1>2. SettledLast'
    BY DEF SettledLast, StagesTyped, BeforeSpawn, SettlementWaits
<1>3. TeardownsAreOwned'
    BY DEF TeardownsAreOwned, TreeTyped, StagesTyped, BeforeSpawn, SettlementWaits, Teardown
<1>4. SignalIsAbort'
    BY DEF SignalIsAbort, FlagsTyped, StagesTyped, BeforeSpawn
<1>5. CaptureIsEnded'
    BY DEF CaptureIsEnded, TreeTyped, TeardownEndsKimi, Alive, Teardown
<1>6. AnswerStands'
    BY DEF AnswerStands, FlagsTyped, TreeTyped, StagesTyped, WaitTyped, BeforeSpawn, SettlementWaits, Teardown
<1> QED
    BY <1>1, <1>2, <1>3, <1>4, <1>5, <1>6

LEMMA CaptureKeepsAnswers ==
    ASSUME AInv, NEW t \in Teardown, Capture(t)
    PROVE  Answers'
<1> USE DEF AInv, IInv, Answers, Capture, constVars, procVars, outputVars, ownVars, downVars, settleVars
<1>1. EngineIsJudged'
    BY DEF EngineIsJudged, StagesTyped, SettlementWaits
<1>2. SettledLast'
    BY DEF SettledLast, StagesTyped, BeforeSpawn, SettlementWaits
<1>3. TeardownsAreOwned'
    BY DEF TeardownsAreOwned, TreeTyped, StagesTyped, BeforeSpawn, SettlementWaits, Teardown
<1>4. SignalIsAbort'
    BY DEF SignalIsAbort, FlagsTyped, StagesTyped, BeforeSpawn
<1>5. CaptureIsEnded'
    BY DEF CaptureIsEnded, TreeTyped, TeardownEndsKimi, Alive, Teardown
<1>6. AnswerStands'
    BY DEF AnswerStands, FlagsTyped, TreeTyped, StagesTyped, WaitTyped, BeforeSpawn, SettlementWaits, Teardown
<1> QED
    BY <1>1, <1>2, <1>3, <1>4, <1>5, <1>6

LEMMA QuietKeepsAnswers ==
    ASSUME AInv, NEW t \in Teardown, Quiet(t)
    PROVE  Answers'
<1> USE DEF AInv, IInv, Answers, Quiet, TreeExited, processExited, constVars, procVars, outputVars, ownVars, downVars, settleVars
<1>1. EngineIsJudged'
    BY DEF EngineIsJudged, StagesTyped, SettlementWaits
<1>2. SettledLast'
    BY DEF SettledLast, StagesTyped, BeforeSpawn, SettlementWaits
<1>3. TeardownsAreOwned'
    BY DEF TeardownsAreOwned, TreeTyped, StagesTyped, BeforeSpawn, SettlementWaits, Teardown
<1>4. SignalIsAbort'
    BY DEF SignalIsAbort, FlagsTyped, StagesTyped, BeforeSpawn
<1>5. CaptureIsEnded'
    BY DEF CaptureIsEnded, TreeTyped, TeardownEndsKimi, Alive, Teardown
<1>6. AnswerStands'
    BY DEF AnswerStands, FlagsTyped, TreeTyped, StagesTyped, WaitTyped, BeforeSpawn, SettlementWaits, Teardown
<1> QED
    BY <1>1, <1>2, <1>3, <1>4, <1>5, <1>6

LEMMA EscalateKeepsAnswers ==
    ASSUME AInv, NEW t \in Teardown, Escalate(t)
    PROVE  Answers'
<1> USE DEF AInv, IInv, Answers, Escalate, SigkillTargets, constVars, procVars, outputVars, ownVars, downVars, settleVars
<1>1. EngineIsJudged'
    BY DEF EngineIsJudged, StagesTyped, SettlementWaits
<1>2. SettledLast'
    BY DEF SettledLast, StagesTyped, BeforeSpawn, SettlementWaits
<1>3. TeardownsAreOwned'
    BY DEF TeardownsAreOwned, TreeTyped, StagesTyped, BeforeSpawn, SettlementWaits, Teardown
<1>4. SignalIsAbort'
    BY DEF SignalIsAbort, FlagsTyped, StagesTyped, BeforeSpawn
<1>5. CaptureIsEnded'
    BY DEF CaptureIsEnded, TreeTyped, TeardownEndsKimi, Alive, Teardown
<1>6. AnswerStands'
    BY DEF AnswerStands, FlagsTyped, TreeTyped, StagesTyped, WaitTyped, BeforeSpawn, SettlementWaits, Teardown
<1> QED
    BY <1>1, <1>2, <1>3, <1>4, <1>5, <1>6

LEMMA ConfirmKeepsAnswers ==
    ASSUME AInv, NEW t \in Teardown, Confirm(t)
    PROVE  Answers'
<1> USE DEF AInv, IInv, Answers, Confirm, constVars, procVars, outputVars, ownVars, downVars, settleVars
<1>1. EngineIsJudged'
    BY DEF EngineIsJudged, StagesTyped, SettlementWaits
<1>2. SettledLast'
    BY DEF SettledLast, StagesTyped, BeforeSpawn, SettlementWaits
<1>3. TeardownsAreOwned'
    BY DEF TeardownsAreOwned, TreeTyped, StagesTyped, BeforeSpawn, SettlementWaits, Teardown
<1>4. SignalIsAbort'
    BY DEF SignalIsAbort, FlagsTyped, StagesTyped, BeforeSpawn
<1>5. CaptureIsEnded'
    BY DEF CaptureIsEnded, TreeTyped, TeardownEndsKimi, Alive, Teardown
<1>6. AnswerStands'
    BY DEF AnswerStands, FlagsTyped, TreeTyped, StagesTyped, WaitTyped, BeforeSpawn, SettlementWaits, Teardown
<1> QED
    BY <1>1, <1>2, <1>3, <1>4, <1>5, <1>6

-----------------------------------------------------------------------------
(***************************************************************************)
(* Output and the close event.                                             *)
(***************************************************************************)

\* What neither of the two changes.
Outside == UNCHANGED <<plannedEngine, pc, signal, timeoutFired, kimi, exitCode, descendants,
                       aborted, outcome>>

\* While output is read, or the end of kimi judged, the call is not settled.
LEMMA ReadsUnsettled ==
    ASSUME AInv, ~closed, ~engineMismatchDetected, kimi \in {"alive", "dead", "exited"}
    PROVE  settlement = "none" /\ awaited = "none" /\ pc = "running" /\ outcome = "none"
BY DEF AInv, IInv, Answers, StagesTyped, BeforeSpawn, SettlementWaits, SettledLast, AnswerStands

\* Nothing is refused: the event only adds to what was known.
LEMMA DeliveryKeeps ==
    ASSUME AInv, Outside, UNCHANGED <<engineMismatchDetected, downVars, settleVars>>,
           closed' = closed \/ (closed' /\ kimi = "exited")
    PROVE  (SettledLast /\ TeardownsAreOwned /\ SignalIsAbort /\ CaptureIsEnded /\ AnswerStands)'
<1> USE DEF AInv, IInv, Answers, Outside, downVars, settleVars
<1>1. SettledLast'
    BY DEF SettledLast
<1>2. TeardownsAreOwned'
    BY DEF TeardownsAreOwned
<1>3. SignalIsAbort'
    BY DEF SignalIsAbort
<1>4. CaptureIsEnded'
    BY DEF CaptureIsEnded, Alive
<1>5. AnswerStands'
    BY DEF AnswerStands
<1> QED
    BY <1>1, <1>2, <1>3, <1>4, <1>5

\* The call is refused.
LEMMA RefusalKeeps ==
    ASSUME AInv, Outside, Mismatch, ~closed, ~engineMismatchDetected,
           kimi \in {"alive", "dead", "exited"}
    PROVE  (SettledLast /\ TeardownsAreOwned /\ SignalIsAbort /\ CaptureIsEnded /\ AnswerStands)'
<1> USE DEF AInv, IInv, Answers, Outside, Mismatch, BeginTeardown, Settle, settleVars
<1>0. settlement = "none" /\ awaited = "none" /\ pc = "running" /\ outcome = "none"
    BY ReadsUnsettled
<1>1. SettledLast'
    BY <1>0 DEF SettledLast
<1>2. TeardownsAreOwned'
    BY <1>0 DEF TeardownsAreOwned, TreeTyped, FlagsTyped, Teardown
<1>3. SignalIsAbort'
    BY <1>0 DEF SignalIsAbort
<1>4. CaptureIsEnded'
    BY <1>0 DEF CaptureIsEnded, TeardownsAreOwned, TreeTyped, FlagsTyped, Alive, Teardown
<1>5. AnswerStands'
    BY <1>0 DEF AnswerStands
<1> QED
    BY <1>1, <1>2, <1>3, <1>4, <1>5

LEMMA ConsumeKeepsAnswers ==
    ASSUME AInv, Outside, NEW item \in Item, Consume(item), ~closed,
           kimi \in {"alive", "dead", "exited"}, closed' => closed \/ kimi = "exited",
           closed' \in BOOLEAN
    PROVE  Answers'
<1> USE DEF AInv, Outside, Consume
<1>1. CASE ~Reads
    <2>1. EngineIsJudged'
        BY <1>1 DEF IInv, Answers, EngineIsJudged, Reads, outputVars, ownVars
    <2> QED
        BY <1>1, <2>1, DeliveryKeeps DEF IInv, FlagsTyped, Answers, ownVars
<1>2. CASE Reads /\ OutOfPlace(item)
    <2>1. EngineIsJudged'
        BY <1>2 DEF IInv, StagesTyped, Plan, Answers, EngineIsJudged, Mismatch, OutOfPlace
    <2> QED
        BY <1>2, <2>1, RefusalKeeps DEF Answers, Reads
<1>3. CASE Reads /\ ~OutOfPlace(item)
    <2>1. EngineIsJudged'
        BY <1>3 DEF IInv, StagesTyped, Plan, Answers, EngineIsJudged, Reads, OutOfPlace,
            Announce, IsMarker
    <2> QED
        BY <1>3, <2>1, DeliveryKeeps DEF IInv, FlagsTyped, Answers
<1> QED
    BY <1>1, <1>2, <1>3

LEMMA DataKeepsAnswers ==
    ASSUME AInv, Data
    PROVE  Answers'
<1>1. PICK item \in Item : Consume(item)
    BY DEF Data
<1>2. Outside
    BY <1>1 DEF Data, Outside, Consume, constVars, procVars, ownVars
<1>3. closed' \in BOOLEAN /\ (closed' => closed \/ kimi = "exited")
    BY DEF Data, AInv, IInv, FlagsTyped
<1> QED
    BY <1>1, <1>2, <1>3, ConsumeKeepsAnswers DEF Data

LEMMA CloseKeepsAnswers ==
    ASSUME AInv, Close
    PROVE  Answers'
<1> USE DEF Close, processExited, constVars, procVars
<1>1. ASSUME NEW item \in Item, Consume(item)
      PROVE  Answers'
    BY <1>1, ConsumeKeepsAnswers DEF Outside, Consume, ownVars
<1>2. CASE Unproven /\ Mismatch /\ UNCHANGED <<outputVars, aborted, draining>>
    <2>1. EngineIsJudged'
        BY <1>2 DEF AInv, Answers, EngineIsJudged, Mismatch, Unproven, outputVars
    <2> QED
        BY <1>2, <2>1, RefusalKeeps DEF Answers, Outside, Unproven
<1>3. CASE ~Unproven /\ UNCHANGED <<outputVars, ownVars, downVars, settleVars>>
    <2>1. EngineIsJudged'
        BY <1>3 DEF AInv, IInv, FlagsTyped, Answers, EngineIsJudged, Unproven, outputVars, ownVars
    <2> QED
        BY <1>3, <2>1, DeliveryKeeps DEF Answers, Outside, ownVars
<1> QED
    BY <1>1, <1>2, <1>3

LEMMA NextKeepsAInv == AInv /\ [Next]_vars => AInv'
<1> SUFFICES ASSUME AInv, [Next]_vars PROVE Answers'
    BY NextKeepsIInv DEF AInv
<1>1. CASE UNCHANGED vars
    BY <1>1 DEF vars, constVars, procVars, outputVars, ownVars, downVars, settleVars, AInv,
        Answers, EngineIsJudged, SettledLast, TeardownsAreOwned, SignalIsAbort,
        CaptureIsEnded, Alive, AnswerStands
<1>2. CASE Call \/ Refuse \/ Spawn \/ ProcessError
    BY <1>2, CallKeepsAnswers, RefuseKeepsAnswers, SpawnKeepsAnswers, ProcessErrorKeepsAnswers
<1>3. CASE Cancel \/ Timeout
    <2>1. Abort /\ timeoutFired' \in BOOLEAN /\ (timeoutFired' => timeoutFired \/ signal')
        BY <1>3 DEF Cancel, Timeout, Abort, AInv, IInv, FlagsTyped
    <2> QED
        BY <2>1, AbortKeepsAnswers
<1>4. CASE Data \/ Exit \/ Close \/ Drained \/ Answer
    BY <1>4, DataKeepsAnswers, ExitKeepsAnswers, CloseKeepsAnswers, DrainedKeepsAnswers,
        AnswerKeepsAnswers
<1>5. ASSUME NEW t \in Teardown, TeardownStep(t)
      PROVE  Answers'
    BY <1>5, CaptureKeepsAnswers, QuietKeepsAnswers, EscalateKeepsAnswers, ConfirmKeepsAnswers
    DEF TeardownStep
<1>6. CASE Die
    BY <1>6, DieKeepsAnswers
<1>7. ASSUME NEW d \in Descendant, Fork(d) \/ DescendantDies(d)
      PROVE  Answers'
    BY <1>7, ForkKeepsAnswers, DescendantDiesKeepsAnswers
<1> QED
    BY <1>1, <1>2, <1>3, <1>4, <1>5, <1>6, <1>7 DEF Next

LEMMA AnswersHold == Spec => []AInv
<1>1. Init => AInv
    BY InitIInv, InitAnswers DEF AInv
<1> QED
    BY <1>1, NextKeepsAInv, PTL DEF Spec

-----------------------------------------------------------------------------
\* Whatever order output, exit, close and abort come in, the caller sees no
\* record and no session of an engine that has not proved to be the one of the
\* plan, and no clean result of one that never did (consumeOutcomes, the close
\* handler of runCliPrompt).
THEOREM OutputProven == Spec => []OutputIsProven
<1>1. AInv => OutputIsProven
    BY DEF AInv, IInv, StagesTyped, Plan, Answers, EngineIsJudged, SettledLast, AnswerStands,
        OutputIsProven
<1> QED
    BY <1>1, AnswersHold, PTL

\* A call that was aborted or ran out of budget before it answered never
\* answers with a plain result (onAbort, runCliPromptWithBudget).
THEOREM AbortReported == Spec => []AbortIsReported
<1>1. AInv => AbortIsReported
    BY DEF AInv, Answers, AnswerStands, AbortIsReported
<1> QED
    BY <1>1, AnswersHold, PTL

\* When the call answers, every descendant that its teardown had captured is
\* gone, unless a refusal took the place of the abort's teardown
\* (teardownChildTree).
THEOREM TreeGone == Spec => []CapturedTreeIsGone
<1>1. ASSUME AInv, outcome # "none", NEW t \in Teardown, NEW d \in captured[t], Alive(d)
      PROVE  t = "abort" /\ teardown["mismatch"] # "none"
    <2> USE <1>1 DEF AInv, IInv, Answers
    <2>1. teardown[t] \notin {"none", "capture", "killed", "done"}
        BY DEF CaptureIsEnded
    <2>2. awaited # t
        BY <2>1 DEF AnswerStands
    <2>3. settlement # "none"
        BY <2>1 DEF AnswerStands, TeardownsAreOwned, Teardown
    <2>4. t = "abort"
        BY <2>1, <2>2, <2>3 DEF TeardownsAreOwned, Teardown
    <2>5. awaited = "mismatch"
        BY <2>1, <2>2, <2>3, <2>4 DEF TeardownsAreOwned, WaitTyped, FlagsTyped, Teardown
    <2> QED
        BY <2>4, <2>5 DEF WaitTyped, Teardown
<1>2. AInv => CapturedTreeIsGone
    BY <1>1 DEF CapturedTreeIsGone
<1> QED
    BY <1>2, AnswersHold, PTL
=============================================================================
