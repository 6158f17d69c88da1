---------------------------- MODULE Engine_proofs ----------------------------
(***************************************************************************)
(* Proofs about plans, engines and sessions, for any number of jobs and    *)
(* any number of changes to the binary and the files around them.          *)
(*                                                                         *)
(* That a row names the engine that ran rests on what a log can hold at    *)
(* each stage of its job: nothing before kimi starts, and then a marker    *)
(* only of native-v2 and a sign of life without one only of a kimi that    *)
(* did what its plan forced.  That it names a session of its own rests on  *)
(* its source: the row it continues has ended and keeps its session.       *)
(***************************************************************************)
EXTENDS Engine, TLAPS

Places == {"idle", "resolved", "queued", "cleared", "checked", "running",
           "answering", "judging", "over"}
Row == [status : {"none", "running", "ended"},
        session : Session \cup {NoSession}, from : Job \cup {NoJob},
        intended : Engine \cup {Unknown}, version : Version,
        observed : Engine \cup {Unknown}]
Child == [engine : Engine \cup {Unknown}, version : Version,
          plan : BOOLEAN, hooked : BOOLEAN]
Held == [source : Job \cup {NoJob}, observed : Engine \cup {Unknown},
         unproven : BOOLEAN, before : SUBSET Session, edited : BOOLEAN]

TypeOK ==
    /\ installed \in Version
    /\ config \in {"safe", "plan", "unhooked"}
    /\ journal \in [Session -> {"absent", "clean", "plan"}]
    /\ rows \in [Job -> Row]
    /\ log \in [Job -> SUBSET Evidence]
    /\ pc \in [Job -> Places]
    /\ held \in [Job -> Held]
    /\ child \in [Job -> Child]
    /\ took \in [Job -> Engine \cup {Unknown}]
    /\ crossed \subseteq Session

\* Where no row has been written, and where no kimi has been started.
NoRowYet == {"idle", "resolved"}
NoKimiYet == NoRowYet \cup {"queued", "cleared", "checked"}

\* A job that is not planned has no row; one that is has a plan.
PlanIsThere(j) ==
    /\ pc[j] \in NoRowYet => rows[j] = NoRow
    /\ pc[j] \in Places \ (NoRowYet \cup {"over"}) => rows[j].intended \in Engine

\* Before kimi starts there is nothing of it.
NothingYet(j) == pc[j] \in NoKimiYet => log[j] = {} /\ child[j].engine = Unknown

\* kimi runs what its binary makes of the plan, which is also in the log.
RunsItsPlan(j) ==
    pc[j] = "running" =>
        /\ child[j].engine = Started(child[j].version, rows[j].intended = Legacy)
        /\ "forced" \in log[j] <=> rows[j].intended = Legacy

\* A call that answers is of the engine that was planned.
AnswersAsPlanned(j) ==
    pc[j] \in {"answering", "judging"} => child[j].engine = rows[j].intended

\* What a log proves is true.
LogIsTrue(j) ==
    /\ "marker" \in log[j] => child[j].engine = Native
    /\ {"forced", "run"} \subseteq log[j] /\ "marker" \notin log[j]
           => child[j].engine = Legacy

Staged(j) ==
    /\ PlanIsThere(j) /\ NothingYet(j) /\ RunsItsPlan(j)
    /\ AnswersAsPlanned(j) /\ LogIsTrue(j)

\* A row that is or may be continued has ended and has a session.
SourceHasSession ==
    \A j \in Job : held[j].source # NoJob =>
        rows[held[j].source].status = "ended" /\ rows[held[j].source].session # NoSession
SourceIsKept ==
    \A j \in Job : rows[j].from # NoJob =>
        /\ rows[rows[j].from].status = "ended"
        /\ rows[j].session = rows[rows[j].from].session
        /\ rows[j].session # NoSession

IInv ==
    /\ TypeOK
    /\ \A j \in Job : Staged(j)
    /\ ObservedIsTrue
    /\ SourceHasSession /\ SourceIsKept /\ SessionIsOwn

-----------------------------------------------------------------------------
\* Jobs and sessions are numbers; no session and no job are none of them.
LEMMA Numbers ==
    /\ Job \subseteq Session /\ NoJob \notin Job /\ NoSession \notin Session
    /\ \A j \in Job : j # NoSession
BY BoundsAssumption DEF Job, Session, Desk, NoJob, NoSession

LEMMA Engines == Legacy # Native /\ Unknown \notin Engine /\ Legacy \in Engine /\ Native \in Engine
BY DEF Legacy, Native, Unknown, Engine

\* What becomes of a row, except that a plan is written into it: its plan stays, it
\* goes on after its end only to learn its engine, and it gets no session but its own.
Grows(r, k) ==
    /\ r.from = rows[k].from /\ r.intended = rows[k].intended
    /\ rows[k].status = "ended" => r.status = "ended" /\ r.session = rows[k].session
    /\ rows[k].status = "none" => r = rows[k]
    /\ \/ r.session = rows[k].session
       \/ /\ rows[k].session = NoSession /\ rows[k].from = NoJob /\ r.session = k
          /\ pc[k] \notin NoKimiYet
    /\ r.observed \in {rows[k].observed, child[k].engine}
RowsGrow == rows' \in [Job -> Row] /\ \A k \in Job : Grows(rows'[k], k)

LEMMA SameRowsGrow == TypeOK /\ rows' = rows => RowsGrow
BY DEF RowsGrow, Grows, TypeOK

LEMMA SameRow == ASSUME NEW k, rows'[k] = rows[k] PROVE Grows(rows'[k], k)
BY DEF Grows

LEMMA OneRowGrows ==
    ASSUME TypeOK, NEW j \in Job, NEW r \in Row, Grows(r, j), rows' = [rows EXCEPT ![j] = r]
    PROVE  RowsGrow
<1>1. rows' \in [Job -> Row]
    BY DEF TypeOK
<1>2. ASSUME NEW k \in Job PROVE Grows(rows'[k], k)
    <2>1. CASE k = j
        BY <2>1 DEF TypeOK
    <2>2. CASE k # j
        <3>1. rows'[k] = rows[k]
            BY <2>2 DEF TypeOK
        <3> QED
            BY <3>1 DEF Grows
    <2> QED
        BY <2>1, <2>2
<1> QED
    BY <1>1, <1>2 DEF RowsGrow

\* Evidence of the log is true, so a row that takes it over grows.
LEMMA ReconciledGrows ==
    ASSUME IInv, NEW k \in Job, rows[k].status # "none"
    PROVE  Reconciled(k) \in Row /\ Grows(Reconciled(k), k)
           /\ Reconciled(k).status = rows[k].status /\ Reconciled(k).session = rows[k].session
<1>1. Classify(log[k]) \in {Unknown, child[k].engine} /\ Classify(log[k]) \in Engine \cup {Unknown}
    BY DEF IInv, Staged, LogIsTrue, Classify, Engine
<1>2. rows[k] \in Row
    BY DEF IInv, TypeOK
<1>3. Reconciled(k) = rows[k] \/ Reconciled(k) = [rows[k] EXCEPT !.observed = Classify(log[k])]
    BY DEF Reconciled
<1>4. CASE Reconciled(k) = rows[k]
    BY <1>2, <1>4 DEF Grows
<1>5. CASE rows[k].observed = Unknown /\ Reconciled(k) = [rows[k] EXCEPT !.observed = Classify(log[k])]
    BY <1>1, <1>2, <1>5 DEF Grows, Row
<1> QED
    BY <1>3, <1>4, <1>5 DEF Reconciled

\* The session that an ending job may keep.
MayKeep(j, s) ==
    \/ s = rows[j].session
    \/ /\ rows[j].session = NoSession /\ rows[j].from = NoJob /\ s = j
       /\ pc[j] \notin NoKimiYet

LEMMA EndingGrows ==
    ASSUME TypeOK, NEW j \in Job, NEW s, MayKeep(j, s), rows' = EndedWith(j, s)
    PROVE  RowsGrow
<1>1. rows[j] \in Row
    BY DEF TypeOK
<1>2. s \in Session \cup {NoSession}
    BY <1>1, Numbers DEF MayKeep, Row
<1>3. CASE IsRunning(j)
    <2> DEFINE r == [rows[j] EXCEPT !.status = "ended", !.session = s]
    <2>1. rows' = [rows EXCEPT ![j] = r]
        BY <1>3 DEF EndedWith, TypeOK
    <2>2. r \in Row
        BY <1>1, <1>2 DEF Row
    <2>3. Grows(r, j)
        BY <1>1, <1>3 DEF Grows, MayKeep, Row, IsRunning
    <2> HIDE DEF r
    <2> QED
        BY <2>1, <2>2, <2>3, OneRowGrows
<1>4. CASE ~IsRunning(j)
    BY <1>4, SameRowsGrow DEF EndedWith
<1> QED
    BY <1>3, <1>4

\* A row that is ended as it stands.
LEMMA StatusEndGrows ==
    ASSUME TypeOK, NEW j \in Job, IsRunning(j), rows' = [rows EXCEPT ![j].status = "ended"]
    PROVE  RowsGrow
<1> DEFINE r == [rows[j] EXCEPT !.status = "ended"]
<1>1. rows[j] \in Row
    BY DEF TypeOK
<1>2. r \in Row /\ Grows(r, j)
    BY <1>1 DEF Row, Grows, IsRunning
<1>3. rows' = [rows EXCEPT ![j] = r]
    BY DEF TypeOK
<1> HIDE DEF r
<1> QED
    BY <1>2, <1>3, OneRowGrows

\* kimi announces the session it works in, and that is one the job may keep.
LEMMA AnnouncedMayBeKept ==
    ASSUME IInv, NEW j \in Job, NEW announced \in Announced(j), pc[j] \notin NoKimiYet
    PROVE  MayKeep(j, Kept(j, announced))
           /\ MayKeep(j, IF announced # NoSession THEN announced ELSE rows[j].session)
BY Numbers DEF IInv, Announced, Kept, MayKeep, WorksIn, Resumes, SourceIsKept, SessionIsOwn

\* A job whose process, log and kimi stand still keeps its stage.
Still(k) == pc'[k] = pc[k] /\ log'[k] = log[k] /\ child'[k] = child[k]

LEMMA StillStaged ==
    ASSUME NEW k, Staged(k), Still(k), Grows(rows'[k], k)
    PROVE  Staged(k)'
BY DEF Staged, PlanIsThere, NothingYet, RunsItsPlan, AnswersAsPlanned, LogIsTrue, Still,
    Grows, NoRow

\* What IInv says of sources and sessions follows from the growth of rows.
LEMMA GrowthKeepsRows ==
    ASSUME IInv, RowsGrow, \A j \in Job : child'[j].engine = child[j].engine
    PROVE  SourceIsKept' /\ SessionIsOwn' /\ ObservedIsTrue'
<1>1. ASSUME NEW j \in Job, rows[j].from # NoJob
      PROVE  rows[j].from \in Job /\ rows'[j].from = rows[j].from
             /\ rows'[j].session = rows[j].session
             /\ rows'[rows[j].from].status = "ended"
             /\ rows'[rows[j].from].session = rows[rows[j].from].session
    <2>1. rows[j].from \in Job
        BY <1>1 DEF IInv, TypeOK, Row
    <2> QED
        BY <1>1, <2>1 DEF IInv, SourceIsKept, RowsGrow, Grows
<1>2. SourceIsKept'
    BY <1>1 DEF IInv, SourceIsKept, RowsGrow, Grows
<1>3. SessionIsOwn'
    BY <1>1 DEF IInv, SessionIsOwn, RowsGrow, Grows
<1>4. ObservedIsTrue'
    BY DEF IInv, ObservedIsTrue, RowsGrow, Grows
<1> QED
    BY <1>2, <1>3, <1>4

LEMMA GrowthKeepsHeld ==
    ASSUME IInv, RowsGrow, NEW j \in Job, held'[j].source \in {held[j].source, NoJob},
           held'[j].source # NoJob
    PROVE  rows'[held'[j].source].status = "ended"
           /\ rows'[held'[j].source].session # NoSession
<1>1. held'[j].source = held[j].source /\ held[j].source \in Job
    BY DEF IInv, TypeOK, Held
<1> QED
    BY <1>1 DEF IInv, SourceHasSession, RowsGrow, Grows

LEMMA GrowthKeepsSources ==
    ASSUME IInv, RowsGrow, \A j \in Job : held'[j].source \in {held[j].source, NoJob},
           \A j \in Job : child'[j].engine = child[j].engine
    PROVE  SourceHasSession' /\ SourceIsKept' /\ SessionIsOwn' /\ ObservedIsTrue'
BY GrowthKeepsRows, GrowthKeepsHeld DEF SourceHasSession

-----------------------------------------------------------------------------
(***************************************************************************)
(* Every action keeps IInv.                                                *)
(***************************************************************************)

LEMMA InitIInv == Init => IInv
<1> SUFFICES ASSUME Init PROVE IInv
    OBVIOUS
<1>1. NoRow \in Row /\ NoChild \in Child /\ NotHeld \in Held
    BY DEF NoRow, Row, NoChild, Child, NotHeld, Held, Version
<1>2. TypeOK
    BY <1>1, BoundsAssumption DEF Init, TypeOK, Places
<1>3. \A j \in Job : Staged(j)
    BY DEF Init, Staged, PlanIsThere, NothingYet, RunsItsPlan, AnswersAsPlanned, LogIsTrue,
        NoRowYet, NoKimiYet, Places, NoChild
<1>4. ObservedIsTrue /\ SourceHasSession /\ SourceIsKept /\ SessionIsOwn
    BY DEF Init, ObservedIsTrue, SourceHasSession, SourceIsKept, SessionIsOwn, NoRow, NotHeld
<1> QED
    BY <1>2, <1>3, <1>4 DEF IInv

LEMMA ExposedHeld ==
    ASSUME TypeOK, NEW calls, Exposed(calls) \/ UNCHANGED held
    PROVE  held' \in [Job -> Held] /\ \A j \in Job : held'[j].source = held[j].source
<1> DEFINE h(j) == IF j \in calls THEN [held[j] EXCEPT !.edited = TRUE] ELSE held[j]
<1>1. \A j \in Job : h(j) \in Held /\ h(j).source = held[j].source
    <2> TAKE j \in Job
    <2>1. held[j] \in Held
        BY DEF TypeOK
    <2>2. [held[j] EXCEPT !.edited = TRUE] \in Held
          /\ [held[j] EXCEPT !.edited = TRUE].source = held[j].source
        BY <2>1 DEF Held
    <2> QED
        BY <2>1, <2>2
<1>2. CASE Exposed(calls)
    <2>1. held' = [j \in Job |-> h(j)]
        BY <1>2 DEF Exposed
    <2> HIDE DEF h
    <2> QED
        BY <1>1, <2>1
<1>3. CASE UNCHANGED held
    BY <1>3 DEF TypeOK
<1> QED
    BY <1>2, <1>3

\* The world around changes: rows, logs and processes stay.
LEMMA OthersKeepIInv == ASSUME IInv, Others PROVE IInv' /\ RowsGrow
<1>1. UNCHANGED <<rows, log, pc, child, history>>
    BY DEF Others, Upgrade, EditConfig, TouchSession, OpenDesk, table, process
<1>2. PICK calls : Exposed(calls) \/ UNCHANGED held
    BY DEF Others, Upgrade, EditConfig, TouchSession, OpenDesk, process
<1>3. held' \in [Job -> Held] /\ \A j \in Job : held'[j].source = held[j].source
    BY <1>2, ExposedHeld DEF IInv
<1>4. installed' \in Version /\ config' \in {"safe", "plan", "unhooked"}
    BY DEF IInv, TypeOK, Others, Upgrade, EditConfig, TouchSession, OpenDesk
<1>5. journal' \in [Session -> {"absent", "clean", "plan"}]
    BY DEF IInv, TypeOK, Others, Upgrade, EditConfig, TouchSession, OpenDesk
<1>6. TypeOK'
    BY <1>1, <1>3, <1>4, <1>5 DEF IInv, TypeOK, history
<1>7. \A j \in Job : Staged(j)'
    BY <1>1, SameRowsGrow, StillStaged DEF IInv, RowsGrow, Still
<1>8. RowsGrow
    BY <1>1, SameRowsGrow DEF IInv
<1>9. SourceHasSession' /\ SourceIsKept' /\ SessionIsOwn' /\ ObservedIsTrue'
    BY <1>1, <1>3, <1>8, GrowthKeepsSources
<1> QED
    BY <1>6, <1>7, <1>8, <1>9 DEF IInv

\* Rows grow and no process moves: a look at a row, a cancel.
LEMMA RowStepsKeepIInv ==
    ASSUME IInv, NEW j \in Job, Inspect(j) \/ Cancelled(j)
    PROVE  IInv' /\ RowsGrow
<1>1. RowsGrow
    <2>1. CASE Inspect(j)
        BY <2>1, ReconciledGrows, OneRowGrows DEF Inspect, IsRunning, IInv
    <2>2. CASE Cancelled(j)
        BY <2>2, StatusEndGrows DEF Cancelled, IInv
    <2> QED
        BY <2>1, <2>2
<1>2. UNCHANGED <<log, pc, held, child, world, history>>
    BY DEF Inspect, Cancelled, process
<1>3. TypeOK'
    BY <1>1, <1>2 DEF IInv, TypeOK, RowsGrow, world, history
<1>4. \A k \in Job : Staged(k)'
    BY <1>1, <1>2, StillStaged DEF IInv, RowsGrow, Still
<1>5. SourceHasSession' /\ SourceIsKept' /\ SessionIsOwn' /\ ObservedIsTrue'
    BY <1>1, <1>2, GrowthKeepsSources
<1> QED
    BY <1>1, <1>3, <1>4, <1>5 DEF IInv

\* A command picks the row it continues.
LEMMA ResolveKeepsIInv ==
    ASSUME IInv, NEW j \in Job, Resolve(j)
    PROVE  IInv' /\ RowsGrow
<1>1. pc[j] = "idle" /\ pc' = [pc EXCEPT ![j] = "resolved"]
      /\ UNCHANGED <<log, child, world, history>>
    BY DEF Resolve, IsNext
<1>2. CASE UNCHANGED <<rows, held>>
    <2>1. RowsGrow /\ \A k \in Job : held'[k].source \in {held[k].source, NoJob}
        BY <1>2, SameRowsGrow DEF IInv
    <2>2. TypeOK'
        BY <1>1, <1>2 DEF IInv, TypeOK, Places, world, history
    <2>3. ASSUME NEW k \in Job PROVE Staged(k)'
        <3>1. CASE k = j
            BY <1>1, <1>2, <3>1 DEF IInv, TypeOK, Staged, PlanIsThere, NothingYet, RunsItsPlan,
                AnswersAsPlanned, LogIsTrue, NoRowYet, NoKimiYet
        <3>2. CASE k # j
            BY <1>1, <2>1, <3>2, StillStaged DEF IInv, TypeOK, RowsGrow, Still
        <3> QED
            BY <3>1, <3>2
    <2> QED
        BY <1>1, <2>1, <2>2, <2>3, GrowthKeepsSources DEF IInv
<1>3. ASSUME NEW k \in Job, MayResume(k), rows' = [rows EXCEPT ![k] = Reconciled(k)],
             held' = [held EXCEPT ![j] =
                     [NotHeld EXCEPT !.source = k, !.observed = Reconciled(k).observed]]
      PROVE  IInv' /\ RowsGrow
    <2>1. Reconciled(k) \in Row /\ Grows(Reconciled(k), k)
        BY <1>3, ReconciledGrows DEF MayResume
    <2>2. RowsGrow
        BY <1>3, <2>1, OneRowGrows DEF IInv
    <2>3. held' \in [Job -> Held] /\ held'[j].source = k
          /\ \A q \in Job \ {j} : held'[q].source = held[q].source
        <3>1. [NotHeld EXCEPT !.source = k, !.observed = Reconciled(k).observed] \in Held
              /\ [NotHeld EXCEPT !.source = k, !.observed = Reconciled(k).observed].source = k
            BY <2>1 DEF NotHeld, Held, Row
        <3> QED
            BY <1>3, <3>1 DEF IInv, TypeOK
    <2>4. TypeOK'
        BY <1>1, <2>2, <2>3 DEF IInv, TypeOK, Places, world, history, RowsGrow
    <2>5. ASSUME NEW q \in Job PROVE Staged(q)'
        <3>1. CASE q = j
            <4>1. rows[j] = NoRow
                BY <1>1 DEF IInv, Staged, PlanIsThere, NoRowYet
            <4>2. rows'[j] = NoRow
                BY <2>2, <4>1 DEF RowsGrow, Grows, NoRow
            <4> QED
                BY <1>1, <3>1, <4>2 DEF IInv, TypeOK, Staged, PlanIsThere, NothingYet, RunsItsPlan,
                    AnswersAsPlanned, LogIsTrue, NoRowYet, NoKimiYet
        <3>2. CASE q # j
            BY <1>1, <2>2, <3>2, StillStaged DEF IInv, TypeOK, RowsGrow, Still
        <3> QED
            BY <3>1, <3>2
    <2>6. rows'[k].status = "ended" /\ rows'[k].session # NoSession
        BY <1>3, <2>2 DEF MayResume, RowsGrow, Grows
    <2>7. SourceHasSession'
        BY <2>2, <2>3, <2>6, GrowthKeepsHeld DEF SourceHasSession
    <2> QED
        BY <1>1, <2>2, <2>4, <2>5, <2>7, GrowthKeepsRows DEF IInv
<1> QED
    BY <1>2, <1>3 DEF Resolve

\* A plan is written into the row that was free.
LEMMA PrepareKeepsIInv ==
    ASSUME IInv, NEW j \in Job, Prepare(j)
    PROVE  IInv'
<1>1. pc[j] = "resolved" /\ pc' = [pc EXCEPT ![j] = "queued"]
      /\ held' = [held EXCEPT ![j] = NotHeld]
      /\ UNCHANGED <<log, child, world, history>>
    BY DEF Prepare
<1>2. PICK v \in Probed : Plannable(j, v) /\ rows' = [rows EXCEPT ![j] = PlannedRow(j, v)]
    BY DEF Prepare
<1>3. v \in Version
    BY <1>2 DEF Probed, Plannable, IInv, TypeOK
<1>4. rows[j] = NoRow /\ log[j] = {} /\ child[j].engine = Unknown
    BY <1>1 DEF IInv, Staged, PlanIsThere, NothingYet, NoRowYet, NoKimiYet
<1> DEFINE k == held[j].source
<1>5. k \in Job \cup {NoJob}
    BY DEF IInv, TypeOK, Held
<1>6. k # NoJob => k # j /\ rows[k].status = "ended" /\ rows[k].session # NoSession
    BY <1>4 DEF IInv, SourceHasSession, NoRow
<1>7. SessionOf(k) \in Session \cup {NoSession}
    BY <1>5 DEF SessionOf, IInv, TypeOK, Row
<1>8. PlannedRow(j, v) \in Row /\ PlannedRow(j, v).intended \in Engine
    BY <1>3, <1>5, <1>7 DEF PlannedRow, Row, SelectIntendedEngine, Engine
<1>9. rows' \in [Job -> Row] /\ rows'[j] = PlannedRow(j, v)
      /\ \A q \in Job \ {j} : rows'[q] = rows[q]
    BY <1>2, <1>8 DEF IInv, TypeOK
<1>10. held' \in [Job -> Held] /\ held'[j].source = NoJob
       /\ \A q \in Job \ {j} : held'[q] = held[q]
    <2>1. NotHeld \in Held /\ NotHeld.source = NoJob
        BY DEF NotHeld, Held
    <2> QED
        BY <1>1, <2>1 DEF IInv, TypeOK
<1>11. TypeOK'
    BY <1>1, <1>9, <1>10 DEF IInv, TypeOK, Places, world, history
<1>12. ASSUME NEW q \in Job PROVE Staged(q)'
    <2>1. CASE q = j
        BY <1>1, <1>4, <1>8, <1>9, <2>1 DEF IInv, TypeOK, Staged, PlanIsThere, NothingYet,
            RunsItsPlan, AnswersAsPlanned, LogIsTrue, NoRowYet, NoKimiYet
    <2>2. CASE q # j
        BY <1>1, <1>9, <2>2 DEF IInv, TypeOK, Staged, PlanIsThere, NothingYet,
            RunsItsPlan, AnswersAsPlanned, LogIsTrue
    <2> QED
        BY <2>1, <2>2
<1>13. PlannedRow(j, v).session = SessionOf(k) /\ PlannedRow(j, v).from = k
       /\ PlannedRow(j, v).observed = Unknown
    BY DEF PlannedRow
<1>14. ObservedIsTrue'
    BY <1>1, <1>9, <1>13 DEF IInv, ObservedIsTrue
<1>15. SourceHasSession'
    <2> SUFFICES ASSUME NEW q \in Job, held'[q].source # NoJob
                 PROVE  rows'[held'[q].source].status = "ended"
                        /\ rows'[held'[q].source].session # NoSession
        BY DEF SourceHasSession
    <2>1. q # j /\ held'[q].source = held[q].source /\ held[q].source \in Job
        BY <1>10 DEF IInv, TypeOK, Held
    <2>2. rows[held[q].source].status = "ended" /\ rows[held[q].source].session # NoSession
        BY <2>1 DEF IInv, SourceHasSession
    <2>3. held[q].source # j
        BY <1>4, <2>2 DEF NoRow
    <2> QED
        BY <1>9, <2>1, <2>2, <2>3
<1>16. ASSUME NEW q \in Job, rows'[q].from # NoJob
       PROVE  /\ rows'[q].from \in Job /\ rows'[rows'[q].from] = rows[rows'[q].from]
              /\ rows[rows'[q].from].status = "ended"
              /\ rows'[q].session = rows[rows'[q].from].session
              /\ rows'[q].session # NoSession
    <2>1. CASE q = j
        BY <1>5, <1>6, <1>9, <1>13, <1>16, <2>1 DEF SessionOf
    <2>2. CASE q # j
        <3>1. rows'[q] = rows[q] /\ rows[q].from \in Job
            BY <1>9, <1>16, <2>2 DEF IInv, TypeOK, Row
        <3>2. rows[rows[q].from].status = "ended"
            BY <1>16, <3>1 DEF IInv, SourceIsKept
        <3>3. rows[q].from # j
            BY <1>4, <3>2 DEF NoRow
        <3> QED
            BY <1>9, <1>16, <3>1, <3>2, <3>3 DEF IInv, SourceIsKept
    <2> QED
        BY <2>1, <2>2
<1>17. SourceIsKept'
    BY <1>16 DEF SourceIsKept
<1>18. SessionIsOwn'
    <2> SUFFICES ASSUME NEW q \in Job, rows'[q].session # NoSession, rows'[q].from = NoJob
                 PROVE  rows'[q].session = q
        BY <1>16 DEF SessionIsOwn
    <2>1. CASE q = j
        BY <1>9, <1>13, <2>1 DEF SessionOf
    <2>2. CASE q # j
        BY <1>9, <2>2 DEF IInv, SessionIsOwn
    <2> QED
        BY <2>1, <2>2
<1> QED
    BY <1>11, <1>12, <1>14, <1>15, <1>17, <1>18 DEF IInv

\* Steps of a job before its kimi starts, refused or not.
LEMMA EarlyStepsKeepIInv ==
    ASSUME IInv, NEW j \in Job, Refuse(j) \/ BeginFresh(j) \/ BeginResume(j) \/ Check(j)
    PROVE  IInv' /\ RowsGrow
<1>1. UNCHANGED <<log, child, world, history>>
    BY DEF Refuse, BeginFresh, BeginResume, Check, table
<1>2. held' \in [Job -> Held] /\ \A k \in Job : held'[k].source \in {held[k].source, NoJob}
    <2>1. CASE Refuse(j)
        <3>1. NotHeld \in Held /\ NotHeld.source = NoJob
            BY DEF NotHeld, Held
        <3> QED
            BY <2>1, <3>1 DEF Refuse, IInv, TypeOK
    <2>2. CASE BeginFresh(j)
        <3>1. Indexed \in SUBSET Session /\ held[j] \in Held
            BY DEF Indexed, IInv, TypeOK
        <3>2. [held[j] EXCEPT !.before = Indexed] \in Held
              /\ [held[j] EXCEPT !.before = Indexed].source = held[j].source
            BY <3>1 DEF Held
        <3>3. held' = [held EXCEPT ![j] = [held[j] EXCEPT !.before = Indexed]]
            BY <2>2 DEF BeginFresh, IInv, TypeOK
        <3> QED
            BY <3>2, <3>3 DEF IInv, TypeOK
    <2>3. CASE BeginResume(j)
        <3>1. PICK b \in BOOLEAN : held' = [held EXCEPT ![j].unproven = b]
            BY <2>3 DEF BeginResume
        <3>2. [held[j] EXCEPT !.unproven = b] \in Held
              /\ [held[j] EXCEPT !.unproven = b].source = held[j].source
            BY DEF Held, IInv, TypeOK
        <3>3. held' = [held EXCEPT ![j] = [held[j] EXCEPT !.unproven = b]]
            BY <3>1 DEF IInv, TypeOK
        <3> QED
            BY <3>2, <3>3 DEF IInv, TypeOK
    <2>4. CASE Check(j)
        BY <2>4 DEF Check, IInv, TypeOK
    <2> QED
        BY <2>1, <2>2, <2>3, <2>4
<1>3. RowsGrow
    <2>1. CASE BeginResume(j)
        <3>1. rows[j].from \in Job /\ rows[rows[j].from].status = "ended"
            BY <2>1 DEF BeginResume, LineageHolds, PlanOf, IInv, TypeOK, Row, SourceIsKept
        <3> QED
            BY <2>1, <3>1, ReconciledGrows, OneRowGrows DEF BeginResume, IInv
    <2>2. CASE Refuse(j) \/ BeginFresh(j) \/ Check(j)
        BY <2>2, SameRowsGrow DEF Refuse, BeginFresh, Check, table, IInv
    <2> QED
        BY <2>1, <2>2
<1>4. pc' \in [Job -> Places] /\ \A k \in Job \ {j} : pc'[k] = pc[k]
    BY DEF Refuse, BeginFresh, BeginResume, Check, IInv, TypeOK, Places
<1>5. TypeOK'
    BY <1>1, <1>2, <1>3, <1>4 DEF IInv, TypeOK, RowsGrow, world, history
<1>6. Staged(j)'
    <2>1. CASE Refuse(j)
        <3>1. pc[j] = "resolved" /\ pc'[j] = "idle" /\ rows' = rows
            BY <2>1 DEF Refuse, table, IInv, TypeOK
        <3> QED
            BY <1>1, <3>1 DEF IInv, Staged, PlanIsThere, NothingYet, RunsItsPlan,
                AnswersAsPlanned, LogIsTrue, NoRowYet, NoKimiYet
    <2>2. CASE BeginFresh(j) \/ BeginResume(j) \/ Check(j)
        <3>1. pc[j] \in {"queued", "cleared"} /\ pc'[j] \in {"cleared", "checked"}
            BY <2>2 DEF BeginFresh, BeginResume, Check, MayBegin, IInv, TypeOK
        <3>2. rows'[j].intended \in Engine
            BY <1>3, <3>1 DEF IInv, Staged, PlanIsThere, RowsGrow, Grows, Places, NoRowYet
        <3> QED
            BY <1>1, <3>1, <3>2 DEF IInv, Staged, PlanIsThere, NothingYet, RunsItsPlan,
                AnswersAsPlanned, LogIsTrue, NoRowYet, NoKimiYet
    <2> QED
        BY <2>1, <2>2
<1>7. \A k \in Job : Staged(k)'
    BY <1>1, <1>3, <1>4, <1>6, StillStaged DEF IInv, RowsGrow, Still
<1> QED
    BY <1>1, <1>2, <1>3, <1>5, <1>7, GrowthKeepsSources DEF IInv

\* A job that ends, however it does, with a log that may have grown before.
LEMMA OverKeepsIInv ==
    ASSUME IInv, NEW j \in Job, RowsGrow, Over(j), UNCHANGED <<world, history>>,
           log' \in [Job -> SUBSET Evidence], \A k \in Job \ {j} : log'[k] = log[k],
           "marker" \in log'[j] => child[j].engine = Native,
           {"forced", "run"} \subseteq log'[j] /\ "marker" \notin log'[j]
               => child[j].engine = Legacy
    PROVE  IInv'
<1>1. pc' \in [Job -> Places] /\ pc'[j] = "over" /\ \A k \in Job \ {j} : pc'[k] = pc[k]
    BY DEF Over, IInv, TypeOK, Places
<1>2. held' \in [Job -> Held] /\ \A k \in Job : held'[k].source \in {held[k].source, NoJob}
    <2>1. NotHeld \in Held /\ NotHeld.source = NoJob
        BY DEF NotHeld, Held
    <2> QED
        BY <2>1 DEF Over, IInv, TypeOK
<1>3. child' \in [Job -> Child] /\ child'[j].engine = child[j].engine
      /\ \A k \in Job \ {j} : child'[k] = child[k]
    <2>1. [NoChild EXCEPT !.engine = child[j].engine] \in Child
          /\ [NoChild EXCEPT !.engine = child[j].engine].engine = child[j].engine
        BY DEF NoChild, Child, Version, IInv, TypeOK
    <2> QED
        BY <2>1 DEF Over, IInv, TypeOK
<1>4. TypeOK'
    BY <1>1, <1>2, <1>3 DEF IInv, TypeOK, RowsGrow, world, history
<1>5. Staged(j)'
    BY <1>1, <1>3 DEF Staged, PlanIsThere, NothingYet, RunsItsPlan, AnswersAsPlanned, LogIsTrue,
        NoRowYet, NoKimiYet
<1>6. \A k \in Job : Staged(k)'
    BY <1>1, <1>3, <1>5, StillStaged DEF IInv, RowsGrow, Still
<1> QED
    BY <1>2, <1>3, <1>4, <1>6, GrowthKeepsSources DEF IInv

LEMMA FailedGrows ==
    ASSUME IInv, NEW j \in Job, NEW announced, Failed(j, announced),
           announced = NoSession \/ (announced \in Announced(j) /\ pc[j] \notin NoKimiYet)
    PROVE  RowsGrow /\ Over(j)
<1>1. MayKeep(j, Kept(j, announced))
    <2>1. CASE announced = NoSession
        BY <2>1 DEF Kept, MayKeep
    <2>2. CASE announced \in Announced(j) /\ pc[j] \notin NoKimiYet
        BY <2>2, AnnouncedMayBeKept
    <2> QED
        BY <2>1, <2>2
<1> QED
    BY <1>1, EndingGrows DEF Failed, IInv

LEMMA EndStepsKeepIInv ==
    ASSUME IInv, NEW j \in Job,
           \/ BeginRefused(j) \/ CheckFailed(j) \/ CallThrows(j)
           \/ Finish(j) \/ Fail(j) \/ KilledAndSwept(j)
    PROVE  IInv' /\ RowsGrow
<1>1. UNCHANGED <<log, world, history>>
    BY DEF BeginRefused, CheckFailed, CallThrows, Finish, Fail, KilledAndSwept
<1>2. RowsGrow /\ Over(j)
    <2>1. CASE BeginRefused(j) \/ CheckFailed(j) \/ CallThrows(j) \/ Fail(j)
        BY <2>1, FailedGrows DEF BeginRefused, CheckFailed, CallThrows, Fail, NoKimiYet, NoRowYet
    <2>2. CASE Finish(j)
        BY <2>2, AnnouncedMayBeKept, EndingGrows DEF Finish, IInv, NoKimiYet, NoRowYet
    <2>3. CASE KilledAndSwept(j)
        BY <2>3, StatusEndGrows DEF KilledAndSwept, IInv
    <2> QED
        BY <2>1, <2>2, <2>3
<1>3. LogIsTrue(j) /\ log' \in [Job -> SUBSET Evidence]
    BY <1>1 DEF IInv, Staged, TypeOK
<1> QED
    BY <1>1, <1>2, <1>3, OverKeepsIInv DEF LogIsTrue

\* A first line that contradicts the plan: the log has it, and it is true of the kimi
\* that wrote it.
LEMMA MismatchKeepsIInv ==
    ASSUME IInv, NEW j \in Job, Mismatch(j)
    PROVE  IInv' /\ RowsGrow
<1>1. PICK marker \in MarkerOf(child[j]), exit0 \in BOOLEAN :
        /\ ~FirstLineAgrees(j, marker)
        /\ log' = [log EXCEPT ![j] = @ \cup (IF marker THEN {"marker"} ELSE {})
                                       \cup (IF exit0 THEN {"run"} ELSE {})]
    BY DEF Mismatch
<1>2. RowsGrow /\ Over(j) /\ UNCHANGED <<world, history>>
    BY FailedGrows DEF Mismatch
<1>3. pc[j] = "running" /\ rows[j].intended \in Engine /\ RunsItsPlan(j) /\ LogIsTrue(j)
    BY DEF Mismatch, IInv, Staged, PlanIsThere, Places, NoRowYet
<1>4. log' \in [Job -> SUBSET Evidence] /\ \A k \in Job \ {j} : log'[k] = log[k]
    BY <1>1 DEF IInv, TypeOK, Evidence
<1>5. log'[j] = log[j] \cup (IF marker THEN {"marker"} ELSE {}) \cup (IF exit0 THEN {"run"} ELSE {})
    BY <1>1 DEF IInv, TypeOK
<1>6. child[j] \in Child /\ marker \in BOOLEAN
    BY <1>1 DEF IInv, TypeOK, MarkerOf
<1>7. "marker" \in log'[j] => child[j].engine = Native
    BY <1>3, <1>5, <1>6, <1>1, Engines DEF LogIsTrue, MarkerOf, RunsItsPlan, Started
<1>8. {"forced", "run"} \subseteq log'[j] /\ "marker" \notin log'[j] => child[j].engine = Legacy
    BY <1>3, <1>5, <1>6, <1>1, Engines DEF FirstLineAgrees, RunsItsPlan, LogIsTrue
<1> QED
    BY <1>2, <1>4, <1>7, <1>8, OverKeepsIInv

\* kimi starts: what it runs follows from its binary and the flag of the plan.
LEMMA BootKeepsIInv ==
    ASSUME IInv, NEW j \in Job, Boot(j)
    PROVE  IInv' /\ RowsGrow
<1> DEFINE forced == PlanOf(j).engine = Legacy
<1> DEFINE engine == Started(installed, forced)
<1> DEFINE plan == engine = Native /\ (config = "plan" \/ journal[WorksIn(j)] = "plan")
<1> DEFINE c == [engine |-> engine, version |-> installed, plan |-> plan, hooked |-> HookInstalled]
<1>1. /\ pc[j] = "checked" /\ pc' = [pc EXCEPT ![j] = "running"]
      /\ log' = [log EXCEPT ![j] = @ \cup (IF forced THEN {"forced"} ELSE {})]
      /\ child' = [child EXCEPT ![j] = c]
      /\ UNCHANGED <<rows, installed, config, upgrades, edits, history>>
    BY DEF Boot
<1>2. journal' \in [Session -> {"absent", "clean", "plan"}]
    BY DEF Boot, IInv, TypeOK
<1>3. held' \in [Job -> Held] /\ \A k \in Job : held'[k].source = held[k].source
    <2>1. \E calls : Exposed(calls) \/ UNCHANGED held
        BY DEF Boot
    <2> QED
        BY <2>1, ExposedHeld DEF IInv
<1>4. c \in Child /\ c.engine = engine /\ c.version = installed
    <2>1. engine \in Engine /\ plan \in BOOLEAN /\ HookInstalled \in BOOLEAN
        BY DEF Started, Engine, HookInstalled
    <2> HIDE DEF engine, plan
    <2> QED
        BY <2>1 DEF Child, IInv, TypeOK
<1>5. child' \in [Job -> Child] /\ child'[j] = c
      /\ \A k \in Job \ {j} : child'[k] = child[k]
    <2> HIDE DEF c
    <2> QED
        BY <1>1, <1>4 DEF IInv, TypeOK
<1>6. rows[j].intended \in Engine /\ log[j] = {} /\ child[j].engine = Unknown
    BY <1>1 DEF IInv, Staged, PlanIsThere, NothingYet, NoRowYet, NoKimiYet, Places
<1>7. /\ log' \in [Job -> SUBSET Evidence] /\ \A k \in Job \ {j} : log'[k] = log[k]
      /\ log'[j] = IF rows[j].intended = Legacy THEN {"forced"} ELSE {}
    <2>1. forced <=> rows[j].intended = Legacy
        BY DEF PlanOf
    <2> HIDE DEF forced
    <2> QED
        BY <1>1, <1>6, <2>1 DEF IInv, TypeOK, Evidence
<1>8. pc' \in [Job -> Places] /\ pc'[j] = "running" /\ \A k \in Job \ {j} : pc'[k] = pc[k]
    BY <1>1 DEF IInv, TypeOK, Places
<1>9. TypeOK'
    BY <1>1, <1>2, <1>3, <1>5, <1>7, <1>8 DEF IInv, TypeOK, history
<1>10. Staged(j)'
    <2>1. child'[j].engine = Started(child'[j].version, rows'[j].intended = Legacy)
        BY <1>1, <1>4, <1>5 DEF PlanOf
    <2> HIDE DEF c, engine, forced
    <2> QED
        BY <1>1, <1>6, <1>7, <1>8, <2>1 DEF Staged, PlanIsThere, NothingYet, RunsItsPlan,
            AnswersAsPlanned, LogIsTrue, NoRowYet, NoKimiYet
<1>11. RowsGrow
    BY <1>1, SameRowsGrow DEF IInv
<1>12. \A k \in Job : Staged(k)'
    BY <1>5, <1>7, <1>8, <1>10, <1>11, StillStaged DEF IInv, RowsGrow, Still
<1>13. SourceHasSession' /\ SourceIsKept' /\ SessionIsOwn'
    BY <1>1, <1>3 DEF IInv, SourceHasSession, SourceIsKept, SessionIsOwn
<1>14. ObservedIsTrue'
    BY <1>1, <1>5, <1>6 DEF IInv, ObservedIsTrue
<1> QED
    BY <1>9, <1>11, <1>12, <1>13, <1>14 DEF IInv

\* The first line agrees with the plan, so the kimi that wrote it is of its engine.
LEMMA OutputKeepsIInv ==
    ASSUME IInv, NEW j \in Job, Output(j)
    PROVE  IInv' /\ RowsGrow
<1>1. PICK marker \in MarkerOf(child[j]) :
        /\ FirstLineAgrees(j, marker)
        /\ log' = [log EXCEPT ![j] = @ \cup {"run"} \cup (IF marker THEN {"marker"} ELSE {})]
    BY DEF Output
<1>2. /\ pc[j] = "running" /\ pc' = [pc EXCEPT ![j] = "answering"]
      /\ took' = [took EXCEPT ![j] = child[j].engine]
      /\ crossed' \in {crossed, crossed \cup {WorksIn(j)}}
      /\ UNCHANGED <<rows, held, world>>
    BY DEF Output
<1>3. PICK b \in BOOLEAN : child' = [child EXCEPT ![j].plan = b]
    <2>1. PICK tool \in {"Read", "EnterPlanMode"} :
            child' = [child EXCEPT ![j].plan =
               @ \/ (tool = "EnterPlanMode" /\ (child[j].hooked => HookAllows(tool)))]
        BY DEF Output
    <2> DEFINE b == child[j].plan
                    \/ (tool = "EnterPlanMode" /\ (child[j].hooked => HookAllows(tool)))
    <2>2. b \in BOOLEAN
        OBVIOUS
    <2>3. child' = [child EXCEPT ![j].plan = b]
        BY <2>1
    <2> HIDE DEF b
    <2> QED
        BY <2>2, <2>3
<1>4. child' \in [Job -> Child] /\ child'[j].engine = child[j].engine
      /\ \A k \in Job \ {j} : child'[k] = child[k]
    <2>1. child[j] \in Child
        BY DEF IInv, TypeOK
    <2>2. [child[j] EXCEPT !.plan = b] \in Child
          /\ [child[j] EXCEPT !.plan = b].engine = child[j].engine
        BY <2>1 DEF Child
    <2>3. child' = [child EXCEPT ![j] = [child[j] EXCEPT !.plan = b]]
        BY <1>3 DEF IInv, TypeOK
    <2> QED
        BY <2>2, <2>3 DEF IInv, TypeOK
<1>5. rows[j].intended \in Engine /\ RunsItsPlan(j) /\ LogIsTrue(j)
    BY <1>2 DEF IInv, Staged, PlanIsThere, Places, NoRowYet
<1>6. child[j].engine = rows[j].intended
    BY <1>1, <1>2, <1>5, Engines DEF FirstLineAgrees, MarkerOf, RunsItsPlan, Started, Engine
<1>7. /\ log' \in [Job -> SUBSET Evidence] /\ \A k \in Job \ {j} : log'[k] = log[k]
      /\ log'[j] = log[j] \cup {"run"} \cup (IF marker THEN {"marker"} ELSE {})
    BY <1>1 DEF IInv, TypeOK, Evidence
<1>8. LogIsTrue(j)'
    <2>1. marker => child[j].engine = Native
        BY <1>1, <1>5, <1>6, Engines DEF MarkerOf, Engine
    <2>2. "marker" \in log'[j] => child[j].engine = Native
        BY <1>5, <1>7, <2>1 DEF LogIsTrue
    <2>3. "forced" \in log'[j] => child[j].engine = Legacy
        BY <1>2, <1>5, <1>6, <1>7 DEF RunsItsPlan
    <2> QED
        BY <1>4, <2>2, <2>3 DEF LogIsTrue
<1>9. pc' \in [Job -> Places] /\ pc'[j] = "answering" /\ \A k \in Job \ {j} : pc'[k] = pc[k]
    BY <1>2 DEF IInv, TypeOK, Places
<1>10. TypeOK'
    <2>1. WorksIn(j) \in Session
        BY Numbers DEF WorksIn, Resumes, IInv, TypeOK, Row
    <2>2. took' \in [Job -> Engine \cup {Unknown}] /\ crossed' \subseteq Session
        BY <1>2, <1>5, <1>6, <2>1 DEF IInv, TypeOK
    <2> QED
        BY <1>2, <1>4, <1>7, <1>9, <2>2 DEF IInv, TypeOK, world
<1>11. Staged(j)'
    BY <1>2, <1>4, <1>5, <1>6, <1>8, <1>9 DEF Staged, PlanIsThere, NothingYet, RunsItsPlan,
        AnswersAsPlanned, NoRowYet, NoKimiYet
<1>12. RowsGrow
    BY <1>2, SameRowsGrow DEF IInv
<1>13. \A k \in Job : Staged(k)'
    BY <1>4, <1>7, <1>9, <1>11, <1>12, StillStaged DEF IInv, RowsGrow, Still
<1>14. \A k \in Job : child'[k].engine = child[k].engine
    BY <1>4
<1> QED
    BY <1>2, <1>10, <1>12, <1>13, <1>14, GrowthKeepsSources DEF IInv

\* The engine of a call that answered goes into its row.
LEMMA ObserveKeepsIInv ==
    ASSUME IInv, NEW j \in Job, Observe(j)
    PROVE  IInv' /\ RowsGrow
<1>1. pc[j] = "answering" /\ pc' = [pc EXCEPT ![j] = "judging"]
      /\ UNCHANGED <<log, held, child, world, history>>
    BY DEF Observe
<1>2. child[j].engine = rows[j].intended /\ rows[j] \in Row /\ rows[j].intended \in Engine
    BY <1>1 DEF IInv, TypeOK, Staged, AnswersAsPlanned, PlanIsThere, Places, NoRowYet
<1>3. RowsGrow
    <2>1. CASE IsRunning(j)
        <3> DEFINE r == [rows[j] EXCEPT !.observed = rows[j].intended]
        <3>1. r \in Row /\ Grows(r, j)
            BY <1>2, <2>1 DEF Row, Grows, IsRunning
        <3>2. rows' = [rows EXCEPT ![j] = r]
            BY <2>1 DEF Observe, IInv, TypeOK
        <3> HIDE DEF r
        <3> QED
            BY <3>1, <3>2, OneRowGrows DEF IInv
    <2>2. CASE ~IsRunning(j)
        BY <2>2, SameRowsGrow DEF Observe, IInv
    <2> QED
        BY <2>1, <2>2
<1>4. pc' \in [Job -> Places] /\ pc'[j] = "judging" /\ \A k \in Job \ {j} : pc'[k] = pc[k]
    BY <1>1 DEF IInv, TypeOK, Places
<1>5. TypeOK'
    BY <1>1, <1>3, <1>4 DEF IInv, TypeOK, RowsGrow, world, history
<1>6. Staged(j)'
    <2>1. rows'[j].intended = rows[j].intended /\ LogIsTrue(j)
        BY <1>2, <1>3 DEF RowsGrow, Grows, IInv, Staged
    <2> QED
        BY <1>1, <1>2, <1>4, <2>1 DEF Staged, PlanIsThere, NothingYet, RunsItsPlan, AnswersAsPlanned,
            LogIsTrue, NoRowYet, NoKimiYet
<1>7. \A k \in Job : Staged(k)'
    BY <1>1, <1>3, <1>4, <1>6, StillStaged DEF IInv, RowsGrow, Still
<1> QED
    BY <1>1, <1>3, <1>5, <1>7, GrowthKeepsSources DEF IInv

LEMMA NextKeepsIInv == IInv /\ [Next]_vars => IInv'
<1> SUFFICES ASSUME IInv, [Next]_vars PROVE IInv'
    OBVIOUS
<1>1. CASE UNCHANGED vars
    <2>1. UNCHANGED <<rows, log, pc, held, child, world, history>>
        BY <1>1 DEF vars, table, process
    <2>2. RowsGrow
        BY <2>1, SameRowsGrow DEF IInv
    <2>3. TypeOK'
        BY <2>1 DEF IInv, TypeOK, world, history
    <2>4. \A k \in Job : Staged(k)'
        BY <2>1, <2>2, StillStaged DEF IInv, RowsGrow, Still
    <2> QED
        BY <2>1, <2>2, <2>3, <2>4, GrowthKeepsSources DEF IInv
<1>2. CASE Others
    BY <1>2, OthersKeepIInv
<1>3. ASSUME NEW j \in Job,
             Inspect(j) \/ Dispatch(j) \/ Begin(j) \/ Spawn(j) \/ Call(j) \/ Close(j)
      PROVE  IInv'
    <2>1. CASE Inspect(j) \/ Dispatch(j)
        BY <2>1, RowStepsKeepIInv, ResolveKeepsIInv, PrepareKeepsIInv, EarlyStepsKeepIInv
        DEF Dispatch
    <2>2. CASE Begin(j) \/ Spawn(j)
        BY <2>2, EarlyStepsKeepIInv, EndStepsKeepIInv, BootKeepsIInv DEF Begin, Spawn
    <2>3. CASE Call(j) \/ Close(j)
        BY <2>3, OutputKeepsIInv, MismatchKeepsIInv, ObserveKeepsIInv, EndStepsKeepIInv,
            RowStepsKeepIInv DEF Call, Close
    <2> QED
        BY <1>3, <2>1, <2>2, <2>3
<1> QED
    BY <1>1, <1>2, <1>3 DEF Next

LEMMA Invariance == Spec => []IInv
BY InitIInv, NextKeepsIInv, PTL DEF Spec

-----------------------------------------------------------------------------
(***************************************************************************)
(* The guards of a call.  What a check has seen is still so when kimi      *)
(* reads it, or the call is one of those the change exposed; and a session *)
(* that no kimi has made yet has no journal that could hold a plan.        *)
(***************************************************************************)

Guarded(j) ==
    /\ pc[j] \in {"cleared", "checked"} /\ config = "unhooked" => held[j].edited
    /\ pc[j] = "checked" /\ rows[j].intended = Native
           /\ (config = "plan" \/ journal[WorksIn(j)] = "plan") => held[j].edited
    /\ pc[j] \in {"running", "answering", "judging"}
           /\ (child[j].hooked => child[j].plan /\ rows[j].intended = Native)
               => held[j].edited
    /\ pc[j] \in NoKimiYet => journal[j] = "absent"

\* A session that a row names was made by the kimi of a job that got that far.
SessionMade ==
    \A j \in Job : rows[j].session \in Job => pc[rows[j].session] \notin NoKimiYet

GInv == IInv /\ SessionMade /\ \A j \in Job : Guarded(j)

LEMMA StillGuarded ==
    ASSUME NEW k \in Job, Guarded(k), Grows(rows'[k], k), pc'[k] = pc[k],
           child'[k] = child[k], held'[k].edited = held[k].edited,
           config' = config, journal' = journal
    PROVE  Guarded(k)'
<1>1. WorksIn(k)' = WorksIn(k)
    BY DEF WorksIn, Resumes, Grows
<1>2. rows'[k].intended = rows[k].intended
    BY DEF Grows
<1> QED
    BY <1>1, <1>2 DEF Guarded

LEMMA SessionsStayMade ==
    ASSUME IInv, SessionMade, RowsGrow,
           \A k \in Job : pc[k] \notin NoKimiYet => pc'[k] \notin NoKimiYet
    PROVE  SessionMade'
BY DEF SessionMade, RowsGrow, Grows

\* A process leaves the steps before its kimi for good.
LEMMA NoWayBack ==
    ASSUME IInv, [Next]_vars, NEW k \in Job, pc[k] \notin NoKimiYet
    PROVE  pc'[k] \notin NoKimiYet
<1> USE DEF NoKimiYet, NoRowYet
<1>1. CASE UNCHANGED vars \/ Others
    BY <1>1 DEF vars, process, Others, Upgrade, EditConfig, TouchSession, OpenDesk
<1>2. ASSUME NEW j \in Job, Dispatch(j) \/ Begin(j) \/ Check(j) \/ CheckFailed(j)
      PROVE  pc'[k] = pc[k] \/ pc'[k] = "over"
    BY <1>2 DEF Dispatch, Begin, Resolve, IsNext, Prepare, Refuse, BeginFresh, BeginResume,
        MayBegin, BeginRefused, Check, CheckFailed, Failed, Over, IInv, TypeOK
<1>3. ASSUME NEW j \in Job, Inspect(j) \/ Boot(j) \/ Call(j) \/ Close(j)
      PROVE  pc'[k] \in {pc[k], "running", "answering", "judging", "over"}
    BY <1>3 DEF Inspect, process, Boot, Call, Close, Output, Mismatch, CallThrows, Observe,
        Finish, Fail, Cancelled, KilledAndSwept, Failed, Over, IInv, TypeOK
<1> QED
    BY <1>1, <1>2, <1>3 DEF Next, Spawn

\* Others: whatever they change exposes the calls that have looked at it.
LEMMA OthersKeepGuarded ==
    ASSUME GInv, Others, NEW k \in Job
    PROVE  Guarded(k)'
<1>1. UNCHANGED <<rows, pc, child>> /\ WorksIn(k)' = WorksIn(k)
    BY DEF Others, Upgrade, EditConfig, TouchSession, OpenDesk, table, process, WorksIn, Resumes
<1>2. Guarded(k) /\ WorksIn(k) \in Session /\ k \in Session /\ k # Desk
    BY Numbers, BoundsAssumption DEF GInv, WorksIn, Resumes, IInv, TypeOK, Row, Job, Desk
<1>3. /\ held[k].edited => held'[k].edited
      /\ config' = "unhooked" /\ config # "unhooked" /\ k \in HookChecked => held'[k].edited
      /\ config' = "plan" /\ config # "plan" /\ k \in Checked => held'[k].edited
      /\ journal'[WorksIn(k)] = "plan" /\ journal[WorksIn(k)] # "plan" /\ k \in Checked
             => held'[k].edited
      /\ journal[k] = "absent" => journal'[k] = "absent"
    <2>1. CASE Upgrade
        BY <2>1 DEF Upgrade, process
    <2>2. CASE EditConfig
        <3>1. PICK c \in {"safe", "plan", "unhooked"} \ {config} :
                /\ config' = c
                /\ Exposed(CASE c = "unhooked" -> HookChecked [] c = "plan" -> Checked
                             [] c = "safe" -> {})
            BY <2>2 DEF EditConfig
        <3>2. journal' = journal
            BY <2>2 DEF EditConfig
        <3> QED
            BY <3>1, <3>2 DEF Exposed, GInv, IInv, TypeOK, Held
    <2>3. CASE TouchSession
        <3>1. Exposed(Checked) /\ config' = config
            BY <2>3 DEF TouchSession
        <3>2. journal[k] = "absent" => journal'[k] = "absent"
            BY <1>2, <2>3 DEF TouchSession, GInv, IInv, TypeOK
        <3> QED
            BY <3>1, <3>2 DEF Exposed, GInv, IInv, TypeOK, Held
    <2>4. CASE OpenDesk
        BY <1>2, <2>4 DEF OpenDesk, process, GInv, IInv, TypeOK
    <2> QED
        BY <2>1, <2>2, <2>3, <2>4 DEF Others
<1> QED
    BY <1>1, <1>2, <1>3 DEF Guarded, HookChecked, Checked, NoKimiYet, NoRowYet

\* Steps of a job that change nothing around them.
Inner(j) ==
    \/ Inspect(j) \/ Resolve(j) \/ Refuse(j) \/ Begin(j) \/ Check(j) \/ CheckFailed(j)
    \/ Call(j) \/ Close(j)

LEMMA InnerLocal ==
    ASSUME IInv, NEW j \in Job, Inner(j) \/ Prepare(j), NEW k \in Job, k # j
    PROVE  pc'[k] = pc[k] /\ child'[k] = child[k] /\ held'[k] = held[k]
<1>1. CASE Inspect(j) \/ Resolve(j) \/ Refuse(j) \/ Prepare(j)
    BY <1>1 DEF Inspect, Resolve, Refuse, Prepare, process, IInv, TypeOK
<1>2. CASE Begin(j) \/ Check(j) \/ CheckFailed(j)
    BY <1>2 DEF Begin, BeginFresh, BeginResume, BeginRefused, Check, CheckFailed, Failed, Over,
        IInv, TypeOK
<1>3. CASE Output(j) \/ Observe(j)
    BY <1>3 DEF Output, Observe, IInv, TypeOK
<1>4. CASE Mismatch(j) \/ CallThrows(j) \/ Close(j)
    BY <1>4 DEF Mismatch, CallThrows, Close, Finish, Fail, Cancelled, KilledAndSwept, Failed,
        Over, process, IInv, TypeOK
<1> QED
    BY <1>1, <1>2, <1>3, <1>4 DEF Inner, Call

\* A check lets a call through only if what it reads is fit.
LEMMA CheckKeepsGuarded ==
    ASSUME GInv, NEW j \in Job, Check(j), RowsGrow
    PROVE  Guarded(j)'
<1>1. pc[j] = "cleared" /\ pc'[j] = "checked" /\ SpawnAllowed(j)
      /\ UNCHANGED <<rows, child, held, config, journal>>
    BY DEF Check, GInv, IInv, TypeOK, table, world
<1>2. WorksIn(j)' = WorksIn(j) /\ Guarded(j)
    BY <1>1 DEF WorksIn, Resumes, GInv
<1>3. journal[j] = "absent"
    BY <1>1, <1>2 DEF Guarded, NoKimiYet
<1>4. rows[j].intended = Native => config # "plan" /\ journal[WorksIn(j)] # "plan"
    BY <1>1, <1>3 DEF SpawnAllowed, PlanOf, Preflight, ConfigFit, JournalClean, WorksIn, Resumes
<1> QED
    BY <1>1, <1>2, <1>3, <1>4 DEF Guarded

\* With the hook in force the model gets no plan mode.
LEMMA OutputKeepsGuarded ==
    ASSUME GInv, NEW j \in Job, Output(j)
    PROVE  Guarded(j)'
<1>1. pc[j] = "running" /\ pc'[j] = "answering" /\ UNCHANGED <<rows, held, config, journal>>
    BY DEF Output, GInv, IInv, TypeOK, world
<1>2. PICK tool \in {"Read", "EnterPlanMode"} :
            child' = [child EXCEPT ![j].plan =
               @ \/ (tool = "EnterPlanMode" /\ (child[j].hooked => HookAllows(tool)))]
    BY DEF Output
<1>3. child'[j].hooked = child[j].hooked
      /\ child'[j].plan = (child[j].plan
             \/ (tool = "EnterPlanMode" /\ (child[j].hooked => HookAllows(tool))))
    BY <1>2 DEF GInv, IInv, TypeOK, Child
<1>4. child[j].hooked => (child'[j].plan => child[j].plan)
    BY <1>3 DEF HookAllows
<1>5. Guarded(j)
    BY DEF GInv
<1> QED
    BY <1>1, <1>3, <1>4, <1>5 DEF Guarded, NoKimiYet, NoRowYet

LEMMA InnerKeepsGuarded ==
    ASSUME GInv, NEW j \in Job, Inner(j), RowsGrow
    PROVE  \A k \in Job : Guarded(k)'
<1>1. UNCHANGED world
    BY DEF Inner, Inspect, Resolve, Refuse, Begin, BeginFresh, BeginResume, BeginRefused, Check,
        CheckFailed, Call, Output, Mismatch, CallThrows, Observe, Close, Finish, Fail,
        Cancelled, KilledAndSwept
<1>2. ASSUME NEW k \in Job, k # j PROVE Guarded(k)'
    BY <1>1, <1>2, InnerLocal, StillGuarded DEF GInv, RowsGrow, world
<1>3. Guarded(j) /\ Grows(rows'[j], j)
    BY DEF GInv, RowsGrow
<1>4. Guarded(j)'
    <2>1. CASE Inspect(j) \/ Cancelled(j)
        BY <1>1, <1>3, <2>1, StillGuarded DEF Inspect, Cancelled, process, world
    <2>2. CASE Resolve(j) \/ Refuse(j)
        <3>1. pc[j] \in NoRowYet /\ pc'[j] \in NoRowYet
            BY <2>2 DEF Resolve, IsNext, Refuse, NoRowYet, GInv, IInv, TypeOK
        <3> QED
            BY <1>1, <1>3, <3>1 DEF Guarded, NoKimiYet, NoRowYet, world
    <2>3. CASE BeginFresh(j) \/ BeginResume(j)
        <3>1. pc[j] = "queued" /\ pc'[j] = "cleared" /\ config # "unhooked"
            BY <2>3 DEF BeginFresh, BeginResume, MayBegin, HookInstalled, GInv, IInv, TypeOK
        <3> QED
            BY <1>1, <1>3, <3>1 DEF Guarded, NoKimiYet, world
    <2>4. CASE Check(j)
        BY <2>4, CheckKeepsGuarded
    <2>5. CASE Output(j)
        BY <2>5, OutputKeepsGuarded
    <2>6. CASE Observe(j)
        <3>1. pc[j] = "answering" /\ pc'[j] = "judging" /\ child' = child /\ held' = held
            BY <2>6 DEF Observe, GInv, IInv, TypeOK
        <3> QED
            BY <1>1, <1>3, <3>1 DEF Guarded, Grows, NoKimiYet, NoRowYet, world
    <2>7. CASE \/ BeginRefused(j) \/ CheckFailed(j) \/ Mismatch(j) \/ CallThrows(j)
               \/ Finish(j) \/ Fail(j) \/ KilledAndSwept(j)
        <3>1. pc'[j] = "over"
            BY <2>7 DEF BeginRefused, CheckFailed, Mismatch, CallThrows, Finish, Fail,
                KilledAndSwept, Failed, Over, GInv, IInv, TypeOK
        <3> QED
            BY <3>1 DEF Guarded, NoKimiYet, NoRowYet
    <2> QED
        BY <2>1, <2>2, <2>3, <2>4, <2>5, <2>6, <2>7 DEF Inner, Begin, Call, Close
<1> QED
    BY <1>2, <1>4

\* A new plan has no call yet, and its session was made by the job it continues.
LEMMA PrepareKeepsGInv ==
    ASSUME GInv, NEW j \in Job, Prepare(j), [Next]_vars
    PROVE  SessionMade' /\ \A k \in Job : Guarded(k)'
<1>1. pc[j] = "resolved" /\ pc'[j] = "queued" /\ UNCHANGED <<child, config, journal>>
      /\ \A k \in Job \ {j} : rows'[k] = rows[k]
    BY DEF Prepare, GInv, IInv, TypeOK, world
<1>2. ASSUME NEW k \in Job \ {j} PROVE Guarded(k)'
    BY <1>1, InnerLocal, StillGuarded, SameRow DEF GInv
<1>3. Guarded(j)'
    BY <1>1 DEF GInv, Guarded, NoKimiYet, NoRowYet
<1>4. rows'[j].session \in Job => pc[rows'[j].session] \notin NoKimiYet
    <2>1. rows'[j].session = SessionOf(held[j].source)
        BY DEF Prepare, PlannedRow, GInv, IInv, TypeOK
    <2>2. held[j].source \in Job \cup {NoJob}
        BY DEF GInv, IInv, TypeOK, Held
    <2> QED
        BY <2>1, <2>2, Numbers DEF SessionOf, GInv, SessionMade
<1>5. SessionMade'
    BY <1>1, <1>4, NoWayBack DEF GInv, SessionMade
<1> QED
    BY <1>2, <1>3, <1>5

\* kimi reads its files: what is unfit in them was changed after the check. That plan
\* mode is on goes into the journal, and exposes the others that were checked.
LEMMA BootKeepsGuarded ==
    ASSUME GInv, NEW j \in Job, Boot(j), RowsGrow, NEW k \in Job
    PROVE  Guarded(k)'
<1> DEFINE engine == Started(installed, PlanOf(j).engine = Legacy)
<1> DEFINE plan == engine = Native /\ (config = "plan" \/ journal[WorksIn(j)] = "plan")
<1>1. /\ pc[j] = "checked" /\ pc' = [pc EXCEPT ![j] = "running"]
      /\ child' = [child EXCEPT ![j] = [engine |-> engine, version |-> installed,
                                        plan |-> plan, hooked |-> HookInstalled]]
      /\ journal' = [journal EXCEPT ![WorksIn(j)] =
             IF plan THEN "plan" ELSE IF @ = "absent" THEN "clean" ELSE @]
      /\ IF plan THEN Exposed(Checked \ {j}) ELSE UNCHANGED held
      /\ UNCHANGED <<rows, config>>
    BY DEF Boot
<1>2. Guarded(k) /\ Guarded(j) /\ WorksIn(k)' = WorksIn(k) /\ WorksIn(j) \in Session
    BY <1>1, Numbers DEF GInv, WorksIn, Resumes, IInv, TypeOK, Row
<1>3. CASE k = j
    <2>1. held'[j].edited = held[j].edited
        BY <1>1 DEF Exposed, GInv, IInv, TypeOK
    <2>2. pc'[j] = "running" /\ child'[j].hooked = HookInstalled /\ child'[j].plan = plan
        BY <1>1 DEF GInv, IInv, TypeOK
    <2>3. HookInstalled \/ held[j].edited
        BY <1>1, <1>2 DEF Guarded, HookInstalled
    <2>4. plan /\ rows[j].intended = Native => held[j].edited
        BY <1>1, <1>2 DEF Guarded
    <2> HIDE DEF plan
    <2> QED
        BY <1>1, <1>3, <2>1, <2>2, <2>3, <2>4 DEF Guarded, NoKimiYet, NoRowYet
<1>4. CASE k # j
    <2>1. pc'[k] = pc[k] /\ child'[k] = child[k]
        BY <1>1, <1>4 DEF GInv, IInv, TypeOK
    <2>2. held[k].edited => held'[k].edited
        BY <1>1 DEF Exposed, GInv, IInv, TypeOK, Held
    <2>3. journal'[WorksIn(k)] = "plan" /\ pc[k] = "checked" =>
              held'[k].edited \/ journal[WorksIn(k)] = "plan"
        <3>1. CASE plan
            BY <1>1, <1>4, <3>1 DEF Exposed, Checked, GInv, IInv, TypeOK, Held
        <3>2. CASE ~plan
            BY <1>1, <3>2 DEF GInv, IInv, TypeOK
        <3> QED
            BY <3>1, <3>2
    <2>4. pc[k] \in NoKimiYet => WorksIn(j) # k
        BY <1>4 DEF GInv, SessionMade, WorksIn, Resumes
    <2>5. pc[k] \in NoKimiYet => journal'[k] = "absent"
        BY <1>1, <1>2, <2>4, Numbers DEF Guarded, GInv, IInv, TypeOK
    <2> QED
        BY <1>1, <1>2, <2>1, <2>2, <2>3, <2>5 DEF Guarded
<1> QED
    BY <1>3, <1>4

LEMMA NextKeepsGInv == GInv /\ [Next]_vars => GInv'
<1> SUFFICES ASSUME GInv, [Next]_vars PROVE GInv'
    OBVIOUS
<1>1. IInv'
    BY NextKeepsIInv DEF GInv
<1>2. RowsGrow => SessionMade'
    BY NoWayBack, SessionsStayMade DEF GInv
<1>3. CASE UNCHANGED vars
    <2>1. RowsGrow
        BY <1>3, SameRowsGrow DEF vars, table, GInv, IInv
    <2>2. \A k \in Job : Guarded(k)'
        BY <1>3, <2>1, StillGuarded DEF vars, process, world, GInv, RowsGrow
    <2> QED
        BY <1>1, <1>2, <2>1, <2>2 DEF GInv
<1>4. CASE Others
    BY <1>1, <1>2, <1>4, OthersKeepIInv, OthersKeepGuarded DEF GInv
<1>5. ASSUME NEW j \in Job, Prepare(j) PROVE GInv'
    BY <1>1, <1>5, PrepareKeepsGInv DEF GInv
<1>6. ASSUME NEW j \in Job, Boot(j) PROVE GInv'
    BY <1>1, <1>2, <1>6, BootKeepsIInv, BootKeepsGuarded DEF GInv
<1>7. ASSUME NEW j \in Job, Inner(j) PROVE GInv'
    <2>1. RowsGrow
        BY <1>7, RowStepsKeepIInv, ResolveKeepsIInv, EarlyStepsKeepIInv, EndStepsKeepIInv,
            MismatchKeepsIInv, OutputKeepsIInv, ObserveKeepsIInv
        DEF Inner, Begin, Call, Close, GInv
    <2> QED
        BY <1>1, <1>2, <1>7, <2>1, InnerKeepsGuarded DEF GInv
<1> QED
    BY <1>3, <1>4, <1>5, <1>6, <1>7 DEF Next, Dispatch, Spawn, Inner

LEMMA GuardInvariance == Spec => []GInv
<1>1. Init => GInv
    BY InitIInv, Numbers DEF Init, GInv, SessionMade, Guarded, NoRow
<1> QED
    BY <1>1, NextKeepsGInv, PTL DEF Spec

-----------------------------------------------------------------------------
(***************************************************************************)
(* The engine of a session.  A call that has got under way left proof of   *)
(* its engine in its log, so a resume that found nothing is a resume from  *)
(* a job that had not got that far; every other resume was planned on the  *)
(* engine its source is known to have run.                                 *)
(***************************************************************************)

Begun == {"cleared", "checked", "running"}
UnderWay == {"answering", "judging", "over"}

\* The engine of a call that got under way is the one its log proves.
TookProves(j) ==
    took[j] # Unknown => /\ pc[j] \in UnderWay
                         /\ took[j] = child[j].engine
                         /\ Classify(log[j]) = took[j]

\* What a resume knew of its source when it began.
LineageKnown(j) ==
    rows[j].from # NoJob /\ pc[j] \in Begun =>
        IF held[j].unproven THEN rows[j].intended = Legacy
        ELSE rows[rows[j].from].observed = rows[j].intended

\* A session in a row is that of a job that continued none and is over.
RootIsOver(j) ==
    rows[j].session # NoSession =>
        /\ rows[j].session \in Job
        /\ rows[rows[j].session].session = rows[j].session
        /\ rows[rows[j].session].from = NoJob
        /\ pc[rows[j].session] = "over"

\* Whatever took a turn in a session that was not crossed is one engine.
OneEngine ==
    \A i, k \in Job :
        /\ took[i] # Unknown /\ took[k] # Unknown
        /\ WorksIn(i) = WorksIn(k) /\ WorksIn(i) \notin crossed
        => took[i] = took[k]

SInv ==
    /\ IInv
    /\ \A j \in Job : TookProves(j) /\ LineageKnown(j) /\ RootIsOver(j)
    /\ OneEngine

\* Every step lets the rows grow or writes a plan.
LEMMA RowsGrowOrPlan ==
    ASSUME IInv, Next PROVE RowsGrow \/ \E j \in Job : Prepare(j)
BY OthersKeepIInv, RowStepsKeepIInv, ResolveKeepsIInv, EarlyStepsKeepIInv, EndStepsKeepIInv,
    MismatchKeepsIInv, BootKeepsIInv, OutputKeepsIInv, ObserveKeepsIInv
DEF Next, Dispatch, Begin, Spawn, Call, Close

LEMMA PlanIsOneRow ==
    ASSUME IInv, NEW j \in Job, Prepare(j)
    PROVE  /\ pc[j] = "resolved" /\ pc'[j] = "queued" /\ rows[j] = NoRow
           /\ UNCHANGED <<log, child, took, crossed>>
           /\ rows'[j].from = held[j].source /\ rows'[j].session = SessionOf(held[j].source)
           /\ \A k \in Job \ {j} : rows'[k] = rows[k] /\ pc'[k] = pc[k] /\ held'[k] = held[k]
BY DEF Prepare, PlannedRow, IInv, TypeOK, Staged, PlanIsThere, NoRowYet, history

\* Only the steps of a job move it, its kimi and its log.
LEMMA OthersLeave ==
    ASSUME IInv, Next, NEW j \in Job,
           ~(Dispatch(j) \/ Begin(j) \/ Spawn(j) \/ Call(j) \/ Close(j))
    PROVE  /\ pc'[j] = pc[j] /\ child'[j] = child[j] /\ log'[j] = log[j]
           /\ held'[j].unproven = held[j].unproven /\ took'[j] = took[j]
<1>1. ASSUME NEW calls, Exposed(calls) \/ UNCHANGED held
      PROVE  held'[j].unproven = held[j].unproven
    BY <1>1 DEF Exposed, IInv, TypeOK, Held
<1>2. CASE Others
    <2>1. UNCHANGED <<log, pc, child, took>>
        BY <1>2 DEF Others, Upgrade, EditConfig, TouchSession, OpenDesk, table, process, history
    <2>2. \E calls : Exposed(calls) \/ UNCHANGED held
        BY <1>2 DEF Others, Upgrade, EditConfig, TouchSession, OpenDesk, process
    <2> QED
        BY <1>1, <2>1, <2>2
<1>3. CASE Inspect(j)
    BY <1>3 DEF Inspect, process, history
<1>4. ASSUME NEW i \in Job \ {j}, Inner(i) \/ Prepare(i)
      PROVE  /\ pc'[j] = pc[j] /\ child'[j] = child[j] /\ log'[j] = log[j]
             /\ held'[j].unproven = held[j].unproven /\ took'[j] = took[j]
    <2>1. pc'[j] = pc[j] /\ child'[j] = child[j] /\ held'[j] = held[j]
        BY <1>4, InnerLocal
    <2>2. log'[j] = log[j] /\ took'[j] = took[j]
        BY <1>4 DEF Inner, Prepare, Inspect, Resolve, Refuse, Begin, BeginFresh, BeginResume,
            BeginRefused, Check, CheckFailed, Call, Output, Mismatch, CallThrows, Observe, Close,
            Finish, Fail, Cancelled, KilledAndSwept, table, history, IInv, TypeOK
    <2> QED
        BY <2>1, <2>2
<1>5. ASSUME NEW i \in Job \ {j}, Boot(i)
      PROVE  /\ pc'[j] = pc[j] /\ child'[j] = child[j] /\ log'[j] = log[j]
             /\ held'[j].unproven = held[j].unproven /\ took'[j] = took[j]
    <2>1. \E calls : Exposed(calls) \/ UNCHANGED held
        BY <1>5 DEF Boot
    <2>2. pc'[j] = pc[j] /\ child'[j] = child[j] /\ log'[j] = log[j] /\ took'[j] = took[j]
        BY <1>5 DEF Boot, history, IInv, TypeOK
    <2> QED
        BY <1>1, <2>1, <2>2
<1> QED
    BY <1>2, <1>3, <1>4, <1>5 DEF Next, Dispatch, Spawn, Inner

\* A job under way stays so, and nothing is added to what its log proves.
LEMMA UnderWayStays ==
    ASSUME IInv, Next, NEW j \in Job, pc[j] \in UnderWay
    PROVE  /\ pc'[j] \in UnderWay
           /\ pc[j] = "over" => pc'[j] = "over"
           /\ log'[j] = log[j] /\ child'[j].engine = child[j].engine /\ took'[j] = took[j]
<1>1. CASE CallThrows(j) \/ Observe(j) \/ Close(j)
    <2>1. log' = log /\ took' = took
        BY <1>1 DEF CallThrows, Observe, Close, Finish, Fail, Cancelled, KilledAndSwept, history
    <2>2. CASE Observe(j) \/ Cancelled(j)
        BY <2>1, <2>2 DEF Observe, Cancelled, process, UnderWay, IInv, TypeOK
    <2>3. CASE CallThrows(j) \/ Finish(j) \/ Fail(j) \/ KilledAndSwept(j)
        <3>1. Over(j)
            BY <2>3 DEF CallThrows, Finish, Fail, KilledAndSwept, Failed
        <3>2. pc'[j] = "over" /\ child'[j] = [NoChild EXCEPT !.engine = child[j].engine]
            BY <3>1 DEF Over, IInv, TypeOK
        <3> QED
            BY <2>1, <3>2 DEF UnderWay, NoChild
    <2> QED
        BY <1>1, <2>2, <2>3 DEF Close
<1>2. ~(Dispatch(j) \/ Begin(j) \/ Spawn(j) \/ Output(j) \/ Mismatch(j))
    BY DEF UnderWay, Dispatch, Resolve, IsNext, Prepare, Refuse, Begin, BeginFresh, BeginResume,
        BeginRefused, MayBegin, Spawn, Check, CheckFailed, Boot, Output, Mismatch
<1>3. CASE ~(Call(j) \/ Close(j))
    BY <1>2, <1>3, OthersLeave DEF Call
<1> QED
    BY <1>1, <1>2, <1>3 DEF Call

\* What a call leaves in its log when it gets under way.
LEMMA OutputProves ==
    ASSUME IInv, NEW j \in Job, Output(j)
    PROVE  /\ pc[j] = "running" /\ pc'[j] = "answering"
           /\ rows' = rows /\ held' = held
           /\ rows[j].intended \in Engine /\ child[j].engine = rows[j].intended
           /\ child'[j].engine = child[j].engine
           /\ took'[j] = child[j].engine /\ \A k \in Job \ {j} : took'[k] = took[k]
           /\ Classify(log'[j]) = child[j].engine
<1>1. PICK marker \in MarkerOf(child[j]) :
        /\ FirstLineAgrees(j, marker)
        /\ log' = [log EXCEPT ![j] = @ \cup {"run"} \cup (IF marker THEN {"marker"} ELSE {})]
    BY DEF Output
<1>2. /\ pc[j] = "running" /\ pc'[j] = "answering" /\ rows' = rows /\ held' = held
      /\ took'[j] = child[j].engine /\ \A k \in Job \ {j} : took'[k] = took[k]
    BY DEF Output, IInv, TypeOK
<1>3. rows[j].intended \in Engine /\ RunsItsPlan(j) /\ LogIsTrue(j)
    BY <1>2 DEF IInv, Staged, PlanIsThere, Places, NoRowYet
<1>4. child[j].engine = rows[j].intended
    BY <1>1, <1>2, <1>3, Engines DEF FirstLineAgrees, MarkerOf, RunsItsPlan, Started, Engine
<1>5. log'[j] = log[j] \cup {"run"} \cup (IF marker THEN {"marker"} ELSE {})
    BY <1>1 DEF IInv, TypeOK
<1>6. child'[j].engine = child[j].engine
    BY DEF Output, IInv, TypeOK, Child
<1>7. CASE rows[j].intended = Legacy
    <2>1. "forced" \in log[j] /\ "marker" \notin log[j] /\ ~marker
        BY <1>1, <1>2, <1>3, <1>4, <1>7, Engines DEF RunsItsPlan, LogIsTrue, FirstLineAgrees
    <2> QED
        BY <1>2, <1>3, <1>4, <1>5, <1>6, <1>7, <2>1 DEF Classify
<1>8. CASE rows[j].intended = Native
    <2>1. "forced" \notin log[j] /\ marker
        BY <1>1, <1>2, <1>3, <1>8, Engines DEF RunsItsPlan, FirstLineAgrees
    <2> QED
        BY <1>2, <1>3, <1>4, <1>5, <1>6, <1>8, <2>1 DEF Classify
<1> QED
    BY <1>3, <1>7, <1>8 DEF Engine

LEMMA OnlyOutputTakes ==
    ASSUME Next PROVE (\E j \in Job : Output(j)) \/ (took' = took /\ crossed' = crossed)
BY DEF Next, Others, Upgrade, EditConfig, TouchSession, OpenDesk, Inspect, Dispatch, Resolve,
    Prepare, Refuse, Begin, BeginFresh, BeginResume, BeginRefused, Spawn, Check, CheckFailed, Boot,
    Call, Mismatch, CallThrows, Observe, Close, Finish, Fail, Cancelled, KilledAndSwept, history

LEMMA NextKeepsTookProves ==
    ASSUME IInv, Next, NEW j \in Job, TookProves(j) PROVE TookProves(j)'
<1>1. CASE Output(j)
    BY <1>1, OutputProves DEF TookProves, UnderWay
<1>2. CASE ~Output(j)
    <2>1. took'[j] = took[j]
        BY <1>2, OnlyOutputTakes, OutputProves
    <2>2. pc[j] \in UnderWay =>
             pc'[j] \in UnderWay /\ log'[j] = log[j] /\ child'[j].engine = child[j].engine
        BY UnderWayStays
    <2> QED
        BY <2>1, <2>2 DEF TookProves, Classify
<1> QED
    BY <1>1, <1>2

-----------------------------------------------------------------------------
\* A row without a session gets one when its job is over, or with its plan.
LEMMA SessionAppears ==
    ASSUME IInv, Next, NEW j \in Job, rows[j].session = NoSession, rows'[j].session # NoSession
    PROVE  pc'[j] = "over" \/ Prepare(j)
<1>1. ASSUME NEW k \in Job PROVE Reconciled(k).session = rows[k].session
    BY DEF Reconciled, IInv, TypeOK, Row
<1>2. ~Others
    BY DEF Others, Upgrade, EditConfig, TouchSession, OpenDesk, table
<1>3. PICK i \in Job : Inspect(i) \/ Dispatch(i) \/ Begin(i) \/ Spawn(i) \/ Call(i) \/ Close(i)
    BY <1>2 DEF Next
<1>4. ~Inspect(i) /\ ~Resolve(i) /\ ~Refuse(i) /\ ~BeginFresh(i) /\ ~BeginResume(i)
    <2>1. ASSUME NEW k \in Job, rows' = [rows EXCEPT ![k] = Reconciled(k)] PROVE FALSE
        BY <1>1, <2>1 DEF IInv, TypeOK
    <2>2. BeginResume(i) => rows[i].from \in Job
        BY DEF BeginResume, LineageHolds, PlanOf, IInv, TypeOK, Row
    <2> QED
        BY <2>1, <2>2 DEF Inspect, Resolve, Refuse, BeginFresh, BeginResume, table
<1>5. ~Check(i) /\ ~Boot(i) /\ ~Output(i) /\ ~Observe(i) /\ ~Cancelled(i)
    BY DEF Check, Boot, Output, Observe, Cancelled, table, IInv, TypeOK, Row
<1>6. CASE Prepare(i)
    BY <1>6, PlanIsOneRow
<1>7. CASE \/ BeginRefused(i) \/ CheckFailed(i) \/ Mismatch(i) \/ CallThrows(i)
           \/ Finish(i) \/ Fail(i) \/ KilledAndSwept(i)
    <2>1. pc'[i] = "over"
        BY <1>7 DEF BeginRefused, CheckFailed, Mismatch, CallThrows, Finish, Fail,
            KilledAndSwept, Failed, Over, IInv, TypeOK
    <2>2. \A k \in Job \ {i} : rows'[k] = rows[k]
        BY <1>7 DEF BeginRefused, CheckFailed, Mismatch, CallThrows, Finish, Fail,
            KilledAndSwept, Failed, EndedWith, IInv, TypeOK
    <2> QED
        BY <2>1, <2>2
<1> QED
    BY <1>3, <1>4, <1>5, <1>6, <1>7 DEF Dispatch, Begin, Spawn, Call, Close

LEMMA NextKeepsRootIsOver ==
    ASSUME IInv, Next, \A j \in Job : RootIsOver(j), NEW j \in Job PROVE RootIsOver(j)'
<1>1. ASSUME NEW i \in Job, Prepare(i) PROVE RootIsOver(j)'
    <2> DEFINE k == held[i].source
    <2>1. k \in Job \cup {NoJob} /\ rows[i].session = NoSession
        BY <1>1, PlanIsOneRow DEF IInv, TypeOK, Held, NoRow
    <2>2. rows'[j].session # NoSession =>
             \E q \in Job : rows[q].session = rows'[j].session /\ RootIsOver(q)
        <3>1. CASE j = i
            BY <1>1, <2>1, <3>1, PlanIsOneRow DEF SessionOf
        <3>2. CASE j # i
            BY <1>1, <3>2, PlanIsOneRow
        <3> QED
            BY <3>1, <3>2
    <2>3. ASSUME rows'[j].session # NoSession
          PROVE  rows'[j].session \in Job \ {i} /\ pc[rows'[j].session] = "over"
                 /\ rows[rows'[j].session].session = rows'[j].session
                 /\ rows[rows'[j].session].from = NoJob
        BY <1>1, <2>2, <2>3, PlanIsOneRow DEF RootIsOver
    <2> QED
        BY <1>1, <2>3, PlanIsOneRow DEF RootIsOver
<1>2. ASSUME RowsGrow, ~Prepare(j) PROVE RootIsOver(j)'
    <2> SUFFICES ASSUME rows'[j].session # NoSession
                 PROVE  /\ rows'[j].session \in Job
                        /\ rows'[rows'[j].session].session = rows'[j].session
                        /\ rows'[rows'[j].session].from = NoJob
                        /\ pc'[rows'[j].session] = "over"
        BY DEF RootIsOver
    <2>1. Grows(rows'[j], j)
        BY <1>2 DEF RowsGrow
    <2>2. CASE rows[j].session = NoSession
        BY <1>2, <2>1, <2>2, SessionAppears DEF Grows
    <2>3. CASE rows[j].session # NoSession
        <3> DEFINE s == rows[j].session
        <3>1. rows'[j].session = s /\ s \in Job /\ rows[s].session = s /\ rows[s].from = NoJob
              /\ pc[s] = "over"
            BY <2>1, <2>3 DEF Grows, RootIsOver
        <3>2. Grows(rows'[s], s)
            BY <1>2, <3>1 DEF RowsGrow
        <3>3. rows'[s].session = s /\ rows'[s].from = NoJob
            BY <2>3, <3>1, <3>2 DEF Grows
        <3>4. pc'[s] = "over"
            <4>1. \A q \in Job : pc[q] = "over" => pc'[q] = "over"
                BY UnderWayStays DEF UnderWay
            <4> QED
                BY <3>1, <4>1
        <3> QED
            BY <3>1, <3>3, <3>4
    <2> QED
        BY <2>2, <2>3
<1> QED
    BY <1>1, <1>2, RowsGrowOrPlan

-----------------------------------------------------------------------------
\* A call comes under its checks by the beginning of its job only; what the beginning
\* noted of the source stays until the job is over.
LEMMA BegunBefore ==
    ASSUME IInv, Next, NEW j \in Job, pc'[j] \in Begun, ~BeginFresh(j), ~BeginResume(j)
    PROVE  pc[j] \in Begun /\ held'[j].unproven = held[j].unproven
<1>1. CASE Check(j)
    BY <1>1 DEF Check, Begun
<1>2. CASE Boot(j)
    <2>1. held'[j].unproven = held[j].unproven
        BY <1>2 DEF Boot, Exposed, IInv, TypeOK, Held
    <2> QED
        BY <1>2, <2>1 DEF Boot, Begun
<1>3. CASE Dispatch(j)
    BY <1>3 DEF Dispatch, Resolve, Prepare, Refuse, Begun, IInv, TypeOK
<1>4. CASE Output(j) \/ Observe(j)
    BY <1>4 DEF Output, Observe, Begun, IInv, TypeOK
<1>5. CASE Cancelled(j)
    BY <1>5 DEF Cancelled, process
<1>6. CASE \/ BeginRefused(j) \/ CheckFailed(j) \/ Mismatch(j) \/ CallThrows(j)
           \/ Finish(j) \/ Fail(j) \/ KilledAndSwept(j)
    <2>1. Over(j)
        BY <1>6 DEF BeginRefused, CheckFailed, Mismatch, CallThrows, Finish, Fail,
            KilledAndSwept, Failed
    <2> QED
        BY <2>1 DEF Over, Begun, IInv, TypeOK
<1>7. CASE ~(Dispatch(j) \/ Begin(j) \/ Spawn(j) \/ Call(j) \/ Close(j))
    BY <1>7, OthersLeave
<1> QED
    BY <1>1, <1>2, <1>3, <1>4, <1>5, <1>6, <1>7 DEF Begin, Spawn, Call, Close

\* A resume begins on what the store says of its source at that moment.
LEMMA BeginKnows ==
    ASSUME IInv, NEW j \in Job, BeginResume(j), \A k \in Job : TookProves(k)
    PROVE  LineageKnown(j)'
<1> DEFINE k == rows[j].from
<1>1. /\ pc[j] = "queued" /\ rows[j].session # NoSession /\ LineageHolds(j)
      /\ rows' = [rows EXCEPT ![k] = Reconciled(k)]
      /\ held' = [held EXCEPT ![j].unproven = rows'[k].observed = Unknown /\ took[k] = Unknown]
    BY DEF BeginResume, MayBegin
<1>2. k \in Job /\ ResumeCompatible(Reconciled(k).observed, rows[j].intended)
      /\ rows[j].intended \in Engine
    BY <1>1 DEF LineageHolds, PlanOf, IInv, TypeOK, Row, Staged, PlanIsThere, Places, NoRowYet
<1>3. rows[k].status = "ended" /\ rows[j].status = "running"
    BY <1>2, Numbers DEF BeginResume, MayBegin, IsRunning, IInv, SourceIsKept
<1>4. rows'[k] = Reconciled(k) /\ rows'[j] = rows[j]
    BY <1>1, <1>2, <1>3 DEF IInv, TypeOK
<1>5. held'[j].unproven = (Reconciled(k).observed = Unknown /\ took[k] = Unknown)
    BY <1>1, <1>4 DEF IInv, TypeOK, Held
<1>6. CASE Reconciled(k).observed # Unknown
    BY <1>2, <1>4, <1>5, <1>6 DEF ResumeCompatible, LineageKnown
<1>7. CASE Reconciled(k).observed = Unknown
    <2>1. Classify(log[k]) = Unknown
        BY <1>2, <1>7 DEF Reconciled, IInv, TypeOK, Row
    <2>2. took[k] = Unknown
        BY <1>2, <2>1 DEF TookProves
    <2>3. rows[j].intended = Legacy
        BY <1>2, <1>7, Engines DEF ResumeCompatible
    <2> QED
        BY <1>4, <1>5, <1>7, <2>2, <2>3 DEF LineageKnown
<1> QED
    BY <1>6, <1>7

LEMMA NextKeepsLineageKnown ==
    ASSUME IInv, Next, NEW j \in Job, LineageKnown(j), \A k \in Job : TookProves(k)
    PROVE  LineageKnown(j)'
<1>1. CASE BeginResume(j)
    BY <1>1, BeginKnows
<1>2. CASE BeginFresh(j)
    <2>1. rows'[j].from = NoJob
        BY <1>2 DEF BeginFresh, table, IInv, SourceIsKept
    <2> QED
        BY <2>1 DEF LineageKnown
<1>3. ASSUME ~BeginResume(j), ~BeginFresh(j), pc'[j] \in Begun, rows'[j].from # NoJob
      PROVE  IF held'[j].unproven THEN rows'[j].intended = Legacy
             ELSE rows'[rows'[j].from].observed = rows'[j].intended
    <2>1. pc[j] \in Begun /\ held'[j].unproven = held[j].unproven
        BY <1>3, BegunBefore
    <2>2. ~Prepare(j) /\ rows[j].intended \in Engine
        BY <2>1 DEF Prepare, Begun, IInv, Staged, PlanIsThere, Places, NoRowYet
    <2>3. /\ rows'[j].from = rows[j].from /\ rows'[j].intended = rows[j].intended
          /\ \A k \in Job : rows[k].observed # Unknown /\ rows[k].status = "ended"
                => rows'[k].observed = rows[k].observed
        <3>1. CASE RowsGrow
            BY <3>1 DEF RowsGrow, Grows, IInv, ObservedIsTrue
        <3>2. ASSUME NEW i \in Job, Prepare(i)
              PROVE  /\ rows'[j] = rows[j]
                     /\ \A k \in Job : rows[k].status = "ended" => rows'[k] = rows[k]
            BY <2>2, <3>2, PlanIsOneRow DEF NoRow
        <3> QED
            BY <3>1, <3>2, RowsGrowOrPlan
    <2>4. rows[j].from \in Job /\ rows[rows[j].from].status = "ended"
        BY <1>3, <2>3 DEF IInv, TypeOK, Row, SourceIsKept
    <2> QED
        BY <1>3, <2>1, <2>2, <2>3, <2>4, Engines DEF LineageKnown
<1> QED
    BY <1>1, <1>2, <1>3 DEF LineageKnown

-----------------------------------------------------------------------------
LEMMA ResumesHasSource ==
    ASSUME IInv, NEW j \in Job
    PROVE  /\ Resumes(j) <=> rows[j].from # NoJob
           /\ Resumes(j) => /\ rows[j].from \in Job /\ WorksIn(rows[j].from) = WorksIn(j)
                            /\ WorksIn(j) = rows[j].session
           /\ ~Resumes(j) => WorksIn(j) = j
<1>1. Resumes(j) <=> rows[j].from # NoJob
    BY DEF Resumes, IInv, SourceIsKept
<1>2. ASSUME rows[j].from # NoJob
      PROVE  rows[j].from \in Job /\ WorksIn(rows[j].from) = rows[j].session
    <2>1. rows[j].from \in Job /\ rows[j].session = rows[rows[j].from].session
          /\ rows[j].session # NoSession
        BY <1>2 DEF IInv, TypeOK, Row, SourceIsKept
    <2>2. rows[rows[j].from].from = NoJob => rows[rows[j].from].session = rows[j].from
        BY <2>1 DEF IInv, SessionIsOwn
    <2> QED
        BY <2>1, <2>2 DEF WorksIn, Resumes
<1> QED
    BY <1>1, <1>2 DEF WorksIn

\* A job keeps to the session it took a turn in.
LEMMA SameSession ==
    ASSUME IInv, Next, NEW j \in Job, pc[j] \notin NoRowYet
    PROVE  WorksIn(j)' = WorksIn(j)
<1>1. CASE RowsGrow
    <2>1. Grows(rows'[j], j) /\ (rows[j].from # NoJob => rows[j].session # NoSession)
        BY <1>1 DEF RowsGrow, IInv, SourceIsKept
    <2> QED
        BY <2>1 DEF WorksIn, Resumes, Grows
<1>2. ASSUME NEW i \in Job, Prepare(i) PROVE WorksIn(j)' = WorksIn(j)
    <2>1. rows'[j] = rows[j]
        BY <1>2, PlanIsOneRow DEF NoRowYet
    <2> QED
        BY <2>1 DEF WorksIn, Resumes
<1> QED
    BY <1>1, <1>2, RowsGrowOrPlan

\* A call that gets under way in a session that stays uncrossed is of the engine of
\* every turn before it, and a resume comes after such a turn.
LEMMA OutputSticks ==
    ASSUME SInv, NEW j \in Job, Output(j), WorksIn(j) \notin crossed'
    PROVE  /\ WorksIn(j) \notin crossed
           /\ \A i \in Job \ {j} : took[i] # Unknown /\ WorksIn(i) = WorksIn(j)
                 => took[i] = child[j].engine
           /\ Resumes(j) => took[rows[j].from] = child[j].engine /\ rows[j].from # j
<1>1. ~Crosses(j) /\ WorksIn(j) \notin crossed
    BY DEF Output
<1>2. /\ pc[j] = "running" /\ rows[j].intended \in Engine /\ child[j].engine = rows[j].intended
      /\ took[j] = Unknown
    BY OutputProves DEF SInv, TookProves, UnderWay
<1>3. CASE Resumes(j)
    <2> DEFINE k == rows[j].from
    <2>1. k # NoJob /\ k \in Job /\ WorksIn(k) = WorksIn(j)
        BY <1>3, ResumesHasSource DEF SInv
    <2>2. ~held[j].unproven /\ took[k] # Unknown /\ rows[k].observed = rows[j].intended
        BY <1>1, <1>2, <1>3, <2>1 DEF Crosses, SInv, LineageKnown, Begun
    <2>3. took[k] = child[k].engine /\ rows[k].observed = child[k].engine
        BY <1>2, <2>1, <2>2, Engines DEF SInv, TookProves, IInv, ObservedIsTrue
    <2>4. ASSUME NEW i \in Job, took[i] # Unknown, WorksIn(i) = WorksIn(j)
          PROVE  took[i] = took[k]
        BY <1>1, <2>1, <2>2, <2>4 DEF SInv, OneEngine
    <2> QED
        BY <1>1, <1>2, <2>1, <2>2, <2>3, <2>4
<1>4. CASE ~Resumes(j)
    <2> SUFFICES ASSUME NEW i \in Job \ {j}, WorksIn(i) = WorksIn(j) PROVE FALSE
        BY <1>1, <1>4
    <2>1. WorksIn(i) = j
        BY <1>4, ResumesHasSource DEF SInv
    <2>2. Resumes(i) /\ rows[i].session = j
        BY <2>1, ResumesHasSource DEF SInv
    <2>3. pc[j] = "over"
        BY <2>2 DEF Resumes, SInv, RootIsOver
    <2> QED
        BY <1>2, <2>3
<1> QED
    BY <1>3, <1>4

LEMMA NextKeepsOneEngine == ASSUME SInv, Next PROVE OneEngine'
<1>1. \A i \in Job : pc[i] \notin NoRowYet => WorksIn(i)' = WorksIn(i)
    BY SameSession DEF SInv
<1>2. \A i \in Job : took[i] # Unknown => pc[i] \notin NoRowYet
    BY DEF SInv, TookProves, UnderWay, NoRowYet
<1>3. CASE took' = took /\ crossed' = crossed
    BY <1>1, <1>2, <1>3 DEF OneEngine, SInv
<1>4. ASSUME NEW j \in Job, Output(j) PROVE OneEngine'
    <2>1. /\ pc[j] = "running" /\ took'[j] = child[j].engine
          /\ \A k \in Job \ {j} : took'[k] = took[k]
        BY <1>4, OutputProves DEF SInv
    <2>2. crossed \subseteq crossed'
        BY <1>4 DEF Output
    <2>3. WorksIn(j)' = WorksIn(j)
        BY <1>1, <2>1 DEF NoRowYet
    <2> SUFFICES ASSUME NEW i \in Job, NEW k \in Job, took'[i] # Unknown, took'[k] # Unknown,
                        WorksIn(i)' = WorksIn(k)', WorksIn(i)' \notin crossed'
                 PROVE  took'[i] = took'[k]
        BY DEF OneEngine
    <2>4. WorksIn(i)' = WorksIn(i) /\ WorksIn(k)' = WorksIn(k)
        BY <1>1, <1>2, <2>1, <2>3
    <2>5. CASE i # j /\ k # j
        BY <2>1, <2>2, <2>4, <2>5 DEF SInv, OneEngine
    <2>6. CASE i = j \/ k = j
        <3>1. WorksIn(j) \notin crossed' /\ WorksIn(i) = WorksIn(k)
            BY <2>4, <2>6
        <3>2. \A h \in Job \ {j} : took[h] # Unknown /\ WorksIn(h) = WorksIn(j)
                 => took[h] = child[j].engine
            BY <1>4, <3>1, OutputSticks
        <3> QED
            BY <2>1, <2>4, <2>6, <3>1, <3>2
    <2> QED
        BY <2>5, <2>6
<1> QED
    BY <1>3, <1>4, OnlyOutputTakes

LEMMA StickyInvariance == Spec => []SInv
<1>1. Init => SInv
    <2> SUFFICES ASSUME Init PROVE SInv
        OBVIOUS
    <2>1. /\ \A j \in Job : rows[j] = NoRow /\ took[j] = Unknown /\ pc[j] = "idle"
          /\ NoRow.session = NoSession /\ NoRow.from = NoJob
        BY DEF Init, NoRow
    <2> QED
        BY <2>1, InitIInv DEF SInv, TookProves, LineageKnown, RootIsOver, OneEngine
<1>2. SInv /\ [Next]_vars => SInv'
    <2> SUFFICES ASSUME SInv, [Next]_vars PROVE SInv'
        OBVIOUS
    <2>1. CASE Next
        BY <2>1, NextKeepsIInv, NextKeepsTookProves, NextKeepsLineageKnown, NextKeepsRootIsOver,
            NextKeepsOneEngine DEF SInv
    <2>2. CASE UNCHANGED vars
        <3> USE <2>2 DEF vars, table, process, history
        <3>1. IInv'
            BY NextKeepsIInv DEF SInv
        <3>2. \A j \in Job : TookProves(j)' /\ LineageKnown(j)' /\ RootIsOver(j)'
            BY DEF SInv, TookProves, LineageKnown, RootIsOver, Classify
        <3>3. OneEngine'
            BY DEF SInv, OneEngine, WorksIn, Resumes
        <3> QED
            BY <3>1, <3>2, <3>3 DEF SInv
    <2> QED
        BY <2>1, <2>2
<1> QED
    BY <1>1, <1>2, PTL DEF Spec

-----------------------------------------------------------------------------
(***************************************************************************)
(* What the run checks, for every number of jobs and of changes around.    *)
(***************************************************************************)

\* Rows, logs, what a process remembers and its kimi always have their types
\* (resolveAskSession to markCompleted).
THEOREM TypeCorrect == Spec => []TypeOK
<1>1. IInv => TypeOK
    BY DEF IInv
<1> QED
    BY <1>1, Invariance, PTL

\* The engine written in a row is the one that ran, whether the call reported it or
\* a reconciliation read it from the log (observedExecutionFields,
\* reconcileHistoricalJobProvenance), whatever becomes of the binary meanwhile.
THEOREM TrueProvenance == Spec => []ObservedIsTrue
<1>1. IInv => ObservedIsTrue
    BY DEF IInv
<1> QED
    BY <1>1, Invariance, PTL

\* A row names its own session or that of the row it continues, whoever opens
\* sessions beside it and however it fails (keepFailedJobSession, markCompleted).
THEOREM OwnSession == Spec => []SessionIsOwn
<1>1. IInv => SessionIsOwn
    BY DEF IInv
<1> QED
    BY <1>1, Invariance, PTL

\* No call gets under way without the hook, and none on native-v2 in plan mode, unless
\* a file was changed after the check of that call (verifyHookInstalled,
\* assertNativeV2Preflight).
THEOREM GuardedCalls == Spec => []GuardsHold
<1>1. GInv => GuardsHold
    <2> SUFFICES ASSUME GInv, NEW j \in Job, pc[j] \in {"answering", "judging"},
                        child[j].hooked => child[j].engine = Native /\ child[j].plan
                 PROVE  held[j].edited
        BY DEF GuardsHold
    <2>1. child[j].engine = rows[j].intended
        BY DEF GInv, IInv, Staged, AnswersAsPlanned
    <2> QED
        BY <2>1 DEF GInv, Guarded
<1> QED
    BY <1>1, GuardInvariance, PTL

\* A call that continues a session gets under way on the engine of every turn before
\* it and after at least one, unless the session was continued from a job whose own
\* call never got under way (assertPersistedResumeLineage, assertResumeCompatible,
\* the engine marker of runCliPrompt).
THEOREM StickyEngine == Spec => EngineSticky
<1>1. SInv /\ [Next]_vars =>
        [\A j \in Job :
            (pc[j] = "running" /\ pc'[j] = "answering" /\ Resumes(j)) =>
                \/ WorksIn(j) \in crossed'
                \/ Turns(WorksIn(j)) = {child[j].engine}]_vars
    <2> SUFFICES ASSUME SInv, Next, NEW j \in Job, pc[j] = "running", pc'[j] = "answering",
                        Resumes(j), WorksIn(j) \notin crossed'
                 PROVE  Turns(WorksIn(j)) = {child[j].engine}
        OBVIOUS
    <2>1. Output(j)
        <3>1. ~(Dispatch(j) \/ Begin(j) \/ Spawn(j) \/ Observe(j) \/ Finish(j) \/ Fail(j))
            BY DEF Dispatch, Resolve, IsNext, Prepare, Refuse, Begin, BeginFresh, BeginResume,
                BeginRefused, MayBegin, Spawn, Check, CheckFailed, Boot, Observe, Finish, Fail
        <3>2. ~(Mismatch(j) \/ CallThrows(j) \/ Cancelled(j) \/ KilledAndSwept(j))
            BY DEF Mismatch, CallThrows, Cancelled, process, KilledAndSwept, Failed, Over, SInv,
                IInv, TypeOK
        <3> QED
            BY <3>1, <3>2, OthersLeave DEF SInv, Call, Close
    <2>2. took[j] = Unknown
        BY DEF SInv, TookProves, UnderWay
    <2>3. \A i \in Job : took[i] # Unknown /\ WorksIn(i) = WorksIn(j) => took[i] = child[j].engine
        BY <2>1, <2>2, OutputSticks
    <2>4. /\ rows[j].from \in Job /\ WorksIn(rows[j].from) = WorksIn(j)
          /\ took[rows[j].from] = child[j].engine
        BY <2>1, OutputSticks, ResumesHasSource DEF SInv
    <2>5. child[j].engine # Unknown
        BY <2>1, OutputProves, Engines DEF SInv
    <2> QED
        BY <2>3, <2>4, <2>5 DEF Turns
<1> QED
    BY <1>1, StickyInvariance, PTL DEF Spec, EngineSticky
=============================================================================
