-------------------------- MODULE WriteSwarm_proofs --------------------------
(***************************************************************************)
(* Proofs about the data directory and the worktrees in it, for any number *)
(* of jobs, setups and swarms, and any budget and margin.                  *)
(*                                                                         *)
(* A worktree is removed by age alone, by a swarm that knows nothing of    *)
(* the one it belongs to.  That this spares the living rests on their age: *)
(* a job whose call ends by the budget ends within it and the margin, so   *)
(* the worktree of a live swarm that is not orphaned is never older than   *)
(* the limit.                                                              *)
(***************************************************************************)
EXTENDS WriteSwarm, TLAPS

Places == {"idle", "resolved", "ensured", "open", "admitted", "swept", "tree", "row",
           "execute", "call", "ended", "captured", "closed", "gone"}
SetupPlaces == {"idle", "rebase", "alias", "move", "renamed", "commit", "gone"}
Row == [status : {"none", "running", "ended"},
        log : Names \cup {None}, out : Names \cup {None}]

TypeOK ==
    /\ at \in [Names -> {"absent", "dir", "alias"}]
    /\ rows \in [Jobs -> Row]
    /\ holder \in Setups \cup {None}
    /\ spc \in [Setups -> SetupPlaces]
    /\ pc \in [Jobs -> Places]
    /\ name \in [Jobs -> Names \cup {None}] /\ out \in [Jobs -> Names \cup {None}]
    /\ tree \in [Swarms -> Names \cup {None}] /\ age \in [Swarms -> Nat]
    /\ orphaned \subseteq Swarms /\ edited \subseteq Swarms
    /\ patch \in [Swarms -> SUBSET Edits]
    /\ fault \in [Swarms -> {"none", "unlisted", "failed", "lost"}]

\* A job that has come has found the directory; only a swarm sweeps and works.
Named ==
    \A j \in Jobs : /\ Alive(j) => name[j] \in Names
                    /\ pc[j] \in {"admitted", "swept"} => j \in Swarms

\* A live swarm that is not orphaned has no worktree older than the limit.
LiveTreeIsYoung ==
    \A j \in Swarms : tree[j] # None /\ pc[j] # "gone" =>
        pc[j] # "idle" /\ (age[j] <= Ttl \/ j \in orphaned)

IInv == TypeOK /\ Named /\ LiveTreeIsYoung

LEMMA InitIInv == Init => IInv
<1> SUFFICES ASSUME Init PROVE IInv
    OBVIOUS
<1> USE DEF Init, DirInit
<1>1. NoRow \in Row
    BY DEF NoRow, Row
<1>2. TypeOK
    BY <1>1 DEF TypeOK, Names, SetupPlaces, Places
<1>3. Named /\ LiveTreeIsYoung
    BY SwarmsAreJobs DEF Named, LiveTreeIsYoung, Alive
<1> QED
    BY <1>2, <1>3 DEF IInv

-----------------------------------------------------------------------------
(***************************************************************************)
(* Setups: the directory moves and the worktrees in it with it.            *)
(***************************************************************************)

LEMMA RewrittenRows == TypeOK => Rewritten \in [Jobs -> Row]
<1>1. TypeOK => rows \in [Jobs -> Row]
    BY DEF TypeOK
<1>2. rows \in [Jobs -> Row] => Rewritten \in [Jobs -> Row]
    BY DEF Rewritten, Current, Row, Names
<1> QED
    BY <1>1, <1>2

LEMMA MadeParentsType ==
    ASSUME TypeOK, NEW n \in Names
    PROVE  MadeParents(n) \in [Names -> {"absent", "dir", "alias"}]
BY DEF TypeOK, MadeParents

\* What a setup does to the names.
LEMMA MigrateTypes ==
    ASSUME TypeOK, NEW s \in Setups, Migrate(s)
    PROVE  /\ at' \in [Names -> {"absent", "dir", "alias"}]
           /\ rows' \in [Jobs -> Row]
           /\ holder' \in Setups \cup {None} /\ spc' \in [Setups -> SetupPlaces]
<1>1. "current" \in Names /\ "legacy" \in Names
    BY DEF Names
<1>2. spc' \in [Setups -> SetupPlaces]
    BY DEF Migrate, Look, Rebase, Move, MakeAlias, Commit, DropAlias, SetupDies, Goto,
        TypeOK, SetupPlaces
<1>3. at' \in [Names -> {"absent", "dir", "alias"}]
    <2>1. CASE Look(s)
        BY <1>1, <2>1, MadeParentsType DEF Look, TypeOK
    <2>2. CASE Move(s)
        <3>1. [legacy |-> "absent", current |-> "dir"] \in [Names -> {"absent", "dir", "alias"}]
            BY DEF Names
        <3> QED
            BY <2>2, <3>1 DEF Move, TypeOK
    <2>3. CASE MakeAlias(s) \/ DropAlias(s)
        BY <1>1, <2>3 DEF MakeAlias, DropAlias, TypeOK
    <2>4. CASE Rebase(s) \/ Commit(s) \/ SetupDies(s)
        BY <2>4 DEF Rebase, Commit, SetupDies, TypeOK
    <2> QED
        BY <2>1, <2>2, <2>3, <2>4 DEF Migrate
<1>4. rows' \in [Jobs -> Row]
    BY RewrittenRows DEF Migrate, Look, Rebase, Move, MakeAlias, Commit, DropAlias, SetupDies,
        TypeOK
<1>5. holder' \in Setups \cup {None}
    BY DEF Migrate, Look, Rebase, Move, MakeAlias, Commit, DropAlias, SetupDies, TypeOK
<1> QED
    BY <1>2, <1>3, <1>4, <1>5

LEMMA SetupStepsKeepIInv ==
    ASSUME IInv, NEW s \in Setups, Migrate(s), MoveTrees,
           UNCHANGED <<pc, name, out, age, orphaned, fileVars>>
    PROVE  IInv' /\ \A j \in Swarms : tree[j] # None => tree'[j] # None
<1>1. tree' \in [Swarms -> Names \cup {None}]
      /\ \A j \in Swarms : tree[j] = None <=> tree'[j] = None
    BY NoneIsNoName DEF MoveTrees, IInv, TypeOK, Names
<1>2. TypeOK'
    BY <1>1, MigrateTypes DEF IInv, TypeOK, fileVars
<1>3. Named' /\ LiveTreeIsYoung'
    BY <1>1 DEF IInv, Named, LiveTreeIsYoung, Alive
<1> QED
    BY <1>1, <1>2, <1>3 DEF IInv

-----------------------------------------------------------------------------
(***************************************************************************)
(* Jobs.                                                                   *)
(***************************************************************************)

\* Steps that make or remove no worktree.
Plain(j) ==
    \/ Resolve(j) \/ Ensure(j) \/ Open(j) \/ Admit(j) \/ Insert(j) \/ Header(j) \/ Execute(j)
    \/ Work(j) \/ Orphan(j) \/ CallEnds(j) \/ Capture(j) \/ End(j) \/ Die(j)

LEMMA ResolvedIsName == Resolved \in Names
BY DEF Resolved, Names

LEMMA PlainStepsKeepIInv ==
    ASSUME IInv, NEW j \in Jobs, Plain(j)
    PROVE  IInv' /\ UNCHANGED tree
<1> USE DEF Plain, Resolve, Ensure, Open, Admit, Insert, Header, Execute, Work, Orphan,
        CallEnds, Capture, End, Die, Forget, Step, dirVars, fileVars
<1>1. UNCHANGED <<tree, age, holder, spc>>
    OBVIOUS
<1>2. pc' \in [Jobs -> Places]
    BY DEF IInv, TypeOK, Places
<1>3. name' \in [Jobs -> Names \cup {None}] /\ out' \in [Jobs -> Names \cup {None}]
    BY ResolvedIsName DEF IInv, TypeOK
<1>4. at' \in [Names -> {"absent", "dir", "alias"}]
    <2>1. CASE Ensure(j)
        BY <2>1, MadeParentsType DEF IInv, TypeOK, Names
    <2>2. CASE Header(j)
        BY <2>2, MadeParentsType DEF IInv, TypeOK, Named, Alive
    <2>3. CASE ~Ensure(j) /\ ~Header(j)
        BY <2>3 DEF IInv, TypeOK
    <2> QED
        BY <2>1, <2>2, <2>3
<1>5. rows' \in [Jobs -> Row]
    <2>1. CASE Admit(j)
        <3>1. \A k \in Jobs : [rows[k] EXCEPT !.status = "ended"] \in Row
            BY DEF IInv, TypeOK, Row
        <3> QED
            BY <2>1, <3>1 DEF IInv, TypeOK
    <2>2. CASE Insert(j)
        <3>1. [NoRow EXCEPT !.status = "running", !.log = name[j]] \in Row
            BY DEF NoRow, Row, IInv, TypeOK
        <3> QED
            BY <2>2, <3>1 DEF IInv, TypeOK
    <2>3. CASE End(j)
        <3>1. rows[j] \in Row /\ out[j] \in Names \cup {None}
            BY DEF IInv, TypeOK
        <3>2. [rows[j] EXCEPT !.status = "ended", !.out = out[j]] \in Row
            BY <3>1 DEF Row
        <3> QED
            BY <2>3, <3>2 DEF IInv, TypeOK
    <2>4. CASE ~Admit(j) /\ ~Insert(j) /\ ~End(j)
        BY <2>4 DEF IInv, TypeOK
    <2> QED
        BY <2>1, <2>2, <2>3, <2>4
<1>6. /\ orphaned' \subseteq Swarms /\ edited' \subseteq Swarms
      /\ patch' \in [Swarms -> SUBSET Edits]
      /\ fault' \in [Swarms -> {"none", "unlisted", "failed", "lost"}]
    <2>1. CASE Capture(j)
        <3>1. \E D \in SUBSET Edits : patch' = [patch EXCEPT ![j] = D] \/ patch' = patch
            BY <2>1 DEF Capture, Diff
        <3>2. /\ patch \in [Swarms -> SUBSET Edits]
              /\ fault \in [Swarms -> {"none", "unlisted", "failed", "lost"}]
            BY DEF IInv, TypeOK
        <3>3. patch' \in [Swarms -> SUBSET Edits]
            BY <3>1, <3>2
        <3>4. fault' \in [Swarms -> {"none", "unlisted", "failed", "lost"}]
            BY <2>1, <3>2 DEF Capture
        <3> QED
            BY <2>1, <3>3, <3>4 DEF IInv, TypeOK
    <2>2. CASE Die(j)
        BY <2>2 DEF IInv, TypeOK
    <2>3. CASE ~Capture(j) /\ ~Die(j)
        BY <2>3 DEF IInv, TypeOK
    <2> QED
        BY <2>1, <2>2, <2>3
<1>7. TypeOK'
    BY <1>1, <1>2, <1>3, <1>4, <1>5, <1>6 DEF IInv, TypeOK
<1>8. \A k \in Jobs \ {j} : name'[k] = name[k]
    BY DEF IInv, TypeOK
<1>9. Named'
    <2> SUFFICES ASSUME NEW k \in Jobs
                 PROVE  /\ Alive(k)' => name'[k] \in Names
                        /\ pc'[k] \in {"admitted", "swept"} => k \in Swarms
        BY DEF Named
    <2>1. CASE k = j
        <3>1. Alive(k)' => name'[k] \in Names
            <4>1. CASE Resolve(j)
                BY <2>1, <4>1, ResolvedIsName DEF IInv, TypeOK
            <4>2. CASE Die(j)
                BY <2>1, <4>2 DEF IInv, TypeOK, Alive
            <4>3. CASE ~Resolve(j) /\ ~Die(j)
                BY <2>1, <4>3 DEF IInv, TypeOK, Named, Alive
            <4> QED
                BY <4>1, <4>2, <4>3
        <3>2. pc'[k] \in {"admitted", "swept"} => k \in Swarms
            BY <2>1 DEF IInv, TypeOK, Named
        <3> QED
            BY <3>1, <3>2
    <2>2. CASE k # j
        BY <1>8, <2>2 DEF IInv, TypeOK, Named, Alive
    <2> QED
        BY <2>1, <2>2
<1>10. \A k \in Jobs : pc[k] = "gone" => pc'[k] = "gone"
    BY DEF IInv, TypeOK, Alive
<1>11. \A k \in Jobs : pc'[k] = "idle" => pc[k] = "idle"
    BY DEF IInv, TypeOK
<1>12. \A k \in Swarms : k \in orphaned => k \in orphaned' \/ pc'[k] = "gone"
    BY SwarmsAreJobs DEF IInv, TypeOK
<1>13. LiveTreeIsYoung'
    BY <1>1, <1>10, <1>11, <1>12, SwarmsAreJobs DEF IInv, LiveTreeIsYoung
<1> QED
    BY <1>1, <1>7, <1>9, <1>13 DEF IInv

LEMMA TargetIsName == ASSUME NEW n \in Names PROVE Target(n) \in Names
BY DEF Target, Names

\* The sweep takes away what is older than the limit: of the living, the orphaned.
LEMMA SweepKeepsIInv ==
    ASSUME IInv, NEW j \in Jobs, Sweep(j)
    PROVE  /\ IInv'
           /\ \A k \in Swarms \ orphaned : pc[k] # "gone" /\ tree[k] # None => tree'[k] # None
<1> USE DEF Sweep, Step, dirVars, fileVars
<1>1. /\ tree' \in [Swarms -> Names \cup {None}]
      /\ \A k \in Swarms : /\ tree'[k] # None => tree'[k] = tree[k]
                           /\ ~Expired(k) => tree'[k] = tree[k]
    BY DEF IInv, TypeOK
<1>2. pc' \in [Jobs -> Places] /\ pc[j] = "admitted" /\ pc'[j] = "swept"
      /\ \A k \in Jobs \ {j} : pc'[k] = pc[k]
    BY DEF IInv, TypeOK, Places
<1>3. TypeOK'
    BY <1>1, <1>2 DEF IInv, TypeOK
<1>4. Named'
    BY <1>2 DEF IInv, Named, Alive
<1>5. ASSUME NEW k \in Swarms \ orphaned, pc[k] # "gone", tree[k] # None PROVE ~Expired(k)
    BY <1>5, SwarmsAreJobs, TimesAssumption DEF IInv, TypeOK, LiveTreeIsYoung, Expired, Ttl
<1>6. LiveTreeIsYoung'
    BY <1>1, <1>2, SwarmsAreJobs DEF IInv, LiveTreeIsYoung
<1> QED
    BY <1>1, <1>3, <1>4, <1>5, <1>6 DEF IInv

LEMMA AddTreeKeepsIInv ==
    ASSUME IInv, NEW j \in Jobs, AddTree(j)
    PROVE  IInv' /\ \A k \in Swarms : tree[k] # None => tree'[k] # None
<1> USE DEF AddTree, Step, fileVars
<1>1. j \in Swarms /\ name[j] \in Names /\ Target(name[j]) \in Names
    BY TargetIsName DEF IInv, Named, Alive
<1>2. pc' \in [Jobs -> Places] /\ pc[j] = "swept" /\ pc'[j] = "tree"
      /\ \A k \in Jobs \ {j} : pc'[k] = pc[k]
    BY DEF IInv, TypeOK, Places
<1>3. at' \in [Names -> {"absent", "dir", "alias"}]
    BY <1>1, MadeParentsType DEF IInv
<1>4. tree' \in [Swarms -> Names \cup {None}] /\ age' \in [Swarms -> Nat]
      /\ tree'[j] = Target(name[j]) /\ age'[j] = 0
      /\ \A k \in Swarms \ {j} : tree'[k] = tree[k] /\ age'[k] = age[k]
    BY <1>1 DEF IInv, TypeOK
<1>5. TypeOK'
    BY <1>2, <1>3, <1>4 DEF IInv, TypeOK
<1>6. Named'
    BY <1>2 DEF IInv, Named, Alive
<1>7. LiveTreeIsYoung'
    BY <1>2, <1>4, SwarmsAreJobs, TimesAssumption DEF IInv, LiveTreeIsYoung, Ttl
<1> QED
    BY <1>1, <1>4, <1>5, <1>6, <1>7, NoneIsNoName DEF IInv

LEMMA RemoveKeepsIInv ==
    ASSUME IInv, NEW j \in Jobs, Remove(j)
    PROVE  /\ IInv' /\ pc[j] = "closed"
           /\ \A k \in Swarms \ {j} : tree'[k] = tree[k]
<1> USE DEF Remove, Forget, Step, dirVars
<1>1. pc' \in [Jobs -> Places] /\ pc[j] = "closed" /\ pc'[j] = "gone"
      /\ \A k \in Jobs \ {j} : pc'[k] = pc[k]
    BY DEF IInv, TypeOK, Places
<1>2. tree' \in [Swarms -> Names \cup {None}] /\ \A k \in Swarms \ {j} : tree'[k] = tree[k]
    BY DEF IInv, TypeOK
<1>3. TypeOK'
    BY <1>1, <1>2 DEF IInv, TypeOK
<1>4. Named' /\ LiveTreeIsYoung'
    BY <1>1, <1>2, SwarmsAreJobs DEF IInv, TypeOK, Named, Alive, LiveTreeIsYoung
<1> QED
    BY <1>1, <1>2, <1>3, <1>4 DEF IInv

-----------------------------------------------------------------------------
\* Time passes only as far as the living are given.
LEMMA TickKeepsIInv == ASSUME IInv, Tick PROVE IInv' /\ UNCHANGED tree
<1> USE DEF Tick, dirVars, fileVars
<1>1. age' \in [Swarms -> Nat]
    BY DEF IInv, TypeOK
<1>2. TypeOK' /\ Named'
    BY <1>1 DEF IInv, TypeOK, Named, Alive
<1>3. ASSUME NEW k \in Swarms, tree[k] # None, pc[k] # "gone"
      PROVE  pc[k] # "idle" /\ (age'[k] <= Ttl \/ k \in orphaned)
    <2>1. pc[k] # "idle" /\ Alive(k)
        BY <1>3 DEF IInv, LiveTreeIsYoung, Alive
    <2>2. (age[k] < Budget + Margin \/ k \in orphaned) /\ age[k] \in Nat
        BY <1>3, <2>1 DEF IInv, TypeOK
    <2>3. age'[k] \in {age[k], age[k] + 1}
        BY <1>3
    <2> QED
        BY <2>1, <2>2, <2>3, TimesAssumption DEF Ttl
<1>4. LiveTreeIsYoung'
    BY <1>3 DEF LiveTreeIsYoung
<1> QED
    BY <1>2, <1>4 DEF IInv

LEMMA NextKeepsIInv == IInv /\ [Next]_vars => IInv'
<1> SUFFICES ASSUME IInv, [Next]_vars PROVE IInv'
    OBVIOUS
<1>1. CASE UNCHANGED vars
    BY <1>1 DEF vars, dirVars, jobVars, fileVars, IInv, TypeOK, Named, Alive, LiveTreeIsYoung
<1>2. CASE Next
    BY <1>2, SetupStepsKeepIInv, PlainStepsKeepIInv, SweepKeepsIInv, AddTreeKeepsIInv,
        RemoveKeepsIInv, TickKeepsIInv DEF Next, Plain
<1> QED
    BY <1>1, <1>2

LEMMA Invariance == Spec => []IInv
BY InitIInv, NextKeepsIInv, PTL DEF Spec

-----------------------------------------------------------------------------
(***************************************************************************)
(* What is under a name.  Only setup takes a name away, the old one, and   *)
(* only with no job running; the current directory, once made, stays.      *)
(***************************************************************************)

LEMMA NamesStay ==
    ASSUME IInv, Next
    PROVE  /\ at["current"] = "dir" => at'["current"] = "dir"
           /\ ~Quiet => \A n \in Names : at[n] # "absent" => at'[n] = at[n]
<1>1. at \in [Names -> {"absent", "dir", "alias"}] /\ "current" \in Names /\ "legacy" \in Names
    BY DEF IInv, TypeOK, Names
<1>2. ASSUME NEW s \in Setups, Migrate(s)
      PROVE  /\ at["current"] = "dir" => at'["current"] = "dir"
             /\ ~Quiet => \A n \in Names : at[n] # "absent" => at'[n] = at[n]
    <2>1. CASE Look(s)
        BY <1>1, <2>1 DEF Look, MadeParents
    <2>2. CASE MakeAlias(s)
        BY <1>1, <2>2 DEF MakeAlias
    <2>3. CASE Rebase(s) \/ Commit(s) \/ SetupDies(s)
        BY <2>3 DEF Rebase, Commit, SetupDies
    <2>4. CASE Move(s)
        BY <1>1, <2>4 DEF Move
    <2>5. CASE DropAlias(s)
        BY <1>1, <2>5 DEF DropAlias
    <2> QED
        BY <1>2, <2>1, <2>2, <2>3, <2>4, <2>5 DEF Migrate
<1>3. ASSUME NEW j \in Jobs, Ensure(j) \/ AddTree(j) \/ Header(j)
      PROVE  \A n \in Names : at[n] # "absent" => at'[n] = at[n]
    BY <1>1, <1>3 DEF Ensure, AddTree, Header, MadeParents
<1>4. \/ \E s \in Setups : Migrate(s)
      \/ \E j \in Jobs : Ensure(j) \/ AddTree(j) \/ Header(j)
      \/ at' = at
    BY DEF Next, Resolve, Open, Admit, Sweep, Insert, Execute, Work, Orphan, CallEnds, Capture, End,
        Remove, Die, Tick, dirVars
<1> QED
    BY <1>1, <1>2, <1>3, <1>4

\* The current name never leads elsewhere, the alias leads to it, and so does the
\* work of a setup that found or left something to move.
CurrentMade ==
    /\ at["current"] # "alias"
    /\ at["legacy"] = "alias" => at["current"] = "dir"
    /\ \A s \in Setups : spc[s] \in {"rebase", "alias", "renamed", "commit"} => at["current"] = "dir"

LEMMA NextKeepsCurrentMade == ASSUME IInv, CurrentMade, Next PROVE CurrentMade'
<1>1. /\ at \in [Names -> {"absent", "dir", "alias"}] /\ "current" \in Names /\ "legacy" \in Names
      /\ spc \in [Setups -> SetupPlaces]
    BY DEF IInv, TypeOK, Names
<1>2. at["current"] = "dir" => at'["current"] = "dir"
    BY NamesStay
<1>3. ASSUME NEW s \in Setups, Migrate(s) PROVE CurrentMade'
    <2> USE <1>1, <1>2 DEF Goto, CurrentMade
    <2>1. CASE Look(s)
        <3>1. at["legacy"] = "absent" => at'["current"] = "dir"
            BY <2>1, NoneIsNoName DEF Look, MadeParents, Resolved, Reach, Names
        <3>2. at'["current"] # "alias" /\ at'["legacy"] = at["legacy"]
            BY <2>1 DEF Look, MadeParents
        <3>3. \A r \in Setups \ {s} : spc'[r] = spc[r]
            BY <2>1 DEF Look
        <3>4. spc'[s] \in {"rebase", "alias", "renamed", "commit"} =>
                 at["legacy"] \in {"absent", "alias"}
            BY <2>1 DEF Look
        <3> QED
            BY <3>1, <3>2, <3>3, <3>4
    <2>2. CASE Move(s)
        BY <2>2 DEF Move
    <2>3. CASE MakeAlias(s)
        BY <2>3 DEF MakeAlias
    <2>4. CASE DropAlias(s)
        BY <2>4 DEF DropAlias
    <2>5. CASE Rebase(s) \/ Commit(s) \/ SetupDies(s)
        BY <2>5 DEF Rebase, Commit, SetupDies
    <2> QED
        BY <1>3, <2>1, <2>2, <2>3, <2>4, <2>5 DEF Migrate
<1>4. ASSUME NEW j \in Jobs, Ensure(j) \/ AddTree(j) \/ Header(j) PROVE CurrentMade'
    BY <1>1, <1>4 DEF Ensure, AddTree, Header, MadeParents, CurrentMade
<1>5. \/ \E s \in Setups : Migrate(s)
      \/ \E j \in Jobs : Ensure(j) \/ AddTree(j) \/ Header(j)
      \/ UNCHANGED <<at, spc>>
    BY DEF Next, Resolve, Open, Admit, Sweep, Insert, Execute, Work, Orphan, CallEnds, Capture, End,
        Remove, Die, Tick, dirVars
<1>6. CASE UNCHANGED <<at, spc>>
    BY <1>6 DEF CurrentMade
<1> QED
    BY <1>3, <1>4, <1>5, <1>6

\* A worktree is in a directory, not below a name that is gone or an alias.
TreesInDir == \A k \in Swarms : tree[k] # None => at[tree[k]] = "dir"

LEMMA NextKeepsTreesInDir == ASSUME IInv, CurrentMade, TreesInDir, Next PROVE TreesInDir'
<1>1. /\ at \in [Names -> {"absent", "dir", "alias"}] /\ "current" \in Names /\ "legacy" \in Names
      /\ tree \in [Swarms -> Names \cup {None}]
    BY DEF IInv, TypeOK, Names
<1>2. ASSUME NEW s \in Setups, Migrate(s), MoveTrees PROVE TreesInDir'
    <2> SUFFICES ASSUME NEW k \in Swarms, tree'[k] # None PROVE at'[tree'[k]] = "dir"
        BY DEF TreesInDir
    <2>1. tree[k] # None /\ tree[k] \in Names /\ at[tree[k]] = "dir"
        BY <1>1, <1>2, NoneIsNoName DEF MoveTrees, TreesInDir, Names
    <2>2. CASE tree[k] = "current"
        BY <1>1, <1>2, <2>1, <2>2, NamesStay DEF MoveTrees
    <2>3. CASE tree[k] = "legacy"
        <3>1. CASE Move(s)
            BY <1>1, <1>2, <2>1, <2>3, <3>1 DEF MoveTrees, Move
        <3>2. CASE Look(s) \/ MakeAlias(s) \/ DropAlias(s) \/ Rebase(s) \/ Commit(s) \/ SetupDies(s)
            <4>1. at'["legacy"] = "dir"
                BY <1>1, <2>1, <2>3, <3>2 DEF Look, MadeParents, MakeAlias, DropAlias, Rebase, Commit,
                    SetupDies
            <4> QED
                BY <1>2, <2>3, <4>1 DEF MoveTrees
        <3> QED
            BY <1>2, <3>1, <3>2 DEF Migrate
    <2> QED
        BY <2>1, <2>2, <2>3 DEF Names
<1>3. ASSUME NEW j \in Jobs, AddTree(j) PROVE TreesInDir'
    <2>1. /\ at' = MadeParents(name[j]) /\ name[j] \in Names /\ j \in Swarms
          /\ tree' = [tree EXCEPT ![j] = Target(name[j])]
        BY <1>3 DEF AddTree, Step, IInv, Named, Alive
    <2>2. at'[Target(name[j])] = "dir"
        BY <1>1, <2>1 DEF MadeParents, Target, CurrentMade, Names
    <2>3. \A n \in Names : at[n] = "dir" => at'[n] = "dir"
        BY <1>1, <2>1 DEF MadeParents
    <2> QED
        BY <1>1, <2>1, <2>2, <2>3 DEF TreesInDir
<1>4. ASSUME NEW j \in Jobs, Plain(j) \/ Sweep(j) \/ Remove(j) PROVE TreesInDir'
    <2>1. \A n \in Names : at[n] = "dir" => at'[n] = "dir"
        BY <1>1, <1>4 DEF Plain, Resolve, Ensure, Open, Admit, Insert, Header, Execute, Work,
            Orphan, CallEnds, Capture, End, Die, Sweep, Remove, MadeParents, dirVars
    <2>2. \A k \in Swarms : tree'[k] # None => tree'[k] = tree[k]
        BY <1>1, <1>4 DEF Plain, Resolve, Ensure, Open, Admit, Insert, Header, Execute, Work,
            Orphan, CallEnds, Capture, End, Die, Sweep, Remove
    <2> QED
        BY <1>1, <2>1, <2>2 DEF TreesInDir
<1>5. CASE Tick
    BY <1>5 DEF Tick, dirVars, TreesInDir
<1> QED
    BY <1>2, <1>3, <1>4, <1>5 DEF Next, Plain

-----------------------------------------------------------------------------
(***************************************************************************)
(* A job at work.  From the insert of its row to the end of it the row     *)
(* says running, which only the job itself or, after its death, another    *)
(* job's guard changes.  A running row keeps every name, so the paths and  *)
(* the worktree a swarm's subagents wrote to are there at the capture,     *)
(* unless the swarm was orphaned.                                          *)
(***************************************************************************)

RowPlaces == {"row", "execute", "call", "ended", "captured"}

RowRuns(j) == pc[j] \in RowPlaces => j \in Running

PathsLead(j) ==
    /\ pc[j] \in RowPlaces \ {"row"} => Reach(name[j])
    /\ pc[j] \in {"call", "ended"} => Reach(out[j])

\* What the property asks of a swarm about to remove its worktree.
Accounted(j) ==
    \A e \in Edits \ patch[j] :
        \/ fault[j] = "failed"
        \/ fault[j] = "lost" /\ j \in orphaned
        \/ fault[j] = "unlisted" /\ e = "new"

EditsHeld(j) ==
    j \in edited => /\ pc[j] \in {"call", "ended", "captured", "closed"}
                    /\ pc[j] \in {"call", "ended"} => HasTree(j) \/ j \in orphaned
                    /\ pc[j] \in {"captured", "closed"} => Accounted(j)

AtWork(j) == RowRuns(j) /\ PathsLead(j) /\ EditsHeld(j)

\* A step that leaves the job's own part alone, its row and its worktree.
LEMMA OthersKeepAtWork ==
    ASSUME IInv, Next, NEW j \in Jobs, AtWork(j),
           pc'[j] = pc[j], name'[j] = name[j], out'[j] = out[j],
           j \in edited' <=> j \in edited, j \in orphaned' <=> j \in orphaned,
           j \in Swarms => patch'[j] = patch[j] /\ fault'[j] = fault[j],
           pc[j] \in RowPlaces /\ j \in Running => j \in Running',
           j \in Swarms \ orphaned /\ pc[j] \in RowPlaces /\ tree[j] # None /\ ~Quiet =>
              tree'[j] = tree[j]
    PROVE  AtWork(j)'
<1>0. j \in edited => Accounted(j)' = Accounted(j)
    BY DEF Accounted, IInv, TypeOK
<1>1. CASE pc[j] \in RowPlaces
    <2>1. ~Quiet /\ name[j] \in Names /\ out[j] \in Names \cup {None}
        BY <1>1 DEF AtWork, RowRuns, Quiet, IInv, TypeOK, Named, Alive, RowPlaces
    <2>2. \A n \in Names : at[n] # "absent" => at'[n] = at[n]
        BY <2>1, NamesStay
    <2>3. RowRuns(j)'
        BY <1>1 DEF AtWork, RowRuns
    <2>4. PathsLead(j)'
        BY <2>1, <2>2 DEF AtWork, PathsLead, Reach
    <2>5. ASSUME HasTree(j), j \in edited, j \notin orphaned PROVE HasTree(j)'
        <3>1. j \in Swarms \ orphaned /\ tree[j] # None
            BY <2>5 DEF HasTree, IInv, TypeOK
        <3>2. tree'[j] = tree[j]
            BY <1>1, <2>1, <3>1
        <3>3. at[name[j]] # "absent"
            BY <2>1, <2>5, NoneIsNoName DEF HasTree, Reach
        <3>4. at'[name[j]] = at[name[j]]
            BY <2>1, <2>2, <3>3
        <3> QED
            BY <2>5, <3>2, <3>4 DEF HasTree, Reach, Target
    <2>6. EditsHeld(j)'
        BY <1>0, <2>5 DEF AtWork, EditsHeld
    <2> QED
        BY <2>3, <2>4, <2>6 DEF AtWork
<1>2. CASE pc[j] \notin RowPlaces
    BY <1>0, <1>2 DEF AtWork, RowRuns, PathsLead, EditsHeld, RowPlaces
<1> QED
    BY <1>1, <1>2

LEMMA SetupsKeepAtWork ==
    ASSUME IInv, Next, NEW j \in Jobs, AtWork(j), NEW s \in Setups, Migrate(s), MoveTrees,
           UNCHANGED <<pc, name, out, age, orphaned, fileVars>>
    PROVE  AtWork(j)'
<1>1. rows' = rows \/ rows' = Rewritten
    BY DEF Migrate, Look, Rebase, Move, MakeAlias, Commit, DropAlias, SetupDies
<1>2. rows'[j].status = rows[j].status
    <2>1. rows[j] \in Row
        BY DEF IInv, TypeOK
    <2>2. [rows[j] EXCEPT !.log = Current(@), !.out = Current(@)].status = rows[j].status
        BY <2>1 DEF Row
    <2> QED
        BY <1>1, <2>2 DEF Rewritten
<1>3. ~Quiet /\ j \in Swarms => tree'[j] = tree[j]
    BY NamesStay DEF MoveTrees, IInv, TypeOK, Names
<1> QED
    BY <1>2, <1>3, OthersKeepAtWork DEF Running, fileVars

LEMMA OtherJobsKeepAtWork ==
    ASSUME IInv, Next, NEW j \in Jobs, AtWork(j), NEW k \in Jobs \ {j},
           Plain(k) \/ Sweep(k) \/ AddTree(k) \/ Remove(k)
    PROVE  AtWork(j)'
<1> USE DEF Plain, Resolve, Ensure, Open, Admit, Insert, Header, Execute, Work, Orphan,
        CallEnds, Capture, End, Die, Sweep, AddTree, Remove, Forget, Step, dirVars, fileVars
<1>1. /\ pc'[j] = pc[j] /\ name'[j] = name[j] /\ out'[j] = out[j]
      /\ j \in edited' <=> j \in edited
      /\ j \in orphaned' <=> j \in orphaned
      /\ j \in Swarms => patch'[j] = patch[j] /\ fault'[j] = fault[j]
    BY DEF IInv, TypeOK
<1>2. pc[j] \in RowPlaces /\ j \in Running => j \in Running'
    BY DEF IInv, TypeOK, Running, RowPlaces, Alive, Row
<1>3. ASSUME j \in Swarms \ orphaned, pc[j] \in RowPlaces, tree[j] # None PROVE tree'[j] = tree[j]
    <2>1. ~Expired(j)
        BY <1>3, TimesAssumption DEF IInv, TypeOK, LiveTreeIsYoung, Expired, Ttl, RowPlaces
    <2> QED
        BY <1>3, <2>1 DEF IInv, TypeOK
<1> QED
    BY <1>1, <1>2, <1>3, OthersKeepAtWork

\* The job's own steps.
LEMMA OwnStepsKeepAtWork ==
    ASSUME IInv, Next, NEW j \in Jobs, AtWork(j),
           Plain(j) \/ Sweep(j) \/ AddTree(j) \/ Remove(j)
    PROVE  AtWork(j)'
<1> USE DEF Step, dirVars, fileVars
<1>1. /\ at \in [Names -> {"absent", "dir", "alias"}] /\ pc \in [Jobs -> Places]
      /\ name \in [Jobs -> Names \cup {None}] /\ out \in [Jobs -> Names \cup {None}]
      /\ edited \subseteq Swarms /\ rows \in [Jobs -> Row]
      /\ Alive(j) => name[j] \in Names
    BY DEF IInv, TypeOK, Named
<1>2. CASE Resolve(j) \/ Ensure(j) \/ Open(j) \/ Admit(j) \/ Sweep(j) \/ AddTree(j)
    <2>1. pc'[j] \notin RowPlaces /\ j \notin edited /\ edited' = edited
        BY <1>1, <1>2 DEF Resolve, Ensure, Open, Admit, Sweep, AddTree, RowPlaces, AtWork, EditsHeld
    <2> QED
        BY <2>1 DEF AtWork, RowRuns, PathsLead, EditsHeld, RowPlaces
<1>3. CASE Insert(j)
    <2>1. j \notin edited /\ edited' = edited
        BY <1>1, <1>3 DEF Insert, AtWork, EditsHeld
    <2>2. CASE pc'[j] = "row" /\ rows'[j].status = "running"
        BY <2>1, <2>2 DEF AtWork, RowRuns, PathsLead, EditsHeld, RowPlaces, Running
    <2>3. CASE pc'[j] = "closed"
        BY <2>1, <2>3 DEF AtWork, RowRuns, PathsLead, EditsHeld, RowPlaces
    <2>4. PICK r : r = [NoRow EXCEPT !.status = "running", !.log = name[j]]
        OBVIOUS
    <2>5. r.status = "running"
        BY <2>4 DEF NoRow
    <2>6. (pc'[j] = "row" /\ rows' = [rows EXCEPT ![j] = r]) \/ pc'[j] = "closed"
        BY <1>1, <1>3, <2>4 DEF Insert
    <2> QED
        BY <1>1, <2>2, <2>3, <2>5, <2>6
<1>4. CASE Header(j)
    <2>1. at'[name[j]] # "absent"
        BY <1>1, <1>4 DEF Header, MadeParents, Alive
    <2> QED
        BY <1>1, <1>4, <2>1
        DEF Header, AtWork, RowRuns, PathsLead, EditsHeld, RowPlaces, Running, Reach
<1>5. CASE Execute(j)
    <2>1. Reach(name[j]) /\ name[j] \in Names /\ j \notin edited /\ edited' = edited
        BY <1>1, <1>5 DEF Execute, AtWork, PathsLead, EditsHeld, RowPlaces, Alive
    <2>2. Reach(Resolved)
        BY <2>1 DEF Resolved, Reach, Names
    <2>3. CASE pc'[j] = "closed"
        BY <2>1, <2>3 DEF AtWork, RowRuns, PathsLead, EditsHeld, RowPlaces
    <2>4. CASE pc'[j] \in {"call", "captured"} /\ out' = [out EXCEPT ![j] = Resolved]
        BY <1>1, <1>5, <2>1, <2>2, <2>4
        DEF Execute, AtWork, RowRuns, PathsLead, EditsHeld, RowPlaces, Running, Reach
    <2> QED
        BY <1>1, <1>5, <2>3, <2>4 DEF Execute
<1>6. CASE Work(j)
    BY <1>1, <1>6
    DEF Work, HasTree, Target, AtWork, RowRuns, PathsLead, EditsHeld, RowPlaces, Running, Reach
<1>7. CASE Orphan(j) \/ CallEnds(j)
    <2>1. /\ UNCHANGED <<at, rows, name, out, tree, edited, patch, fault>>
          /\ pc[j] = "call" /\ pc'[j] \in {"call", "ended", "captured"}
          /\ j \in Swarms => pc'[j] # "captured"
          /\ orphaned \subseteq orphaned'
        BY <1>1, <1>7 DEF Orphan, CallEnds
    <2> QED
        BY <1>1, <1>7, <2>1
        DEF Orphan, CallEnds, HasTree, Target, AtWork, RowRuns, PathsLead, EditsHeld, RowPlaces, Running, Reach
<1>8. CASE Capture(j)
    <2>1. pc[j] = "ended" /\ pc'[j] = "captured"
          /\ UNCHANGED <<at, rows, name, out, tree, edited, orphaned>>
        BY <1>1, <1>8 DEF Capture
    <2>2. ASSUME j \in edited PROVE Accounted(j)'
        <3>1. j \in Swarms /\ Reach(out[j]) /\ (HasTree(j) \/ j \in orphaned)
            BY <1>1, <2>1, <2>2 DEF AtWork, PathsLead, EditsHeld
        <3>2. PICK f \in IF HasTree(j) /\ Reach(out[j]) THEN {"none", "unlisted", "failed"} ELSE {"lost"} :
                 /\ fault' = [fault EXCEPT ![j] = f]
                 /\ patch' = IF f \in {"none", "unlisted"} THEN [patch EXCEPT ![j] = Diff(j, f)]
                                                           ELSE patch
            BY <1>8 DEF Capture
        <3>3. /\ fault \in [Swarms -> {"none", "unlisted", "failed", "lost"}]
              /\ patch \in [Swarms -> SUBSET Edits]
            BY DEF IInv, TypeOK
        <3>4. fault'[j] = f
            BY <3>1, <3>2, <3>3
        <3>5. f \in {"none", "unlisted"} => patch'[j] = Diff(j, f)
            BY <3>1, <3>2, <3>3
        <3>6. f \in {"none", "unlisted", "failed"} \/ (f = "lost" /\ j \in orphaned')
            <4>1. CASE HasTree(j)
                BY <3>1, <3>2, <4>1
            <4>2. CASE ~HasTree(j)
                BY <2>1, <3>1, <3>2, <4>2
            <4> QED
                BY <4>1, <4>2
        <3> QED
            BY <2>1, <2>2, <3>4, <3>5, <3>6 DEF Accounted, Diff, Edits
    <2> QED
        BY <1>1, <2>1, <2>2
        DEF AtWork, RowRuns, PathsLead, EditsHeld, RowPlaces, Running, Reach
<1>9. CASE End(j)
    <2>1. pc[j] = "captured" /\ pc'[j] = "closed" /\ UNCHANGED <<edited, patch, fault, orphaned>>
        BY <1>1, <1>9 DEF End
    <2> QED
        BY <2>1 DEF AtWork, RowRuns, PathsLead, EditsHeld, Accounted, RowPlaces
<1>10. CASE Remove(j) \/ Die(j)
    <2>1. pc'[j] = "gone" /\ j \notin edited'
        BY <1>1, <1>10 DEF Remove, Die, Forget
    <2> QED
        BY <2>1 DEF AtWork, RowRuns, PathsLead, EditsHeld, RowPlaces
<1> QED
    BY <1>2, <1>3, <1>4, <1>5, <1>6, <1>7, <1>8, <1>9, <1>10 DEF Plain

LEMMA NextKeepsAtWork ==
    ASSUME IInv, Next, NEW j \in Jobs, AtWork(j) PROVE AtWork(j)'
<1>1. CASE Tick
    BY <1>1, OthersKeepAtWork DEF Tick, dirVars, fileVars, Running
<1>2. CASE ~Tick
    BY <1>2, SetupsKeepAtWork, OtherJobsKeepAtWork, OwnStepsKeepAtWork DEF Next, Plain
<1> QED
    BY <1>1, <1>2

\* The inductive invariant of what the names lead to.
PlacesInv == IInv /\ CurrentMade /\ TreesInDir /\ \A j \in Jobs : AtWork(j)

LEMMA PlacesInvariance == Spec => []PlacesInv
<1>1. Init => PlacesInv
    <2> SUFFICES ASSUME Init PROVE PlacesInv
        OBVIOUS
    <2>1. CurrentMade /\ TreesInDir
        BY DEF Init, DirInit, CurrentMade, TreesInDir
    <2>2. \A j \in Jobs : AtWork(j)
        BY DEF Init, DirInit, AtWork, RowRuns, PathsLead, EditsHeld, RowPlaces
    <2> QED
        BY <2>1, <2>2, InitIInv DEF PlacesInv
<1>2. PlacesInv /\ [Next]_vars => PlacesInv'
    <2> SUFFICES ASSUME PlacesInv, [Next]_vars PROVE PlacesInv'
        OBVIOUS
    <2>1. CASE Next
        BY <2>1, NextKeepsIInv, NextKeepsCurrentMade, NextKeepsTreesInDir, NextKeepsAtWork
        DEF PlacesInv
    <2>2. CASE UNCHANGED vars
        <3> USE <2>2 DEF vars, dirVars, jobVars, fileVars
        <3>1. IInv'
            BY NextKeepsIInv DEF PlacesInv
        <3>2. CurrentMade' /\ TreesInDir'
            BY DEF PlacesInv, CurrentMade, TreesInDir
        <3>3. \A j \in Jobs : AtWork(j)'
            BY DEF PlacesInv, AtWork, RowRuns, PathsLead, EditsHeld, Accounted, HasTree, Target, Reach,
                Running
        <3> QED
            BY <3>1, <3>2, <3>3 DEF PlacesInv
    <2> QED
        BY <2>1, <2>2
<1> QED
    BY <1>1, <1>2, PTL DEF Spec

-----------------------------------------------------------------------------
(***************************************************************************)
(* What the run checks, for every number of jobs, setups and swarms.       *)
(***************************************************************************)

\* The directory, the rows and what a job remembers of them always have their types
\* (resolvePluginPaths to removeWorktree).
THEOREM TypeCorrect == Spec => []TypeOK
<1>1. IInv => TypeOK
    BY DEF IInv
<1> QED
    BY <1>1, Invariance, PTL

\* Nobody but its owner removes the worktree of a live swarm, unless a descendant of
\* its kimi held its call open (sweepStaleWorktrees, removeWorktree).
THEOREM WorktreeKept == Spec => LiveWorktreeKept
<1>1. IInv /\ [Next]_vars =>
        [\A j \in Swarms : Alive(j) /\ tree[j] # None /\ tree'[j] = None =>
            pc[j] = "closed" \/ j \in orphaned]_vars
    <2> SUFFICES ASSUME IInv, Next, NEW j \in Swarms \ orphaned, Alive(j), tree[j] # None, tree'[j] = None
                 PROVE  pc[j] = "closed"
        OBVIOUS
    <2>1. pc[j] # "gone"
        BY DEF Alive
    <2>2. PICK k \in Jobs : Remove(k)
        BY <2>1, SetupStepsKeepIInv, PlainStepsKeepIInv, SweepKeepsIInv, AddTreeKeepsIInv,
            TickKeepsIInv DEF Next, Plain
    <2> QED
        BY <2>2, RemoveKeepsIInv
<1> QED
    BY <1>1, Invariance, PTL DEF Spec, LiveWorktreeKept

\* A job whose row says running keeps its directory under the name it uses: whoever
\* takes a name away has counted the running jobs in the same transaction
\* (migrateLegacyDataDir).
THEOREM DirKept == Spec => RunningKeepsDir
<1>1. IInv /\ [Next]_vars =>
        [\A j \in Jobs : j \in Running /\ Alive(j) /\ Reach(name[j]) => Reach(name[j])']_vars
    <2> SUFFICES ASSUME IInv, Next, NEW j \in Jobs, j \in Running, Alive(j), Reach(name[j])
                 PROVE  Reach(name[j])'
        OBVIOUS
    <2>1. name[j] \in Names /\ at[name[j]] # "absent" /\ pc[j] # "idle"
        BY NoneIsNoName DEF IInv, Named, Alive, Reach
    <2>2. name'[j] = name[j] \/ name'[j] = None
        <3>1. name \in [Jobs -> Names \cup {None}]
            BY DEF IInv, TypeOK
        <3>2. \/ \E k \in Jobs : Resolve(k)
              \/ \E k \in Jobs : name' = [name EXCEPT ![k] = None]
              \/ name' = name
            BY DEF Next, Ensure, Open, Admit, Sweep, AddTree, Insert, Header, Execute, Work, Orphan,
                CallEnds, Capture, End, Remove, Die, Forget, Tick
        <3> QED
            BY <2>1, <3>1, <3>2 DEF Resolve, Step
    <2>3. at'[name[j]] # "absent"
        BY <2>1, NamesStay DEF Quiet
    <2> QED
        BY <2>2, <2>3 DEF Reach
<1> QED
    BY <1>1, Invariance, PTL DEF Spec, RunningKeepsDir

\* When a swarm gets to remove its worktree, each of its edits is in the patch, or was
\* given up for one of the named faults: the worktree and both paths are still there when
\* the call has ended, unless the swarm was orphaned (capturePatchArtifact).
THEOREM EditsCaptured == Spec => []WorkCaptured
<1>1. PlacesInv => WorkCaptured
    BY SwarmsAreJobs DEF PlacesInv, IInv, TypeOK, AtWork, EditsHeld, Accounted, WorkCaptured
<1> QED
    BY <1>1, PlacesInvariance, PTL

\* The sweep takes every worktree older than the limit, under whichever name the swarm
\* found the directory, if the directory is one (sweepStaleWorktrees).
THEOREM Reaped == Spec => OrphansReaped
<1>1. PlacesInv /\ [Next]_vars =>
        [\A j \in Swarms : pc[j] = "admitted" /\ pc'[j] = "swept" /\ NeverSplit /\ Reach(name[j]) =>
            \A k \in Swarms : tree'[k] # None => ~Expired(k)]_vars
    <2> SUFFICES ASSUME PlacesInv, Next, NEW j \in Swarms, pc[j] = "admitted", pc'[j] = "swept",
                        NeverSplit, Reach(name[j]), NEW k \in Swarms, tree'[k] # None
                 PROVE  ~Expired(k)
        OBVIOUS
    <2>1. /\ at \in [Names -> {"absent", "dir", "alias"}] /\ tree \in [Swarms -> Names \cup {None}]
          /\ name[j] \in Names /\ j \in Jobs /\ pc \in [Jobs -> Places]
        BY SwarmsAreJobs DEF PlacesInv, IInv, TypeOK, Named, Alive
    <2>2. Sweep(j)
        <3>1. PICK i \in Jobs : Plain(i) \/ Sweep(i) \/ AddTree(i) \/ Remove(i)
            BY DEF Next, Plain, Tick
        <3>2. \/ Sweep(i)
              \/ \A h \in Jobs : pc'[h] = pc[h] \/ pc'[h] # "swept"
            BY <2>1, <3>1 DEF Plain, Resolve, Ensure, Open, Admit, AddTree, Insert, Header, Execute,
                Work, Orphan, CallEnds, Capture, End, Remove, Die, Step
        <3> QED
            BY <2>1, <3>2 DEF Sweep, Step
    <2>3. Target(name[j]) \in Names /\ at[Target(name[j])] = "dir"
        BY <2>1, NoneIsNoName DEF Target, Reach, PlacesInv, CurrentMade, Names
    <2>4. \A n \in Names : at[n] = "dir" => n = Target(name[j])
        BY <2>1, <2>3 DEF NeverSplit, Names
    <2>5. tree[k] # None => tree[k] = Target(name[j])
        BY <2>1, <2>4 DEF PlacesInv, TreesInDir
    <2> QED
        BY <2>2, <2>5 DEF Sweep
<1> QED
    BY <1>1, PlacesInvariance, PTL DEF Spec, OrphansReaped

\* The transaction that ends a setup leaves no row with a path that leads nowhere: when
\* it rewrites the rows, the current directory is there (rewriteStoredPaths).
THEOREM PathsRepaired == Spec => SetupRepairsPaths
<1>1. PlacesInv /\ [Next]_vars =>
        [\A s \in Setups :
            spc[s] \in {"rebase", "commit"} /\ rows' = Rewritten =>
               \A j \in Jobs \ Running' : Reach(rows[j].log)' /\ Reach(rows[j].out)']_vars
    <2> SUFFICES ASSUME PlacesInv, Next, NEW s \in Setups, spc[s] \in {"rebase", "commit"},
                        rows' = Rewritten, NEW j \in Jobs
                 PROVE  Reach(rows[j].log)' /\ Reach(rows[j].out)'
        OBVIOUS
    <2>1. rows \in [Jobs -> Row]
        BY DEF PlacesInv, IInv, TypeOK
    <2>2. at'["current"] = "dir"
        BY NamesStay DEF PlacesInv, CurrentMade
    <2>3. rows'[j].log \in {"current", None} /\ rows'[j].out \in {"current", None}
        <3>1. rows[j] \in Row /\ rows[j].log \in Names \cup {None} /\ rows[j].out \in Names \cup {None}
            BY <2>1 DEF Row
        <3>2. rows'[j].log = Current(rows[j].log) /\ rows'[j].out = Current(rows[j].out)
            BY <3>1 DEF Rewritten, Row
        <3> QED
            BY <3>1, <3>2 DEF Current, Names
    <2> QED
        BY <2>2, <2>3 DEF Reach
<1> QED
    BY <1>1, PlacesInvariance, PTL DEF Spec, SetupRepairsPaths
=============================================================================
