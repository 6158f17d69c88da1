---------------------------- MODULE Setup_proofs ----------------------------
(***************************************************************************)
(* Proofs about Setup, for a config.toml of any length and any content.    *)
(*                                                                         *)
(* VerifierSound: whatever the verifier accepts, kimi enforces.  Where the *)
(* host has no block the verifier reads the lines outside the blocks alone,*)
(* so no key of a block may belong to a table that stands outside.         *)
(*                                                                         *)
(* SetupHostsCoexist: everything that setup drops is whole tables (Closed),*)
(* because it drops stretches that are Sealed: no key in them belongs to a *)
(* table above, none below to a table in them.  That is where a key must   *)
(* not be cut off from its table (Tied).  So every other table keeps its   *)
(* keys (the Keep lemmas), and replacing the lines of a block keeps those  *)
(* above and below it (Replaced).  What is left to show is that the hook   *)
(* of the other host stands in no dropped stretch and not in the block of  *)
(* this host, which takes a text where it is Tidy.                         *)
(*                                                                         *)
(* SetupUninstallDisarms: a block that the verifier accepts is a pair that *)
(* stripManagedBlocks removes (Armed), and a clean table outside the blocks*)
(* is one that is pruned; later removals make neither of them anew.        *)
(***************************************************************************)
EXTENDS Setup, FiniteSetTheorems, TLAPS

-----------------------------------------------------------------------------
(* Sets of numbers and texts without some of their lines.                  *)

\* Least and greatest members of sets of numbers, for Min and Max.
LEMMA LeastMember ==
    ASSUME NEW S \in SUBSET Nat, S # {}
    PROVE  Min(S) \in S /\ \A x \in S : Min(S) <= x
<1>. DEFINE R == {ss \in Nat \X Nat : ss[1] < ss[2]}
<1>1. IsWellFoundedOn(R, Nat)
    BY NatLessThanWellFounded DEF OpToRel
<1>. HIDE DEF R
<1>2. \E x \in S : \A y \in S : ~(<<y, x>> \in R)
    BY <1>1, WFMin, Zenon
<1>3. PICK x \in S : \A y \in S : ~(<<y, x>> \in R)
    BY <1>2
<1>4. \A y \in S : x <= y
    <2>. SUFFICES ASSUME NEW y \in S, y < x PROVE FALSE
        OBVIOUS
    <2>1. <<y, x>> \in R
        BY DEF R
    <2> QED
        BY <1>3, <2>1
<1> QED
    BY <1>4 DEF Min

\* The same for Max.
LEMMA GreatestMember ==
    ASSUME NEW n \in Nat, NEW S \in SUBSET (0 .. n), S # {}
    PROVE  Max(S) \in S /\ \A x \in S : x <= Max(S)
<1>. DEFINE T == {n - x : x \in S}
<1>1. T \in SUBSET Nat /\ T # {}
    <2>1. \A x \in S : n - x \in Nat
        OBVIOUS
    <2> QED BY <2>1
<1>. HIDE DEF T
<1>2. Min(T) \in T /\ \A y \in T : Min(T) <= y
    BY <1>1, LeastMember, Zenon
<1>3. PICK x \in S : Min(T) = n - x
    BY <1>2 DEF T
<1>4. \A y \in S : y <= x
    <2>. TAKE y \in S
    <2>1. n - x <= n - y
        BY <1>2, <1>3 DEF T
    <2> QED
        BY <2>1
<1>5. \A z \in S : (\A y \in S : z >= y) => z = x
    BY <1>4
<1> QED
    BY <1>4, <1>5 DEF Max

\* InOrder lists the members of a finite set of numbers, the smallest first.
LEMMA InOrderLists ==
    ASSUME NEW n \in Nat, NEW S \in SUBSET (1 .. n)
    PROVE  /\ Cardinality(S) \in Nat
           /\ InOrder(S) \in [1 .. Cardinality(S) -> S]
           /\ \A x \in S : \E k \in 1 .. Cardinality(S) : InOrder(S)[k] = x
           /\ \A j, k \in 1 .. Cardinality(S) : j < k => InOrder(S)[j] < InOrder(S)[k]
<1>. DEFINE Below(i) == {j \in S : j <= i}
            rank == [i \in S |-> Cardinality(Below(i))]
            ranked == {<<Cardinality(Below(i)), i>> : i \in S}
            pick(k) == CHOOSE r \in ranked : r[1] = k
<1>0. S \subseteq Nat
    OBVIOUS
<1>1. IsFiniteSet(S) /\ Cardinality(S) \in Nat
    <2>1. IsFiniteSet(1 .. n)
        BY FS_Interval
    <2>2. IsFiniteSet(S)
        BY <2>1, FS_Subset
    <2> QED
        BY <2>2, FS_CardinalityType
<1>2. ASSUME NEW i \in S PROVE IsFiniteSet(Below(i)) /\ rank[i] \in 1 .. Cardinality(S)
    <2>. DEFINE B == Below(i)
    <2>1. B \in SUBSET S
        OBVIOUS
    <2>2. i \in B
        BY <1>0
    <2>. HIDE DEF B
    <2>3. IsFiniteSet(B) /\ Cardinality(B) <= Cardinality(S)
        BY <1>1, <2>1, FS_Subset
    <2>4. Cardinality(B) \in Nat /\ Cardinality(B) # 0
        BY <2>2, <2>3, FS_CardinalityType, FS_EmptySet
    <2>5. rank[i] = Cardinality(B)
        BY DEF B
    <2> QED
        BY <1>1, <2>3, <2>4, <2>5 DEF B
<1>3. ASSUME NEW i \in S, NEW j \in S, i < j PROVE rank[i] < rank[j]
    <2>. DEFINE A == Below(i)
                B == Below(j)
    <2>1. A \in SUBSET B
        <3>. SUFFICES ASSUME NEW x \in A PROVE x \in B
            OBVIOUS
        <3>1. x \in S /\ x <= i
            OBVIOUS
        <3>2. x \in Nat /\ i \in Nat /\ j \in Nat
            BY <1>0, <3>1
        <3> QED
            BY <1>3, <3>1, <3>2
    <2>2. j \in B /\ j \notin A
        BY <1>0, <1>3
    <2>3. IsFiniteSet(A) /\ IsFiniteSet(B)
        BY <1>2
    <2>4. rank[i] = Cardinality(A) /\ rank[j] = Cardinality(B)
        OBVIOUS
    <2>. HIDE DEF A, B, rank
    <2>5. Cardinality(A) <= Cardinality(B) /\ Cardinality(A) # Cardinality(B)
        BY <2>1, <2>2, <2>3, FS_Subset
    <2>6. Cardinality(A) \in Nat /\ Cardinality(B) \in Nat
        BY <2>3, FS_CardinalityType
    <2> QED
        BY <2>4, <2>5, <2>6
<1>4. rank \in [S -> 1 .. Cardinality(S)]
    BY <1>2
<1>5. \A k \in 1 .. Cardinality(S) : \E i \in S : rank[i] = k
    <2>. HIDE DEF rank
    <2>. DEFINE T == 1 .. Cardinality(S)
    <2>1. IsFiniteSet(T) /\ Cardinality(T) = Cardinality(S)
        BY <1>1, FS_Interval
    <2>. HIDE DEF T
    <2>2. rank \in [S -> T]
        BY <1>4 DEF T
    <2>3. \A a, b \in S : rank[a] = rank[b] => a = b
        BY <1>0, <1>1, <1>3, <1>4
    <2>4. rank \in Injection(S, T)
        BY <2>2, <2>3 DEF Injection, IsInjective
    <2>5. rank \in Surjection(S, T)
        BY <2>1, <2>4, FS_Injection
    <2> QED
        BY <2>5 DEF Surjection, T
<1>6. InOrder(S) = [k \in 1 .. Cardinality(S) |-> pick(k)[2]]
    BY DEF InOrder
<1>7. ASSUME NEW k \in 1 .. Cardinality(S) PROVE pick(k)[2] \in S /\ rank[pick(k)[2]] = k
    <2>1. PICK i \in S : rank[i] = k
        BY <1>5
    <2>. DEFINE r == <<Cardinality(Below(i)), i>>
    <2>2. r \in ranked /\ r[1] = k
        BY <2>1
    <2>. HIDE DEF r, ranked
    <2>3. pick(k) \in ranked /\ pick(k)[1] = k
        BY <2>2
    <2>. HIDE DEF pick
    <2>4. PICK m \in S : pick(k) = <<Cardinality(Below(m)), m>>
        BY <2>3 DEF ranked
    <2>5. pick(k)[2] = m /\ rank[m] = pick(k)[1]
        BY <2>4
    <2> QED
        BY <2>3, <2>5
<1>. HIDE DEF pick, rank
<1>8. InOrder(S) \in [1 .. Cardinality(S) -> S]
    BY <1>6, <1>7
<1>9. \A k \in 1 .. Cardinality(S) : rank[InOrder(S)[k]] = k
    BY <1>6, <1>7
<1>10. ASSUME NEW x \in S PROVE \E k \in 1 .. Cardinality(S) : InOrder(S)[k] = x
    <2>1. rank[x] \in 1 .. Cardinality(S)
        BY <1>4
    <2>2. InOrder(S)[rank[x]] \in S /\ rank[InOrder(S)[rank[x]]] = rank[x]
        BY <1>8, <1>9, <2>1
    <2>. DEFINE y == InOrder(S)[rank[x]]
    <2>3. y \in Nat /\ x \in Nat /\ rank[x] \in Nat /\ rank[y] = rank[x]
        <3>1. rank[x] \in Nat
            BY <1>1, <2>1
        <3>2. y \in S
            BY <2>2
        <3> QED
            BY <1>0, <2>2, <3>1, <3>2
    <2>4. ~(y < x) /\ ~(x < y)
        BY <1>3, <2>2, <2>3
    <2>5. y = x
        BY <2>3, <2>4
    <2> QED
        BY <2>1, <2>5
<1>11. ASSUME NEW j \in 1 .. Cardinality(S), NEW k \in 1 .. Cardinality(S), j < k
       PROVE  InOrder(S)[j] < InOrder(S)[k]
    <2>. DEFINE a == InOrder(S)[j]
                b == InOrder(S)[k]
    <2>1. a \in S /\ b \in S /\ rank[a] = j /\ rank[b] = k
        BY <1>8, <1>9
    <2>. HIDE DEF a, b
    <2>2. ~(b < a) /\ a # b
        BY <1>3, <2>1, <1>11
    <2>3. a \in Nat /\ b \in Nat
        BY <1>0, <2>1
    <2>4. a < b
        BY <2>2, <2>3
    <2> QED
        BY <2>4 DEF a, b
<1> QED
    BY <1>1, <1>8, <1>10, <1>11

\* A text that is some lines of another, in their order.
Embeds(r, t, kept, f) ==
    /\ kept \subseteq DOMAIN t
    /\ f \in [DOMAIN r -> kept]
    /\ \A x \in kept : \E k \in DOMAIN r : f[k] = x
    /\ \A j, k \in DOMAIN r : (j < k) <=> (f[j] < f[k])
    /\ \A k \in DOMAIN r : r[k] = t[f[k]]

\* Without keeps every other line, in the order of the text.
LEMMA WithoutEmbeds ==
    ASSUME NEW Lines, NEW t \in Seq(Lines), NEW dropped
    PROVE  /\ Without(t, dropped) \in Seq(Lines)
           /\ \E f : Embeds(Without(t, dropped), t, DOMAIN t \ dropped, f)
<1>. DEFINE S == DOMAIN t \ dropped
            n == Cardinality(S)
            f == InOrder(S)
            r == Without(t, dropped)
<1>1. Len(t) \in Nat /\ DOMAIN t = 1 .. Len(t) /\ S \in SUBSET (1 .. Len(t))
    OBVIOUS
<1>2. /\ n \in Nat /\ f \in [1 .. n -> S]
      /\ \A x \in S : \E k \in 1 .. n : f[k] = x
      /\ \A j, k \in 1 .. n : j < k => f[j] < f[k]
    BY <1>1, InOrderLists
<1>3. r = [k \in DOMAIN f |-> t[f[k]]]
    BY DEF Without
<1>. HIDE DEF n, f, r
<1>4. DOMAIN f = 1 .. n
    BY <1>2
<1>5. r \in [1 .. n -> Lines] /\ \A k \in 1 .. n : r[k] = t[f[k]]
    BY <1>1, <1>2, <1>3, <1>4
<1>6. r \in Seq(Lines) /\ DOMAIN r = 1 .. n
    BY <1>2, <1>5
<1>7. ASSUME NEW j \in 1 .. n, NEW k \in 1 .. n PROVE (j < k) <=> (f[j] < f[k])
    <2>1. f[j] \in Nat /\ f[k] \in Nat
        BY <1>1, <1>2
    <2>2. CASE j < k
        BY <1>2, <2>1, <2>2
    <2>3. CASE k < j
        <3>1. f[k] < f[j]
            BY <1>2, <2>3
        <3> QED BY <1>2, <2>1, <2>3, <3>1
    <2>4. CASE j = k
        BY <1>2, <2>1, <2>4
    <2> QED
        BY <1>2, <2>2, <2>3, <2>4
<1>8. Embeds(r, t, S, f)
    BY <1>1, <1>2, <1>5, <1>6, <1>7 DEF Embeds
<1> QED
    BY <1>6, <1>8 DEF r, S

-----------------------------------------------------------------------------
(* Tables, and removals by whole tables.                                   *)

\* The lines that open a table.
HeadersOf(t) == {h \in DOMAIN t : IsHeader(t[h])}
\* The lines at which findBareApprovalHookTables ends a table that goes on.
Parts(l) == IsMarker(l) \/ l.kind = "blank"

\* Between a marker or a blank line and the next key there is a header.
Tied(t) ==
    \A i, k \in DOMAIN t :
        i < k /\ Parts(t[i]) /\ IsKey(t[k]) => \E g \in HeadersOf(t) : i < g /\ g < k

\* Lines are dropped by whole tables.
Closed(t, dropped) ==
    \A h \in {0} \cup HeadersOf(t) : \A i \in TableAt(t, h) : i \in dropped <=> h \in dropped

\* The kinds of lines are disjoint.
LEMMA HeaderIsNoKey == \A l : ~(IsHeader(l) /\ IsKey(l))
BY DEF IsHeader, IsKey, Headers, Keys

\* The same for markers and blank lines.
LEMMA PartsIsNoKey == \A l : Parts(l) => ~IsKey(l) /\ ~IsHeader(l)
BY DEF Parts, IsHeader, IsMarker, IsKey, Headers, Keys

\* The precondition of the properties, as a relation between lines.
LEMMA NotAdriftIsTied ==
    ASSUME NEW Lines, NEW t \in Seq(Lines), ~KeyAdrift(t)
    PROVE  Tied(t)
<1>. SUFFICES ASSUME NEW i \in DOMAIN t, NEW k \in DOMAIN t,
                     i < k, Parts(t[i]), IsKey(t[k])
              PROVE  \E g \in HeadersOf(t) : i < g /\ g < k
    BY DEF Tied
<1>. DEFINE next == {j \in i + 1 .. Len(t) : t[j].kind \notin Comments \cup {"blank"}}
<1>1. i \in Nat /\ k \in Nat /\ Len(t) \in Nat /\ DOMAIN t = 1 .. Len(t)
    OBVIOUS
<1>2. k \in next
    BY <1>1 DEF IsKey, Keys, Comments
<1>3. ~KeyFollows(t, i)
    BY DEF KeyAdrift, Positions, Parts
<1>4. next \in SUBSET Nat
    BY <1>1
<1>5. Min(next) \in next /\ Min(next) <= k
    BY <1>2, <1>4, LeastMember
<1>6. IsHeader(t[Min(next)])
    BY <1>2, <1>3 DEF KeyFollows
<1>7. Min(next) # k
    BY <1>6, HeaderIsNoKey
<1>8. Min(next) \in HeadersOf(t) /\ i < Min(next) /\ Min(next) < k
    BY <1>1, <1>5, <1>6, <1>7 DEF HeadersOf
<1> QED
    BY <1>8

\* Every key belongs to one table.
LEMMA OwnTable ==
    ASSUME NEW Lines, NEW t \in Seq(Lines), NEW i \in DOMAIN t, IsKey(t[i])
    PROVE  \E h \in {0} \cup HeadersOf(t) : i \in TableAt(t, h)
<1>. DEFINE S == {0} \cup {h \in HeadersOf(t) : h < i}
<1>1. i \in Nat /\ Len(t) \in Nat /\ DOMAIN t = 1 .. Len(t)
    OBVIOUS
<1>2. S \in SUBSET (0 .. Len(t)) /\ S # {}
    BY <1>1 DEF HeadersOf
<1>3. Max(S) \in S /\ \A x \in S : x <= Max(S)
    BY <1>1, <1>2, GreatestMember
<1>. DEFINE h == Max(S)
<1>4. h \in {0} \cup HeadersOf(t) /\ h < i /\ h \in Nat
    BY <1>1, <1>2, <1>3
<1>5. ASSUME NEW g \in HeadersOf(t), g > h PROVE i < g
    <2>1. g \in Nat /\ g # i
        BY <1>1, HeaderIsNoKey DEF HeadersOf
    <2> QED
        BY <1>1, <1>3, <1>4, <1>5, <2>1
<1>. HIDE DEF S
<1>6. i \in TableAt(t, h)
    BY <1>1, <1>4, <1>5 DEF TableAt, TableAmong, HeadersOf
<1> QED
    BY <1>4, <1>6

\* What is in a table.
LEMMA InTable ==
    ASSUME NEW t, NEW h, NEW i
    PROVE  i \in TableAt(t, h) <=>
             /\ i \in DOMAIN t /\ i > h /\ IsKey(t[i])
             /\ \A g \in HeadersOf(t) : g > h => i < g
BY DEF TableAt, TableAmong, HeadersOf

\* The table at h makes kimi run c before every tool call.
FiresAt(t, h, c) ==
    /\ h \in DOMAIN t /\ t[h].kind = "hooks"
    /\ Line("event") \in Entry(t, h) /\ CommandLine(c) \in Entry(t, h)
    /\ ~Has(Entry(t, h), "matcher")

\* What follows from an order-preserving map onto the kept lines.
LEMMA EmbedsFacts ==
    ASSUME NEW Lines, NEW r \in Seq(Lines), NEW t \in Seq(Lines), NEW kept, NEW f,
           Embeds(r, t, kept, f)
    PROVE  /\ DOMAIN r = 1 .. Len(r) /\ DOMAIN t = 1 .. Len(t)
           /\ Len(r) \in Nat /\ Len(t) \in Nat
           /\ \A k \in DOMAIN r : k \in Nat \ {0} /\ f[k] \in DOMAIN t /\ f[k] \in kept
                                    /\ f[k] \in Nat \ {0} /\ r[k] = t[f[k]]
           /\ \A j, k \in DOMAIN r : (j < k) <=> (f[j] < f[k])
           /\ \A j, k \in DOMAIN r : f[j] = f[k] => j = k
           /\ \A x \in kept : x \in DOMAIN t /\ \E k \in DOMAIN r : f[k] = x
<1>1. /\ DOMAIN r = 1 .. Len(r) /\ DOMAIN t = 1 .. Len(t)
      /\ Len(r) \in Nat /\ Len(t) \in Nat
    OBVIOUS
<1>2. \A k \in DOMAIN r : k \in Nat \ {0} /\ f[k] \in DOMAIN t /\ f[k] \in kept
                            /\ f[k] \in Nat \ {0} /\ r[k] = t[f[k]]
    BY <1>1 DEF Embeds
<1>3. \A j, k \in DOMAIN r : (j < k) <=> (f[j] < f[k])
    BY DEF Embeds
<1>4. \A j, k \in DOMAIN r : f[j] = f[k] => j = k
    <2>. SUFFICES ASSUME NEW j \in DOMAIN r, NEW k \in DOMAIN r, f[j] = f[k] PROVE j = k
        OBVIOUS
    <2>1. ~(j < k) /\ ~(k < j)
        BY <1>2, <1>3
    <2> QED BY <1>2, <2>1
<1>5. \A x \in kept : x \in DOMAIN t /\ \E k \in DOMAIN r : f[k] = x
    BY DEF Embeds
<1> QED
    BY <1>1, <1>2, <1>3, <1>4, <1>5

\* A kept table keeps its keys where lines are dropped by whole tables.
LEMMA KeepTable ==
    ASSUME NEW Lines, NEW r \in Seq(Lines), NEW t \in Seq(Lines), NEW kept, NEW f,
           Embeds(r, t, kept, f), Closed(t, DOMAIN t \ kept),
           NEW k \in HeadersOf(r)
    PROVE  /\ f[k] \in HeadersOf(t)
           /\ \A j \in DOMAIN r : j \in TableAt(r, k) <=> f[j] \in TableAt(t, f[k])
           /\ TableAt(t, f[k]) \subseteq kept
<1>1. k \in DOMAIN r /\ IsHeader(r[k]) /\ IsHeader(t[f[k]]) /\ f[k] \in kept
    BY EmbedsFacts DEF HeadersOf
<1>2. f[k] \in HeadersOf(t)
    BY <1>1, EmbedsFacts DEF HeadersOf
<1>3. ASSUME NEW j \in DOMAIN r, f[j] \in TableAt(t, f[k]) PROVE j \in TableAt(r, k)
    <2>1. f[j] > f[k] /\ IsKey(t[f[j]]) /\ \A g \in HeadersOf(t) : g > f[k] => f[j] < g
        BY <1>3, InTable
    <2>2. j > k /\ IsKey(r[j])
        BY <1>1, <2>1, EmbedsFacts
    <2>3. ASSUME NEW g \in HeadersOf(r), g > k PROVE j < g
        <3>1. g \in DOMAIN r /\ f[g] \in HeadersOf(t)
            BY EmbedsFacts DEF HeadersOf
        <3>2. f[g] > f[k]
            BY <1>1, <2>3, <3>1, EmbedsFacts
        <3> QED
            BY <2>1, <3>1, <3>2, EmbedsFacts
    <2> QED
        BY <2>2, <2>3, InTable
<1>4. ASSUME NEW j \in DOMAIN r, j \in TableAt(r, k) PROVE f[j] \in TableAt(t, f[k])
    <2>1. j > k /\ IsKey(r[j]) /\ \A g \in HeadersOf(r) : g > k => j < g
        BY <1>4, InTable
    <2>2. f[j] \in DOMAIN t /\ f[j] > f[k] /\ IsKey(t[f[j]]) /\ f[j] \in kept
        BY <1>1, <2>1, EmbedsFacts
    <2>3. PICK h \in {0} \cup HeadersOf(t) : f[j] \in TableAt(t, h)
        BY <2>2, OwnTable
    <2>4. \A g \in HeadersOf(t) : g > h => f[j] < g
        BY <2>3, InTable
    <2>5. h \in Nat /\ f[k] <= h
        BY <1>1, <1>2, <2>2, <2>4, EmbedsFacts DEF HeadersOf
    <2>6. h # 0 /\ h \in kept
        <3>1. h # 0
            BY <1>1, <2>5, EmbedsFacts
        <3>2. h \notin DOMAIN t \ kept
            BY <2>2, <2>3 DEF Closed
        <3> QED
            BY <3>1, <3>2 DEF HeadersOf
    <2>7. PICK g \in DOMAIN r : f[g] = h
        BY <2>6, EmbedsFacts
    <2>8. g \in HeadersOf(r)
        BY <2>3, <2>6, <2>7, EmbedsFacts DEF HeadersOf
    <2>9. h < f[j]
        BY <2>3, <2>5, InTable
    <2>10. g < j
        BY <2>7, <2>9, EmbedsFacts
    <2>11. ~(g > k)
        BY <2>1, <2>8, <2>10, EmbedsFacts
    <2>12. ~(k < g) => ~(f[k] < h)
        BY <1>1, <2>7, EmbedsFacts
    <2>13. k \in Nat /\ g \in Nat /\ f[k] \in Nat
        BY <1>1, <2>7, EmbedsFacts
    <2>14. f[k] = h
        BY <2>5, <2>11, <2>12, <2>13
    <2> QED
        BY <2>3, <2>14
<1>5. ASSUME NEW i \in TableAt(t, f[k]) PROVE i \in kept
    <2>1. i \in DOMAIN t
        BY InTable
    <2>2. ~(f[k] \in DOMAIN t \ kept)
        BY <1>1
    <2> QED
        BY <1>2, <2>1, <2>2 DEF Closed
<1> QED
    BY <1>2, <1>3, <1>4, <1>5

\* So does the part above the first header.
LEMMA KeepTop ==
    ASSUME NEW Lines, NEW r \in Seq(Lines), NEW t \in Seq(Lines), NEW kept, NEW f,
           Embeds(r, t, kept, f), Closed(t, DOMAIN t \ kept)
    PROVE  /\ \A j \in DOMAIN r : j \in TableAt(r, 0) <=> f[j] \in TableAt(t, 0)
           /\ TableAt(t, 0) \subseteq kept
<1>3. ASSUME NEW j \in DOMAIN r, f[j] \in TableAt(t, 0) PROVE j \in TableAt(r, 0)
    <2>1. IsKey(t[f[j]]) /\ \A g \in HeadersOf(t) : g > 0 => f[j] < g
        BY <1>3, InTable
    <2>2. j > 0 /\ IsKey(r[j])
        BY <2>1, EmbedsFacts
    <2>3. ASSUME NEW g \in HeadersOf(r), g > 0 PROVE j < g
        <3>1. g \in DOMAIN r /\ f[g] \in HeadersOf(t) /\ f[g] > 0
            BY EmbedsFacts DEF HeadersOf
        <3> QED
            BY <2>1, <3>1, EmbedsFacts
    <2> QED
        BY <2>2, <2>3, InTable
<1>4. ASSUME NEW j \in DOMAIN r, j \in TableAt(r, 0) PROVE f[j] \in TableAt(t, 0)
    <2>1. IsKey(r[j]) /\ \A g \in HeadersOf(r) : g > 0 => j < g
        BY <1>4, InTable
    <2>2. f[j] \in DOMAIN t /\ IsKey(t[f[j]]) /\ f[j] \in kept
        BY <2>1, EmbedsFacts
    <2>3. PICK h \in {0} \cup HeadersOf(t) : f[j] \in TableAt(t, h)
        BY <2>2, OwnTable
    <2>4. CASE h \in HeadersOf(t)
        <3>1. h \in kept /\ h < f[j]
            <4>1. h \notin DOMAIN t \ kept
                BY <2>2, <2>3 DEF Closed
            <4>2. h \in DOMAIN t /\ h \in Nat
                BY <2>4, EmbedsFacts DEF HeadersOf
            <4> QED BY <2>2, <2>3, <4>1, <4>2, InTable, EmbedsFacts
        <3>2. PICK g \in DOMAIN r : f[g] = h
            BY <3>1, EmbedsFacts
        <3>3. g \in HeadersOf(r) /\ g > 0
            BY <2>4, <3>2, EmbedsFacts DEF HeadersOf
        <3>4. g < j
            BY <3>1, <3>2, EmbedsFacts
        <3>5. j < g
            BY <2>1, <3>3
        <3> QED
            BY <3>3, <3>4, <3>5, EmbedsFacts DEF HeadersOf
    <2> QED
        BY <2>3, <2>4
<1>5. ASSUME NEW i \in TableAt(t, 0) PROVE i \in kept
    <2>1. i \in DOMAIN t
        BY InTable
    <2>2. ~(0 \in DOMAIN t \ kept)
        BY EmbedsFacts
    <2> QED
        BY <2>1, <2>2 DEF Closed
<1> QED
    BY <1>3, <1>4, <1>5

\* The same of the entries that kimi reads.
LEMMA KeepEntry ==
    ASSUME NEW Lines, NEW r \in Seq(Lines), NEW t \in Seq(Lines), NEW kept, NEW f,
           Embeds(r, t, kept, f), Closed(t, DOMAIN t \ kept)
    PROVE  /\ \A k \in HeadersOf(r) : Entry(r, k) = Entry(t, f[k])
           /\ Entry(r, 0) = Entry(t, 0)
<1>1. ASSUME NEW k, NEW h, TableAt(r, k) \subseteq DOMAIN r, TableAt(t, h) \subseteq kept,
             \A j \in DOMAIN r : j \in TableAt(r, k) <=> f[j] \in TableAt(t, h)
      PROVE  Entry(r, k) = Entry(t, h)
    <2>1. Entry(r, k) = {r[j] : j \in TableAt(r, k)} /\ Entry(t, h) = {t[i] : i \in TableAt(t, h)}
        BY DEF Entry, EntryAmong, TableAt
    <2>2. ASSUME NEW j \in TableAt(r, k) PROVE r[j] \in Entry(t, h)
        <3>1. f[j] \in TableAt(t, h) /\ r[j] = t[f[j]]
            BY <1>1, EmbedsFacts
        <3> QED BY <2>1, <3>1
    <2>3. ASSUME NEW i \in TableAt(t, h) PROVE t[i] \in Entry(r, k)
        <3>1. PICK j \in DOMAIN r : f[j] = i
            BY <1>1, EmbedsFacts
        <3>2. j \in TableAt(r, k) /\ r[j] = t[i]
            BY <1>1, <3>1, EmbedsFacts
        <3> QED BY <2>1, <3>2
    <2> QED
        BY <2>1, <2>2, <2>3
<1>2. \A k : TableAt(r, k) \subseteq DOMAIN r
    BY InTable
<1>3. ASSUME NEW k \in HeadersOf(r) PROVE Entry(r, k) = Entry(t, f[k])
    BY <1>1, <1>2, KeepTable
<1>4. Entry(r, 0) = Entry(t, 0)
    BY <1>1, <1>2, KeepTop
<1> QED
    BY <1>3, <1>4

\* What Parses says of a whole text.
LEMMA ParsesMeans ==
    ASSUME NEW t
    PROVE  Parses(t) <=>
             /\ \A h \in {0} \cup HeadersOf(t) : \A i, j \in TableAt(t, h) :
                   Keys[t[i].kind] = Keys[t[j].kind] => i = j
             /\ \A i \in TableAt(t, 0) :
                   IsInline(t[i]) => \A h \in HeadersOf(t) : t[h].kind # "hooks"
BY DEF Parses, ParsesAmong, HeadersOf, TableAt

\* What is left is a TOML text if the whole was one.
LEMMA KeepParses ==
    ASSUME NEW Lines, NEW r \in Seq(Lines), NEW t \in Seq(Lines), NEW kept, NEW f,
           Embeds(r, t, kept, f), Closed(t, DOMAIN t \ kept), Parses(t)
    PROVE  Parses(r)
<1>1. ASSUME NEW h \in {0} \cup HeadersOf(r), NEW i \in TableAt(r, h), NEW j \in TableAt(r, h),
             Keys[r[i].kind] = Keys[r[j].kind]
      PROVE  i = j
    <2>1. i \in DOMAIN r /\ j \in DOMAIN r
        BY InTable
    <2>2. \E g \in {0} \cup HeadersOf(t) : f[i] \in TableAt(t, g) /\ f[j] \in TableAt(t, g)
        <3>1. CASE h = 0
            BY <2>1, <3>1, KeepTop
        <3>2. CASE h \in HeadersOf(r)
            <4>1. f[h] \in HeadersOf(t) /\ f[i] \in TableAt(t, f[h]) /\ f[j] \in TableAt(t, f[h])
                BY <2>1, <3>2, KeepTable
            <4> QED BY <4>1
        <3> QED BY <3>1, <3>2
    <2>3. Keys[t[f[i]].kind] = Keys[t[f[j]].kind]
        BY <1>1, <2>1, EmbedsFacts, SMTT(30)
    <2>4. f[i] = f[j]
        BY <2>2, <2>3, ParsesMeans
    <2> QED
        BY <2>1, <2>4, EmbedsFacts
<1>2. ASSUME NEW i \in TableAt(r, 0), IsInline(r[i]), NEW h \in HeadersOf(r)
      PROVE  r[h].kind # "hooks"
    <2>1. i \in DOMAIN r /\ h \in DOMAIN r
        BY InTable DEF HeadersOf
    <2>2. f[i] \in TableAt(t, 0) /\ IsInline(t[f[i]])
        <3>1. f[i] \in TableAt(t, 0)
            BY <1>2, <2>1, KeepTop
        <3>2. r[i] = t[f[i]]
            BY <2>1, EmbedsFacts
        <3> QED BY <1>2, <3>1, <3>2
    <2>3. f[h] \in HeadersOf(t) /\ r[h] = t[f[h]]
        <3>1. f[h] \in HeadersOf(t)
            BY <1>2, KeepTable
        <3>2. r[h] = t[f[h]]
            BY <2>1, EmbedsFacts
        <3> QED BY <3>1, <3>2
    <2> QED
        BY <2>2, <2>3, ParsesMeans
<1> QED
    BY <1>1, <1>2, ParsesMeans

\* The entries of a whole text.
LEMMA EntriesMeans ==
    ASSUME NEW t
    PROVE  Entries(t) = LET inline == {l \in Entry(t, 0) : IsInline(l)}
                        IN IF inline # {} THEN {InlineEntry(l) : l \in inline}
                           ELSE {Entry(t, h) : h \in {h \in HeadersOf(t) : t[h].kind = "hooks"}}
<1>1. {h \in HeadersOf(t) : t[h].kind = "hooks"} = {h \in DOMAIN t : t[h].kind = "hooks"}
    BY DEF HeadersOf, IsHeader, Headers
<1> QED
    BY <1>1 DEF Entries, EntriesAmong, Entry

\* No entry is new.
LEMMA KeepEntries ==
    ASSUME NEW Lines, NEW r \in Seq(Lines), NEW t \in Seq(Lines), NEW kept, NEW f,
           Embeds(r, t, kept, f), Closed(t, DOMAIN t \ kept)
    PROVE  Entries(r) \subseteq Entries(t)
<1>. DEFINE inline == {l \in Entry(t, 0) : IsInline(l)}
<1>1. inline = {l \in Entry(r, 0) : IsInline(l)}
    BY KeepEntry
<1>2. CASE inline # {}
    BY <1>1, <1>2, EntriesMeans
<1>3. CASE inline = {}
    <2>1. Entries(r) = {Entry(r, h) : h \in {h \in HeadersOf(r) : r[h].kind = "hooks"}}
        BY <1>1, <1>3, EntriesMeans
    <2>2. Entries(t) = {Entry(t, h) : h \in {h \in HeadersOf(t) : t[h].kind = "hooks"}}
        BY <1>3, EntriesMeans
    <2>. SUFFICES ASSUME NEW h \in HeadersOf(r), r[h].kind = "hooks"
                  PROVE  Entry(r, h) \in Entries(t)
        BY <2>1
    <2>3. f[h] \in HeadersOf(t) /\ t[f[h]].kind = "hooks" /\ Entry(r, h) = Entry(t, f[h])
        <3>1. f[h] \in HeadersOf(t)
            BY KeepTable
        <3>4. Entry(r, h) = Entry(t, f[h])
            BY KeepEntry
        <3>2. h \in DOMAIN r
            BY DEF HeadersOf
        <3>3. r[h] = t[f[h]]
            BY <3>2, EmbedsFacts
        <3> QED BY <3>1, <3>3, <3>4
    <2> QED
        BY <2>2, <2>3
<1> QED
    BY <1>2, <1>3

\* So the check of the whole set still passes.
LEMMA KeepValid ==
    ASSUME NEW Lines, NEW r \in Seq(Lines), NEW t \in Seq(Lines), NEW kept, NEW f,
           Embeds(r, t, kept, f), Closed(t, DOMAIN t \ kept),
           NEW knows, ValidHookSet(t, knows)
    PROVE  ValidHookSet(r, knows)
BY KeepParses, KeepEntries DEF ValidHookSet

\* A table that is kept makes kimi run what it made kimi run.
LEMMA KeepFires ==
    ASSUME NEW Lines, NEW r \in Seq(Lines), NEW t \in Seq(Lines), NEW kept, NEW f,
           Embeds(r, t, kept, f), Closed(t, DOMAIN t \ kept),
           NEW c, NEW h \in kept, FiresAt(t, h, c)
    PROVE  \E k \in DOMAIN r : f[k] = h /\ FiresAt(r, k, c)
<1>1. PICK k \in DOMAIN r : f[k] = h
    BY EmbedsFacts
<1>2. r[k].kind = "hooks"
    BY <1>1, EmbedsFacts DEF FiresAt
<1>3. k \in HeadersOf(r)
    BY <1>2 DEF HeadersOf, IsHeader, Headers
<1>4. Entry(r, k) = Entry(t, h)
    BY <1>1, <1>3, KeepEntry
<1> QED
    BY <1>1, <1>2, <1>4 DEF FiresAt

\* No key is cut off from its table by what is dropped.
LEMMA KeepTied ==
    ASSUME NEW Lines, NEW r \in Seq(Lines), NEW t \in Seq(Lines), NEW kept, NEW f,
           Embeds(r, t, kept, f), Closed(t, DOMAIN t \ kept), Tied(t)
    PROVE  Tied(r)
<1>. SUFFICES ASSUME NEW i \in DOMAIN r, NEW k \in DOMAIN r,
                     i < k, Parts(r[i]), IsKey(r[k])
              PROVE  \E g \in HeadersOf(r) : i < g /\ g < k
    BY DEF Tied
<1>1. f[i] < f[k] /\ Parts(t[f[i]]) /\ IsKey(t[f[k]]) /\ f[i] \in DOMAIN t /\ f[k] \in DOMAIN t
    BY EmbedsFacts
<1>2. PICK h \in HeadersOf(t) : f[i] < h /\ h < f[k]
    BY <1>1 DEF Tied
<1>3. PICK o \in {0} \cup HeadersOf(r) : k \in TableAt(r, o)
    BY OwnTable
<1>4. CASE o = 0
    <2>1. f[k] \in TableAt(t, 0)
        BY <1>3, <1>4, KeepTop
    <2>2. h > 0 => f[k] < h
        BY <1>2, <2>1, InTable
    <2> QED
        BY <1>2, <2>2, EmbedsFacts DEF HeadersOf
<1>5. CASE o \in HeadersOf(r)
    <2>1. o \in DOMAIN r /\ f[k] \in TableAt(t, f[o])
        BY <1>3, <1>5, KeepTable DEF HeadersOf
    <2>2. h > f[o] => f[k] < h
        BY <1>2, <2>1, InTable
    <2>3. f[o] \in Nat /\ h \in Nat /\ f[k] \in Nat /\ f[i] \in Nat
        <3>1. h \in DOMAIN t
            BY DEF HeadersOf
        <3>2. h \in Nat
            BY <3>1, EmbedsFacts
        <3> QED BY <2>1, <3>2, EmbedsFacts
    <2>4. f[i] < f[o]
        BY <1>2, <2>2, <2>3
    <2>5. i < o
        BY <2>1, <2>4, EmbedsFacts
    <2>6. k > o
        BY <1>3, InTable
    <2> QED
        BY <1>5, <2>1, <2>5, <2>6, EmbedsFacts
<1> QED
    BY <1>3, <1>4, <1>5

\* kimi runs a command that is ours by virtue of one table.
LEMMA FiresMeans ==
    ASSUME NEW t, NEW c, NEW knows
    PROVE  Fires(t, c, knows) <=> ValidHookSet(t, knows) /\ \E h \in DOMAIN t : FiresAt(t, h, c)
<1>1. ASSUME Fires(t, c, knows) PROVE \E h \in DOMAIN t : FiresAt(t, h, c)
    <2>1. PICK e \in Entries(t) : Line("event") \in e /\ CommandLine(c) \in e /\ ~Has(e, "matcher")
        BY <1>1 DEF Fires, Runs
    <2>2. \A l : e # InlineEntry(l)
        BY <2>1 DEF InlineEntry, Line, CommandLine
    <2>3. PICK h \in HeadersOf(t) : t[h].kind = "hooks" /\ e = Entry(t, h)
        BY <2>2, EntriesMeans
    <2> QED
        BY <2>1, <2>3 DEF FiresAt, HeadersOf
<1>2. ASSUME ValidHookSet(t, knows), NEW h \in DOMAIN t, FiresAt(t, h, c)
      PROVE  Fires(t, c, knows)
    <2>1. h \in HeadersOf(t) /\ t[h].kind = "hooks"
        BY <1>2 DEF FiresAt, HeadersOf, IsHeader, Headers
    <2>2. {l \in Entry(t, 0) : IsInline(l)} = {}
        <3>1. Parses(t)
            BY <1>2 DEF ValidHookSet
        <3>2. \A i \in TableAt(t, 0) : ~IsInline(t[i])
            BY <2>1, <3>1, ParsesMeans
        <3>3. Entry(t, 0) = {t[i] : i \in TableAt(t, 0)}
            BY DEF Entry, EntryAmong, TableAt
        <3> QED BY <3>2, <3>3
    <2>3. Entry(t, h) \in Entries(t)
        BY <2>1, <2>2, EntriesMeans
    <2> QED
        BY <1>2, <2>3 DEF Fires, FiresAt, Runs
<1>3. Fires(t, c, knows) => ValidHookSet(t, knows)
    BY DEF Fires
<1> QED
    BY <1>1, <1>2, <1>3

\* No key of these lines belongs to a table above them, no key below them to a
\* table in them.
Sealed(t, a, z) ==
    /\ \A k \in DOMAIN t : a <= k /\ k <= z /\ IsKey(t[k])
                              => \E g \in HeadersOf(t) : a <= g /\ g < k
    /\ \A k \in DOMAIN t : z < k /\ IsKey(t[k])
                              => \E g \in HeadersOf(t) : z < g /\ g < k

\* Lines are dropped in such stretches, or are no lines of tables.
SealedDrop(t, dropped) ==
    \A d \in dropped \cap DOMAIN t : IsHeader(t[d]) \/ IsKey(t[d]) =>
        \E a, z \in DOMAIN t : /\ a <= d /\ d <= z /\ a .. z \subseteq dropped
                               /\ Sealed(t, a, z)

\* Stretches that are sealed hold whole tables.
LEMMA SealedIsClosed ==
    ASSUME NEW Lines, NEW t \in Seq(Lines), NEW dropped, SealedDrop(t, dropped)
    PROVE  Closed(t, DOMAIN t \ (DOMAIN t \ dropped))
<1>. SUFFICES ASSUME NEW h \in {0} \cup HeadersOf(t), NEW i \in TableAt(t, h)
              PROVE  i \in dropped <=> (h \in dropped /\ h \in DOMAIN t)
    BY InTable DEF Closed
<1>1. DOMAIN t = 1 .. Len(t) /\ Len(t) \in Nat
    OBVIOUS
<1>2. /\ i \in DOMAIN t /\ i > h /\ IsKey(t[i]) /\ i \in Nat /\ h \in Nat
      /\ \A g \in HeadersOf(t) : g > h => i < g
    BY <1>1, InTable DEF HeadersOf
<1>3. ASSUME i \in dropped PROVE h \in dropped /\ h \in DOMAIN t
    <2>1. PICK a \in DOMAIN t, z \in DOMAIN t :
             a <= i /\ i <= z /\ a .. z \subseteq dropped /\ Sealed(t, a, z)
        BY <1>2, <1>3 DEF SealedDrop
    <2>2. PICK g \in HeadersOf(t) : a <= g /\ g < i
        BY <1>2, <2>1 DEF Sealed
    <2>3. g \in Nat /\ a \in Nat /\ z \in Nat /\ a > 0
        BY <1>1, <2>1 DEF HeadersOf
    <2>4. ~(g > h)
        BY <1>2, <2>2, <2>3
    <2>5. a <= h /\ h <= z /\ h # 0
        BY <1>2, <2>1, <2>2, <2>3, <2>4
    <2>6. h \in a .. z
        BY <1>2, <2>3, <2>5
    <2> QED
        BY <2>1, <2>5, <2>6 DEF HeadersOf
<1>4. ASSUME h \in dropped, h \in DOMAIN t PROVE i \in dropped
    <2>1. IsHeader(t[h])
        BY <1>1, <1>4 DEF HeadersOf
    <2>2. PICK a \in DOMAIN t, z \in DOMAIN t :
             a <= h /\ h <= z /\ a .. z \subseteq dropped /\ Sealed(t, a, z)
        BY <1>4, <2>1 DEF SealedDrop
    <2>3. a \in Nat /\ z \in Nat
        BY <1>1, <2>2
    <2>4. ASSUME z < i PROVE FALSE
        <3>1. PICK g \in HeadersOf(t) : z < g /\ g < i
            BY <1>2, <2>2, <2>4 DEF Sealed
        <3>2. g \in Nat
            BY <1>1 DEF HeadersOf
        <3> QED
            BY <1>2, <2>2, <2>3, <3>1, <3>2
    <2>5. i \in a .. z
        BY <1>2, <2>2, <2>3, <2>4
    <2> QED
        BY <2>2, <2>5
<1> QED
    BY <1>3, <1>4

\* Dropping whole tables keeps the other ones, and what is true of them.
LEMMA DropKeeps ==
    ASSUME NEW Lines, NEW t \in Seq(Lines), NEW dropped, SealedDrop(t, dropped)
    PROVE  LET r == Without(t, dropped)
           IN /\ r \in Seq(Lines)
              /\ Tied(t) => Tied(r)
              /\ \A knows : ValidHookSet(t, knows) => ValidHookSet(r, knows)
              /\ \A c : \A h \in DOMAIN t \ dropped :
                    FiresAt(t, h, c) => \E k \in DOMAIN r : FiresAt(r, k, c)
<1>. DEFINE r == Without(t, dropped)
            kept == DOMAIN t \ dropped
<1>1. r \in Seq(Lines) /\ \E f : Embeds(r, t, kept, f)
    BY WithoutEmbeds
<1>2. PICK f : Embeds(r, t, kept, f)
    BY <1>1
<1>3. Closed(t, DOMAIN t \ kept)
    BY SealedIsClosed
<1>. HIDE DEF r, kept
<1>4. Tied(t) => Tied(r)
    BY <1>1, <1>2, <1>3, KeepTied
<1>5. ASSUME NEW knows, ValidHookSet(t, knows) PROVE ValidHookSet(r, knows)
    BY <1>1, <1>2, <1>3, <1>5, KeepValid
<1>6. ASSUME NEW c, NEW h \in kept, FiresAt(t, h, c) PROVE \E k \in DOMAIN r : FiresAt(r, k, c)
    BY <1>1, <1>2, <1>3, <1>6, KeepFires
<1> QED
    BY <1>1, <1>4, <1>5, <1>6 DEF r, kept

\* The blank lines that Collapsed drops.
BlanksTwice(t) == {i \in DOMAIN t : i > 1 /\ t[i].kind = "blank" /\ t[i - 1].kind = "blank"}

\* They are no lines of tables.
LEMMA BlankDrop == ASSUME NEW t PROVE SealedDrop(t, BlanksTwice(t))
BY DEF SealedDrop, BlanksTwice, IsHeader, IsKey, Headers, Keys

\* Dropping whole tables, and then blank lines, as each removal of setup does.
LEMMA DropCollapseKeeps ==
    ASSUME NEW Lines, NEW t \in Seq(Lines), NEW dropped, SealedDrop(t, dropped)
    PROVE  LET r == Collapsed(Without(t, dropped))
           IN /\ r \in Seq(Lines)
              /\ Tied(t) => Tied(r)
              /\ \A knows : ValidHookSet(t, knows) => ValidHookSet(r, knows)
              /\ \A c : \A h \in DOMAIN t \ dropped :
                    FiresAt(t, h, c) => \E k \in DOMAIN r : FiresAt(r, k, c)
<1>. DEFINE s == Without(t, dropped)
            r == Without(s, BlanksTwice(s))
<1>1. Collapsed(s) = r
    BY DEF Collapsed, BlanksTwice
<1>2. /\ s \in Seq(Lines)
      /\ Tied(t) => Tied(s)
      /\ \A knows : ValidHookSet(t, knows) => ValidHookSet(s, knows)
      /\ \A c : \A h \in DOMAIN t \ dropped :
            FiresAt(t, h, c) => \E k \in DOMAIN s : FiresAt(s, k, c)
    BY DropKeeps
<1>. HIDE DEF s
<1>3. /\ r \in Seq(Lines)
      /\ Tied(s) => Tied(r)
      /\ \A knows : ValidHookSet(s, knows) => ValidHookSet(r, knows)
      /\ \A c : \A h \in DOMAIN s \ BlanksTwice(s) :
            FiresAt(s, h, c) => \E k \in DOMAIN r : FiresAt(r, k, c)
    BY <1>2, BlankDrop, DropKeeps
<1>4. \A c : \A h \in DOMAIN s : FiresAt(s, h, c) => h \notin BlanksTwice(s)
    BY DEF FiresAt, BlanksTwice
<1>5. \A c : \A h \in DOMAIN s : FiresAt(s, h, c) => \E k \in DOMAIN r : FiresAt(r, k, c)
    BY <1>3, <1>4
<1>. HIDE DEF r
<1>6. \A c : \A h \in DOMAIN t \ dropped : FiresAt(t, h, c) => \E k \in DOMAIN r : FiresAt(r, k, c)
    BY <1>2, <1>5
<1> QED
    BY <1>1, <1>2, <1>3, <1>6 DEF s

-----------------------------------------------------------------------------
(* Blocks under the old marker.                                            *)

\* The lines of a part of a text.
LEMMA SubSeqFacts ==
    ASSUME NEW Lines, NEW t \in Seq(Lines), NEW m \in Nat \ {0}, NEW n \in Nat,
           n <= Len(t), m <= n + 1
    PROVE  /\ SubSeq(t, m, n) \in Seq(Lines)
           /\ Len(SubSeq(t, m, n)) = n - m + 1
           /\ DOMAIN SubSeq(t, m, n) = 1 .. n - m + 1
           /\ \A k \in 1 .. n - m + 1 : SubSeq(t, m, n)[k] = t[m + k - 1]
           /\ \A i \in m .. n : i - m + 1 \in DOMAIN SubSeq(t, m, n)
                                /\ SubSeq(t, m, n)[i - m + 1] = t[i]
OBVIOUS

\* The command that counts is the last one.
LEMMA LastCommandMeans ==
    ASSUME NEW Lines, NEW b \in Seq(Lines), NEW p \in DOMAIN b, IsCommand(b[p]),
           \A q \in DOMAIN b : IsCommand(b[q]) => q <= p
    PROVE  LastCommand(b) = b[p].cmd
<1>. DEFINE cs == {i \in DOMAIN b : IsCommand(b[i])}
<1>1. cs = Positions(b, IsCommand)
    BY DEF Positions
<1>2. Len(b) \in Nat /\ DOMAIN b = 1 .. Len(b) /\ cs \in SUBSET (0 .. Len(b)) /\ p \in cs
    OBVIOUS
<1>3. Max(cs) \in cs /\ p <= Max(cs)
    BY <1>2, GreatestMember
<1>4. Max(cs) = p
    BY <1>2, <1>3
<1> QED
    BY <1>1, <1>2, <1>4 DEF LastCommand

\* Where no key follows a line, the next key has a header of its own.
LEMMA NoKeyFollows ==
    ASSUME NEW Lines, NEW t \in Seq(Lines), NEW i \in DOMAIN t, ~KeyFollows(t, i),
           NEW k \in DOMAIN t, i < k, IsKey(t[k])
    PROVE  \E g \in HeadersOf(t) : i < g /\ g < k
<1>. DEFINE next == {j \in i + 1 .. Len(t) : t[j].kind \notin Comments \cup {"blank"}}
<1>1. i \in Nat /\ k \in Nat /\ Len(t) \in Nat /\ DOMAIN t = 1 .. Len(t)
    OBVIOUS
<1>2. k \in next
    BY <1>1 DEF IsKey, Keys, Comments
<1>4. next \in SUBSET Nat
    BY <1>1
<1>5. Min(next) \in next /\ Min(next) <= k
    BY <1>2, <1>4, LeastMember
<1>6. IsHeader(t[Min(next)])
    BY <1>2 DEF KeyFollows
<1>7. Min(next) # k
    BY <1>6, HeaderIsNoKey
<1>8. Min(next) \in HeadersOf(t) /\ i < Min(next) /\ Min(next) < k
    BY <1>1, <1>5, <1>6, <1>7 DEF HeadersOf
<1> QED
    BY <1>8

\* The END of a block under the old marker, and what stands before it.
LEMMA OldEndMeans ==
    ASSUME NEW Lines, NEW t \in Seq(Lines), NEW i \in DOMAIN t, OldEnd(t, i) # 0
    PROVE  /\ OldEnd(t, i) \in DOMAIN t /\ i < OldEnd(t, i)
           /\ t[OldEnd(t, i)].kind = "oldEnd"
           /\ \A j \in DOMAIN t : i < j /\ j < OldEnd(t, i) => t[j].kind \notin OldMarkers
<1>. DEFINE next == {j \in i + 1 .. Len(t) : t[j].kind \in OldMarkers}
<1>1. i \in Nat /\ Len(t) \in Nat /\ DOMAIN t = 1 .. Len(t)
    OBVIOUS
<1>2. next # {} /\ t[Min(next)].kind = "oldEnd" /\ OldEnd(t, i) = Min(next)
    BY DEF OldEnd
<1>3. next \in SUBSET Nat
    BY <1>1
<1>4. Min(next) \in next /\ \A x \in next : Min(next) <= x
    BY <1>2, <1>3, LeastMember
<1>5. ASSUME NEW j \in DOMAIN t, i < j, j < Min(next) PROVE t[j].kind \notin OldMarkers
    <2>1. j \notin next
        BY <1>1, <1>3, <1>4, <1>5
    <2> QED
        BY <1>1, <1>5, <2>1
<1> QED
    BY <1>1, <1>2, <1>4, <1>5

\* The command of another host of this plugin.
OfAnother(c, mine, me) ==
    /\ OursByPath(c) /\ c # mine
    /\ HostOfCommand(c) = c.host /\ c.host \notin {None, me}

\* The block under the old marker: what it removes is its only command.
LEMMA SimpleBodyMeans ==
    ASSUME NEW Lines, NEW b \in Seq(Lines), SimpleBody(b)
    PROVE  /\ \A p, q \in DOMAIN b : IsCommand(b[p]) /\ IsCommand(b[q]) => p = q
           /\ \A k \in DOMAIN b : IsKey(b[k]) => \E g \in DOMAIN b : g < k /\ IsHeader(b[g])
<1>. DEFINE S(kind) == {i \in DOMAIN b : b[i].kind = kind}
            first == Min(S("hooks"))
<1>1. Len(b) \in Nat /\ DOMAIN b = 1 .. Len(b)
    OBVIOUS
<1>2. /\ Cardinality(S("hooks")) = 1 /\ Cardinality(S("command")) = 1
      /\ \A i \in 1 .. first - 1 : ~IsKey(b[i])
    BY DEF SimpleBody
<1>3. ASSUME NEW kind PROVE IsFiniteSet(S(kind))
    <2>1. S(kind) \in SUBSET (1 .. Len(b)) /\ IsFiniteSet(1 .. Len(b))
        BY <1>1, FS_Interval
    <2>. HIDE DEF S
    <2> QED BY <2>1, FS_Subset
<1>. HIDE DEF S
<1>4. (\E x : S("hooks") = {x}) /\ (\E x : S("command") = {x})
    BY <1>2, <1>3, FS_Singleton
<1>5. \A p, q \in DOMAIN b : IsCommand(b[p]) /\ IsCommand(b[q]) => p = q
    BY <1>4 DEF S, IsCommand
<1>6. first \in S("hooks")
    <2>1. S("hooks") \in SUBSET Nat /\ S("hooks") # {}
        BY <1>1, <1>4 DEF S
    <2> QED BY <2>1, LeastMember
<1>7. first \in DOMAIN b /\ IsHeader(b[first]) /\ first \in Nat
    BY <1>1, <1>6 DEF S, IsHeader, Headers
<1>. HIDE DEF first
<1>8. ASSUME NEW k \in DOMAIN b, IsKey(b[k]) PROVE first < k
    <2>1. k # first
        BY <1>7, <1>8, HeaderIsNoKey
    <2>2. k \notin 1 .. first - 1
        BY <1>2, <1>8
    <2> QED
        BY <1>1, <1>7, <2>1, <2>2
<1> QED
    BY <1>5, <1>7, <1>8

\* A BEGIN under the old marker names the host of what stands below it.
OldLabelled(t) ==
    \A i, p \in DOMAIN t :
        /\ i < p /\ t[i].kind = "oldBegin"
        /\ IsCommand(t[p]) /\ OursByPath(t[p].cmd)
        /\ t[i].host \notin {None, t[p].cmd.host}
        => \E j \in DOMAIN t : i < j /\ j < p /\ t[j].kind \in {"oldBegin", "oldEnd"}

\* The lines that stripLegacyBrandBlocks removes.
OldLines(t, c, host) == UNION {b.begin .. b.end : b \in OldRemoved(t, c, host)}

\* What is known of a block that it removes.
LEMMA OldRemovedMeans ==
    ASSUME NEW t, NEW c, NEW host, NEW b \in OldRemoved(t, c, host)
    PROVE  LET body == SubSeq(t, b.begin + 1, b.end - 1)
           IN /\ b.begin \in DOMAIN t /\ t[b.begin].kind = "oldBegin"
              /\ b.end = OldEnd(t, b.begin) /\ OldEnd(t, b.begin) # 0
              /\ b.cmd = LastCommand(body)
              /\ b.host = IF t[b.begin].host # None THEN t[b.begin].host
                          ELSE HostOfCommand(b.cmd)
              /\ SimpleBody(body) /\ ~KeyFollows(t, b.end)
              /\ host \in {None, b.host} \/ b.cmd = c
<1>1. /\ b \in OldBlocks(t, c) /\ b.ours
      /\ host \in {None, b.host} \/ b.cmd = c
    BY DEF OldRemoved
<1>2. PICK i \in DOMAIN t : /\ t[i].kind = "oldBegin" /\ OldEnd(t, i) # 0
                           /\ b = OldBlockAt(t, c, i)
    BY <1>1 DEF OldBlocks
<1>. DEFINE cmd == LastCommand(SubSeq(t, i + 1, OldEnd(t, i) - 1))
<1>3. /\ b.begin = i /\ b.end = OldEnd(t, i) /\ b.cmd = cmd
      /\ b.host = IF t[i].host # None THEN t[i].host ELSE HostOfCommand(cmd)
      /\ b.ours = (/\ SimpleBody(SubSeq(t, i + 1, OldEnd(t, i) - 1))
                   /\ ~KeyFollows(t, OldEnd(t, i))
                   /\ cmd = c \/ OursByPath(cmd))
    BY <1>2 DEF OldBlockAt
<1> QED
    BY <1>1, <1>2, <1>3

\* Such a block holds whole tables.
LEMMA OldBlockSealed ==
    ASSUME NEW Lines, NEW t \in Seq(Lines), NEW c, NEW host, NEW b \in OldRemoved(t, c, host)
    PROVE  Sealed(t, b.begin, b.end)
<1>. DEFINE i == b.begin
            e == b.end
            body == SubSeq(t, i + 1, e - 1)
<1>1. Len(t) \in Nat /\ DOMAIN t = 1 .. Len(t)
    OBVIOUS
<1>2. i \in DOMAIN t /\ t[i].kind = "oldBegin" /\ SimpleBody(body) /\ ~KeyFollows(t, e)
    BY OldRemovedMeans
<1>3. e \in DOMAIN t /\ i < e /\ t[e].kind = "oldEnd"
    BY OldRemovedMeans, OldEndMeans
<1>. HIDE DEF i, e
<1>4. ASSUME NEW k \in DOMAIN t, i <= k, k <= e, IsKey(t[k])
      PROVE  \E g \in HeadersOf(t) : i <= g /\ g < k
    <2>1. k # i /\ k # e
        BY <1>2, <1>3, <1>4 DEF IsKey, Keys
    <2>2. i \in Nat \ {0} /\ e \in Nat /\ k \in Nat /\ e <= Len(t) /\ i < k /\ k < e
        BY <1>1, <1>2, <1>3, <1>4, <2>1
    <2>3. /\ body \in Seq(Lines) /\ DOMAIN body = 1 .. e - 1 - i
          /\ \A x \in 1 .. e - 1 - i : body[x] = t[i + x]
        <3>1. i + 1 \in Nat \ {0} /\ e - 1 \in Nat /\ e - 1 <= Len(t) /\ i + 1 <= e - 1 + 1
            BY <1>1, <2>2
        <3>2. (e - 1) - (i + 1) + 1 = e - 1 - i /\ \A x \in 1 .. e - 1 - i : (i + 1) + x - 1 = i + x
            BY <2>2
        <3> QED
            BY <3>1, <3>2, SubSeqFacts
    <2>4. k - i \in DOMAIN body /\ body[k - i] = t[k]
        BY <2>2, <2>3
    <2>5. PICK g \in DOMAIN body : g < k - i /\ IsHeader(body[g])
        BY <1>2, <1>4, <2>3, <2>4, SimpleBodyMeans
    <2>6. i + g \in HeadersOf(t) /\ i <= i + g /\ i + g < k
        BY <1>1, <2>2, <2>3, <2>5 DEF HeadersOf
    <2> QED
        BY <2>6
<1>5. ASSUME NEW k \in DOMAIN t, e < k, IsKey(t[k])
      PROVE  \E g \in HeadersOf(t) : e < g /\ g < k
    BY <1>2, <1>3, <1>5, NoKeyFollows
<1>6. Sealed(t, i, e)
    BY <1>4, <1>5 DEF Sealed
<1> QED
    BY <1>6 DEF i, e

\* So it removes whole tables.
LEMMA OldDrop ==
    ASSUME NEW Lines, NEW t \in Seq(Lines), NEW c, NEW host
    PROVE  SealedDrop(t, OldLines(t, c, host))
<1>. SUFFICES ASSUME NEW d \in OldLines(t, c, host)
              PROVE  \E a, z \in DOMAIN t : /\ a <= d /\ d <= z
                                            /\ a .. z \subseteq OldLines(t, c, host)
                                            /\ Sealed(t, a, z)
    BY DEF SealedDrop
<1>1. PICK b \in OldRemoved(t, c, host) : d \in b.begin .. b.end
    BY DEF OldLines
<1>2. b.begin \in DOMAIN t /\ b.end \in DOMAIN t
    BY OldRemovedMeans, OldEndMeans
<1>3. b.begin <= d /\ d <= b.end
    BY <1>1, <1>2
<1>4. b.begin .. b.end \subseteq OldLines(t, c, host)
    BY DEF OldLines
<1> QED
    BY <1>2, <1>3, <1>4, OldBlockSealed

\* What stands in a block under the old marker is no marker of ours.
LEMMA OldLinesMarkers ==
    ASSUME NEW Lines, NEW t \in Seq(Lines), NEW c, NEW host,
           NEW d \in OldLines(t, c, host)
    PROVE  d \in DOMAIN t /\ ~IsMarker(t[d])
<1>1. PICK b \in OldRemoved(t, c, host) : d \in b.begin .. b.end
    BY DEF OldLines
<1>. DEFINE i == b.begin
            e == b.end
<1>2. /\ i \in DOMAIN t /\ t[i].kind = "oldBegin"
      /\ e \in DOMAIN t /\ i < e /\ t[e].kind = "oldEnd"
      /\ \A j \in DOMAIN t : i < j /\ j < e => t[j].kind \notin OldMarkers
    BY OldRemovedMeans, OldEndMeans
<1>. HIDE DEF i, e
<1>3. d \in DOMAIN t /\ i <= d /\ d <= e
    BY <1>1, <1>2 DEF i, e
<1>4. CASE d = i
    BY <1>2, <1>3, <1>4 DEF IsMarker
<1>5. CASE d = e
    BY <1>2, <1>3, <1>5 DEF IsMarker
<1>6. CASE d # i /\ d # e
    BY <1>2, <1>3, <1>6 DEF IsMarker, OldMarkers
<1> QED
    BY <1>3, <1>4, <1>5, <1>6

\* A command line in such a block is the command that the block is known by.
LEMMA OldCommand ==
    ASSUME NEW Lines, NEW t \in Seq(Lines), NEW c, NEW host, NEW b \in OldRemoved(t, c, host),
           NEW p \in DOMAIN t, p \in b.begin .. b.end, IsCommand(t[p])
    PROVE  b.cmd = t[p].cmd /\ b.begin < p /\ p < b.end
<1>. DEFINE i == b.begin
            e == b.end
            body == SubSeq(t, i + 1, e - 1)
<1>2. /\ i \in DOMAIN t /\ t[i].kind = "oldBegin" /\ SimpleBody(body)
      /\ b.cmd = LastCommand(body)
    BY OldRemovedMeans
<1>3. e \in DOMAIN t /\ i < e /\ t[e].kind = "oldEnd"
    BY OldRemovedMeans, OldEndMeans
<1>4. Len(t) \in Nat /\ DOMAIN t = 1 .. Len(t)
    OBVIOUS
<1>5. t[p].kind = "command"
    BY DEF IsCommand
<1>6. p \in i .. e
    OBVIOUS
<1>. HIDE DEF i, e
<1>7. i \in Nat \ {0} /\ e \in Nat /\ p \in Nat /\ i < p /\ p < e /\ e <= Len(t)
    <2>1. p # i /\ p # e
        BY <1>2, <1>3, <1>5
    <2> QED
        BY <1>2, <1>3, <1>4, <1>6, <2>1
<1>8. /\ body \in Seq(Lines) /\ DOMAIN body = 1 .. e - 1 - i
      /\ \A x \in 1 .. e - 1 - i : body[x] = t[i + x]
    <2>1. i + 1 \in Nat \ {0} /\ e - 1 \in Nat /\ e - 1 <= Len(t) /\ i + 1 <= e - 1 + 1
        BY <1>4, <1>7
    <2>2. (e - 1) - (i + 1) + 1 = e - 1 - i /\ \A x \in 1 .. e - 1 - i : (i + 1) + x - 1 = i + x
        BY <1>7
    <2> QED
        BY <2>1, <2>2, SubSeqFacts
<1>9. p - i \in DOMAIN body /\ body[p - i] = t[p]
    BY <1>7, <1>8, SMTT(30)
<1>10. \A q \in DOMAIN body : IsCommand(body[q]) => q = p - i
    BY <1>2, <1>8, <1>9, SimpleBodyMeans
<1>11. \A q \in DOMAIN body : IsCommand(body[q]) => q <= p - i
    BY <1>7, <1>8, <1>10
<1>12. LastCommand(body) = t[p].cmd
    BY <1>8, <1>9, <1>11, LastCommandMeans
<1> QED
    BY <1>2, <1>7, <1>12 DEF i, e

\* The command of another host is not among them.
LEMMA OldLinesOfAnother ==
    ASSUME NEW Lines, NEW t \in Seq(Lines), NEW mine, NEW me, me # None, OldLabelled(t),
           NEW c, OfAnother(c, mine, me),
           NEW p \in DOMAIN t, t[p] = CommandLine(c)
    PROVE  p \notin OldLines(t, mine, me)
<1>. SUFFICES ASSUME p \in OldLines(t, mine, me) PROVE FALSE
    OBVIOUS
<1>1. PICK b \in OldRemoved(t, mine, me) : p \in b.begin .. b.end
    BY DEF OldLines
<1>5. IsCommand(t[p]) /\ t[p].cmd = c
    BY DEF IsCommand, CommandLine, Line
<1>6. b.cmd = c /\ b.begin < p /\ p < b.end
    BY <1>1, <1>5, OldCommand
<1>. DEFINE i == b.begin
            e == b.end
<1>2. /\ i \in DOMAIN t /\ t[i].kind = "oldBegin"
      /\ b.host = IF t[i].host # None THEN t[i].host ELSE HostOfCommand(b.cmd)
      /\ me \in {None, b.host} \/ b.cmd = mine
    BY OldRemovedMeans
<1>3. /\ e \in DOMAIN t
      /\ \A j \in DOMAIN t : i < j /\ j < e => t[j].kind \notin OldMarkers
    BY OldRemovedMeans, OldEndMeans
<1>7. i < p /\ p < e
    BY <1>6
<1>. HIDE DEF i, e
<1>13. t[i].host # None /\ t[i].host # c.host
    BY <1>2, <1>6 DEF OfAnother
<1>14. PICK j \in DOMAIN t : i < j /\ j < p /\ t[j].kind \in {"oldBegin", "oldEnd"}
    BY <1>2, <1>5, <1>7, <1>13 DEF OldLabelled, OfAnother
<1>15. j < e
    BY <1>3, <1>7, <1>14
<1> QED
    BY <1>3, <1>14, <1>15 DEF OldMarkers

-----------------------------------------------------------------------------
(* Bare tables.                                                            *)

\* Where the body of a bare table ends.
LEMMA EndOfBodyMeans ==
    ASSUME NEW Lines, NEW t \in Seq(Lines), NEW h \in DOMAIN t
    PROVE  LET e == EndOfBody(t, h)
           IN /\ e \in Nat /\ h < e /\ e <= Len(t) + 1
              /\ \A j \in DOMAIN t : h < j /\ j < e => ~Parts(t[j]) /\ ~IsHeader(t[j])
              /\ e <= Len(t) => Parts(t[e]) \/ IsHeader(t[e])
<1>. DEFINE ends == {i \in h + 1 .. Len(t) :
                        t[i].kind = "blank" \/ IsHeader(t[i]) \/ IsMarker(t[i])}
            e == EndOfBody(t, h)
<1>1. h \in Nat /\ h <= Len(t) /\ Len(t) \in Nat /\ DOMAIN t = 1 .. Len(t)
    OBVIOUS
<1>2. e = IF ends = {} THEN Len(t) + 1 ELSE Min(ends)
    BY DEF EndOfBody
<1>3. CASE ends = {}
    <2>1. e = Len(t) + 1
        BY <1>2, <1>3
    <2>2. \A j \in DOMAIN t : h < j => j \notin ends /\ j \in h + 1 .. Len(t)
        BY <1>1, <1>3
    <2>3. \A j \in DOMAIN t : h < j => ~Parts(t[j]) /\ ~IsHeader(t[j])
        BY <2>2 DEF Parts
    <2>. HIDE DEF e
    <2>4. /\ e \in Nat /\ h < e /\ e <= Len(t) + 1 /\ ~(e <= Len(t))
        BY <1>1, <2>1
    <2> QED
        BY <2>3, <2>4 DEF e
<1>4. CASE ends # {}
    <2>1. e = Min(ends) /\ ends \in SUBSET Nat
        BY <1>1, <1>2, <1>4
    <2>2. e \in ends /\ \A x \in ends : e <= x
        BY <1>4, <2>1, LeastMember
    <2>. HIDE DEF e
    <2>3. e \in h + 1 .. Len(t) /\ (Parts(t[e]) \/ IsHeader(t[e]))
        BY <2>2 DEF Parts
    <2>4. ASSUME NEW j \in DOMAIN t, h < j, j < e PROVE ~Parts(t[j]) /\ ~IsHeader(t[j])
        <3>1. j \in h + 1 .. Len(t) /\ j \in Nat /\ e \in Nat
            BY <1>1, <2>3, <2>4
        <3>2. j \notin ends
            BY <2>2, <2>4, <3>1
        <3> QED
            BY <3>1, <3>2 DEF Parts
    <2>5. e \in Nat /\ h < e /\ e <= Len(t) + 1
        BY <1>1, <2>3
    <2> QED
        BY <2>3, <2>4, <2>5 DEF e
<1> QED
    BY <1>3, <1>4

\* The lines that pruning removes.
PrunedLines(t, c, host) == UNION {b.start .. b.end - 1 : b \in Prunable(t, c, host)}

\* What is known of a bare table.
LEMMA BareTableMeans ==
    ASSUME NEW t, NEW b \in BareTables(t)
    PROVE  /\ b.start \in DOMAIN t /\ t[b.start].kind = "hooks"
           /\ b.end = EndOfBody(t, b.start)
           /\ b.cmd = LastCommand(SubSeq(t, b.start + 1, b.end - 1))
BY DEF BareTables

\* What is known of one that is pruned.
LEMMA PrunableMeans ==
    ASSUME NEW t, NEW c, NEW host, NEW b \in Prunable(t, c, host)
    PROVE  /\ b.start \in DOMAIN t /\ t[b.start].kind = "hooks"
           /\ b.end = EndOfBody(t, b.start)
           /\ b.cmd = LastCommand(SubSeq(t, b.start + 1, b.end - 1))
           /\ b.cmd = c \/ host \in {None, HostOfCommand(b.cmd)}
BY BareTableMeans DEF Prunable

\* Where no key is cut off from its table, a bare table is a whole table.
LEMMA BareTableSealed ==
    ASSUME NEW Lines, NEW t \in Seq(Lines), Tied(t),
           NEW h \in DOMAIN t, t[h].kind = "hooks"
    PROVE  /\ EndOfBody(t, h) - 1 \in DOMAIN t
           /\ h <= EndOfBody(t, h) - 1
           /\ Sealed(t, h, EndOfBody(t, h) - 1)
<1>. DEFINE e == EndOfBody(t, h)
<1>1. h \in Nat \ {0} /\ h <= Len(t) /\ Len(t) \in Nat /\ DOMAIN t = 1 .. Len(t)
    OBVIOUS
<1>2. /\ e \in Nat /\ h < e /\ e <= Len(t) + 1
      /\ e <= Len(t) => Parts(t[e]) \/ IsHeader(t[e])
    BY EndOfBodyMeans
<1>. HIDE DEF e
<1>3. h \in HeadersOf(t)
    BY DEF HeadersOf, IsHeader, Headers
<1>4. ASSUME NEW k \in DOMAIN t, h <= k, IsKey(t[k]) PROVE h < k
    <2>1. k # h
        BY <1>3, <1>4, HeaderIsNoKey DEF HeadersOf
    <2> QED
        BY <1>1, <1>4, <2>1
<1>5. ASSUME NEW k \in DOMAIN t, e - 1 < k, IsKey(t[k])
      PROVE  \E g \in HeadersOf(t) : e - 1 < g /\ g < k
    <2>1. k \in Nat /\ e <= k /\ e \in DOMAIN t
        BY <1>1, <1>2, <1>5
    <2>2. e # k
        BY <1>1, <1>2, <1>5, <2>1, HeaderIsNoKey, PartsIsNoKey
    <2>3. e < k
        BY <1>2, <2>1, <2>2
    <2>4. CASE IsHeader(t[e])
        BY <1>2, <2>1, <2>3, <2>4 DEF HeadersOf
    <2>5. CASE Parts(t[e])
        <3>1. PICK g \in HeadersOf(t) : e < g /\ g < k
            BY <1>5, <2>1, <2>3, <2>5 DEF Tied
        <3>2. g \in Nat
            BY <1>1 DEF HeadersOf
        <3>3. e - 1 < g
            BY <1>2, <3>1, <3>2
        <3> QED
            BY <3>1, <3>3
    <2> QED
        BY <1>1, <1>2, <2>1, <2>4, <2>5
<1>6. Sealed(t, h, e - 1)
    <2>1. h <= h
        BY <1>1
    <2> QED
        BY <1>3, <1>4, <1>5, <2>1 DEF Sealed
<1>7. e - 1 \in DOMAIN t /\ h <= e - 1
    BY <1>1, <1>2
<1> QED
    BY <1>6, <1>7 DEF e

\* So pruning removes whole tables.
LEMMA PruneDrop ==
    ASSUME NEW Lines, NEW t \in Seq(Lines), Tied(t), NEW c, NEW host
    PROVE  SealedDrop(t, PrunedLines(t, c, host))
<1>. SUFFICES ASSUME NEW d \in PrunedLines(t, c, host)
              PROVE  \E a, z \in DOMAIN t : /\ a <= d /\ d <= z
                                            /\ a .. z \subseteq PrunedLines(t, c, host)
                                            /\ Sealed(t, a, z)
    BY DEF SealedDrop
<1>1. PICK b \in Prunable(t, c, host) : d \in b.start .. b.end - 1
    BY DEF PrunedLines
<1>2. /\ b.start \in DOMAIN t /\ b.end - 1 \in DOMAIN t
      /\ Sealed(t, b.start, b.end - 1)
    BY PrunableMeans, BareTableSealed
<1>3. b.start <= d /\ d <= b.end - 1
    BY <1>1, <1>2
<1>4. b.start .. b.end - 1 \subseteq PrunedLines(t, c, host)
    BY DEF PrunedLines
<1> QED
    BY <1>2, <1>3, <1>4

\* A bare table has no marker in it.
LEMMA PrunedLinesMarkers ==
    ASSUME NEW Lines, NEW t \in Seq(Lines), NEW c, NEW host,
           NEW d \in PrunedLines(t, c, host)
    PROVE  d \in DOMAIN t /\ ~IsMarker(t[d])
<1>1. PICK b \in Prunable(t, c, host) : d \in b.start .. b.end - 1
    BY DEF PrunedLines
<1>. DEFINE h == b.start
            e == b.end
<1>2. h \in DOMAIN t /\ t[h].kind = "hooks" /\ e = EndOfBody(t, h)
    BY PrunableMeans
<1>3. /\ e \in Nat /\ h < e /\ e <= Len(t) + 1
      /\ \A j \in DOMAIN t : h < j /\ j < e => ~Parts(t[j]) /\ ~IsHeader(t[j])
    BY <1>2, EndOfBodyMeans
<1>. HIDE DEF h, e
<1>4. d \in h .. e - 1 /\ h \in Nat \ {0}
    BY <1>1, <1>2 DEF h, e
<1>5. d \in DOMAIN t /\ h <= d /\ d < e
    BY <1>2, <1>3, <1>4
<1>6. CASE d = h
    BY <1>2, <1>5, <1>6 DEF IsMarker
<1>7. CASE d # h
    BY <1>3, <1>4, <1>5, <1>7 DEF Parts
<1> QED
    BY <1>5, <1>6, <1>7

\* A command line in such a table is the command that the table is known by.
LEMMA PrunedCommand ==
    ASSUME NEW Lines, NEW t \in Seq(Lines), Parses(t), NEW c, NEW host,
           NEW b \in Prunable(t, c, host),
           NEW p \in DOMAIN t, p \in b.start .. b.end - 1, IsCommand(t[p])
    PROVE  b.cmd = t[p].cmd
<1>. DEFINE h == b.start
            e == b.end
            body == SubSeq(t, h + 1, e - 1)
<1>2. /\ h \in DOMAIN t /\ t[h].kind = "hooks" /\ e = EndOfBody(t, h)
      /\ b.cmd = LastCommand(body)
    BY PrunableMeans
<1>3. /\ e \in Nat /\ h < e /\ e <= Len(t) + 1
      /\ \A j \in DOMAIN t : h < j /\ j < e => ~Parts(t[j]) /\ ~IsHeader(t[j])
    BY <1>2, EndOfBodyMeans
<1>4. t[p].kind = "command"
    BY DEF IsCommand
<1>5. p \in h .. e - 1
    OBVIOUS
<1>6. Len(t) \in Nat /\ DOMAIN t = 1 .. Len(t)
    OBVIOUS
<1>. HIDE DEF h, e
<1>7. h \in Nat \ {0} /\ h < p /\ p < e /\ p \in Nat
    <2>1. p # h
        BY <1>2, <1>4
    <2> QED
        BY <1>2, <1>3, <1>5, <1>6, <2>1
<1>8. /\ body \in Seq(Lines) /\ DOMAIN body = 1 .. e - 1 - h
      /\ \A x \in 1 .. e - 1 - h : body[x] = t[h + x]
    <2>1. h + 1 \in Nat \ {0} /\ e - 1 \in Nat /\ e - 1 <= Len(t) /\ h + 1 <= e - 1 + 1
        BY <1>3, <1>6, <1>7
    <2>2. (e - 1) - (h + 1) + 1 = e - 1 - h /\ \A x \in 1 .. e - 1 - h : (h + 1) + x - 1 = h + x
        BY <1>3, <1>7
    <2> QED
        BY <2>1, <2>2, SubSeqFacts
<1>9. h \in HeadersOf(t)
    BY <1>2 DEF HeadersOf, IsHeader, Headers
<1>10. ASSUME NEW i \in DOMAIN t, h < i, i < e, IsCommand(t[i]) PROVE i \in TableAt(t, h)
    <2>1. IsKey(t[i])
        BY <1>10 DEF IsKey, IsCommand, Keys
    <2>2. ASSUME NEW g \in HeadersOf(t), g > h PROVE i < g
        <3>1. g \in DOMAIN t /\ IsHeader(t[g]) /\ g \in Nat
            BY <1>6 DEF HeadersOf
        <3>2. ~(g < e)
            BY <1>3, <2>2, <3>1
        <3> QED
            BY <1>3, <1>6, <1>10, <3>1, <3>2
    <2> QED
        BY <1>10, <2>1, <2>2, InTable
<1>11. ASSUME NEW i \in DOMAIN t, h < i, i < e, IsCommand(t[i]) PROVE i = p
    <2>1. i \in TableAt(t, h) /\ p \in TableAt(t, h)
        BY <1>7, <1>10, <1>11
    <2>2. Keys[t[i].kind] = Keys[t[p].kind]
        BY <1>11 DEF IsCommand
    <2> QED
        BY <1>9, <2>1, <2>2, ParsesMeans
<1>12. p - h \in DOMAIN body /\ body[p - h] = t[p]
    BY <1>3, <1>7, <1>8, SMTT(30)
<1>13. ASSUME NEW q \in DOMAIN body, IsCommand(body[q]) PROVE q <= p - h
    <2>1. h + q \in DOMAIN t /\ h < h + q /\ h + q < e /\ body[q] = t[h + q] /\ q \in Nat
        BY <1>3, <1>6, <1>7, <1>8
    <2>2. h + q = p
        BY <1>11, <1>13, <2>1
    <2> QED
        BY <1>7, <2>1, <2>2
<1>14. LastCommand(body) = t[p].cmd
    BY <1>8, <1>12, <1>13, LastCommandMeans
<1> QED
    BY <1>2, <1>14 DEF h, e

\* The command of another host is not among the pruned lines.
LEMMA PrunedLinesOfAnother ==
    ASSUME NEW Lines, NEW t \in Seq(Lines), Parses(t), NEW mine, NEW me, me # None,
           NEW c, OfAnother(c, mine, me),
           NEW p \in DOMAIN t, t[p] = CommandLine(c)
    PROVE  p \notin PrunedLines(t, mine, me)
<1>. SUFFICES ASSUME p \in PrunedLines(t, mine, me) PROVE FALSE
    OBVIOUS
<1>1. PICK b \in Prunable(t, mine, me) : p \in b.start .. b.end - 1
    BY DEF PrunedLines
<1>2. IsCommand(t[p]) /\ t[p].cmd = c
    BY DEF IsCommand, CommandLine, Line
<1>3. b.cmd = c
    BY <1>1, <1>2, PrunedCommand
<1>4. b.cmd = mine \/ me \in {None, HostOfCommand(b.cmd)}
    BY PrunableMeans
<1> QED
    BY <1>3, <1>4 DEF OfAnother

-----------------------------------------------------------------------------
(* Pairs of markers.                                                       *)

\* A BEGIN and the END that closes it.
IsPair(t, i, e) ==
    /\ i \in DOMAIN t /\ e \in DOMAIN t /\ i < e
    /\ t[i].kind = "begin" /\ t[e].kind = "end"
    /\ \A j \in DOMAIN t : i < j /\ j < e => ~IsMarker(t[j])

\* What setup and kimi leave between a pair of markers: at most one command, in
\* the first table there, of the host that the BEGIN names, and no old marker.
TidyPairs(t) ==
    \A i, e, p \in DOMAIN t : IsPair(t, i, e) /\ i < p /\ p < e =>
        /\ t[p].kind \notin {"oldBegin", "oldEnd"}
        /\ IsCommand(t[p]) =>
             /\ \A q \in DOMAIN t : i < q /\ q < e /\ IsCommand(t[q]) => q = p
             /\ \A q \in DOMAIN t : i < q /\ q < p => t[q].kind \notin {"table", "matcher"}
             /\ \A g, q \in DOMAIN t :
                   i < g /\ g < q /\ q < p => ~(t[g].kind = "hooks" /\ t[q].kind = "hooks")
             /\ OursByPath(t[p].cmd) => t[i].host \in {None, t[p].cmd.host}

\* EndOfPair is the END of a pair.
LEMMA PairMeans ==
    ASSUME NEW Lines, NEW t \in Seq(Lines), NEW i \in DOMAIN t
    PROVE  /\ EndOfPair(t, i) # 0 => IsPair(t, i, EndOfPair(t, i))
           /\ \A e : IsPair(t, i, e) => EndOfPair(t, i) = e /\ e # 0
<1>. DEFINE next == {j \in i + 1 .. Len(t) : IsMarker(t[j])}
<1>1. i \in Nat /\ Len(t) \in Nat /\ DOMAIN t = 1 .. Len(t)
    OBVIOUS
<1>2. next \in SUBSET Nat
    BY <1>1
<1>3. next # {} => Min(next) \in next /\ \A x \in next : Min(next) <= x
    BY <1>2, LeastMember
<1>4. EndOfPair(t, i) = IF t[i].kind = "begin" /\ next # {} /\ t[Min(next)].kind = "end"
                        THEN Min(next) ELSE 0
    BY DEF EndOfPair
<1>5. ASSUME EndOfPair(t, i) # 0 PROVE IsPair(t, i, EndOfPair(t, i))
    <2>1. /\ t[i].kind = "begin" /\ next # {} /\ t[Min(next)].kind = "end"
          /\ EndOfPair(t, i) = Min(next)
        BY <1>4, <1>5
    <2>. DEFINE e == Min(next)
    <2>2. e \in i + 1 .. Len(t) /\ \A x \in next : e <= x
        BY <1>3, <2>1
    <2>. HIDE DEF e
    <2>3. ASSUME NEW j \in DOMAIN t, i < j, j < e PROVE ~IsMarker(t[j])
        <3>1. j \in i + 1 .. Len(t) /\ j \in Nat /\ e \in Nat
            BY <1>1, <2>2, <2>3
        <3>2. j \notin next
            BY <2>2, <2>3, <3>1
        <3> QED
            BY <3>1, <3>2
    <2>4. e \in DOMAIN t /\ i < e
        BY <1>1, <2>2
    <2>5. t[e].kind = "end" /\ EndOfPair(t, i) = e
        BY <2>1 DEF e
    <2> QED
        BY <2>1, <2>3, <2>4, <2>5 DEF IsPair
<1>6. ASSUME NEW e, IsPair(t, i, e) PROVE EndOfPair(t, i) = e /\ e # 0
    <2>1. /\ e \in DOMAIN t /\ i < e /\ t[i].kind = "begin" /\ t[e].kind = "end"
          /\ \A j \in DOMAIN t : i < j /\ j < e => ~IsMarker(t[j])
        BY <1>6 DEF IsPair
    <2>2. e \in next
        BY <1>1, <2>1 DEF IsMarker
    <2>3. Min(next) \in next /\ Min(next) <= e
        BY <1>3, <2>2
    <2>. DEFINE m == Min(next)
    <2>4. m \in DOMAIN t /\ i < m /\ IsMarker(t[m]) /\ m \in Nat
        BY <1>1, <2>3
    <2>. HIDE DEF m
    <2>5. ~(m < e)
        BY <2>1, <2>4
    <2>6. m = e
        BY <1>1, <2>1, <2>3, <2>4, <2>5 DEF m
    <2>7. EndOfPair(t, i) = m
        BY <1>4, <2>1, <2>2, <2>6 DEF m
    <2> QED
        BY <1>1, <2>1, <2>6, <2>7
<1> QED
    BY <1>5, <1>6

\* Begins are the BEGINs of pairs.
LEMMA BeginsMeans ==
    ASSUME NEW Lines, NEW t \in Seq(Lines), NEW i \in Begins(t)
    PROVE  IsPair(t, i, EndOfPair(t, i))
BY PairMeans DEF Begins

\* Where only other lines are dropped, the pairs stay what they are.
LEMMA KeepPairs ==
    ASSUME NEW Lines, NEW r \in Seq(Lines), NEW t \in Seq(Lines), NEW kept, NEW f,
           Embeds(r, t, kept, f),
           \A i \in DOMAIN t : IsMarker(t[i]) => i \in kept,
           NEW i, NEW e, IsPair(r, i, e)
    PROVE  IsPair(t, f[i], f[e])
<1>1. /\ i \in DOMAIN r /\ e \in DOMAIN r /\ i < e
      /\ r[i].kind = "begin" /\ r[e].kind = "end"
      /\ \A j \in DOMAIN r : i < j /\ j < e => ~IsMarker(r[j])
    BY DEF IsPair
<1>2. /\ f[i] \in DOMAIN t /\ f[e] \in DOMAIN t /\ f[i] < f[e]
      /\ t[f[i]].kind = "begin" /\ t[f[e]].kind = "end"
    BY <1>1, EmbedsFacts
<1>3. ASSUME NEW x \in DOMAIN t, f[i] < x, x < f[e], IsMarker(t[x]) PROVE FALSE
    <2>1. PICK j \in DOMAIN r : f[j] = x
        BY <1>3, EmbedsFacts
    <2>2. i < j /\ j < e /\ IsMarker(r[j])
        BY <1>1, <1>3, <2>1, EmbedsFacts, SMTT(30)
    <2> QED
        BY <1>1, <2>2
<1> QED
    BY <1>2, <1>3 DEF IsPair

\* A text stays tidy where no marker is dropped.
LEMMA KeepTidyPairs ==
    ASSUME NEW Lines, NEW r \in Seq(Lines), NEW t \in Seq(Lines), NEW kept, NEW f,
           Embeds(r, t, kept, f),
           \A i \in DOMAIN t : IsMarker(t[i]) => i \in kept,
           TidyPairs(t)
    PROVE  TidyPairs(r)
<1>. SUFFICES ASSUME NEW i \in DOMAIN r, NEW e \in DOMAIN r, NEW p \in DOMAIN r,
                     IsPair(r, i, e), i < p, p < e
              PROVE  /\ r[p].kind \notin {"oldBegin", "oldEnd"}
                     /\ IsCommand(r[p]) =>
                          /\ \A q \in DOMAIN r : i < q /\ q < e /\ IsCommand(r[q]) => q = p
                          /\ \A q \in DOMAIN r : i < q /\ q < p =>
                                r[q].kind \notin {"table", "matcher"}
                          /\ \A g, q \in DOMAIN r : i < g /\ g < q /\ q < p =>
                                ~(r[g].kind = "hooks" /\ r[q].kind = "hooks")
                          /\ OursByPath(r[p].cmd) => r[i].host \in {None, r[p].cmd.host}
    BY DEF TidyPairs
<1>1. IsPair(t, f[i], f[e])
    BY KeepPairs
<1>2. /\ \A k \in DOMAIN r : f[k] \in DOMAIN t /\ r[k] = t[f[k]]
      /\ \A j, k \in DOMAIN r : (j < k) <=> (f[j] < f[k])
      /\ \A j, k \in DOMAIN r : f[j] = f[k] => j = k
    BY EmbedsFacts
<1>3. f[i] < f[p] /\ f[p] < f[e] /\ f[i] \in DOMAIN t /\ f[e] \in DOMAIN t /\ f[p] \in DOMAIN t
    BY <1>2
<1>4. /\ t[f[p]].kind \notin {"oldBegin", "oldEnd"}
      /\ IsCommand(t[f[p]]) =>
           /\ \A q \in DOMAIN t : f[i] < q /\ q < f[e] /\ IsCommand(t[q]) => q = f[p]
           /\ \A q \in DOMAIN t : f[i] < q /\ q < f[p] => t[q].kind \notin {"table", "matcher"}
           /\ \A g, q \in DOMAIN t : f[i] < g /\ g < q /\ q < f[p] =>
                 ~(t[g].kind = "hooks" /\ t[q].kind = "hooks")
           /\ OursByPath(t[f[p]].cmd) => t[f[i]].host \in {None, t[f[p]].cmd.host}
    BY <1>1, <1>3 DEF TidyPairs
<1>5. r[p] = t[f[p]] /\ r[i] = t[f[i]]
    BY <1>2
<1>6. ASSUME IsCommand(r[p]), NEW q \in DOMAIN r, i < q, q < e, IsCommand(r[q]) PROVE q = p
    BY <1>2, <1>4, <1>5, <1>6
<1>7. ASSUME IsCommand(r[p]), NEW q \in DOMAIN r, i < q, q < p
      PROVE  r[q].kind \notin {"table", "matcher"}
    BY <1>2, <1>4, <1>5, <1>7
<1>8. ASSUME IsCommand(r[p]), NEW g \in DOMAIN r, NEW q \in DOMAIN r, i < g, g < q, q < p
      PROVE  ~(r[g].kind = "hooks" /\ r[q].kind = "hooks")
    BY <1>2, <1>4, <1>5, <1>8, SMTT(30)
<1> QED
    BY <1>4, <1>5, <1>6, <1>7, <1>8

\* The host that stripManagedBlocks takes the pair at i to be of.
Owner(t, i) ==
    IF t[i].host # None THEN t[i].host
    ELSE HostOfCommand(LastCommand(SubSeq(t, i, EndOfPair(t, i))))
\* The markers without a partner that it removes.
OrphanLines(t, me, all) ==
    {i \in DOMAIN t : /\ IsMarker(t[i])
                      /\ i \notin Begins(t) \cup {EndOfPair(t, j) : j \in Begins(t)}
                      /\ all \/ t[i].host \in {None, me}}
\* The pairs that it removes.
PairLines(t, me, all) ==
    UNION {i .. EndOfPair(t, i) : i \in {i \in Begins(t) : all \/ Owner(t, i) = me}}

\* It removes these lines, and then blank ones.
LEMMA StripManagedMeans ==
    ASSUME NEW t, NEW me, NEW all
    PROVE  StripManaged(t, me, all)
             = Collapsed(Without(t, OrphanLines(t, me, all) \cup PairLines(t, me, all)))
BY DEF StripManaged, OrphanLines, PairLines, Owner

\* A pair holds whole tables.
LEMMA PairSealed ==
    ASSUME NEW Lines, NEW t \in Seq(Lines), Tied(t), NEW i, NEW e, IsPair(t, i, e)
    PROVE  Sealed(t, i, e)
<1>1. /\ i \in DOMAIN t /\ e \in DOMAIN t /\ i < e /\ Parts(t[i]) /\ Parts(t[e])
    BY DEF IsPair, Parts, IsMarker
<1>2. DOMAIN t = 1 .. Len(t) /\ Len(t) \in Nat
    OBVIOUS
<1>3. ASSUME NEW k \in DOMAIN t, i <= k, k <= e, IsKey(t[k])
      PROVE  \E g \in HeadersOf(t) : i <= g /\ g < k
    <2>1. i # k
        BY <1>1, <1>3, PartsIsNoKey
    <2>2. i < k
        BY <1>1, <1>2, <1>3, <2>1
    <2>3. PICK g \in HeadersOf(t) : i < g /\ g < k
        BY <1>1, <1>3, <2>2 DEF Tied
    <2>4. i <= g
        BY <1>1, <1>2, <2>3 DEF HeadersOf
    <2> QED
        BY <2>3, <2>4
<1>4. ASSUME NEW k \in DOMAIN t, e < k, IsKey(t[k])
      PROVE  \E g \in HeadersOf(t) : e < g /\ g < k
    BY <1>1, <1>4 DEF Tied
<1> QED
    BY <1>3, <1>4 DEF Sealed

\* So stripManagedBlocks removes whole tables.
LEMMA ManagedDrop ==
    ASSUME NEW Lines, NEW t \in Seq(Lines), Tied(t), NEW me, NEW all
    PROVE  SealedDrop(t, OrphanLines(t, me, all) \cup PairLines(t, me, all))
<1>. DEFINE D == OrphanLines(t, me, all) \cup PairLines(t, me, all)
<1>. SUFFICES ASSUME NEW d \in D, IsHeader(t[d]) \/ IsKey(t[d])
              PROVE  \E a, z \in DOMAIN t : a <= d /\ d <= z /\ a .. z \subseteq D /\ Sealed(t, a, z)
    BY DEF SealedDrop
<1>1. d \notin OrphanLines(t, me, all)
    BY DEF OrphanLines, IsMarker, IsHeader, IsKey, Headers, Keys
<1>2. PICK i \in Begins(t) : d \in i .. EndOfPair(t, i) /\ (all \/ Owner(t, i) = me)
    BY <1>1 DEF PairLines
<1>3. IsPair(t, i, EndOfPair(t, i))
    BY BeginsMeans
<1>4. i \in DOMAIN t /\ EndOfPair(t, i) \in DOMAIN t
    BY <1>3 DEF IsPair
<1>5. i <= d /\ d <= EndOfPair(t, i)
    BY <1>2, <1>4
<1>6. i .. EndOfPair(t, i) \subseteq D
    BY <1>2 DEF PairLines
<1> QED
    BY <1>3, <1>4, <1>5, <1>6, PairSealed

\* The command of another host is not among the lines that it removes.
LEMMA ManagedLinesOfAnother ==
    ASSUME NEW Lines, NEW t \in Seq(Lines), TidyPairs(t), NEW mine, NEW me, me # None,
           NEW c, OfAnother(c, mine, me),
           NEW p \in DOMAIN t, t[p] = CommandLine(c)
    PROVE  p \notin OrphanLines(t, me, FALSE) \cup PairLines(t, me, FALSE)
<1>1. IsCommand(t[p]) /\ t[p].cmd = c /\ t[p].kind = "command" /\ ~IsMarker(t[p])
    BY DEF IsCommand, CommandLine, Line, IsMarker
<1>2. p \notin OrphanLines(t, me, FALSE)
    BY <1>1 DEF OrphanLines
<1>. SUFFICES ASSUME NEW i \in Begins(t), p \in i .. EndOfPair(t, i), Owner(t, i) = me
              PROVE  FALSE
    BY <1>2 DEF PairLines
<1>. DEFINE e == EndOfPair(t, i)
            body == SubSeq(t, i, e)
<1>3. IsPair(t, i, e)
    BY BeginsMeans
<1>4. /\ i \in DOMAIN t /\ e \in DOMAIN t /\ t[i].kind = "begin" /\ t[e].kind = "end" /\ i < e
    BY <1>3 DEF IsPair
<1>5. Len(t) \in Nat /\ DOMAIN t = 1 .. Len(t)
    OBVIOUS
<1>6. p \in i .. e /\ Owner(t, i) = IF t[i].host # None THEN t[i].host
                                    ELSE HostOfCommand(LastCommand(body))
    BY DEF Owner
<1>. HIDE DEF e
<1>7. i \in Nat \ {0} /\ e \in Nat /\ e <= Len(t) /\ i < p /\ p < e /\ p \in Nat
    <2>1. p # i /\ p # e
        BY <1>1, <1>4
    <2> QED
        BY <1>4, <1>5, <1>6, <2>1
<1>8. /\ \A q \in DOMAIN t : i < q /\ q < e /\ IsCommand(t[q]) => q = p
      /\ t[i].host \in {None, c.host}
    BY <1>1, <1>3, <1>4, <1>7 DEF TidyPairs, OfAnother
<1>9. /\ body \in Seq(Lines) /\ DOMAIN body = 1 .. e - i + 1
      /\ \A x \in 1 .. e - i + 1 : body[x] = t[i + x - 1]
    <2>1. i <= e + 1
        BY <1>7
    <2> QED
        BY <1>7, <2>1, SubSeqFacts
<1>10. p - i + 1 \in DOMAIN body /\ body[p - i + 1] = t[p]
    <2>1. p - i + 1 \in 1 .. e - i + 1 /\ i + (p - i + 1) - 1 = p
        BY <1>7
    <2> QED
        BY <1>9, <2>1
<1>11. ASSUME NEW q \in DOMAIN body, IsCommand(body[q]) PROVE q <= p - i + 1
    <2>1. q \in Nat /\ i + q - 1 \in DOMAIN t /\ body[q] = t[i + q - 1] /\ i <= i + q - 1 /\ i + q - 1 <= e
        BY <1>5, <1>7, <1>9
    <2>2. i + q - 1 # i /\ i + q - 1 # e
        BY <1>4, <1>11, <2>1 DEF IsCommand
    <2>3. i < i + q - 1 /\ i + q - 1 < e
        BY <1>7, <2>1, <2>2
    <2>4. i + q - 1 = p
        BY <1>8, <1>11, <2>1, <2>3
    <2> QED
        BY <1>7, <2>1, <2>4
<1>12. LastCommand(body) = c
    BY <1>1, <1>9, <1>10, <1>11, LastCommandMeans
<1> QED
    BY <1>6, <1>8, <1>12 DEF OfAnother

\* No marker of the old kind is dropped.
LEMMA ManagedLinesOldMarkers ==
    ASSUME NEW Lines, NEW t \in Seq(Lines), TidyPairs(t), NEW me, NEW all,
           NEW d \in OrphanLines(t, me, all) \cup PairLines(t, me, all)
    PROVE  t[d].kind \notin {"oldBegin", "oldEnd"}
<1>1. CASE d \in OrphanLines(t, me, all)
    BY <1>1 DEF OrphanLines, IsMarker
<1>2. CASE d \in PairLines(t, me, all)
    <2>1. PICK i \in Begins(t) : d \in i .. EndOfPair(t, i)
        BY <1>2 DEF PairLines
    <2>. DEFINE e == EndOfPair(t, i)
    <2>2. IsPair(t, i, e)
        BY BeginsMeans
    <2>3. i \in DOMAIN t /\ e \in DOMAIN t /\ t[i].kind = "begin" /\ t[e].kind = "end"
        BY <2>2 DEF IsPair
    <2>4. d \in i .. e
        BY <2>1
    <2>. HIDE DEF e
    <2>5. CASE d = i \/ d = e
        BY <2>3, <2>5
    <2>6. CASE d # i /\ d # e
        <3>1. d \in DOMAIN t /\ i < d /\ d < e
            BY <2>3, <2>4, <2>6
        <3> QED
            BY <2>2, <2>3, <3>1 DEF TidyPairs
    <2> QED
        BY <2>5, <2>6
<1> QED
    BY <1>1, <1>2

\* Old markers stay labelled where none is dropped.
LEMMA KeepOldLabelled ==
    ASSUME NEW Lines, NEW r \in Seq(Lines), NEW t \in Seq(Lines), NEW kept, NEW f,
           Embeds(r, t, kept, f), OldLabelled(t),
           \A i \in DOMAIN t : t[i].kind \in {"oldBegin", "oldEnd"} => i \in kept
    PROVE  OldLabelled(r)
<1>. SUFFICES ASSUME NEW i \in DOMAIN r, NEW p \in DOMAIN r, i < p, r[i].kind = "oldBegin",
                     IsCommand(r[p]), OursByPath(r[p].cmd), r[i].host \notin {None, r[p].cmd.host}
              PROVE  \E j \in DOMAIN r : i < j /\ j < p /\ r[j].kind \in {"oldBegin", "oldEnd"}
    BY DEF OldLabelled
<1>1. /\ f[i] \in DOMAIN t /\ f[p] \in DOMAIN t /\ f[i] < f[p]
      /\ r[i] = t[f[i]] /\ r[p] = t[f[p]]
    BY EmbedsFacts
<1>2. PICK x \in DOMAIN t : f[i] < x /\ x < f[p] /\ t[x].kind \in {"oldBegin", "oldEnd"}
    BY <1>1 DEF OldLabelled
<1>3. PICK j \in DOMAIN r : f[j] = x
    BY <1>2, EmbedsFacts, SMTT(30)
<1>4. r[j] = t[x]
    BY <1>3, EmbedsFacts
<1>5. i < j /\ j < p
    BY <1>2, <1>3, EmbedsFacts
<1> QED
    BY <1>2, <1>4, <1>5

-----------------------------------------------------------------------------
(* The removals of setup keep the hook of another host.                    *)

\* Both hold after a removal that drops no marker of their kind.
LEMMA CollapseKeepsTidy ==
    ASSUME NEW Lines, NEW t \in Seq(Lines), NEW dropped
    PROVE  LET r == Collapsed(Without(t, dropped))
           IN /\ (\A i \in DOMAIN t \cap dropped : ~IsMarker(t[i])) /\ TidyPairs(t)
                 => TidyPairs(r)
              /\ (\A i \in DOMAIN t \cap dropped : t[i].kind \notin {"oldBegin", "oldEnd"})
                 /\ OldLabelled(t) => OldLabelled(r)
<1>. DEFINE s == Without(t, dropped)
            twice == BlanksTwice(s)
            r == Without(s, twice)
<1>1. Collapsed(s) = r
    BY DEF Collapsed, BlanksTwice
<1>2. s \in Seq(Lines) /\ \E f : Embeds(s, t, DOMAIN t \ dropped, f)
    BY WithoutEmbeds
<1>3. PICK f : Embeds(s, t, DOMAIN t \ dropped, f)
    BY <1>2
<1>. HIDE DEF s
<1>4. \A i \in DOMAIN s \cap twice : ~IsMarker(s[i]) /\ s[i].kind \notin {"oldBegin", "oldEnd"}
    BY DEF BlanksTwice, IsMarker
<1>. HIDE DEF twice
<1>5. r \in Seq(Lines) /\ \E g : Embeds(r, s, DOMAIN s \ twice, g)
    BY <1>2, WithoutEmbeds
<1>6. PICK g : Embeds(r, s, DOMAIN s \ twice, g)
    BY <1>5
<1>. HIDE DEF r
<1>7. ASSUME \A i \in DOMAIN t \cap dropped : ~IsMarker(t[i]), TidyPairs(t) PROVE TidyPairs(r)
    <2>1. TidyPairs(s)
        BY <1>2, <1>3, <1>7, KeepTidyPairs
    <2> QED
        BY <1>2, <1>4, <1>5, <1>6, <2>1, KeepTidyPairs
<1>8. ASSUME \A i \in DOMAIN t \cap dropped : t[i].kind \notin {"oldBegin", "oldEnd"},
             OldLabelled(t)
      PROVE  OldLabelled(r)
    <2>1. OldLabelled(s)
        BY <1>2, <1>3, <1>8, KeepOldLabelled
    <2> QED
        BY <1>2, <1>4, <1>5, <1>6, <2>1, KeepOldLabelled
<1> QED
    BY <1>1, <1>7, <1>8 DEF s, r

\* What a step of setup keeps of a text in which kimi runs the hook c.
Kept(Lines, r, c, knows) ==
    /\ r \in Seq(Lines) /\ Tied(r) /\ ValidHookSet(r, knows)
    /\ \E h \in DOMAIN r : FiresAt(r, h, c)

\* A removal of whole tables without the command c keeps c running.
LEMMA DropOfOthersKeeps ==
    ASSUME NEW Lines, NEW t, NEW c, NEW knows, Kept(Lines, t, c, knows),
           NEW dropped, SealedDrop(t, dropped),
           \A p \in DOMAIN t : t[p] = CommandLine(c) => p \notin dropped
    PROVE  Kept(Lines, Collapsed(Without(t, dropped)), c, knows)
<1>1. t \in Seq(Lines) /\ Tied(t) /\ ValidHookSet(t, knows)
    BY DEF Kept
<1>2. PICK h \in DOMAIN t : FiresAt(t, h, c)
    BY DEF Kept
<1>3. PICK p \in TableAt(t, h) : t[p] = CommandLine(c)
    BY <1>2 DEF FiresAt, Entry, EntryAmong, TableAt
<1>4. h \in HeadersOf(t)
    BY <1>2 DEF FiresAt, HeadersOf, IsHeader, Headers
<1>5. h \notin dropped
    <2>1. Closed(t, DOMAIN t \ (DOMAIN t \ dropped))
        BY <1>1, SealedIsClosed
    <2>2. p \in DOMAIN t /\ p \notin dropped
        BY <1>3, InTable
    <2> QED
        BY <1>2, <1>3, <1>4, <2>1, <2>2 DEF Closed
<1>. DEFINE r == Collapsed(Without(t, dropped))
<1>6. /\ r \in Seq(Lines) /\ Tied(r) /\ ValidHookSet(r, knows)
      /\ \A b : \A g \in DOMAIN t \ dropped :
            FiresAt(t, g, b) => \E k \in DOMAIN r : FiresAt(r, k, b)
    BY <1>1, DropCollapseKeeps
<1>. HIDE DEF r
<1>7. \E k \in DOMAIN r : FiresAt(r, k, c)
    BY <1>2, <1>5, <1>6
<1> QED
    BY <1>6, <1>7 DEF Kept, r

\* So does stripLegacyBrandBlocks,
LEMMA StripOldKeeps ==
    ASSUME NEW Lines, NEW t, NEW c, NEW knows, Kept(Lines, t, c, knows),
           NEW mine, NEW me, me # None, OfAnother(c, mine, me), OldLabelled(t)
    PROVE  /\ Kept(Lines, StripOld(t, mine, me), c, knows)
           /\ TidyPairs(t) => TidyPairs(StripOld(t, mine, me))
<1>. DEFINE D == OldLines(t, mine, me)
<1>1. t \in Seq(Lines)
    BY DEF Kept
<1>2. StripOld(t, mine, me) = IF OldRemoved(t, mine, me) = {} THEN t
                              ELSE Collapsed(Without(t, D))
    BY DEF StripOld, OldStripped, OldLines
<1>3. SealedDrop(t, D) /\ \A p \in DOMAIN t : t[p] = CommandLine(c) => p \notin D
    BY <1>1, OldDrop, OldLinesOfAnother
<1>4. \A i \in DOMAIN t \cap D : ~IsMarker(t[i])
    BY <1>1, OldLinesMarkers
<1>. HIDE DEF D
<1>5. Kept(Lines, Collapsed(Without(t, D)), c, knows)
    BY <1>3, DropOfOthersKeeps
<1>6. TidyPairs(t) => TidyPairs(Collapsed(Without(t, D)))
    BY <1>1, <1>4, CollapseKeepsTidy
<1> QED
    BY <1>2, <1>5, <1>6

\* the pruning of bare tables,
LEMMA PruneKeeps ==
    ASSUME NEW Lines, NEW t, NEW c, NEW knows, Kept(Lines, t, c, knows),
           NEW mine, NEW me, me # None, OfAnother(c, mine, me)
    PROVE  /\ Kept(Lines, Prune(t, mine, me), c, knows)
           /\ TidyPairs(t) => TidyPairs(Prune(t, mine, me))
<1>. DEFINE D == PrunedLines(t, mine, me)
<1>1. t \in Seq(Lines) /\ Tied(t) /\ Parses(t)
    BY DEF Kept, ValidHookSet
<1>2. Prune(t, mine, me) = IF Prunable(t, mine, me) = {} THEN t
                           ELSE Collapsed(Without(t, D))
    BY DEF Prune, PrunedLines
<1>3. SealedDrop(t, D) /\ \A p \in DOMAIN t : t[p] = CommandLine(c) => p \notin D
    BY <1>1, PruneDrop, PrunedLinesOfAnother
<1>4. \A i \in DOMAIN t \cap D : ~IsMarker(t[i])
    BY <1>1, PrunedLinesMarkers
<1>. HIDE DEF D
<1>5. Kept(Lines, Collapsed(Without(t, D)), c, knows)
    BY <1>3, DropOfOthersKeeps
<1>6. TidyPairs(t) => TidyPairs(Collapsed(Without(t, D)))
    BY <1>1, <1>4, CollapseKeepsTidy
<1> QED
    BY <1>2, <1>5, <1>6

\* and stripManagedBlocks.
LEMMA StripManagedKeeps ==
    ASSUME NEW Lines, NEW t, NEW c, NEW knows, Kept(Lines, t, c, knows),
           NEW mine, NEW me, me # None, OfAnother(c, mine, me), TidyPairs(t)
    PROVE  /\ Kept(Lines, StripManaged(t, me, FALSE), c, knows)
           /\ OldLabelled(t) => OldLabelled(StripManaged(t, me, FALSE))
<1>. DEFINE D == OrphanLines(t, me, FALSE) \cup PairLines(t, me, FALSE)
<1>1. t \in Seq(Lines) /\ Tied(t)
    BY DEF Kept
<1>2. StripManaged(t, me, FALSE) = Collapsed(Without(t, D))
    BY StripManagedMeans
<1>3. SealedDrop(t, D) /\ \A p \in DOMAIN t : t[p] = CommandLine(c) => p \notin D
    BY <1>1, ManagedDrop, ManagedLinesOfAnother
<1>4. \A i \in DOMAIN t \cap D : t[i].kind \notin {"oldBegin", "oldEnd"}
    BY <1>1, ManagedLinesOldMarkers
<1>. HIDE DEF D
<1>5. Kept(Lines, Collapsed(Without(t, D)), c, knows)
    BY <1>3, DropOfOthersKeeps
<1>6. OldLabelled(t) => OldLabelled(Collapsed(Without(t, D)))
    BY <1>1, <1>4, CollapseKeepsTidy
<1> QED
    BY <1>2, <1>5, <1>6

-----------------------------------------------------------------------------
(* A block takes the place of some lines.                                  *)

\* The lines a .. b of a text give way to a block; none if b = a - 1.
Replaced(r, t, a, b, block) ==
    /\ a \in Nat \ {0} /\ b \in Nat /\ a - 1 <= b /\ b <= Len(t)
    /\ Len(r) = Len(t) - (b - a + 1) + Len(block)
    /\ \A k \in 1 .. a - 1 : r[k] = t[k]
    /\ \A j \in 1 .. Len(block) : r[a - 1 + j] = block[j]
    /\ \A k \in b + 1 .. Len(t) : r[k - (b - a + 1) + Len(block)] = t[k]

\* No key of a block belongs to a table outside it.
OpensTables(block) ==
    \A j \in DOMAIN block : IsKey(block[j]) => \E g \in DOMAIN block : g < j /\ IsHeader(block[g])

\* Tables above the replaced lines keep their keys.
LEMMA ReplacedAbove ==
    ASSUME NEW Lines, NEW t \in Seq(Lines), NEW r \in Seq(Lines), NEW block \in Seq(Lines),
           NEW a, NEW b, Replaced(r, t, a, b, block), OpensTables(block), Sealed(t, a, b),
           NEW h \in HeadersOf(t) \cup {0}, h < a
    PROVE  /\ \A j : j \in TableAt(r, h) <=> j \in TableAt(t, h)
           /\ \A j \in TableAt(t, h) : j \in 1 .. a - 1
<1>. DEFINE n == Len(block)
            w == b - a + 1
<1>1. /\ Len(t) \in Nat /\ Len(r) \in Nat /\ n \in Nat
      /\ DOMAIN t = 1 .. Len(t) /\ DOMAIN r = 1 .. Len(r) /\ DOMAIN block = 1 .. n
    OBVIOUS
<1>2. /\ a \in Nat \ {0} /\ b \in Nat /\ a - 1 <= b /\ b <= Len(t)
      /\ Len(r) = Len(t) - w + n
      /\ \A k \in 1 .. a - 1 : r[k] = t[k]
      /\ \A j \in 1 .. n : r[a - 1 + j] = block[j]
      /\ \A k \in b + 1 .. Len(t) : r[k - w + n] = t[k]
    BY DEF Replaced
<1>3. w \in Nat /\ w = b - a + 1
    BY <1>2
<1>. HIDE DEF n, w
<1>4. h \in Nat
    BY <1>1 DEF HeadersOf
<1>5. ASSUME NEW j \in TableAt(t, h) PROVE j \in 1 .. a - 1
    <2>1. j \in DOMAIN t /\ j > h /\ IsKey(t[j]) /\ \A g \in HeadersOf(t) : g > h => j < g
        BY InTable
    <2>2. ASSUME a <= j, j <= b PROVE FALSE
        <3>1. PICK g \in HeadersOf(t) : a <= g /\ g < j
            BY <2>1, <2>2 DEF Sealed
        <3>2. g \in Nat
            BY <1>1 DEF HeadersOf
        <3> QED
            BY <1>1, <1>2, <1>4, <2>1, <3>1, <3>2
    <2>3. ASSUME b < j PROVE FALSE
        <3>1. PICK g \in HeadersOf(t) : b < g /\ g < j
            BY <2>1, <2>3 DEF Sealed
        <3>2. g \in Nat
            BY <1>1 DEF HeadersOf
        <3> QED
            BY <1>1, <1>2, <1>4, <2>1, <3>1, <3>2
    <2> QED
        BY <1>1, <1>2, <2>1, <2>2, <2>3
<1>6. ASSUME NEW j \in TableAt(t, h) PROVE j \in TableAt(r, h)
    <2>1. j \in DOMAIN t /\ j > h /\ IsKey(t[j]) /\ \A g \in HeadersOf(t) : g > h => j < g
        BY InTable
    <2>2. j \in 1 .. a - 1
        BY <1>5
    <2>3. j \in DOMAIN r /\ r[j] = t[j]
        BY <1>1, <1>2, <1>3, <2>2
    <2>4. ASSUME NEW g \in HeadersOf(r), g > h PROVE j < g
        <3>1. g \in Nat \ {0} /\ IsHeader(r[g])
            BY <1>1 DEF HeadersOf
        <3>2. CASE g >= a
            BY <1>2, <2>2, <3>1, <3>2
        <3>3. CASE g < a
            <4>1. g \in 1 .. a - 1 /\ r[g] = t[g] /\ g \in DOMAIN t
                BY <1>1, <1>2, <3>1, <3>3
            <4>2. g \in HeadersOf(t)
                BY <3>1, <4>1 DEF HeadersOf
            <4> QED
                BY <2>1, <2>4, <4>2
        <3> QED
            BY <1>2, <3>1, <3>2, <3>3
    <2> QED
        BY <2>1, <2>3, <2>4, InTable
<1>7. ASSUME NEW j \in TableAt(r, h) PROVE j \in TableAt(t, h)
    <2>1. j \in DOMAIN r /\ j > h /\ IsKey(r[j]) /\ \A g \in HeadersOf(r) : g > h => j < g
        BY InTable
    <2>2. j \in Nat \ {0} /\ j <= Len(r)
        BY <1>1, <2>1
    <2>3. ASSUME a <= j, j <= a - 1 + n PROVE FALSE
        <3>1. j - a + 1 \in 1 .. n /\ a - 1 + (j - a + 1) = j
            BY <1>1, <1>2, <2>2, <2>3
        <3>2. r[j] = block[j - a + 1]
            BY <1>2, <3>1
        <3>3. PICK g \in 1 .. n : g < j - a + 1 /\ IsHeader(block[g])
            BY <1>1, <2>1, <3>1, <3>2 DEF OpensTables
        <3>4. r[a - 1 + g] = block[g] /\ a - 1 + g \in DOMAIN r /\ a - 1 + g > h /\ a - 1 + g < j
            <4>1. r[a - 1 + g] = block[g]
                BY <1>2, <3>3
            <4>2. g \in Nat \ {0} /\ g <= n
                BY <1>1, <3>3
            <4>3. a - 1 + g \in 1 .. Len(r)
                BY <1>1, <1>2, <1>3, <4>2
            <4>4. a - 1 + g > h /\ a - 1 + g < j
                BY <1>2, <1>4, <2>2, <3>3, <4>2
            <4> QED BY <1>1, <4>1, <4>3, <4>4
        <3>5. a - 1 + g \in HeadersOf(r)
            BY <3>3, <3>4 DEF HeadersOf
        <3>6. j < a - 1 + g
            BY <2>1, <3>4, <3>5
        <3>7. a - 1 + g \in Nat
            BY <1>2
        <3> QED
            BY <2>2, <3>4, <3>6, <3>7
    <2>4. ASSUME a - 1 + n < j PROVE FALSE
        <3>. DEFINE k == j + w - n
        <3>1. k \in b + 1 .. Len(t) /\ k - w + n = j
            BY <1>1, <1>2, <1>3, <2>2, <2>4
        <3>. HIDE DEF k
        <3>2. r[j] = t[k] /\ k \in DOMAIN t /\ b < k /\ k \in Nat
            <4>1. r[k - w + n] = t[k]
                BY <1>2, <3>1
            <4>2. r[j] = t[k]
                BY <3>1, <4>1
            <4> QED
                BY <1>1, <1>2, <3>1, <4>2
        <3>3. PICK g \in HeadersOf(t) : b < g /\ g < k
            BY <2>1, <3>2 DEF Sealed
        <3>4. g \in b + 1 .. Len(t) /\ IsHeader(t[g]) /\ g \in Nat
            BY <1>1, <1>2, <3>3 DEF HeadersOf
        <3>5. r[g - w + n] = t[g]
            BY <1>2, <3>4
        <3>6. g - w + n \in DOMAIN r /\ g - w + n > h /\ g - w + n < j
            BY <1>1, <1>2, <1>3, <1>4, <2>2, <3>1, <3>2, <3>3, <3>4, SMTT(30)
        <3>7. g - w + n \in HeadersOf(r)
            BY <3>4, <3>5, <3>6 DEF HeadersOf
        <3>8. j < g - w + n
            BY <2>1, <3>6, <3>7
        <3>9. g - w + n \in Nat
            BY <1>1, <3>6
        <3> QED
            BY <2>2, <3>6, <3>8, <3>9
    <2>5. j \in 1 .. a - 1
        BY <1>1, <1>2, <2>2, <2>3, <2>4
    <2>6. r[j] = t[j] /\ j \in DOMAIN t
        BY <1>1, <1>2, <2>5
    <2>7. ASSUME NEW g \in HeadersOf(t), g > h PROVE j < g
        <3>1. g \in Nat \ {0} /\ IsHeader(t[g])
            BY <1>1 DEF HeadersOf
        <3>2. CASE g >= a
            BY <1>2, <2>5, <3>1, <3>2
        <3>3. CASE g < a
            <4>1. g \in 1 .. a - 1
                BY <1>2, <3>1, <3>3
            <4>2. r[g] = t[g] /\ g \in DOMAIN r
                BY <1>1, <1>2, <1>3, <4>1
            <4>3. g \in HeadersOf(r)
                BY <3>1, <4>2 DEF HeadersOf
            <4> QED
                BY <2>1, <2>7, <4>3
        <3> QED
            BY <1>2, <3>1, <3>2, <3>3
    <2> QED
        BY <2>1, <2>6, <2>7, InTable
<1> QED
    BY <1>5, <1>6, <1>7

\* So do those below.
LEMMA ReplacedBelow ==
    ASSUME NEW Lines, NEW t \in Seq(Lines), NEW r \in Seq(Lines), NEW block \in Seq(Lines),
           NEW a, NEW b, Replaced(r, t, a, b, block),
           NEW h \in HeadersOf(t), b < h
    PROVE  LET d == Len(block) - (b - a + 1)
           IN /\ h + d \in HeadersOf(r) /\ r[h + d] = t[h]
              /\ \A j : j \in TableAt(t, h) => j + d \in TableAt(r, h + d) /\ r[j + d] = t[j]
              /\ \A j : j \in TableAt(r, h + d) => j - d \in TableAt(t, h) /\ r[j] = t[j - d]
<1>. DEFINE n == Len(block)
            d == n - (b - a + 1)
<1>1. /\ Len(t) \in Nat /\ Len(r) \in Nat /\ n \in Nat
      /\ DOMAIN t = 1 .. Len(t) /\ DOMAIN r = 1 .. Len(r) /\ DOMAIN block = 1 .. n
    OBVIOUS
<1>2. /\ a \in Nat \ {0} /\ b \in Nat /\ a - 1 <= b /\ b <= Len(t)
      /\ Len(r) = Len(t) - (b - a + 1) + n
      /\ \A k \in b + 1 .. Len(t) : r[k - (b - a + 1) + n] = t[k]
    BY DEF Replaced
<1>3. /\ d \in Int /\ Len(r) = Len(t) + d /\ b + d = a - 1 + n
      /\ \A k \in b + 1 .. Len(t) : r[k + d] = t[k]
    <2>1. \A k \in b + 1 .. Len(t) : k + d = k - (b - a + 1) + n
        BY <1>1, <1>2
    <2> QED
        BY <1>1, <1>2, <2>1
<1>. HIDE DEF n, d
<1>4. h \in Nat /\ h \in b + 1 .. Len(t) /\ IsHeader(t[h])
    BY <1>1, <1>2 DEF HeadersOf
<1>5. ASSUME NEW k \in b + 1 .. Len(t) PROVE k + d \in DOMAIN r /\ r[k + d] = t[k] /\ k \in Nat
    BY <1>1, <1>2, <1>3
<1>6. h + d \in HeadersOf(r) /\ r[h + d] = t[h] /\ h + d \in Nat
    BY <1>1, <1>4, <1>5 DEF HeadersOf
<1>7. ASSUME NEW k \in DOMAIN r, k > h + d
      PROVE  k - d \in b + 1 .. Len(t) /\ r[k] = t[k - d] /\ k \in Nat /\ k - d \in DOMAIN t
    <2>1. k \in Nat /\ k - d \in b + 1 .. Len(t) /\ (k - d) + d = k
        BY <1>1, <1>2, <1>3, <1>4, <1>7, SMTT(30)
    <2>2. r[(k - d) + d] = t[k - d]
        BY <1>5, <2>1
    <2>3. r[k] = t[k - d]
        BY <2>1, <2>2
    <2> QED
        BY <1>1, <1>2, <2>1, <2>3
<1>8. ASSUME NEW j \in TableAt(t, h) PROVE j + d \in TableAt(r, h + d) /\ r[j + d] = t[j]
    <2>1. j \in DOMAIN t /\ j > h /\ IsKey(t[j]) /\ \A g \in HeadersOf(t) : g > h => j < g
        BY InTable
    <2>2. j \in b + 1 .. Len(t)
        BY <1>1, <1>2, <1>4, <2>1
    <2>3. j + d \in DOMAIN r /\ r[j + d] = t[j] /\ j + d > h + d /\ j \in Nat
        BY <1>3, <1>4, <1>5, <2>1, <2>2
    <2>4. ASSUME NEW g \in HeadersOf(r), g > h + d PROVE j + d < g
        <3>1. g \in DOMAIN r /\ IsHeader(r[g])
            BY DEF HeadersOf
        <3>2. g - d \in DOMAIN t /\ r[g] = t[g - d] /\ g \in Nat
            BY <1>7, <2>4, <3>1
        <3>3. g - d \in HeadersOf(t)
            BY <3>1, <3>2 DEF HeadersOf
        <3>4. g - d > h
            BY <1>3, <1>4, <2>4, <3>2
        <3>5. j < g - d
            BY <2>1, <3>3, <3>4
        <3> QED
            BY <1>3, <2>3, <3>2, <3>5
    <2> QED
        BY <2>1, <2>3, <2>4, InTable
<1>9. ASSUME NEW j \in TableAt(r, h + d) PROVE j - d \in TableAt(t, h) /\ r[j] = t[j - d]
    <2>1. /\ j \in DOMAIN r /\ j > h + d /\ IsKey(r[j])
          /\ \A g \in HeadersOf(r) : g > h + d => j < g
        BY InTable
    <2>2. j - d \in DOMAIN t /\ r[j] = t[j - d] /\ j \in Nat
        BY <1>7, <2>1
    <2>3. j - d > h
        BY <1>3, <1>4, <2>1, <2>2
    <2>4. ASSUME NEW g \in HeadersOf(t), g > h PROVE j - d < g
        <3>1. g \in b + 1 .. Len(t) /\ IsHeader(t[g])
            BY <1>1, <1>2, <1>4, <2>4 DEF HeadersOf
        <3>2. g + d \in DOMAIN r /\ r[g + d] = t[g] /\ g \in Nat
            BY <1>5, <3>1
        <3>3. g + d \in HeadersOf(r) /\ g + d > h + d
            BY <1>3, <1>4, <2>4, <3>1, <3>2 DEF HeadersOf
        <3>4. j < g + d
            BY <2>1, <3>3
        <3> QED
            BY <1>3, <2>2, <3>2, <3>4
    <2> QED
        BY <2>1, <2>2, <2>3, <2>4, InTable
<1> QED
    BY <1>6, <1>8, <1>9 DEF d, n

\* So kimi still runs what it ran by virtue of a table elsewhere.
LEMMA ReplacedFires ==
    ASSUME NEW Lines, NEW t \in Seq(Lines), NEW r \in Seq(Lines), NEW block \in Seq(Lines),
           NEW a, NEW b, Replaced(r, t, a, b, block), OpensTables(block), Sealed(t, a, b),
           NEW c, NEW h \in DOMAIN t, h \notin a .. b, FiresAt(t, h, c)
    PROVE  \E k \in DOMAIN r : FiresAt(r, k, c)
<1>1. h \in HeadersOf(t) /\ h \in Nat /\ a \in Nat \ {0} /\ b \in Nat /\ a - 1 <= b
    BY DEF FiresAt, HeadersOf, IsHeader, Headers, Replaced
<1>2. \A x, y : Entry(x, y) = {x[i] : i \in TableAt(x, y)}
    BY DEF Entry, EntryAmong, TableAt
<1>3. CASE h < a
    <2>1. /\ \A j : j \in TableAt(r, h) <=> j \in TableAt(t, h)
          /\ \A j \in TableAt(t, h) : j \in 1 .. a - 1
        BY <1>1, <1>3, ReplacedAbove
    <2>2. \A k \in 1 .. a - 1 : r[k] = t[k]
        BY DEF Replaced
    <2>3. TableAt(r, h) = TableAt(t, h)
        BY <2>1
    <2>4. Entry(r, h) = Entry(t, h)
        BY <1>2, <2>1, <2>2, <2>3
    <2>5. h \in 1 .. a - 1 /\ h <= Len(r)
        BY <1>1, <1>3 DEF Replaced
    <2>6. r[h] = t[h] /\ h \in DOMAIN r
        BY <2>2, <2>5
    <2> QED
        BY <2>4, <2>6 DEF FiresAt
<1>4. CASE b < h
    <2>. DEFINE d == Len(block) - (b - a + 1)
    <2>1. /\ h + d \in HeadersOf(r) /\ r[h + d] = t[h]
          /\ \A j : j \in TableAt(t, h) => j + d \in TableAt(r, h + d) /\ r[j + d] = t[j]
          /\ \A j : j \in TableAt(r, h + d) => j - d \in TableAt(t, h) /\ r[j] = t[j - d]
        BY <1>1, <1>4, ReplacedBelow
    <2>. HIDE DEF d
    <2>2. Entry(r, h + d) = Entry(t, h)
        BY <1>2, <2>1, ZenonT(40)
    <2> QED
        BY <2>1, <2>2 DEF FiresAt, HeadersOf
<1> QED
    BY <1>1, <1>3, <1>4

\* The lines of two texts in a row.
LEMMA ConcatFacts ==
    ASSUME NEW Lines, NEW p \in Seq(Lines), NEW q \in Seq(Lines)
    PROVE  /\ p \o q \in Seq(Lines) /\ Len(p \o q) = Len(p) + Len(q)
           /\ \A k \in 1 .. Len(p) : (p \o q)[k] = p[k]
           /\ \A k \in 1 .. Len(q) : (p \o q)[Len(p) + k] = q[k]
OBVIOUS

\* Splicing a block replaces the lines of the old one.
LEMMA SpliceReplaces ==
    ASSUME NEW Lines, NEW t \in Seq(Lines), NEW block \in Seq(Lines),
           NEW b, b.begin \in DOMAIN t, b.end \in DOMAIN t, b.begin <= b.end
    PROVE  /\ Splice(t, b, block) \in Seq(Lines)
           /\ Replaced(Splice(t, b, block), t, b.begin, b.end, block)
<1>. DEFINE x == b.begin
            y == b.end
            n == Len(block)
            top == SubSeq(t, 1, x - 1)
            low == SubSeq(t, y + 1, Len(t))
            r == top \o block \o low
<1>1. Splice(t, b, block) = r
    BY DEF Splice
<1>2. x \in DOMAIN t /\ y \in DOMAIN t /\ x <= y /\ n \in Nat
    OBVIOUS
<1>. HIDE DEF x, y
<1>3. x \in Nat \ {0} /\ y \in Nat /\ y <= Len(t) /\ Len(t) \in Nat /\ x <= Len(t)
    BY <1>2
<1>4. top \in Seq(Lines) /\ Len(top) = x - 1 /\ \A k \in 1 .. x - 1 : top[k] = t[k]
    <2>1. x - 1 \in Nat /\ x - 1 <= Len(t) /\ 1 <= x - 1 + 1 /\ (x - 1) - 1 + 1 = x - 1
        BY <1>3
    <2>2. \A k \in 1 .. x - 1 : 1 + k - 1 = k
        OBVIOUS
    <2> QED
        BY <2>1, <2>2, SubSeqFacts
<1>5. /\ low \in Seq(Lines) /\ Len(low) = Len(t) - y
      /\ \A k \in 1 .. Len(t) - y : low[k] = t[y + k]
    <2>1. y + 1 \in Nat \ {0} /\ y + 1 <= Len(t) + 1 /\ Len(t) <= Len(t)
          /\ Len(t) - (y + 1) + 1 = Len(t) - y
        BY <1>3
    <2>2. /\ low \in Seq(Lines) /\ Len(low) = Len(t) - (y + 1) + 1
          /\ \A k \in 1 .. Len(t) - (y + 1) + 1 : low[k] = t[(y + 1) + k - 1]
        <3>. DEFINE m == y + 1
                    z == Len(t)
        <3>1. m \in Nat \ {0} /\ z \in Nat /\ z <= Len(t) /\ m <= z + 1
            BY <1>3, <2>1
        <3>. HIDE DEF m, z
        <3>2. /\ SubSeq(t, m, z) \in Seq(Lines) /\ Len(SubSeq(t, m, z)) = z - m + 1
              /\ \A k \in 1 .. z - m + 1 : SubSeq(t, m, z)[k] = t[m + k - 1]
            BY <3>1, SubSeqFacts
        <3> QED
            BY <3>2 DEF m, z
    <2>3. \A k \in 1 .. Len(t) - y : (y + 1) + k - 1 = y + k
        BY <1>3
    <2> QED
        BY <2>1, <2>2, <2>3
<1>. HIDE DEF top, low, n
<1>6. /\ r \in Seq(Lines) /\ Len(r) = (x - 1) + n + (Len(t) - y)
      /\ \A k \in 1 .. x - 1 : r[k] = top[k]
      /\ \A j \in 1 .. n : r[x - 1 + j] = block[j]
      /\ \A k \in 1 .. Len(t) - y : r[x - 1 + n + k] = low[k]
    <2>. DEFINE s == top \o block
    <2>1. Len(block) = n /\ n \in Nat
        BY <1>2 DEF n
    <2>2. /\ s \in Seq(Lines) /\ Len(s) = (x - 1) + n
          /\ \A k \in 1 .. x - 1 : s[k] = top[k]
          /\ \A j \in 1 .. n : s[x - 1 + j] = block[j]
        <3>0. top \in Seq(Lines)
            BY <1>4
        <3>1. /\ s \in Seq(Lines) /\ Len(s) = Len(top) + Len(block)
              /\ \A k \in 1 .. Len(top) : s[k] = top[k]
              /\ \A j \in 1 .. Len(block) : s[Len(top) + j] = block[j]
            BY <3>0, ConcatFacts
        <3> QED
            BY <1>4, <2>1, <3>1
    <2>3. r = s \o low
        OBVIOUS
    <2>. HIDE DEF s, r
    <2>4. /\ r \in Seq(Lines) /\ Len(r) = ((x - 1) + n) + (Len(t) - y)
          /\ \A k \in 1 .. (x - 1) + n : r[k] = s[k]
          /\ \A k \in 1 .. Len(t) - y : r[(x - 1) + n + k] = low[k]
        <3>0. s \in Seq(Lines) /\ low \in Seq(Lines)
            BY <1>5, <2>2
        <3>1. /\ s \o low \in Seq(Lines) /\ Len(s \o low) = Len(s) + Len(low)
              /\ \A k \in 1 .. Len(s) : (s \o low)[k] = s[k]
              /\ \A k \in 1 .. Len(low) : (s \o low)[Len(s) + k] = low[k]
            BY <3>0, ConcatFacts
        <3> QED
            BY <1>5, <2>2, <2>3, <3>1
    <2>5. ASSUME NEW j \in 1 .. n PROVE r[x - 1 + j] = block[j]
        <3>1. x - 1 + j \in 1 .. (x - 1) + n
            BY <1>3, <2>1
        <3> QED BY <2>2, <2>4, <3>1
    <2>6. \A k \in 1 .. x - 1 : k \in 1 .. (x - 1) + n
        BY <1>3, <2>1
    <2> QED
        BY <2>2, <2>4, <2>5, <2>6
<1>. HIDE DEF r
<1>7. ASSUME NEW k \in y + 1 .. Len(t) PROVE r[k - (y - x + 1) + n] = t[k]
    <2>1. k - y \in 1 .. Len(t) - y /\ y + (k - y) = k /\ k - (y - x + 1) + n = x - 1 + n + (k - y)
        BY <1>2, <1>3, SMTT(30) DEF n
    <2>2. r[x - 1 + n + (k - y)] = low[k - y] /\ low[k - y] = t[y + (k - y)]
        BY <1>5, <1>6, <2>1
    <2> QED
        BY <2>1, <2>2
<1>8. Len(r) = Len(t) - (y - x + 1) + n /\ x - 1 <= y
    BY <1>2, <1>3, <1>6, SMTT(30)
<1>9. Replaced(r, t, x, y, block)
    BY <1>3, <1>4, <1>6, <1>7, <1>8 DEF Replaced, n
<1> QED
    BY <1>1, <1>6, <1>9 DEF x, y

\* Appending a block replaces no line.
LEMMA AppendReplaces ==
    ASSUME NEW Lines, NEW t \in Seq(Lines), NEW block \in Seq(Lines)
    PROVE  /\ t \o block \in Seq(Lines)
           /\ Replaced(t \o block, t, Len(t) + 1, Len(t), block)
           /\ Sealed(t, Len(t) + 1, Len(t))
<1>1. Len(t) \in Nat /\ Len(block) \in Nat /\ DOMAIN t = 1 .. Len(t)
    OBVIOUS
<1>2. /\ t \o block \in Seq(Lines) /\ Len(t \o block) = Len(t) + Len(block)
      /\ \A k \in 1 .. Len(t) : (t \o block)[k] = t[k]
      /\ \A j \in 1 .. Len(block) : (t \o block)[Len(t) + j] = block[j]
    OBVIOUS
<1>. DEFINE r == t \o block
            a == Len(t) + 1
            b == Len(t)
<1>. HIDE DEF r
<1>3. /\ a \in Nat \ {0} /\ b \in Nat /\ a - 1 <= b /\ b <= Len(t)
      /\ a - 1 = Len(t) /\ Len(t) - (b - a + 1) + Len(block) = Len(t) + Len(block)
    BY <1>1
<1>4. Replaced(r, t, a, b, block)
    <2>1. \A j \in 1 .. Len(block) : r[a - 1 + j] = block[j]
        BY <1>2, <1>3 DEF r
    <2>2. \A k \in b + 1 .. Len(t) : FALSE
        BY <1>1
    <2> QED
        BY <1>2, <1>3, <2>1, <2>2 DEF Replaced, r
<1>5. Sealed(t, a, b)
    BY <1>1 DEF Sealed
<1> QED
    BY <1>2, <1>4, <1>5 DEF r

\* The lines of buildManagedBlock.
LEMMA ManagedBlockLines ==
    ASSUME NEW me, NEW c
    PROVE  LET block == ManagedBlock(me, c)
           IN /\ Len(block) = 7 /\ DOMAIN block = 1 .. 7
              /\ block[1] = Marker("begin", me) /\ block[2] = Line("comment")
              /\ block[3] = Line("hooks") /\ block[4] = Line("event")
              /\ block[5] = CommandLine(c) /\ block[6] = Line("timeout")
              /\ block[7] = Marker("end", me)
BY DEF ManagedBlock

\* The fields of the lines that setup writes.
LEMMA LineKind ==
    /\ \A kind : Line(kind).kind = kind /\ Line(kind).host = None /\ Line(kind).cmd = None
    /\ \A kind, host : Marker(kind, host).kind = kind /\ Marker(kind, host).host = host
                         /\ Marker(kind, host).cmd = None
    /\ \A c : CommandLine(c).kind = "command" /\ CommandLine(c).cmd = c /\ CommandLine(c).host = None
BY DEF Line, Marker, CommandLine

\* Its keys belong to its own table.
LEMMA ManagedBlockOpens ==
    ASSUME NEW me, NEW c
    PROVE  OpensTables(ManagedBlock(me, c))
<1>. DEFINE block == ManagedBlock(me, c)
<1>1. /\ DOMAIN block = 1 .. 7 /\ block[1].kind = "begin" /\ block[2].kind = "comment"
      /\ block[3].kind = "hooks"
    BY ManagedBlockLines, LineKind
<1>. HIDE DEF block
<1>2. IsHeader(block[3]) /\ ~IsKey(block[1]) /\ ~IsKey(block[2]) /\ ~IsKey(block[3])
    BY <1>1 DEF IsHeader, IsKey, Headers, Keys
<1>3. OpensTables(block)
    <2>. SUFFICES ASSUME NEW j \in DOMAIN block, IsKey(block[j])
                  PROVE  3 < j
        BY <1>1, <1>2 DEF OpensTables
    <2>1. j # 1 /\ j # 2 /\ j # 3
        BY <1>2
    <2> QED
        BY <1>1, <2>1
<1> QED
    BY <1>3 DEF block

-----------------------------------------------------------------------------
(* The block of this host.                                                 *)

\* What stands between the markers of a pair.
LEMMA BodyLines ==
    ASSUME NEW Lines, NEW t \in Seq(Lines), NEW i, NEW e, IsPair(t, i, e)
    PROVE  LET b == SubSeq(t, i + 1, e - 1)
           IN /\ b \in Seq(Lines) /\ DOMAIN b = 1 .. e - 1 - i
              /\ \A k \in DOMAIN b : /\ b[k] = t[i + k] /\ i + k \in DOMAIN t
                                     /\ i < i + k /\ i + k < e
<1>1. /\ i \in Nat \ {0} /\ e \in Nat /\ i < e /\ e <= Len(t) /\ Len(t) \in Nat
      /\ DOMAIN t = 1 .. Len(t)
    BY DEF IsPair
<1>. DEFINE m == i + 1
            n == e - 1
<1>2. m \in Nat \ {0} /\ n \in Nat /\ n <= Len(t) /\ m <= n + 1 /\ n - m + 1 = e - 1 - i
    BY <1>1
<1>3. \A k \in 1 .. e - 1 - i : /\ m + k - 1 = i + k /\ i + k \in DOMAIN t
                                /\ i < i + k /\ i + k < e
    BY <1>1
<1>. HIDE DEF m, n
<1>4. /\ SubSeq(t, m, n) \in Seq(Lines) /\ DOMAIN SubSeq(t, m, n) = 1 .. n - m + 1
      /\ \A k \in 1 .. n - m + 1 : SubSeq(t, m, n)[k] = t[m + k - 1]
    BY <1>2, SubSeqFacts
<1> QED
    BY <1>2, <1>3, <1>4 DEF m, n

\* The command that decides about a block is the one of kimi's table there.
LEMMA BodyCommandMeans ==
    ASSUME NEW Lines, NEW t \in Seq(Lines), NEW i, NEW e, IsPair(t, i, e),
           NEW p \in DOMAIN t, i < p, p < e, IsCommand(t[p]),
           \A q \in DOMAIN t : i < q /\ q < e /\ IsCommand(t[q]) => q = p,
           \A q \in DOMAIN t : i < q /\ q < p => t[q].kind \notin {"table", "matcher"},
           \A g, q \in DOMAIN t : i < g /\ g < q /\ q < p => ~(t[g].kind = "hooks" /\ t[q].kind = "hooks")
    PROVE  BodyCommand(SubSeq(t, i + 1, e - 1)) = t[p].cmd
<1>. DEFINE body == SubSeq(t, i + 1, e - 1)
            stops == {x \in DOMAIN body : StopsBody(body, x)}
            m == Min(stops)
<1>1. /\ i \in Nat \ {0} /\ e \in Nat /\ p \in Nat /\ e <= Len(t) /\ Len(t) \in Nat
      /\ DOMAIN t = 1 .. Len(t)
    BY DEF IsPair
<1>2. /\ body \in Seq(Lines) /\ DOMAIN body = 1 .. e - 1 - i
      /\ \A x \in 1 .. e - 1 - i : body[x] = t[i + x]
    <2>1. /\ body \in Seq(Lines) /\ DOMAIN body = 1 .. e - 1 - i
          /\ \A x \in DOMAIN body : body[x] = t[i + x]
        BY BodyLines
    <2>. HIDE DEF body
    <2> QED
        BY <2>1
<1>. HIDE DEF body
<1>3. p - i \in DOMAIN body /\ body[p - i] = t[p] /\ p - i \in Nat \ {0}
    BY <1>1, <1>2, SMTT(30)
<1>4. ASSUME NEW x \in DOMAIN body
      PROVE  i + x \in DOMAIN t /\ i < i + x /\ i + x < e /\ body[x] = t[i + x] /\ x \in Nat \ {0}
    BY <1>1, <1>2
<1>5. \A x \in DOMAIN body : IsCommand(body[x]) => x = p - i
    BY <1>1, <1>4
<1>6. ASSUME NEW x \in DOMAIN body, StopsBody(body, x) PROVE p - i < x
    <2>. SUFFICES ASSUME x <= p - i PROVE FALSE
        BY <1>3, <1>4
    <2>1. body[x] = t[i + x] /\ i + x \in DOMAIN t /\ i < i + x /\ x \in Nat \ {0} /\ i + x <= p
        BY <1>1, <1>4
    <2>2. body[x].kind # "command" => i + x < p
        <3>1. body[x].kind # "command" => x # p - i
            BY <1>3 DEF IsCommand
        <3> QED BY <1>1, <2>1, <3>1
    <2>3. CASE body[x].kind \in {"table", "matcher"}
        BY <2>1, <2>2, <2>3
    <2>4. CASE body[x].kind = "hooks" /\ \E j \in 1 .. x - 1 : body[j].kind = "hooks"
        <3>1. PICK j \in 1 .. x - 1 : body[j].kind = "hooks"
            BY <2>4
        <3>2. j \in DOMAIN body /\ j \in Nat /\ j < x
            BY <1>1, <1>2, <2>1, <3>1
        <3>3. i + j \in DOMAIN t /\ i < i + j /\ body[j] = t[i + j]
            BY <1>4, <3>2
        <3>4. i + j < i + x
            BY <1>1, <2>1, <3>2
        <3>5. i + x < p
            BY <2>2, <2>4
        <3>6. t[i + j].kind = "hooks" /\ t[i + x].kind = "hooks"
            BY <2>1, <2>4, <3>1, <3>3
        <3>. DEFINE g == i + j
                    q == i + x
        <3>7. /\ g \in DOMAIN t /\ q \in DOMAIN t /\ i < g /\ g < q /\ q < p
              /\ t[g].kind = "hooks" /\ t[q].kind = "hooks"
            BY <2>1, <3>3, <3>4, <3>5, <3>6
        <3>. HIDE DEF g, q
        <3> QED
            BY <3>7
    <2> QED
        BY <1>6, <2>3, <2>4 DEF StopsBody
<1>7. CASE stops = {}
    <2>1. BodyCommand(body) = LastCommand(body)
        BY <1>7 DEF BodyCommand
    <2>2. \A q \in DOMAIN body : IsCommand(body[q]) => q <= p - i
        BY <1>3, <1>5
    <2> QED
        BY <1>2, <1>3, <2>1, <2>2, LastCommandMeans DEF body
<1>8. CASE stops # {}
    <2>1. stops \in SUBSET Nat
        BY <1>4
    <2>2. m \in stops
        BY <1>8, <2>1, LeastMember
    <2>3. m \in DOMAIN body /\ p - i < m /\ m \in Nat
        BY <1>4, <1>6, <2>2
    <2>. DEFINE top == SubSeq(body, 1, m - 1)
    <2>4. BodyCommand(body) = LastCommand(top)
        BY <1>8 DEF BodyCommand
    <2>. HIDE DEF m
    <2>5. top \in Seq(Lines) /\ DOMAIN top = 1 .. m - 1 /\ \A k \in 1 .. m - 1 : top[k] = body[k]
        <3>0. body \in Seq(Lines)
            BY <1>2
        <3>1. m \in 1 .. Len(body)
            BY <2>3, <3>0
        <3>. DEFINE z == m - 1
        <3>2. z \in Nat /\ z <= Len(body) /\ 1 <= z + 1 /\ z - 1 + 1 = z
            BY <2>3, <3>0, <3>1
        <3>3. \A k \in 1 .. z : 1 + k - 1 = k
            OBVIOUS
        <3>. HIDE DEF z
        <3>4. /\ SubSeq(body, 1, z) \in Seq(Lines) /\ DOMAIN SubSeq(body, 1, z) = 1 .. z
              /\ \A k \in 1 .. z : SubSeq(body, 1, z)[k] = body[k]
            BY <3>0, <3>2, <3>3, SubSeqFacts
        <3> QED
            BY <3>4 DEF z
    <2>. HIDE DEF top
    <2>6. p - i \in DOMAIN top /\ top[p - i] = t[p]
        BY <1>3, <2>3, <2>5
    <2>7. ASSUME NEW q \in DOMAIN top, IsCommand(top[q]) PROVE q <= p - i
        <3>1. q \in DOMAIN body /\ top[q] = body[q]
            BY <1>1, <1>2, <2>3, <2>5
        <3> QED
            BY <1>3, <1>5, <2>7, <3>1
    <2>8. LastCommand(top) = t[p].cmd
        BY <2>5, <2>6, <2>7, LastCommandMeans, ZenonT(40)
    <2> QED
        BY <2>4, <2>8 DEF body
<1> QED
    BY <1>7, <1>8

\* No own block has the hook of another host in it.
LEMMA OwnBlockMeans ==
    ASSUME NEW Lines, NEW t \in Seq(Lines), NEW me, NEW b \in OwnBlocks(t, me)
    PROVE  /\ IsPair(t, b.begin, b.end) /\ b.host = t[b.begin].host
           /\ EffectiveHost(t, b, me) = me
<1>1. b \in Blocks(t) /\ EffectiveHost(t, b, me) = me
    BY DEF OwnBlocks
<1>2. PICK i \in Begins(t) : b = [begin |-> i, end |-> EndOfPair(t, i), host |-> t[i].host]
    BY <1>1 DEF Blocks
<1> QED
    BY <1>1, <1>2, BeginsMeans

\* The hook of another host does not stand in a block that setup replaces.
LEMMA OwnBlockOfAnother ==
    ASSUME NEW Lines, NEW t \in Seq(Lines), Tied(t), TidyPairs(t),
           NEW mine, NEW me, me # None, NEW b \in OwnBlocks(t, me),
           NEW c, OfAnother(c, mine, me), NEW h, FiresAt(t, h, c)
    PROVE  h \notin b.begin .. b.end
<1>. DEFINE i == b.begin
            e == b.end
<1>1. IsPair(t, i, e) /\ b.host = t[i].host /\ EffectiveHost(t, b, me) = me
    BY OwnBlockMeans
<1>. SUFFICES ASSUME h \in i .. e PROVE FALSE
    OBVIOUS
<1>2. /\ i \in DOMAIN t /\ e \in DOMAIN t /\ t[i].kind = "begin" /\ t[e].kind = "end" /\ i < e
      /\ DOMAIN t = 1 .. Len(t) /\ Len(t) \in Nat
    BY <1>1 DEF IsPair
<1>. HIDE DEF i, e
<1>3. h \in DOMAIN t /\ t[h].kind = "hooks" /\ i <= h /\ h <= e /\ h \in Nat
    BY <1>2 DEF FiresAt
<1>4. PICK p \in TableAt(t, h) : t[p] = CommandLine(c)
    BY DEF FiresAt, Entry, EntryAmong, TableAt
<1>5. p \in DOMAIN t /\ p > h /\ IsKey(t[p]) /\ \A g \in HeadersOf(t) : g > h => p < g
    BY <1>4, InTable
<1>6. IsCommand(t[p]) /\ t[p].cmd = c /\ t[p].kind = "command"
    BY <1>4 DEF IsCommand, CommandLine, Line
<1>7. i < p /\ p < e /\ p \in Nat
    <2>1. p \in Nat /\ p # e /\ i < p
        BY <1>2, <1>3, <1>5, <1>6
    <2>2. ASSUME e < p PROVE FALSE
        <3>1. PICK g \in HeadersOf(t) : e < g /\ g < p
            BY <1>2, <1>5, <2>2 DEF Tied, Parts, IsMarker
        <3>2. g \in Nat
            BY <1>2 DEF HeadersOf
        <3> QED
            BY <1>2, <1>3, <1>5, <2>1, <3>1, <3>2
    <2> QED
        BY <1>2, <2>1, <2>2
<1>8. /\ \A q \in DOMAIN t : i < q /\ q < e /\ IsCommand(t[q]) => q = p
      /\ \A q \in DOMAIN t : i < q /\ q < p => t[q].kind \notin {"table", "matcher"}
      /\ \A g, q \in DOMAIN t : i < g /\ g < q /\ q < p =>
            ~(t[g].kind = "hooks" /\ t[q].kind = "hooks")
      /\ t[i].host \in {None, c.host}
    BY <1>1, <1>2, <1>5, <1>6, <1>7 DEF TidyPairs, OfAnother
<1>9. BodyCommand(SubSeq(t, i + 1, e - 1)) = c
    BY <1>1, <1>5, <1>6, <1>7, <1>8, BodyCommandMeans
<1>10. BodyCommand(Body(t, b)) = c
    BY <1>9 DEF Body, i, e
<1> QED
    BY <1>1, <1>8, <1>10 DEF EffectiveHost, OfAnother

\* Where a hooks table makes kimi run a command, there is no inline array.
LEMMA NoInlineBesideTables ==
    ASSUME NEW t, NEW c, NEW h \in DOMAIN t, FiresAt(t, h, c), Parses(t)
    PROVE  InlineAt(t) = {} /\ Normalized(t) = t
<1>1. h \in HeadersOf(t) /\ t[h].kind = "hooks"
    BY DEF FiresAt, HeadersOf, IsHeader, Headers
<1>2. InlineAt(t) = {}
    BY <1>1, ParsesMeans DEF InlineAt
<1> QED
    BY <1>2 DEF Normalized

\* Appending the block keeps running what ran.
LEMMA Append1Fires ==
    ASSUME NEW Lines, NEW t \in Seq(Lines), NEW block \in Seq(Lines), Line("blank") \in Lines,
           OpensTables(block), NEW c, NEW h \in DOMAIN t, FiresAt(t, h, c)
    PROVE  /\ Append1(t, block) \in Seq(Lines)
           /\ \E k \in DOMAIN Append1(t, block) : FiresAt(Append1(t, block), k, c)
<1>. DEFINE blank == <<Line("blank")>>
            s == t \o blank
            u == Without(s, BlanksTwice(s))
            r == u \o block
<1>0. t # <<>>
    OBVIOUS
<1>1. Append1(t, block) = r
    BY <1>0 DEF Append1, Collapsed, BlanksTwice
<1>2. blank \in Seq(Lines) /\ OpensTables(blank)
    BY DEF OpensTables, IsKey, Keys, Line
<1>. HIDE DEF blank
<1>3. s \in Seq(Lines) /\ Replaced(s, t, Len(t) + 1, Len(t), blank) /\ Sealed(t, Len(t) + 1, Len(t))
    BY <1>2, AppendReplaces
<1>. HIDE DEF s
<1>4. \E k \in DOMAIN s : FiresAt(s, k, c)
    BY <1>2, <1>3, ReplacedFires
<1>5. PICK k \in DOMAIN s : FiresAt(s, k, c)
    BY <1>4
<1>6. k \notin BlanksTwice(s)
    BY <1>5 DEF FiresAt, BlanksTwice
<1>7. u \in Seq(Lines) /\ \E j \in DOMAIN u : FiresAt(u, j, c)
    BY <1>3, <1>5, <1>6, BlankDrop, DropKeeps
<1>8. PICK j \in DOMAIN u : FiresAt(u, j, c)
    BY <1>7
<1>. HIDE DEF u
<1>9. r \in Seq(Lines) /\ Replaced(r, u, Len(u) + 1, Len(u), block) /\ Sealed(u, Len(u) + 1, Len(u))
    BY <1>7, AppendReplaces
<1>. HIDE DEF r
<1>10. j \notin Len(u) + 1 .. Len(u)
    BY <1>7
<1>11. \E i \in DOMAIN r : FiresAt(r, i, c)
    BY <1>7, <1>8, <1>9, <1>10, ReplacedFires
<1> QED
    BY <1>1, <1>9, <1>11

\* The texts in which the hook of a host is easy to tell from another's.
Tidy(t) == TidyPairs(t) /\ OldLabelled(t)

\* runInstall keeps the hook of another host.
LEMMA InstallKeepsAnother ==
    ASSUME NEW Lines, NEW t \in Seq(Lines), Tied(t), Tidy(t),
           NEW mine, NEW me, me # None, NEW c, OfAnother(c, mine, me),
           NEW knows, Fires(t, c, knows),
           Line("blank") \in Lines, ManagedBlock(me, mine) \in Seq(Lines),
           Installed(t, mine, me, knows) # Refused
    PROVE  Fires(Installed(t, mine, me, knows), c, knows)
<1>. DEFINE block == ManagedBlock(me, mine)
            old == StripOld(t, mine, me)
            x == Prune(old, mine, me)
            next == IF BlockState(x, me) = "found" THEN Splice(x, OwnBlock(x, me), block)
                    ELSE Append1(x, block)
<1>1. ValidHookSet(t, knows) /\ \E h \in DOMAIN t : FiresAt(t, h, c)
    BY FiresMeans
<1>2. Normalized(t) = t
    BY <1>1, NoInlineBesideTables DEF ValidHookSet
<1>3. /\ Installed(t, mine, me, knows) = next
      /\ BlockState(x, me) \notin {"orphan", "duplicate"} /\ ValidHookSet(next, knows)
    BY <1>2 DEF Installed
<1>4. Kept(Lines, t, c, knows)
    BY <1>1 DEF Kept
<1>5. Kept(Lines, old, c, knows) /\ TidyPairs(old)
    BY <1>4, StripOldKeeps DEF Tidy
<1>. HIDE DEF old
<1>6. Kept(Lines, x, c, knows) /\ TidyPairs(x)
    BY <1>5, PruneKeeps
<1>. HIDE DEF x
<1>7. block \in Seq(Lines) /\ OpensTables(block)
    BY ManagedBlockOpens
<1>. HIDE DEF block
<1>8. x \in Seq(Lines) /\ Tied(x)
    BY <1>6 DEF Kept
<1>9. PICK h \in DOMAIN x : FiresAt(x, h, c)
    BY <1>6 DEF Kept
<1>10. CASE BlockState(x, me) = "found"
    <2>. DEFINE b == OwnBlock(x, me)
    <2>1. OwnBlocks(x, me) # {}
        BY <1>10 DEF BlockState
    <2>2. b \in OwnBlocks(x, me)
        BY <2>1 DEF OwnBlock
    <2>. HIDE DEF b
    <2>3. IsPair(x, b.begin, b.end)
        BY <1>8, <2>2, OwnBlockMeans
    <2>4. b.begin \in DOMAIN x /\ b.end \in DOMAIN x /\ b.begin < b.end
        BY <2>3 DEF IsPair
    <2>5. h \notin b.begin .. b.end
        BY <1>6, <1>8, <1>9, <2>2, OwnBlockOfAnother
    <2>6. Sealed(x, b.begin, b.end)
        BY <1>8, <2>3, PairSealed
    <2>7. /\ Splice(x, b, block) \in Seq(Lines)
          /\ Replaced(Splice(x, b, block), x, b.begin, b.end, block)
        BY <1>7, <1>8, <2>4, SpliceReplaces
    <2>8. \E k \in DOMAIN Splice(x, b, block) : FiresAt(Splice(x, b, block), k, c)
        BY <1>7, <1>8, <1>9, <2>5, <2>6, <2>7, ReplacedFires
    <2>9. next = Splice(x, b, block)
        BY <1>10 DEF b
    <2> QED
        BY <1>3, <2>8, <2>9, FiresMeans
<1>11. CASE BlockState(x, me) # "found"
    <2>1. next = Append1(x, block)
        BY <1>11
    <2>2. \E k \in DOMAIN Append1(x, block) : FiresAt(Append1(x, block), k, c)
        BY <1>7, <1>8, <1>9, Append1Fires
    <2> QED
        BY <1>3, <2>1, <2>2, FiresMeans
<1> QED
    BY <1>10, <1>11

\* So does runUninstallLocked, scoped to its host.
LEMMA UninstallKeepsAnother ==
    ASSUME NEW Lines, NEW t \in Seq(Lines), Tied(t), Tidy(t),
           NEW mine, NEW me, me # None, NEW c, OfAnother(c, mine, me),
           NEW knows, Fires(t, c, knows),
           Uninstalled(t, mine, me, FALSE) # Refused
    PROVE  Fires(Uninstalled(t, mine, me, FALSE), c, knows)
<1>. DEFINE cur == StripManaged(t, me, FALSE)
            old == StripOld(cur, mine, me)
            x == Prune(old, mine, me)
<1>1. ValidHookSet(t, knows) /\ \E h \in DOMAIN t : FiresAt(t, h, c)
    BY FiresMeans
<1>2. t # <<>>
    BY <1>1
<1>3. Uninstalled(t, mine, me, FALSE) = x
    BY <1>2 DEF Uninstalled
<1>4. Kept(Lines, t, c, knows)
    BY <1>1 DEF Kept
<1>5. Kept(Lines, cur, c, knows) /\ OldLabelled(cur)
    BY <1>4, StripManagedKeeps DEF Tidy
<1>. HIDE DEF cur
<1>6. Kept(Lines, old, c, knows)
    BY <1>5, StripOldKeeps
<1>. HIDE DEF old
<1>7. Kept(Lines, x, c, knows)
    BY <1>6, PruneKeeps
<1>. HIDE DEF x
<1> QED
    BY <1>3, <1>7, FiresMeans DEF Kept

-----------------------------------------------------------------------------
(* Types.                                                                  *)

\* The lines that the model makes are lines.
LEMMA NewLines ==
    /\ \A kind \in Kinds : Line(kind) \in TextLine
    /\ \A kind \in Kinds : \A host \in Hosts \cup {None} : Marker(kind, host) \in TextLine
    /\ \A c \in Commands \cup {None} : CommandLine(c) \in TextLine
BY DEF Line, Marker, CommandLine, TextLine, Kinds, Keys

\* The kinds that setup and the editors write.
LEMMA KindsMeans ==
    {"blank", "hooks", "comment", "event", "command", "timeout", "begin", "end",
     "otherEvent", "newEvent", "matcher", "quotedMatcher"} \subseteq Kinds
BY DEF Kinds, Headers, Comments, Keys

\* A blank line is one.
LEMMA BlankLine == Line("blank") \in TextLine
BY NewLines, KindsMeans

\* Setup's block is a text.
LEMMA BlockType ==
    ASSUME NEW me \in Hosts \cup {None}, NEW c \in Commands \cup {None}
    PROVE  ManagedBlock(me, c) \in Texts
<1>1. /\ Marker("begin", me) \in TextLine /\ Line("comment") \in TextLine
      /\ Line("hooks") \in TextLine /\ Line("event") \in TextLine
      /\ CommandLine(c) \in TextLine /\ Line("timeout") \in TextLine
      /\ Marker("end", me) \in TextLine
    BY NewLines, KindsMeans
<1> QED
    BY <1>1 DEF ManagedBlock, Texts

\* A text without some lines is a text.
LEMMA WithoutType ==
    ASSUME NEW t \in Texts, NEW dropped
    PROVE  Without(t, dropped) \in Texts /\ Collapsed(Without(t, dropped)) \in Texts
BY WithoutEmbeds DEF Texts, Collapsed

\* So is what each removal leaves,
LEMMA StagesType ==
    ASSUME NEW t \in Texts, NEW c, NEW host, NEW me, NEW all
    PROVE  /\ StripOld(t, c, host) \in Texts /\ Prune(t, c, host) \in Texts
           /\ StripManaged(t, me, all) \in Texts
BY WithoutType, StripManagedMeans DEF StripOld, OldStripped, Prune

\* what an insertion or a replacement makes of it,
LEMMA AroundType ==
    ASSUME NEW t \in Texts, NEW m \in Nat, NEW n \in Nat \ {0}, m <= Len(t), n <= Len(t) + 1,
           NEW block \in Texts
    PROVE  SubSeq(t, 1, m) \o block \o SubSeq(t, n, Len(t)) \in Texts
<1>1. SubSeq(t, 1, m) \in Texts /\ SubSeq(t, n, Len(t)) \in Texts
    <2>1. t \in Seq(TextLine) /\ Len(t) \in Nat /\ 1 <= m + 1
        BY DEF Texts
    <2>2. SubSeq(t, 1, m) \in Seq(TextLine)
        BY <2>1, SubSeqFacts
    <2>. DEFINE z == Len(t)
    <2>3. z \in Nat /\ z <= Len(t) /\ n <= z + 1
        BY <2>1
    <2>. HIDE DEF z
    <2>4. SubSeq(t, n, z) \in Seq(TextLine)
        BY <2>1, <2>3, SubSeqFacts
    <2> QED
        BY <2>2, <2>4 DEF Texts, z
<1> QED
    BY <1>1, ConcatFacts DEF Texts

\* what normalizeTopLevelInlineHooks makes of it,
LEMMA NormalizedType ==
    ASSUME NEW t \in Texts
    PROVE  Normalized(t) \in Texts
<1>. SUFFICES ASSUME InlineAt(t) # {}, Parses(t) PROVE Normalized(t) \in Texts
    BY DEF Normalized
<1>. DEFINE i == Min(InlineAt(t))
            block == <<Line("hooks"), Line("otherEvent"), CommandLine(t[i].cmd)>>
<1>1. Len(t) \in Nat /\ DOMAIN t = 1 .. Len(t)
    BY DEF Texts
<1>2. InlineAt(t) \subseteq DOMAIN t
    BY InTable DEF InlineAt
<1>3. InlineAt(t) \in SUBSET Nat
    BY <1>1, <1>2
<1>4. i \in DOMAIN t
    BY <1>2, <1>3, LeastMember
<1>5. Normalized(t) = SubSeq(t, 1, i - 1) \o block \o SubSeq(t, i + 1, Len(t))
    BY DEF Normalized
<1>. HIDE DEF i
<1>6. t[i].cmd \in Commands \cup {None}
    <2>1. t[i] \in TextLine
        BY <1>4 DEF Texts
    <2> QED
        BY <2>1 DEF TextLine
<1>7. block \in Texts
    BY <1>6, NewLines, KindsMeans DEF Texts
<1>. HIDE DEF block
<1>8. i - 1 \in Nat /\ i + 1 \in Nat \ {0} /\ i - 1 <= Len(t) /\ i + 1 <= Len(t) + 1
    BY <1>1, <1>4
<1> QED
    BY <1>5, <1>7, <1>8, AroundType

\* what a new block in it makes of it,
LEMMA SpliceType ==
    ASSUME NEW t \in Texts, NEW me, NEW block \in Texts, BlockState(t, me) = "found"
    PROVE  Splice(t, OwnBlock(t, me), block) \in Texts
<1>. DEFINE b == OwnBlock(t, me)
<1>1. OwnBlocks(t, me) # {}
    BY DEF BlockState
<1>2. b \in OwnBlocks(t, me)
    BY <1>1 DEF OwnBlock
<1>. HIDE DEF b
<1>3. b.begin \in DOMAIN t /\ b.end \in DOMAIN t /\ b.begin < b.end
    BY <1>2, OwnBlockMeans DEF IsPair, Texts
<1> QED
    BY <1>3, SpliceReplaces DEF b, Texts

\* and what runInstall
LEMMA InstalledType ==
    ASSUME NEW t \in Texts, NEW c \in Commands, NEW me \in Hosts, NEW knows
    PROVE  Installed(t, c, me, knows) \in Texts \cup {Refused}
<1>. DEFINE x == Prune(StripOld(Normalized(t), c, me), c, me)
            block == ManagedBlock(me, c)
<1>1. x \in Texts /\ block \in Texts
    BY NormalizedType, StagesType, BlockType
<1>2. \/ Installed(t, c, me, knows) = Refused
      \/ BlockState(x, me) = "found" /\ Installed(t, c, me, knows) = Splice(x, OwnBlock(x, me), block)
      \/ Installed(t, c, me, knows) = Append1(x, block)
    BY DEF Installed
<1>. HIDE DEF x, block
<1>3. Append1(x, block) \in Texts
    <2>1. x \o <<Line("blank")>> \in Texts
        BY <1>1, BlankLine DEF Texts
    <2>2. Collapsed(x \o <<Line("blank")>>) \in Texts
        BY <2>1, WithoutType DEF Collapsed
    <2> QED
        BY <1>1, <2>2, ConcatFacts DEF Append1, Texts
<1> QED
    BY <1>1, <1>2, <1>3, SpliceType

\* and runUninstallLocked write.
LEMMA UninstalledType ==
    ASSUME NEW t \in Texts, NEW c, NEW me, NEW all
    PROVE  Uninstalled(t, c, me, all) \in Texts \cup {Refused}
<1>1. StripManaged(t, me, all) \in Texts
    BY StagesType
<1>2. \A host : Prune(StripOld(StripManaged(t, me, all), c, host), c, host) \in Texts
    BY <1>1, StagesType
<1> QED
    BY <1>2 DEF Uninstalled

\* The command of a host is a command of this plugin and of that host.
LEMMA ExpectedType ==
    ASSUME TypeOK, NEW h \in Hosts
    PROVE  Expected(h) \in Commands /\ Expected(h).tree = "k3" /\ Expected(h).host = h
<1>1. script[h] \in Nat /\ node[h] \in NodeBins
    BY DEF TypeOK
<1> QED
    BY <1>1 DEF Expected, Command, Commands

\* What setup computes is a text, or it refuses.
LEMMA OutcomeType ==
    ASSUME TypeOK, NEW h \in Hosts, NEW mode \in Modes
    PROVE  Outcome(h, mode) \in Texts \cup {Refused}
<1>1. text \in Texts /\ Expected(h) \in Commands
    BY ExpectedType DEF TypeOK
<1>2. CASE mode = "install"
    BY <1>1, <1>2, InstalledType DEF Outcome
<1>3. CASE mode = "uninstall"
    BY <1>1, <1>3, UninstalledType DEF Outcome
<1>4. CASE mode = "uninstall all"
    BY <1>1, <1>4, UninstalledType DEF Outcome
<1> QED
    BY <1>2, <1>3, <1>4 DEF Modes

\* What kimi writes is a text.
LEMMA RewrittenType ==
    ASSUME NEW t \in Texts
    PROVE  Rewritten(t) \in Texts
BY NormalizedType, WithoutType DEF Rewritten

\* So is a text with one more line.
LEMMA InsertedAtType ==
    ASSUME NEW t \in Texts, NEW i \in DOMAIN t, NEW j \in {i, i + 1}, NEW l \in TextLine
    PROVE  InsertedAt(t, j, l) \in Texts
<1>1. Len(t) \in Nat /\ i \in 1 .. Len(t)
    BY DEF Texts
<1>2. j - 1 \in Nat /\ j \in Nat \ {0} /\ j - 1 <= Len(t) /\ j <= Len(t) + 1
    BY <1>1
<1>3. <<l>> \in Texts
    BY DEF Texts
<1> QED
    BY <1>2, <1>3, AroundType DEF InsertedAt

\* A write of a text by someone else keeps the types.
LEMMA EditType ==
    ASSUME TypeOK, NEW new \in Texts, Edit(new)
    PROVE  TypeOK'
<1>1. edits' \in 0 .. MaxEdits
    BY BoundsAssumption DEF TypeOK, Edit
<1> QED
    BY <1>1 DEF TypeOK, Edit

\* Every edit writes a text.
LEMMA EditorsType ==
    ASSUME TypeOK, KimiRewrites \/ UserAddsHook \/ UserDeletesEnd \/ UserAddsMatcher
    PROVE  \E new \in Texts : Edit(new)
<1>1. text \in Texts
    BY DEF TypeOK
<1>2. CASE KimiRewrites
    BY <1>1, <1>2, RewrittenType DEF KimiRewrites
<1>3. CASE UserAddsHook
    <2>1. PICK event \in {"otherEvent", "newEvent"} :
             Edit(text \o <<Line("blank"), Line("hooks"), Line(event),
                            CommandLine(Command("shell", None, 0, "stable"))>>)
        BY <1>3 DEF UserAddsHook
    <2>2. Command("shell", None, 0, "stable") \in Commands
        BY DEF Command, Commands, NodeBins
    <2>3. <<Line("blank"), Line("hooks"), Line(event),
            CommandLine(Command("shell", None, 0, "stable"))>> \in Seq(TextLine)
        BY <2>2, NewLines, KindsMeans
    <2> QED
        BY <1>1, <2>1, <2>3, ConcatFacts DEF Texts
<1>4. CASE UserDeletesEnd
    BY <1>1, <1>4, WithoutType DEF UserDeletesEnd
<1>5. CASE UserAddsMatcher
    <2>1. PICK i \in Positions(text, LAMBDA l : l.kind = "end") :
             \E k \in {"matcher", "quotedMatcher"}, j \in {i, i + 1} :
                Edit(InsertedAt(text, j, Line(k)))
        BY <1>5 DEF UserAddsMatcher
    <2>2. PICK k \in {"matcher", "quotedMatcher"}, j \in {i, i + 1} :
             Edit(InsertedAt(text, j, Line(k)))
        BY <2>1
    <2>3. i \in DOMAIN text /\ Line(k) \in TextLine
        BY NewLines, KindsMeans DEF Positions
    <2> QED
        BY <1>1, <2>2, <2>3, InsertedAtType
<1> QED
    BY <1>2, <1>3, <1>4, <1>5

\* The type invariant holds at the start,
LEMMA TypeInit == Init => TypeOK
<1>. SUFFICES ASSUME Init PROVE TypeOK
    OBVIOUS
<1>1. text \in Texts
    BY TextsAssumption DEF Init
<1>2. <<>> \in Texts
    BY DEF Texts
<1> QED
    BY <1>1, <1>2, BoundsAssumption DEF Init, TypeOK, Idle, NodeBins

\* and every step keeps it.
LEMMA TypeNext == TypeOK /\ [Next]_vars => TypeOK'
<1>. SUFFICES ASSUME TypeOK, [Next]_vars PROVE TypeOK'
    OBVIOUS
<1>. USE BoundsAssumption
<1>1. ASSUME NEW h \in Hosts, NEW mode \in Modes, Read(h, mode) PROVE TypeOK'
    <2>1. /\ Outcome(h, mode) \in Texts \cup {Refused} /\ Expected(h) \in Commands
          /\ text \in Texts /\ knowsNew \in BOOLEAN
        BY OutcomeType, ExpectedType DEF TypeOK
    <2>2. run' \in [host : Hosts \cup {None}, mode : Modes \cup {"idle"},
                    cmd : Commands \cup {None}, knows : BOOLEAN, base : Texts, next : Texts \cup {Refused}]
        BY <1>1, <2>1 DEF Read
    <2>3. setups' \in 0 .. MaxSetups
        BY <1>1 DEF Read, TypeOK
    <2> QED
        BY <1>1, <2>2, <2>3 DEF Read, TypeOK
<1>2. Idle \in [host : Hosts \cup {None}, mode : Modes \cup {"idle"},
                cmd : Commands \cup {None}, knows : BOOLEAN, base : Texts, next : Texts \cup {Refused}]
    <2>1. <<>> \in Texts
        BY DEF Texts
    <2> QED
        BY <2>1 DEF Idle
<1>3. CASE Write
    <2>1. run.next \in Texts \cup {Refused} /\ text \in Texts
        BY DEF TypeOK
    <2>2. text' \in Texts
        BY <1>3, <2>1 DEF Write
    <2> QED
        BY <1>2, <1>3, <2>2 DEF Write, TypeOK
<1>4. CASE Crash
    BY <1>2, <1>4 DEF Crash, TypeOK
<1>5. CASE KimiRewrites \/ UserAddsHook \/ UserDeletesEnd \/ UserAddsMatcher
    BY <1>5, EditorsType, EditType
<1>6. CASE KimiChanges
    BY <1>6 DEF KimiChanges, TypeOK
<1>7. ASSUME NEW h \in Hosts, PluginUpdate(h) PROVE TypeOK'
    <2>1. script' \in [Hosts -> Nat] /\ node' \in [Hosts -> NodeBins]
        BY <1>7 DEF PluginUpdate, TypeOK
    <2> QED
        BY <1>7, <2>1 DEF PluginUpdate, TypeOK
<1>8. CASE UNCHANGED vars
    BY <1>8 DEF vars, TypeOK
<1> QED
    BY <1>1, <1>3, <1>4, <1>5, <1>6, <1>7, <1>8 DEF Next

\* Every text stays a sequence of lines, whatever setup computes and whoever
\* writes the file.
THEOREM SetupTypeOK == Spec => []TypeOK
BY TypeInit, TypeNext, PTL DEF Spec

\* What a run writes, given what it read.
Planned(r) ==
    CASE r.mode = "install" -> Installed(r.base, r.cmd, r.host, r.knows)
      [] r.mode = "uninstall" -> Uninstalled(r.base, r.cmd, r.host, FALSE)
      [] r.mode = "uninstall all" -> Uninstalled(r.base, r.cmd, r.host, TRUE)

\* A run of setup writes what it computed from what it read, for the host that
\* it runs in.
RunOK ==
    run.mode # "idle" =>
        /\ run.mode \in Modes
        /\ run.host \in Hosts /\ run.cmd \in Commands
        /\ run.cmd.tree = "k3" /\ run.cmd.host = run.host
        /\ run.next = Planned(run)

\* Every step keeps it.
LEMMA RunNext == TypeOK /\ RunOK /\ [Next]_vars => RunOK'
<1>. SUFFICES ASSUME TypeOK, RunOK, [Next]_vars PROVE RunOK'
    OBVIOUS
<1>1. ASSUME NEW h \in Hosts, NEW mode \in Modes, Read(h, mode) PROVE RunOK'
    <2>1. run' = [host |-> h, mode |-> mode, cmd |-> Expected(h), knows |-> knowsNew,
                  base |-> text, next |-> Outcome(h, mode)]
        BY <1>1 DEF Read
    <2>2. Outcome(h, mode) = Planned(run')
        BY <2>1 DEF Outcome, Planned
    <2>3. /\ run'.mode = mode /\ run'.host = h /\ run'.cmd = Expected(h)
          /\ run'.next = Outcome(h, mode)
        BY <2>1
    <2> QED
        BY <2>2, <2>3, ExpectedType DEF RunOK
<1>2. ASSUME run' = run PROVE RunOK'
    BY <1>2 DEF RunOK
<1>3. ASSUME run' = Idle PROVE RunOK'
    BY <1>3 DEF RunOK, Idle
<1> QED
    BY <1>1, <1>2, <1>3 DEF Next, Write, Crash, KimiRewrites, UserAddsHook, UserDeletesEnd,
       UserAddsMatcher, Edit, KimiChanges, PluginUpdate, vars

\* Both together are inductive.
LEMMA RunInvariant == Spec => [](TypeOK /\ RunOK)
<1>1. Init => TypeOK /\ RunOK
    BY TypeInit DEF Init, RunOK, Idle
<1>2. TypeOK /\ RunOK /\ [Next]_vars => (TypeOK /\ RunOK)'
    BY TypeNext, RunNext
<1> QED
    BY <1>1, <1>2, PTL DEF Spec

\* What the run writes keeps the hook of another host.
LEMMA CoexistStep == TypeOK /\ RunOK => (Tidy(Base) => HostsCoexist)
<1>. SUFFICES ASSUME TypeOK, RunOK, Tidy(Base), Computed, run.mode # "uninstall all",
                     ~KeyAdrift(Base), NEW o \in Others, Fires(Base, Expected(o), run.knows)
              PROVE  Fires(run.next, Expected(o), run.knows)
    BY DEF HostsCoexist
<1>. DEFINE t == run.base
            me == run.host
            c == Expected(o)
<1>1. /\ run.mode \in {"install", "uninstall"} /\ me \in Hosts /\ run.cmd \in Commands
      /\ run.cmd.host = me /\ run.next = Planned(run) /\ run.next # Refused
    BY DEF RunOK, Computed, Modes
<1>2. t \in Seq(TextLine)
    BY DEF TypeOK, Texts
<1>3. Tied(t) /\ Tidy(t) /\ Fires(t, c, run.knows)
    BY <1>2, NotAdriftIsTied DEF Base
<1>4. me # None /\ o # None /\ o # me
    BY <1>1, HostsAssumption DEF Others
<1>5. OfAnother(c, run.cmd, me)
    <2>1. c \in Commands /\ c.tree = "k3" /\ c.host = o
        BY ExpectedType DEF Others
    <2>2. c # None /\ c # run.cmd
        BY <1>1, <1>4, <2>1, HostsAssumption
    <2> QED
        BY <1>4, <2>1, <2>2 DEF OfAnother, OursByPath, HostOfCommand
<1>. HIDE DEF c
<1>6. CASE run.mode = "install"
    <2>1. run.next = Installed(t, run.cmd, me, run.knows)
        BY <1>1, <1>6 DEF Planned
    <2>2. ManagedBlock(me, run.cmd) \in Seq(TextLine) /\ Line("blank") \in TextLine
        BY <1>1, BlockType, BlankLine DEF Texts
    <2> QED
        BY <1>1, <1>2, <1>3, <1>4, <1>5, <2>1, <2>2, InstallKeepsAnother DEF c
<1>7. CASE run.mode = "uninstall"
    <2>1. run.next = Uninstalled(t, run.cmd, me, FALSE)
        BY <1>1, <1>7 DEF Planned
    <2> QED
        BY <1>1, <1>2, <1>3, <1>4, <1>5, <2>1, UninstallKeepsAnother DEF c
<1> QED
    BY <1>1, <1>6, <1>7

\* A host's setup never takes away the hook of another host that kimi was
\* running, for any text in which that hook is tidily kept: one command between
\* a pair of markers, of the host that the markers name.
THEOREM SetupHostsCoexist == Spec => [](Tidy(Base) => HostsCoexist)
BY RunInvariant, CoexistStep, PTL

-----------------------------------------------------------------------------
(* The verifier is sound.                                                  *)

\* A key in a block belongs to a table that the blocks themselves open, as in
\* every block that setup writes.
BlocksOpenTables(t) ==
    \A i \in InBlocks(t) :
        IsKey(t[i]) => \E g \in 1 .. i : IsHeader(t[g]) /\ g .. i \subseteq InBlocks(t)

\* A table outside the blocks: kimi, which reads every line, finds no key in it
\* that the verifier does not find among the lines outside the blocks.
LEMMA TableSeenOutside ==
    ASSUME NEW Lines, NEW t \in Seq(Lines), BlocksOpenTables(t),
           NEW h \in OutsideBlocks(t), IsHeader(t[h])
    PROVE  TableAt(t, h) \subseteq TableAmong(t, OutsideBlocks(t), h)
<1>. SUFFICES ASSUME NEW i \in TableAt(t, h)
              PROVE  i \in TableAmong(t, OutsideBlocks(t), h)
    OBVIOUS
<1>1. DOMAIN t \subseteq Nat \ {0} /\ h \in DOMAIN t /\ h \notin InBlocks(t)
    BY DEF OutsideBlocks
<1>2. /\ i \in DOMAIN t /\ i > h /\ IsKey(t[i])
      /\ \A g \in DOMAIN t : g > h /\ IsHeader(t[g]) => i < g
    BY DEF TableAt, TableAmong
<1>3. i \notin InBlocks(t)
    <2>. SUFFICES ASSUME i \in InBlocks(t) PROVE FALSE
        OBVIOUS
    <2>1. PICK g \in 1 .. i : IsHeader(t[g]) /\ g .. i \subseteq InBlocks(t)
        BY <1>2 DEF BlocksOpenTables
    <2>2. g \in DOMAIN t
        BY <1>2, <2>1
    <2>3. ~(g > h)
        BY <1>1, <1>2, <2>1, <2>2
    <2>4. h \in g .. i
        BY <1>1, <1>2, <2>1, <2>3
    <2> QED
        BY <1>1, <2>1, <2>4
<1> QED
    BY <1>1, <1>2, <1>3 DEF TableAmong, OutsideBlocks

\* Where a table has a key, and among the lines outside the blocks the same key
\* with a line of its own, kimi reads that very line.
LEMMA SameLineRead ==
    ASSUME NEW t, NEW kept, ParsesAmong(t, kept),
           NEW h \in kept, IsHeader(t[h]),
           NEW all \in SUBSET TableAmong(t, kept, h),
           NEW l \in EntryAmong(t, kept, h),
           \E i \in all : Keys[t[i].kind] = Keys[l.kind]
    PROVE  l \in {t[i] : i \in all}
<1>1. PICK i \in all : Keys[t[i].kind] = Keys[l.kind]
    OBVIOUS
<1>2. PICK j \in TableAmong(t, kept, h) : l = t[j]
    BY DEF EntryAmong
<1>3. i = j
    BY <1>1, <1>2 DEF ParsesAmong
<1> QED
    BY <1>1, <1>2, <1>3

\* An entry that an inline array gives is never ours.
LEMMA InlineIsNotOurs ==
    ASSUME NEW l PROVE Line("event") \notin InlineEntry(l)
BY DEF InlineEntry, Line, CommandLine

\* What the verifier accepts, kimi runs before every tool call: for every text of
\* config.toml, whoever wrote it and however long it is, in which the keys of a
\* block belong to tables of the blocks.  This is evaluateInstalled behind the
\* check of the whole file, on both of its paths: the host's own block, and the
\* bare table that a rewrite by kimi leaves.
THEOREM VerifierSound ==
    ASSUME NEW Lines, text \in Seq(Lines), BlocksOpenTables(text)
    PROVE  VerifiedIsEnforced
<1>. SUFFICES ASSUME NEW host \in Hosts, Verified(text, host)
              PROVE  Fires(text, Expected(host), knowsNew)
    BY DEF VerifiedIsEnforced
<1>. DEFINE c == Expected(host)
            out == OutsideBlocks(text)
<1>1. ValidHookSet(text, knowsNew) /\ EvaluateInstalled(text, c, host)
    BY DEF Verified
<1>. SUFFICES \E e \in Entries(text) :
                 Line("event") \in e /\ Runs(e, c) /\ ~Has(e, "matcher")
    BY <1>1 DEF Fires
<1>. HIDE DEF c
<1>2. HasCleanEntry(text, out, c) \/ HasCleanEntry(text, DOMAIN text, c)
    BY <1>1 DEF EvaluateInstalled
<1>3. CASE HasCleanEntry(text, DOMAIN text, c)
    <2>1. PICK e \in Entries(text) :
             /\ Line("event") \in e /\ Runs(e, c)
             /\ \A l \in e : Keys[l.kind] \in {"event", "command", "timeout"}
        BY <1>3 DEF HasCleanEntry, Entries
    <2>2. ~Has(e, "matcher")
        BY <2>1 DEF Has
    <2> QED
        BY <2>1, <2>2
<1>4. CASE HasCleanEntry(text, out, c)
    <2>1. PICK e \in EntriesAmong(text, out) :
             /\ Line("event") \in e /\ CommandLine(c) \in e
             /\ \A l \in e : Keys[l.kind] \in {"event", "command", "timeout"}
        BY <1>4 DEF HasCleanEntry, Runs
    <2>2. PICK h \in out : text[h].kind = "hooks" /\ e = EntryAmong(text, out, h)
        BY <2>1, InlineIsNotOurs DEF EntriesAmong
    <2>3. IsHeader(text[h]) /\ h \in DOMAIN text
        BY <2>2 DEF IsHeader, Headers, OutsideBlocks
    <2>. DEFINE all == TableAt(text, h)
                entry == Entry(text, h)
    <2>4. all \subseteq TableAmong(text, out, h)
        BY <2>2, <2>3, TableSeenOutside
    <2>5. entry = {text[i] : i \in all} /\ entry \subseteq e
        BY <2>2, <2>4 DEF Entry, EntryAmong, TableAt
    <2>6. entry \in Entries(text)
        <3>1. Parses(text)
            BY <1>1 DEF ValidHookSet
        <3>2. \A l \in Entry(text, 0) : ~IsInline(l)
            BY <2>2, <2>3, <3>1 DEF Entry, EntryAmong, Parses, ParsesAmong
        <3> QED
            BY <2>2, <2>3, <3>2 DEF Entries, EntriesAmong, Entry
    <2>7. Has(entry, "event") /\ Has(entry, "command")
        BY <1>1, <2>6 DEF ValidHookSet, ValidEntry
    <2>8. Keys[Line("event").kind] = "event" /\ Keys[CommandLine(c).kind] = "command"
        BY DEF Keys, Line, CommandLine
    <2>9. ParsesAmong(text, out)
        BY <1>4 DEF HasCleanEntry
    <2>10. Line("event") \in entry
        <3>1. \E i \in all : Keys[text[i].kind] = Keys[Line("event").kind]
            BY <2>5, <2>7, <2>8 DEF Has
        <3> QED
            BY <2>1, <2>2, <2>3, <2>4, <2>5, <2>9, <3>1, SameLineRead
    <2>11. CommandLine(c) \in entry
        <3>1. \E i \in all : Keys[text[i].kind] = Keys[CommandLine(c).kind]
            BY <2>5, <2>7, <2>8 DEF Has
        <3> QED
            BY <2>1, <2>2, <2>3, <2>4, <2>5, <2>9, <3>1, SameLineRead
    <2>12. ~Has(entry, "matcher")
        BY <2>1, <2>5 DEF Has
    <2> QED
        BY <2>6, <2>10, <2>11, <2>12 DEF Runs
<1> QED
    BY <1>2, <1>3, <1>4

-----------------------------------------------------------------------------
(* Blocks, once the markers pair up.                                       *)

\* A block of a text is a pair of markers.
LEMMA BlockMeans ==
    ASSUME NEW Lines, NEW t \in Seq(Lines), NEW b \in Blocks(t)
    PROVE  /\ IsPair(t, b.begin, b.end) /\ b.host = t[b.begin].host
           /\ b = [begin |-> b.begin, end |-> b.end, host |-> t[b.begin].host]
           /\ Balanced(t)
<1>1. PICK i \in Begins(t) : b = [begin |-> i, end |-> EndOfPair(t, i), host |-> t[i].host]
    BY DEF Blocks
<1> QED
    BY <1>1, BeginsMeans DEF Blocks

\* Where the markers pair up, a pair is a block.
LEMMA PairBlock ==
    ASSUME NEW Lines, NEW t \in Seq(Lines), Balanced(t), NEW i, NEW e, IsPair(t, i, e)
    PROVE  [begin |-> i, end |-> e, host |-> t[i].host] \in Blocks(t)
<1>1. i \in DOMAIN t
    BY DEF IsPair
<1>2. EndOfPair(t, i) = e /\ e # 0
    BY <1>1, PairMeans
<1>3. i \in Begins(t)
    BY <1>1, <1>2 DEF Begins
<1> QED
    BY <1>2, <1>3 DEF Blocks

\* Where no key is cut off from its table, the blocks open their tables.
LEMMA TiedOpensTables ==
    ASSUME NEW Lines, NEW t \in Seq(Lines), Tied(t)
    PROVE  BlocksOpenTables(t)
<1>. SUFFICES ASSUME NEW i \in InBlocks(t), IsKey(t[i])
              PROVE  \E g \in 1 .. i : IsHeader(t[g]) /\ g .. i \subseteq InBlocks(t)
    BY DEF BlocksOpenTables
<1>1. PICK b \in Blocks(t) : i \in b.begin .. b.end
    BY DEF InBlocks
<1>2. IsPair(t, b.begin, b.end)
    BY <1>1, BlockMeans
<1>3. /\ b.begin \in DOMAIN t /\ b.end \in DOMAIN t /\ Parts(t[b.begin])
      /\ DOMAIN t \subseteq Nat \ {0} /\ DOMAIN t = 1 .. Len(t) /\ Len(t) \in Nat
    BY <1>2 DEF IsPair, Parts, IsMarker
<1>4. i \in DOMAIN t /\ i # b.begin
    BY <1>1, <1>3, PartsIsNoKey
<1>5. PICK g \in HeadersOf(t) : b.begin < g /\ g < i
    BY <1>1, <1>3, <1>4 DEF Tied
<1>6. g \in Nat \ {0} /\ IsHeader(t[g])
    BY <1>3 DEF HeadersOf
<1>7. g .. i \subseteq b.begin .. b.end
    BY <1>1, <1>3, <1>5, <1>6
<1> QED
    BY <1>1, <1>3, <1>4, <1>5, <1>6, <1>7 DEF InBlocks

\* A table outside the blocks: the verifier and kimi see the same keys in it.
LEMMA OutsideTable ==
    ASSUME NEW Lines, NEW t \in Seq(Lines), Tied(t), NEW h \in OutsideBlocks(t), IsHeader(t[h])
    PROVE  TableAmong(t, OutsideBlocks(t), h) = TableAt(t, h)
<1>. DEFINE out == OutsideBlocks(t)
<1>1. TableAt(t, h) \subseteq TableAmong(t, out, h)
    BY TiedOpensTables, TableSeenOutside
<1>2. ASSUME NEW i \in TableAmong(t, out, h) PROVE i \in TableAt(t, h)
    <2>1. /\ i \in out /\ i > h /\ IsKey(t[i])
          /\ \A g \in out : g > h /\ IsHeader(t[g]) => i < g
        BY DEF TableAmong
    <2>2. i \in DOMAIN t /\ h \in DOMAIN t /\ Len(t) \in Nat /\ DOMAIN t = 1 .. Len(t)
        BY <2>1 DEF OutsideBlocks
    <2>. DEFINE S == {g \in HeadersOf(t) : h < g /\ g < i}
    <2>3. S # {} => FALSE
        <3>. SUFFICES ASSUME S # {} PROVE FALSE
            OBVIOUS
        <3>1. S \in SUBSET (0 .. Len(t))
            BY <2>2 DEF HeadersOf
        <3>2. Max(S) \in S /\ \A x \in S : x <= Max(S)
            BY <2>2, <3>1, GreatestMember
        <3>. DEFINE g == Max(S)
        <3>3. g \in HeadersOf(t) /\ h < g /\ g < i /\ g \in Nat /\ \A x \in S : x <= g
            BY <2>2, <3>2 DEF HeadersOf
        <3>. HIDE DEF g
        <3>4. g \notin out
            BY <2>1, <2>2, <3>3 DEF HeadersOf
        <3>5. PICK b \in Blocks(t) : g \in b.begin .. b.end
            BY <3>3, <3>4 DEF OutsideBlocks, InBlocks, HeadersOf
        <3>6. IsPair(t, b.begin, b.end)
            BY BlockMeans
        <3>7. i \notin b.begin .. b.end
            BY <2>1 DEF OutsideBlocks, InBlocks
        <3>8. b.end \in DOMAIN t /\ b.begin \in DOMAIN t /\ Parts(t[b.end]) /\ b.end < i /\ g <= b.end
            BY <2>2, <3>3, <3>5, <3>6, <3>7 DEF IsPair, Parts, IsMarker
        <3>9. PICK x \in HeadersOf(t) : b.end < x /\ x < i
            BY <2>1, <2>2, <3>8 DEF Tied
        <3>10. x \in S
            BY <2>2, <3>3, <3>8, <3>9 DEF HeadersOf
        <3>11. x \in Nat /\ b.end \in Nat
            BY <2>2, <3>8, <3>9 DEF HeadersOf
        <3> QED
            BY <3>3, <3>8, <3>9, <3>10, <3>11
    <2>4. ASSUME NEW g \in HeadersOf(t), g > h PROVE i < g
        <3>1. g \in Nat /\ g # i
            BY <2>1, <2>2, HeaderIsNoKey DEF HeadersOf
        <3> QED
            BY <2>2, <2>3, <2>4, <3>1
    <2> QED
        BY <2>1, <2>2, <2>4, InTable
<1> QED
    BY <1>1, <1>2

-----------------------------------------------------------------------------
(* What is left after a removal, line by line.                             *)

\* A text of which whole tables, some other lines, and blank lines are dropped.
Stage(Lines, r, t, dropped) ==
    /\ r \in Seq(Lines)
    /\ \E kept, f :
          /\ Embeds(r, t, kept, f)
          /\ kept \subseteq DOMAIN t \ dropped
          /\ \A i \in DOMAIN t \ dropped : i \in kept \/ t[i].kind = "blank"
          /\ Closed(t, DOMAIN t \ kept)

\* Two removals in a row are one.
LEMMA EmbedsInEmbedded ==
    ASSUME NEW Lines, NEW r \in Seq(Lines), NEW s \in Seq(Lines), NEW t \in Seq(Lines),
           NEW k1, NEW f, Embeds(s, t, k1, f), NEW k2, NEW g, Embeds(r, s, k2, g)
    PROVE  Embeds(r, t, {f[x] : x \in k2}, [k \in DOMAIN r |-> f[g[k]]])
<1>. DEFINE kept == {f[x] : x \in k2}
            h == [k \in DOMAIN r |-> f[g[k]]]
<1>1. /\ \A k \in DOMAIN s : f[k] \in DOMAIN t /\ f[k] \in k1 /\ s[k] = t[f[k]]
      /\ \A j, k \in DOMAIN s : (j < k) <=> (f[j] < f[k])
    BY EmbedsFacts
<1>2. /\ \A k \in DOMAIN r : g[k] \in DOMAIN s /\ g[k] \in k2 /\ r[k] = s[g[k]]
      /\ \A j, k \in DOMAIN r : (j < k) <=> (g[j] < g[k])
      /\ \A x \in k2 : x \in DOMAIN s /\ \E k \in DOMAIN r : g[k] = x
    BY EmbedsFacts
<1>3. kept \subseteq DOMAIN t /\ h \in [DOMAIN r -> kept]
    BY <1>1, <1>2
<1>4. ASSUME NEW z \in k2 PROVE \E k \in DOMAIN r : h[k] = f[z]
    <2>1. PICK k \in DOMAIN r : g[k] = z
        BY <1>2
    <2> QED
        BY <2>1
<1>5. \A j, k \in DOMAIN r : (j < k) <=> (h[j] < h[k])
    BY <1>1, <1>2
<1>6. \A k \in DOMAIN r : r[k] = t[h[k]]
    BY <1>1, <1>2
<1> QED
    BY <1>3, <1>4, <1>5, <1>6 DEF Embeds

\* Whether lines are dropped by whole tables is a matter of headers and keys.
LEMMA ClosedButForOthers ==
    ASSUME NEW t, 0 \notin DOMAIN t, NEW A, NEW B, Closed(t, A),
           \A i \in DOMAIN t : IsHeader(t[i]) \/ IsKey(t[i]) => (i \in A <=> i \in B),
           0 \notin A, 0 \notin B
    PROVE  Closed(t, B)
BY DEF Closed, HeadersOf, TableAt, TableAmong

\* A removal and the collapsing of blank lines are one,
LEMMA CollapsedStage ==
    ASSUME NEW Lines, NEW t \in Seq(Lines), NEW dropped, SealedDrop(t, dropped)
    PROVE  Stage(Lines, Collapsed(Without(t, dropped)), t, dropped)
<1>. DEFINE s == Without(t, dropped)
            r == Without(s, BlanksTwice(s))
            k1 == DOMAIN t \ dropped
            k2 == DOMAIN s \ BlanksTwice(s)
<1>1. Collapsed(s) = r
    BY DEF Collapsed, BlanksTwice
<1>2. s \in Seq(Lines) /\ \E f : Embeds(s, t, k1, f)
    BY WithoutEmbeds
<1>3. PICK f : Embeds(s, t, k1, f)
    BY <1>2
<1>4. \A x \in DOMAIN s \ k2 : s[x].kind = "blank"
    BY DEF BlanksTwice
<1>5. Closed(t, DOMAIN t \ k1)
    BY SealedIsClosed
<1>. HIDE DEF s
<1>6. r \in Seq(Lines) /\ \E g : Embeds(r, s, k2, g)
    BY <1>2, WithoutEmbeds
<1>7. PICK g : Embeds(r, s, k2, g)
    BY <1>6
<1>. HIDE DEF r, k2
<1>. DEFINE kept == {f[x] : x \in k2}
            h == [k \in DOMAIN r |-> f[g[k]]]
<1>8. Embeds(r, t, kept, h)
    BY <1>2, <1>3, <1>6, <1>7, EmbedsInEmbedded
<1>9. /\ \A x \in DOMAIN s : f[x] \in DOMAIN t /\ f[x] \in k1 /\ s[x] = t[f[x]]
      /\ \A i \in k1 : \E x \in DOMAIN s : f[x] = i
    <2>. HIDE DEF kept, h, k1
    <2> QED
        BY <1>2, <1>3, EmbedsFacts, SMTT(30)
<1>10. k2 \subseteq DOMAIN s
    BY DEF k2
<1>11. kept \subseteq k1 /\ \A i \in k1 : i \in kept \/ t[i].kind = "blank"
    BY <1>4, <1>9, <1>10
<1>12. 0 \notin DOMAIN t
    OBVIOUS
<1>13. Closed(t, DOMAIN t \ kept)
    <2>1. \A i \in DOMAIN t : IsHeader(t[i]) \/ IsKey(t[i]) =>
             (i \in DOMAIN t \ k1 <=> i \in DOMAIN t \ kept)
        BY <1>11 DEF IsHeader, IsKey, Headers, Keys
    <2>. HIDE DEF kept, k1
    <2> QED
        BY <1>5, <1>12, <2>1, ClosedButForOthers
<1> QED
    BY <1>1, <1>6, <1>8, <1>11, <1>13 DEF Stage, s

\* and nothing removed is a removal.
LEMMA SameStage ==
    ASSUME NEW Lines, NEW t \in Seq(Lines), NEW dropped, dropped = {}
    PROVE  Stage(Lines, t, t, dropped)
<1>. DEFINE f == [k \in DOMAIN t |-> k]
<1>1. Embeds(t, t, DOMAIN t, f)
    BY DEF Embeds
<1>2. 0 \notin DOMAIN t
    OBVIOUS
<1>3. Closed(t, DOMAIN t \ DOMAIN t)
    BY DEF Closed
<1> QED
    BY <1>1, <1>3 DEF Stage

\* The three removals of setup.
LEMMA StripOldStage ==
    ASSUME NEW Lines, NEW t \in Seq(Lines), NEW c, NEW host
    PROVE  Stage(Lines, StripOld(t, c, host), t, OldLines(t, c, host))
<1>1. CASE OldRemoved(t, c, host) = {}
    BY <1>1, SameStage DEF StripOld, OldLines
<1>2. CASE OldRemoved(t, c, host) # {}
    <2>1. StripOld(t, c, host) = Collapsed(Without(t, OldLines(t, c, host)))
        BY <1>2 DEF StripOld, OldStripped, OldLines
    <2> QED
        BY <2>1, OldDrop, CollapsedStage
<1> QED
    BY <1>1, <1>2

\* The same for pruning
LEMMA PruneStage ==
    ASSUME NEW Lines, NEW t \in Seq(Lines), Tied(t), NEW c, NEW host
    PROVE  Stage(Lines, Prune(t, c, host), t, PrunedLines(t, c, host))
<1>1. CASE Prunable(t, c, host) = {}
    BY <1>1, SameStage DEF Prune, PrunedLines
<1>2. CASE Prunable(t, c, host) # {}
    <2>1. Prune(t, c, host) = Collapsed(Without(t, PrunedLines(t, c, host)))
        BY <1>2 DEF Prune, PrunedLines
    <2> QED
        BY <2>1, PruneDrop, CollapsedStage
<1> QED
    BY <1>1, <1>2

\* and for stripManagedBlocks.
LEMMA StripManagedStage ==
    ASSUME NEW Lines, NEW t \in Seq(Lines), Tied(t), NEW me, NEW all
    PROVE  Stage(Lines, StripManaged(t, me, all), t,
                 OrphanLines(t, me, all) \cup PairLines(t, me, all))
BY StripManagedMeans, ManagedDrop, CollapsedStage

\* A removal leaves a text tied.
LEMMA StageTied ==
    ASSUME NEW Lines, NEW r, NEW t \in Seq(Lines), Tied(t), NEW dropped,
           Stage(Lines, r, t, dropped)
    PROVE  r \in Seq(Lines) /\ Tied(r)
BY KeepTied DEF Stage

-----------------------------------------------------------------------------
(* After an uninstall the verifier accepts the host no more.               *)

\* A pair of markers, of this host or of none, with this host's command in it.
Armed(t, i, e, c, me) ==
    /\ IsPair(t, i, e) /\ t[i].host \in {None, me}
    /\ \E p \in DOMAIN t : i < p /\ p < e /\ IsCommand(t[p]) /\ t[p].cmd = c

\* The command of a block stands in it.
LEMMA LastCommandIn ==
    ASSUME NEW Lines, NEW b \in Seq(Lines), LastCommand(b) # None
    PROVE  \E q \in DOMAIN b : IsCommand(b[q]) /\ b[q].cmd = LastCommand(b)
<1>. DEFINE cs == Positions(b, IsCommand)
<1>1. cs # {} /\ LastCommand(b) = b[Max(cs)].cmd
    BY DEF LastCommand
<1>2. cs \in SUBSET (0 .. Len(b)) /\ Len(b) \in Nat
    BY DEF Positions
<1>3. Max(cs) \in cs
    BY <1>1, <1>2, GreatestMember
<1> QED
    BY <1>1, <1>3 DEF Positions

\* So does the command of a block's body.
LEMMA BodyCommandIn ==
    ASSUME NEW Lines, NEW b \in Seq(Lines), BodyCommand(b) # None
    PROVE  \E q \in DOMAIN b : IsCommand(b[q]) /\ b[q].cmd = BodyCommand(b)
<1>. DEFINE stops == {i \in DOMAIN b : StopsBody(b, i)}
            m == Min(stops)
<1>1. CASE stops = {}
    BY <1>1, LastCommandIn DEF BodyCommand
<1>2. CASE stops # {}
    <2>1. stops \in SUBSET Nat
        OBVIOUS
    <2>2. m \in stops
        BY <1>2, <2>1, LeastMember
    <2>3. m \in 1 .. Len(b) /\ Len(b) \in Nat
        BY <2>2
    <2>. DEFINE top == SubSeq(b, 1, m - 1)
    <2>4. BodyCommand(b) = LastCommand(top)
        BY <1>2 DEF BodyCommand
    <2>. HIDE DEF m
    <2>5. top \in Seq(Lines) /\ \A k \in DOMAIN top : k \in DOMAIN b /\ top[k] = b[k]
        <3>. DEFINE z == m - 1
        <3>1. z \in Nat /\ z <= Len(b) /\ 1 <= z + 1 /\ z - 1 + 1 = z
            BY <2>3
        <3>2. \A k \in 1 .. z : 1 + k - 1 = k /\ k \in DOMAIN b
            BY <2>3
        <3>. HIDE DEF z
        <3>3. /\ SubSeq(b, 1, z) \in Seq(Lines) /\ DOMAIN SubSeq(b, 1, z) = 1 .. z
              /\ \A k \in 1 .. z : SubSeq(b, 1, z)[k] = b[k]
            BY <3>1, <3>2, SubSeqFacts
        <3> QED
            BY <3>2, <3>3 DEF z
    <2>. HIDE DEF top
    <2>6. PICK q \in DOMAIN top : IsCommand(top[q]) /\ top[q].cmd = LastCommand(top)
        BY <2>4, <2>5, LastCommandIn
    <2> QED
        BY <2>4, <2>5, <2>6
<1> QED
    BY <1>1, <1>2

\* Two pairs are one, or have no marker in common.
LEMMA PairsApart ==
    ASSUME NEW Lines, NEW t \in Seq(Lines), NEW i, NEW e, IsPair(t, i, e),
           NEW j, NEW g, IsPair(t, j, g), j <= e, e <= g
    PROVE  i = j /\ e = g
<1>1. /\ i \in Nat /\ e \in Nat /\ j \in Nat /\ g \in Nat /\ i < e /\ j < g
      /\ {i, e, j, g} \subseteq DOMAIN t
      /\ t[i].kind = "begin" /\ t[j].kind = "begin" /\ t[e].kind = "end" /\ t[g].kind = "end"
      /\ IsMarker(t[i]) /\ IsMarker(t[j]) /\ IsMarker(t[e]) /\ IsMarker(t[g])
    BY DEF IsPair, IsMarker
<1>2. j # e
    BY <1>1
<1>3. ~(e < g)
    BY <1>1, <1>2 DEF IsPair
<1>4. ~(i < j) /\ ~(j < i)
    BY <1>1, <1>2, <1>3 DEF IsPair
<1> QED
    BY <1>1, <1>3, <1>4

\* stripManagedBlocks leaves no block of the host.
LEMMA StripManagedDisarms ==
    ASSUME NEW Lines, NEW t \in Seq(Lines), Tied(t), TidyPairs(t),
           NEW me, NEW all, NEW c, c # None, HostOfCommand(c) = me, OursByPath(c),
           NEW i, NEW e
    PROVE  ~Armed(StripManaged(t, me, all), i, e, c, me)
<1>. DEFINE r == StripManaged(t, me, all)
            dropped == OrphanLines(t, me, all) \cup PairLines(t, me, all)
<1>1. Stage(Lines, r, t, dropped)
    BY StripManagedStage
<1>2. r \in Seq(Lines)
    BY <1>1 DEF Stage
<1>3. PICK kept, f :
          /\ Embeds(r, t, kept, f)
          /\ kept \subseteq DOMAIN t \ dropped
          /\ \A x \in DOMAIN t \ dropped : x \in kept \/ t[x].kind = "blank"
    BY <1>1 DEF Stage
<1>. HIDE DEF r
<1>4. SUFFICES ASSUME Armed(r, i, e, c, me) PROVE FALSE
    BY DEF r
<1>5. /\ \A k \in DOMAIN r : f[k] \in DOMAIN t /\ f[k] \in kept /\ r[k] = t[f[k]]
      /\ \A j, k \in DOMAIN r : (j < k) <=> (f[j] < f[k])
      /\ \A x \in kept : \E k \in DOMAIN r : f[k] = x
      /\ DOMAIN r \subseteq Nat /\ DOMAIN t \subseteq Nat /\ DOMAIN t = 1 .. Len(t)
    BY <1>2, <1>3, EmbedsFacts
<1>6. PICK p \in DOMAIN r : i < p /\ p < e /\ IsCommand(r[p]) /\ r[p].cmd = c
    BY <1>4 DEF Armed
<1>7. /\ i \in DOMAIN r /\ e \in DOMAIN r /\ i < e /\ r[i].kind = "begin" /\ r[e].kind = "end"
      /\ r[i].host \in {None, me}
      /\ \A j \in DOMAIN r : i < j /\ j < e => ~IsMarker(r[j])
    BY <1>4 DEF Armed, IsPair
<1>. DEFINE a == f[i]
            z == EndOfPair(t, a)
<1>8. a \in DOMAIN t /\ a \in kept /\ t[a] = r[i] /\ a \notin dropped
    BY <1>3, <1>5, <1>7
<1>9. a \in Begins(t)
    <2>1. \A j \in Begins(t) : EndOfPair(t, j) # a
        <3>. SUFFICES ASSUME NEW j \in Begins(t), EndOfPair(t, j) = a PROVE FALSE
            OBVIOUS
        <3>1. t[a].kind = "end"
            BY BeginsMeans DEF IsPair
        <3> QED
            BY <1>7, <1>8, <3>1
    <2>2. IsMarker(t[a]) /\ t[a].host \in {None, me}
        BY <1>7, <1>8 DEF IsMarker
    <2>3. a \notin OrphanLines(t, me, all)
        BY <1>8
    <2> QED
        BY <1>8, <2>1, <2>2, <2>3 DEF OrphanLines
<1>10. IsPair(t, a, z)
    BY <1>9, BeginsMeans
<1>. HIDE DEF a, z
<1>11. /\ a \in Nat /\ z \in DOMAIN t /\ a < z /\ t[z].kind = "end" /\ IsMarker(t[z])
       /\ \A j \in DOMAIN t : a < j /\ j < z => ~IsMarker(t[j])
    BY <1>5, <1>10 DEF IsPair, IsMarker
<1>12. ~(all \/ Owner(t, a) = me)
    <2>. SUFFICES ASSUME all \/ Owner(t, a) = me PROVE FALSE
        OBVIOUS
    <2>1. a \in a .. EndOfPair(t, a)
        BY <1>5, <1>11 DEF z
    <2>2. a \in PairLines(t, me, all)
        BY <1>9, <2>1 DEF PairLines
    <2> QED
        BY <1>8, <2>2
<1>13. z \in kept
    <2>1. z \notin OrphanLines(t, me, all)
        BY <1>9 DEF OrphanLines, z
    <2>2. z \notin PairLines(t, me, all)
        <3>. SUFFICES ASSUME z \in PairLines(t, me, all) PROVE FALSE
            OBVIOUS
        <3>1. PICK j \in Begins(t) : (all \/ Owner(t, j) = me) /\ z \in j .. EndOfPair(t, j)
            BY DEF PairLines
        <3>2. IsPair(t, j, EndOfPair(t, j))
            BY BeginsMeans
        <3>3. j <= z /\ z <= EndOfPair(t, j)
            BY <3>1
        <3>4. a = j
            BY <1>10, <3>2, <3>3, PairsApart
        <3> QED
            BY <1>12, <3>1, <3>4
    <2>3. t[z].kind # "blank"
        BY <1>11
    <2> QED
        BY <1>3, <1>11, <2>1, <2>2, <2>3
<1>14. PICK k \in DOMAIN r : f[k] = z
    BY <1>5, <1>13
<1>15. i < k /\ IsMarker(r[k])
    BY <1>5, <1>7, <1>11, <1>14 DEF a
<1>16. ~(k < e)
    BY <1>7, <1>15
<1>17. f[p] \in DOMAIN t /\ t[f[p]] = r[p] /\ a < f[p] /\ f[p] < z
    <2>1. p < k
        BY <1>5, <1>6, <1>7, <1>16
    <2> QED
        BY <1>5, <1>6, <1>7, <1>14, <2>1 DEF a
<1>. DEFINE q == f[p]
            pair == SubSeq(t, a, z)
<1>18. q \in DOMAIN t /\ IsCommand(t[q]) /\ t[q].cmd = c /\ a < q /\ q < z
    BY <1>6, <1>17
<1>. HIDE DEF q
<1>19. \A x \in DOMAIN t : a < x /\ x < z /\ IsCommand(t[x]) => x = q
    <2>1. IsPair(t, a, z) /\ a < q /\ q < z /\ a \in DOMAIN t /\ z \in DOMAIN t /\ q \in DOMAIN t
        BY <1>8, <1>10, <1>11, <1>18
    <2> QED
        BY <1>18, <2>1 DEF TidyPairs
<1>20. CASE t[a].host # None
    BY <1>7, <1>8, <1>12, <1>20 DEF Owner
<1>21. CASE t[a].host = None
    <2>1. /\ a \in Nat \ {0} /\ z \in Nat /\ z <= Len(t) /\ a <= z + 1 /\ Len(t) \in Nat
        BY <1>5, <1>8, <1>11
    <2>2. /\ pair \in Seq(Lines) /\ DOMAIN pair = 1 .. z - a + 1
          /\ \A x \in 1 .. z - a + 1 : pair[x] = t[a + x - 1]
          /\ \A x \in a .. z : x - a + 1 \in DOMAIN pair /\ pair[x - a + 1] = t[x]
        <3>1. a \in Nat \ {0} /\ z \in Nat /\ z <= Len(t) /\ a <= z + 1
            BY <2>1
        <3> QED
            BY <3>1, SubSeqFacts
    <2>. HIDE DEF pair
    <2>20. pair \in Seq(Lines)
        BY <2>2
    <2>3. q \in a .. z
        BY <1>5, <1>18, <2>1
    <2>4. q - a + 1 \in DOMAIN pair /\ pair[q - a + 1] = t[q]
        BY <2>2, <2>3
    <2>5. ASSUME NEW x \in DOMAIN pair, IsCommand(pair[x]) PROVE x <= q - a + 1
        <3>1. x \in Nat \ {0} /\ a + x - 1 \in DOMAIN t /\ a + x - 1 <= z /\ pair[x] = t[a + x - 1]
            BY <1>5, <2>1, <2>2
        <3>2. a + x - 1 # a /\ a + x - 1 # z
            BY <1>7, <1>8, <1>11, <2>5, <3>1 DEF IsCommand
        <3>3. a + x - 1 = q
            <4>. DEFINE w == a + x - 1
            <4>1. w \in DOMAIN t /\ a < w /\ w < z /\ IsCommand(t[w])
                BY <2>1, <2>5, <3>1, <3>2
            <4>. HIDE DEF w
            <4>2. w = q
                BY <1>19, <4>1
            <4> QED
                BY <4>2 DEF w
        <3> QED
            BY <2>1, <3>1, <3>3
    <2>6. LastCommand(pair) = t[q].cmd
        BY <1>18, <2>20, <2>4, <2>5, LastCommandMeans
    <2>7. Owner(t, a) = HostOfCommand(c)
        BY <1>18, <1>21, <2>6 DEF Owner, z, pair
    <2> QED
        BY <1>12, <2>7
<1> QED
    BY <1>20, <1>21

\* A valid own block is a pair with its command in it.
LEMMA FoundIsArmed ==
    ASSUME NEW Lines, NEW t \in Seq(Lines), NEW me, NEW c, c # None,
           BlockState(t, me) = "found", BodyCommand(Body(t, OwnBlock(t, me))) = c
    PROVE  \E i, e : Armed(t, i, e, c, me)
<1>. DEFINE b == OwnBlock(t, me)
            i == b.begin
            e == b.end
            body == SubSeq(t, i + 1, e - 1)
<1>1. OwnBlocks(t, me) # {}
    BY DEF BlockState
<1>2. b \in OwnBlocks(t, me)
    BY <1>1 DEF OwnBlock
<1>3. IsPair(t, i, e) /\ b.host = t[i].host /\ EffectiveHost(t, b, me) = me
    BY <1>2, OwnBlockMeans
<1>4. t[i].host \in {None, me}
    BY <1>3 DEF EffectiveHost
<1>5. BodyCommand(body) = c
    BY DEF Body
<1>. HIDE DEF b
<1>6. /\ body \in Seq(Lines)
      /\ \A k \in DOMAIN body : body[k] = t[i + k] /\ i + k \in DOMAIN t /\ i < i + k /\ i + k < e
    BY <1>3, BodyLines
<1>. HIDE DEF body
<1>7. PICK q \in DOMAIN body : IsCommand(body[q]) /\ body[q].cmd = c
    BY <1>5, <1>6, BodyCommandIn
<1> QED
    BY <1>3, <1>4, <1>6, <1>7 DEF Armed

\* A pair is armed if what it became is.
LEMMA KeepArmed ==
    ASSUME NEW Lines, NEW t \in Seq(Lines), NEW r, NEW dropped, Stage(Lines, r, t, dropped),
           \A d \in dropped : d \in DOMAIN t => ~IsMarker(t[d]),
           NEW c, NEW me, NEW i, NEW e, Armed(r, i, e, c, me)
    PROVE  \E x, y : Armed(t, x, y, c, me)
<1>1. r \in Seq(Lines)
    BY DEF Stage
<1>2. PICK kept, f :
          /\ Embeds(r, t, kept, f)
          /\ \A x \in DOMAIN t \ dropped : x \in kept \/ t[x].kind = "blank"
    BY DEF Stage
<1>3. \A x \in DOMAIN t : IsMarker(t[x]) => x \in kept
    BY <1>2 DEF IsMarker
<1>4. IsPair(t, f[i], f[e])
    BY <1>1, <1>2, <1>3, KeepPairs DEF Armed
<1>5. /\ \A k \in DOMAIN r : f[k] \in DOMAIN t /\ r[k] = t[f[k]]
      /\ \A j, k \in DOMAIN r : (j < k) <=> (f[j] < f[k])
    BY <1>1, <1>2, EmbedsFacts
<1>6. PICK p \in DOMAIN r : i < p /\ p < e /\ IsCommand(r[p]) /\ r[p].cmd = c
    BY DEF Armed
<1>7. i \in DOMAIN r /\ e \in DOMAIN r /\ r[i].host \in {None, me}
    BY DEF Armed, IsPair
<1>8. /\ f[p] \in DOMAIN t /\ f[i] < f[p] /\ f[p] < f[e] /\ IsCommand(t[f[p]])
      /\ t[f[p]].cmd = c /\ t[f[i]].host \in {None, me}
    BY <1>5, <1>6, <1>7
<1> QED
    BY <1>4, <1>8 DEF Armed

\* A table outside the blocks that the verifier takes for the hook of this host
\* is one that setup prunes.
LEMMA CleanIsPrunable ==
    ASSUME NEW Lines, NEW t \in Seq(Lines), Tied(t), \A l \in Lines : l.kind \in Kinds,
           NEW h \in DOMAIN t \ InBlocks(t), t[h].kind = "hooks",
           \A i, j \in TableAt(t, h) : Keys[t[i].kind] = Keys[t[j].kind] => i = j,
           \A l \in Entry(t, h) : Keys[l.kind] \in {"event", "command", "timeout"},
           NEW c, c # None, Line("event") \in Entry(t, h), CommandLine(c) \in Entry(t, h),
           NEW host
    PROVE  h \in PrunedLines(t, c, host)
<1>. DEFINE e == EndOfBody(t, h)
            table == SubSeq(t, h + 1, e - 1)
<1>1. /\ Len(t) \in Nat /\ DOMAIN t = 1 .. Len(t) /\ h \in 1 .. Len(t)
    OBVIOUS
<1>2. /\ e \in Nat /\ h < e /\ e <= Len(t) + 1
      /\ \A j \in DOMAIN t : h < j /\ j < e => ~Parts(t[j]) /\ ~IsHeader(t[j])
      /\ e <= Len(t) => Parts(t[e]) \/ IsHeader(t[e])
    BY EndOfBodyMeans
<1>. HIDE DEF e
<1>3. ASSUME NEW j \in DOMAIN t, h < j, j < e, IsKey(t[j]) PROVE j \in TableAt(t, h)
    <2>1. ASSUME NEW g \in HeadersOf(t), g > h PROVE j < g
        <3>1. g \in DOMAIN t /\ IsHeader(t[g])
            BY DEF HeadersOf
        <3>2. ~(g < e)
            BY <1>2, <2>1, <3>1
        <3> QED
            BY <1>1, <1>2, <1>3, <3>1, <3>2
    <2> QED
        BY <1>3, <2>1, InTable
<1>4. ASSUME NEW j \in TableAt(t, h) PROVE j \in DOMAIN t /\ h < j /\ j < e
    <2>1. j \in DOMAIN t /\ j > h /\ IsKey(t[j]) /\ \A g \in HeadersOf(t) : g > h => j < g
        BY InTable
    <2>2. ASSUME ~(j < e) PROVE FALSE
        <3>1. e <= Len(t) /\ e \in DOMAIN t /\ e <= j
            BY <1>1, <1>2, <2>1, <2>2
        <3>2. CASE IsHeader(t[e])
            BY <1>2, <2>1, <2>2, <3>1, <3>2 DEF HeadersOf
        <3>3. CASE Parts(t[e])
            <4>1. e # j
                BY <2>1, <3>3, PartsIsNoKey
            <4>2. e < j
                BY <1>1, <1>2, <2>1, <3>1, <4>1
            <4>3. PICK g \in HeadersOf(t) : e < g /\ g < j
                BY <2>1, <3>1, <3>3, <4>2 DEF Tied
            <4> QED
                BY <1>1, <1>2, <2>1, <4>3 DEF HeadersOf
        <3> QED
            BY <1>2, <3>1, <3>2, <3>3
    <2> QED
        BY <2>1, <2>2
<1>5. \A l : l \in Entry(t, h) <=> \E j \in TableAt(t, h) : l = t[j]
    BY DEF Entry, EntryAmong, TableAt
<1>6. ASSUME NEW j \in DOMAIN t, h < j, j < e
      PROVE  t[j].kind \in Comments \cup {"event", "command", "timeout"}
    <2>1. t[j].kind \in Kinds /\ ~Parts(t[j]) /\ ~IsHeader(t[j])
        BY <1>2, <1>6
    <2>2. CASE IsKey(t[j])
        <3>1. t[j] \in Entry(t, h)
            BY <1>3, <1>5, <1>6, <2>2
        <3>2. Keys[t[j].kind] \in {"event", "command", "timeout"}
            BY <3>1
        <3>3. t[j].kind \in {"event", "command", "timeout", "otherEvent", "newEvent"}
            BY <2>2, <3>2 DEF IsKey, Keys
        <3>4. t[j].kind \notin {"otherEvent", "newEvent"}
            <4>1. PICK x \in TableAt(t, h) : t[x] = Line("event")
                BY <1>5
            <4>2. j \in TableAt(t, h)
                BY <1>3, <1>6, <2>2
            <4>3. t[x].kind = "event"
                BY <4>1 DEF Line
            <4>4. t[j].kind \in {"otherEvent", "newEvent"} => x = j
                BY <4>2, <4>3 DEF Keys
            <4> QED
                BY <4>3, <4>4
        <3> QED
            BY <3>3, <3>4
    <2>3. CASE ~IsKey(t[j])
        BY <2>1, <2>3 DEF Kinds, Parts, IsHeader, IsMarker, IsKey
    <2> QED
        BY <2>2, <2>3
<1>7. /\ table \in Seq(Lines) /\ DOMAIN table = 1 .. e - 1 - h
      /\ \A k \in DOMAIN table : table[k] = t[h + k] /\ h + k \in DOMAIN t /\ h < h + k /\ h + k < e
      /\ \A i \in DOMAIN t : h < i /\ i < e => i - h \in DOMAIN table /\ table[i - h] = t[i]
    <2>. DEFINE m == h + 1
                n == e - 1
    <2>1. m \in Nat \ {0} /\ n \in Nat /\ n <= Len(t) /\ m <= n + 1 /\ n - m + 1 = e - 1 - h
        BY <1>1, <1>2
    <2>2. \A k \in 1 .. e - 1 - h : m + k - 1 = h + k /\ h + k \in DOMAIN t /\ h < h + k /\ h + k < e
        BY <1>1, <1>2
    <2>3. \A i \in DOMAIN t : h < i /\ i < e => /\ i - h \in 1 .. e - 1 - h
                                                /\ m + (i - h) - 1 = i
        BY <1>1, <1>2
    <2>. HIDE DEF m, n
    <2>4. /\ SubSeq(t, m, n) \in Seq(Lines) /\ DOMAIN SubSeq(t, m, n) = 1 .. n - m + 1
          /\ \A k \in 1 .. n - m + 1 : SubSeq(t, m, n)[k] = t[m + k - 1]
        BY <2>1, SubSeqFacts
    <2>5. ASSUME NEW i \in DOMAIN t, h < i, i < e
          PROVE  i - h \in DOMAIN SubSeq(t, m, n) /\ SubSeq(t, m, n)[i - h] = t[i]
        <3>1. i - h \in 1 .. e - 1 - h /\ m + (i - h) - 1 = i
            BY <2>3, <2>5
        <3>2. SubSeq(t, m, n)[i - h] = t[m + (i - h) - 1]
            BY <2>1, <2>4, <3>1
        <3> QED
            BY <2>1, <2>4, <3>1, <3>2
    <2> QED
        BY <2>1, <2>2, <2>4, <2>5 DEF m, n
<1>. HIDE DEF table
<1>8. \A k \in DOMAIN table : table[k].kind \in Comments \cup {"event", "command", "timeout"}
    BY <1>6, <1>7
<1>9. \E k \in DOMAIN table : table[k].kind = "event"
    <2>1. PICK x \in TableAt(t, h) : t[x] = Line("event")
        BY <1>5
    <2>2. t[x].kind = "event"
        BY <2>1 DEF Line
    <2> QED
        BY <1>4, <1>7, <2>2
<1>10. LastCommand(table) = c
    <2>1. PICK x \in TableAt(t, h) : t[x] = CommandLine(c)
        BY <1>5
    <2>2. IsCommand(t[x]) /\ t[x].cmd = c /\ t[x].kind = "command"
        BY <2>1 DEF IsCommand, CommandLine, Line
    <2>3. x \in DOMAIN t /\ h < x /\ x < e
        BY <1>4
    <2>4. x - h \in DOMAIN table /\ table[x - h] = t[x]
        BY <1>7, <2>3
    <2>5. ASSUME NEW q \in DOMAIN table, IsCommand(table[q]) PROVE q <= x - h
        <3>1. table[q] = t[h + q] /\ h + q \in DOMAIN t /\ h < h + q /\ h + q < e
            BY <1>7
        <3>2. IsKey(t[h + q]) /\ t[h + q].kind = "command"
            BY <2>5, <3>1 DEF IsCommand, IsKey, Keys
        <3>3. h + q \in TableAt(t, h)
            BY <1>3, <3>1, <3>2
        <3>4. h + q = x
            BY <2>2, <3>2, <3>3
        <3>5. q \in Nat
            BY <1>7
        <3> QED
            BY <1>1, <3>4, <3>5
    <2>6. table \in Seq(Lines)
        BY <1>7
    <2> QED
        BY <2>2, <2>4, <2>5, <2>6, LastCommandMeans
<1>11. ~MatcherInSpan(t, h)
    <2>. SUFFICES ASSUME MatcherInSpan(t, h) PROVE FALSE
        OBVIOUS
    <2>1. PICK i \in h + 1 .. Len(t) :
             /\ t[i].kind = "matcher"
             /\ \A j \in h + 1 .. i - 1 : ~IsHeader(t[j]) /\ ~IsMarker(t[j])
        BY DEF MatcherInSpan
    <2>2. i \in DOMAIN t /\ h < i /\ IsKey(t[i])
        BY <1>1, <2>1 DEF IsKey, Keys
    <2>3. ASSUME NEW g \in HeadersOf(t), g > h PROVE i < g
        <3>1. g \in DOMAIN t /\ IsHeader(t[g]) /\ g # i
            BY <2>2, HeaderIsNoKey DEF HeadersOf
        <3>2. ~(g \in h + 1 .. i - 1)
            BY <2>1, <3>1
        <3> QED
            BY <1>1, <2>2, <2>3, <3>1, <3>2
    <2>4. i \in TableAt(t, h)
        BY <2>2, <2>3, InTable
    <2>5. t[i] \in Entry(t, h) /\ Keys[t[i].kind] = "matcher"
        BY <1>5, <2>1, <2>4 DEF Keys
    <2> QED
        BY <2>5
<1>. DEFINE b == [start |-> h, end |-> e, cmd |-> c]
<1>12. b \in BareTables(t)
    BY <1>8, <1>9, <1>10, <1>11 DEF BareTables, table, e
<1>13. b \in Prunable(t, c, host)
    BY <1>12 DEF Prunable
<1>14. h \in b.start .. b.end - 1
    BY <1>1, <1>2
<1> QED
    BY <1>13, <1>14 DEF PrunedLines

\* A line in a block stays in one while the markers are kept, or the markers no
\* longer pair up.
LEMMA KeepInBlocks ==
    ASSUME NEW Lines, NEW t \in Seq(Lines), NEW r \in Seq(Lines), NEW kept, NEW f,
           Embeds(r, t, kept, f), \A i \in DOMAIN t : IsMarker(t[i]) => i \in kept,
           Balanced(r), NEW k \in DOMAIN r, f[k] \in InBlocks(t)
    PROVE  k \in InBlocks(r)
<1>1. PICK b \in Blocks(t) : f[k] \in b.begin .. b.end
    BY DEF InBlocks
<1>2. IsPair(t, b.begin, b.end)
    BY BlockMeans
<1>3. /\ \A x \in DOMAIN r : f[x] \in DOMAIN t /\ r[x] = t[f[x]]
      /\ \A x, y \in DOMAIN r : (x < y) <=> (f[x] < f[y])
      /\ \A x \in kept : \E y \in DOMAIN r : f[y] = x
      /\ DOMAIN r \subseteq Nat \ {0} /\ DOMAIN t \subseteq Nat \ {0}
    BY EmbedsFacts
<1>4. /\ b.begin \in DOMAIN t /\ b.end \in DOMAIN t /\ b.begin < b.end
      /\ t[b.begin].kind = "begin" /\ t[b.end].kind = "end"
      /\ \A j \in DOMAIN t : b.begin < j /\ j < b.end => ~IsMarker(t[j])
    BY <1>2 DEF IsPair
<1>5. PICK i \in DOMAIN r : f[i] = b.begin
    BY <1>3, <1>4 DEF IsMarker
<1>6. PICK e \in DOMAIN r : f[e] = b.end
    BY <1>3, <1>4 DEF IsMarker
<1>7. IsPair(r, i, e)
    <2>1. i < e /\ r[i].kind = "begin" /\ r[e].kind = "end"
        BY <1>3, <1>4, <1>5, <1>6
    <2>2. ASSUME NEW j \in DOMAIN r, i < j, j < e PROVE ~IsMarker(r[j])
        BY <1>3, <1>4, <1>5, <1>6, <2>2, SMTT(30)
    <2> QED
        BY <2>1, <2>2 DEF IsPair
<1>8. i <= k /\ k <= e
    <2>1. b.begin <= f[k] /\ f[k] <= b.end
        BY <1>1
    <2>2. ~(f[k] < f[i]) /\ ~(f[e] < f[k])
        BY <1>3, <1>4, <1>5, <1>6, <2>1
    <2> QED
        BY <1>3, <2>2
<1>9. [begin |-> i, end |-> e, host |-> r[i].host] \in Blocks(r)
    BY <1>7, PairBlock
<1>10. k \in i .. e
    BY <1>3, <1>8
<1> QED
    BY <1>9, <1>10 DEF InBlocks

\* Once the bare tables of a command are pruned, the verifier finds none.
LEMMA PrunedIsNotClean ==
    ASSUME NEW Lines, NEW t \in Seq(Lines), Tied(t), \A l \in Lines : l.kind \in Kinds,
           NEW c, c # None, NEW host, NEW r, r = Prune(t, c, host), Balanced(r)
    PROVE  ~HasCleanEntry(r, OutsideBlocks(r), c)
<1>. DEFINE out == OutsideBlocks(r)
<1>1. SUFFICES ASSUME HasCleanEntry(r, out, c) PROVE FALSE
    OBVIOUS
<1>2. Stage(Lines, r, t, PrunedLines(t, c, host)) /\ r \in Seq(Lines) /\ Tied(r)
    BY PruneStage, StageTied
<1>3. PICK kept, f :
          /\ Embeds(r, t, kept, f)
          /\ kept \subseteq DOMAIN t \ PrunedLines(t, c, host)
          /\ \A i \in DOMAIN t \ PrunedLines(t, c, host) : i \in kept \/ t[i].kind = "blank"
          /\ Closed(t, DOMAIN t \ kept)
    BY <1>2 DEF Stage
<1>30. r \in Seq(Lines) /\ Embeds(r, t, kept, f) /\ Closed(t, DOMAIN t \ kept)
    BY <1>2, <1>3
<1>4. \A i \in DOMAIN t : IsMarker(t[i]) => i \in kept
    BY <1>3, PrunedLinesMarkers DEF IsMarker
<1>5. PICK e \in EntriesAmong(r, out) :
          /\ Line("event") \in e /\ Runs(e, c)
          /\ \A l \in e : Keys[l.kind] \in {"event", "command", "timeout"}
    BY <1>1 DEF HasCleanEntry
<1>6. PICK k \in out : r[k].kind = "hooks" /\ e = EntryAmong(r, out, k)
    BY <1>5, InlineIsNotOurs DEF EntriesAmong
<1>7. k \in DOMAIN r /\ k \notin InBlocks(r) /\ IsHeader(r[k]) /\ k \in HeadersOf(r)
    BY <1>6 DEF OutsideBlocks, IsHeader, Headers, HeadersOf
<1>8. TableAmong(r, out, k) = TableAt(r, k)
    BY <1>2, <1>6, <1>7, OutsideTable
<1>9. e = Entry(r, k)
    BY <1>6, <1>8 DEF Entry, EntryAmong, TableAt
<1>. DEFINE h == f[k]
<1>10. /\ h \in HeadersOf(t) /\ h \in kept
       /\ \A j \in DOMAIN r : j \in TableAt(r, k) <=> f[j] \in TableAt(t, h)
       /\ TableAt(t, h) \subseteq kept /\ Entry(t, h) = e
       /\ t[h] = r[k]
    <2>1. /\ h \in HeadersOf(t)
          /\ \A j \in DOMAIN r : j \in TableAt(r, k) <=> f[j] \in TableAt(t, h)
          /\ TableAt(t, h) \subseteq kept
        <3>1. k \in HeadersOf(r)
            BY <1>7
        <3> QED
            BY <1>30, <3>1, KeepTable, ZenonT(40)
    <2>2. Entry(r, k) = Entry(t, h)
        BY <1>30, <1>7, KeepEntry
    <2>3. h \in kept /\ t[h] = r[k]
        BY <1>30, <1>7, EmbedsFacts
    <2> QED
        BY <1>9, <2>1, <2>2, <2>3
<1>11. ASSUME NEW i \in TableAt(t, h), NEW j \in TableAt(t, h),
              Keys[t[i].kind] = Keys[t[j].kind]
       PROVE  i = j
    <2>1. PICK x \in DOMAIN r : f[x] = i
        BY <1>30, <1>10, EmbedsFacts
    <2>2. PICK y \in DOMAIN r : f[y] = j
        BY <1>30, <1>10, EmbedsFacts
    <2>3. r[x] = t[i] /\ r[y] = t[j]
        BY <1>30, <2>1, <2>2, EmbedsFacts
    <2>4. x \in TableAmong(r, out, k) /\ y \in TableAmong(r, out, k)
        BY <1>8, <1>10, <2>1, <2>2
    <2>5. x = y
        <3>1. k \in {g \in out : IsHeader(r[g])} /\ ParsesAmong(r, out)
            BY <1>1, <1>6, <1>7 DEF HasCleanEntry
        <3>2. Keys[r[x].kind] = Keys[r[y].kind]
            BY <1>11, <2>3
        <3>. HIDE DEF out
        <3> QED
            BY <2>4, <3>1, <3>2 DEF ParsesAmong
    <2> QED
        BY <2>1, <2>2, <2>5
<1>12. h \notin InBlocks(t)
    BY <1>2, <1>3, <1>4, <1>7, KeepInBlocks
<1>13. h \in DOMAIN t \ InBlocks(t) /\ t[h].kind = "hooks"
    BY <1>6, <1>10, <1>12 DEF HeadersOf
<1>14. /\ Line("event") \in Entry(t, h) /\ CommandLine(c) \in Entry(t, h)
       /\ \A l \in Entry(t, h) : Keys[l.kind] \in {"event", "command", "timeout"}
    BY <1>5, <1>10 DEF Runs
<1>. HIDE DEF h
<1>15. h \in PrunedLines(t, c, host)
    BY <1>11, <1>13, <1>14, CleanIsPrunable
<1> QED
    BY <1>3, <1>10, <1>15

\* After an uninstall the verifier finds neither a block nor a bare table of the
\* host.
LEMMA UninstallDisarmsHost ==
    ASSUME NEW Lines, NEW t \in Seq(Lines), Tied(t), TidyPairs(t),
           \A l \in Lines : l.kind \in Kinds,
           NEW me, NEW all \in BOOLEAN, NEW c, c # None, HostOfCommand(c) = me, OursByPath(c),
           Uninstalled(t, c, me, all) # Refused
    PROVE  ~EvaluateInstalled(Uninstalled(t, c, me, all), c, me)
<1>. DEFINE host == IF all THEN None ELSE me
            cur == StripManaged(t, me, all)
            old == StripOld(cur, c, host)
            r == Prune(old, c, host)
<1>1. CASE t = <<>>
    <2>1. Uninstalled(t, c, me, all) = t
        BY <1>1 DEF Uninstalled
    <2>2. DOMAIN t = {} /\ \A k \in DOMAIN t : FALSE
        BY <1>1
    <2>3. \A x, y : ~Armed(t, x, y, c, me)
        BY <2>2 DEF Armed, IsPair
    <2>4. ~HasCleanEntry(t, OutsideBlocks(t), c)
        BY <2>2 DEF HasCleanEntry, EntriesAmong, OutsideBlocks, EntryAmong, TableAmong
    <2> QED
        BY <2>1, <2>3, <2>4, FoundIsArmed DEF EvaluateInstalled
<1>2. CASE t # <<>>
    <2>1. Uninstalled(t, c, me, all) = r
        BY <1>2 DEF Uninstalled
    <2>2. \A i, e : ~Armed(cur, i, e, c, me)
        BY StripManagedDisarms
    <2>3. cur \in Seq(Lines) /\ Tied(cur)
        BY StripManagedStage, StageTied
    <2>. HIDE DEF cur
    <2>4. Stage(Lines, old, cur, OldLines(cur, c, host))
        BY <2>3, StripOldStage
    <2>5. old \in Seq(Lines) /\ Tied(old)
        BY <2>3, <2>4, StageTied
    <2>6. \A d \in OldLines(cur, c, host) : ~IsMarker(cur[d])
        BY <2>3, OldLinesMarkers
    <2>7. \A i, e : ~Armed(old, i, e, c, me)
        BY <2>2, <2>3, <2>4, <2>6, KeepArmed
    <2>. HIDE DEF old, host
    <2>8. Stage(Lines, r, old, PrunedLines(old, c, host))
        BY <2>5, PruneStage
    <2>9. r \in Seq(Lines)
        BY <2>5, <2>8, StageTied
    <2>10. \A d \in PrunedLines(old, c, host) : ~IsMarker(old[d])
        BY <2>5, PrunedLinesMarkers
    <2>11. \A i, e : ~Armed(r, i, e, c, me)
        BY <2>5, <2>7, <2>8, <2>10, KeepArmed
    <2>12. Balanced(r) => ~HasCleanEntry(r, OutsideBlocks(r), c)
        BY <2>5, PrunedIsNotClean
    <2>. HIDE DEF r
    <2>13. BlockState(r, me) = "absent" => Balanced(r)
        BY DEF BlockState
    <2>14. ~(BlockState(r, me) = "found" /\ BodyCommand(Body(r, OwnBlock(r, me))) = c)
        BY <2>9, <2>11, FoundIsArmed
    <2> QED
        BY <2>1, <2>12, <2>13, <2>14 DEF EvaluateInstalled
<1> QED
    BY <1>1, <1>2

\* A line has one of the kinds.
LEMMA KnownKinds == \A l \in TextLine : l.kind \in Kinds
BY DEF TextLine

\* What the run writes is not accepted for its host.
LEMMA DisarmStep == TypeOK /\ RunOK => (~KeyAdrift(Base) /\ TidyPairs(Base) => UninstallDisarms)
<1>. SUFFICES ASSUME TypeOK, RunOK, ~KeyAdrift(run.base), TidyPairs(run.base), Computed,
                     run.mode \in {"uninstall", "uninstall all"}
              PROVE  ~EvaluateInstalled(run.next, run.cmd, run.host)
    BY DEF UninstallDisarms, Base
<1>. DEFINE t == run.base
            c == run.cmd
            me == run.host
<1>1. /\ me \in Hosts /\ c \in Commands /\ c.tree = "k3" /\ c.host = me
      /\ run.next = Planned(run) /\ run.next # Refused
    BY DEF RunOK, Computed
<1>2. PICK all \in BOOLEAN : run.next = Uninstalled(t, c, me, all)
    BY <1>1 DEF Planned
<1>3. t \in Seq(TextLine)
    BY DEF TypeOK, Texts
<1>4. Tied(t)
    BY <1>3, NotAdriftIsTied
<1>5. c # None /\ HostOfCommand(c) = me /\ OursByPath(c)
    BY <1>1, HostsAssumption DEF HostOfCommand, OursByPath
<1>. HIDE DEF t, c, me
<1>6. ~EvaluateInstalled(Uninstalled(t, c, me, all), c, me)
    BY <1>1, <1>2, <1>3, <1>4, <1>5, KnownKinds, UninstallDisarmsHost DEF t
<1> QED
    BY <1>2, <1>6 DEF c, me

\* After an uninstall, of this host or of all, the verifier accepts the host no
\* more, for any text with at most one command, of its own host, in each pair of
\* markers and no key cut off from its table.
THEOREM SetupUninstallDisarms ==
    Spec => [](~KeyAdrift(Base) /\ TidyPairs(Base) => UninstallDisarms)
BY RunInvariant, DisarmStep, PTL
=============================================================================
