------------------------- MODULE SetupInstall_proofs -------------------------
(***************************************************************************)
(* More about what setup writes, for a config.toml of any length and any   *)
(* content: on the lemmas of Setup_proofs.                                 *)
(*                                                                         *)
(* SetupInstallEstablishes: setup writes its block into a text that has    *)
(* no bare table of this plugin left (Ready, Replaced, Shifted). Read      *)
(* again, the block is the one that the verifier looks for. A second run   *)
(* prunes nothing, for the tables of the new text are those of the old     *)
(* one, moved. It strips no old block either: what it would strip is a     *)
(* table that pruning had removed. So it splices the same block into the   *)
(* same place.                                                             *)
(*                                                                         *)
(* SetupRetryConverges: a text for which the verifier advises setup and    *)
(* one more try has a block that setup can find or none, and no inline     *)
(* hooks key (RetryState); each stage keeps that and the soundness of the  *)
(* whole hook set, so no check refuses, and what is written is accepted    *)
(* as above.                                                               *)
(*                                                                         *)
(* SetupForeignKept: each stage is an order-preserving match between the   *)
(* foreign tables of two texts, and lists of increasing headers are        *)
(* unique (Listed), so the lists of their data are equal (SameData). An    *)
(* inline hooks key unfolds to one table per entry, behind which no top-   *)
(* level key may stand (InlineLast).                                       *)
(***************************************************************************)
EXTENDS Setup_proofs

-----------------------------------------------------------------------------
(* The command that a block is judged by, in two texts.                    *)

\* The lines of a body down to the first that makes it invalid.
LEMMA ReadableBody ==
    ASSUME NEW Lines, NEW b \in Seq(Lines)
    PROVE  \E top \in Seq(Lines) :
              /\ BodyCommand(b) = LastCommand(top)
              /\ \A p : p \in DOMAIN top <=> p \in DOMAIN b /\ \A k \in 1 .. p : ~StopsBody(b, k)
              /\ \A p \in DOMAIN top : top[p] = b[p]
<1>. DEFINE stops == {i \in DOMAIN b : StopsBody(b, i)}
            m == Min(stops)
<1>0. DOMAIN b = 1 .. Len(b) /\ Len(b) \in Nat
    OBVIOUS
<1>1. CASE stops = {}
    <2>1. BodyCommand(b) = LastCommand(b)
        BY <1>1 DEF BodyCommand
    <2>2. ASSUME NEW p \in DOMAIN b, NEW k \in 1 .. p PROVE ~StopsBody(b, k)
        BY <1>0, <1>1
    <2> QED
        BY <2>1, <2>2
<1>2. CASE stops # {}
    <2>1. stops \in SUBSET Nat
        OBVIOUS
    <2>2. m \in stops /\ \A i \in stops : m <= i
        BY <1>2, <2>1, LeastMember
    <2>3. m \in 1 .. Len(b) /\ StopsBody(b, m)
        BY <2>2
    <2>. DEFINE top == SubSeq(b, 1, m - 1)
    <2>4. BodyCommand(b) = LastCommand(top)
        BY <1>2 DEF BodyCommand
    <2>. HIDE DEF m
    <2>5. top \in Seq(Lines) /\ DOMAIN top = 1 .. m - 1 /\ \A k \in DOMAIN top : top[k] = b[k]
        <3>. DEFINE z == m - 1
        <3>1. z \in Nat /\ z <= Len(b) /\ 1 <= z + 1 /\ z - 1 + 1 = z
            BY <1>0, <2>3
        <3>2. \A k \in 1 .. z : 1 + k - 1 = k
            OBVIOUS
        <3>. HIDE DEF z
        <3>3. /\ SubSeq(b, 1, z) \in Seq(Lines) /\ DOMAIN SubSeq(b, 1, z) = 1 .. z
              /\ \A k \in 1 .. z : SubSeq(b, 1, z)[k] = b[k]
            BY <3>1, <3>2, SubSeqFacts
        <3> QED
            BY <3>3 DEF z
    <2>. HIDE DEF top
    <2>6. ASSUME NEW p \in DOMAIN top
          PROVE  p \in DOMAIN b /\ \A k \in 1 .. p : ~StopsBody(b, k)
        <3>1. p \in 1 .. m - 1 /\ p \in DOMAIN b
            BY <1>0, <2>3, <2>5
        <3>2. ASSUME NEW k \in 1 .. p, StopsBody(b, k) PROVE FALSE
            <4>1. k \in stops
                BY <1>0, <3>1, <3>2
            <4> QED
                BY <2>2, <2>3, <3>1, <4>1
        <3> QED
            BY <3>1, <3>2
    <2>7. ASSUME NEW p \in DOMAIN b, \A k \in 1 .. p : ~StopsBody(b, k) PROVE p \in DOMAIN top
        <3>1. ~(m <= p)
            BY <1>0, <2>3, <2>7
        <3> QED
            BY <1>0, <2>3, <2>5, <3>1
    <2>8. \A p : p \in DOMAIN top <=> p \in DOMAIN b /\ \A k \in 1 .. p : ~StopsBody(b, k)
        BY <2>6, <2>7
    <2> QED
        BY <2>4, <2>5, <2>8
<1> QED
    BY <1>1, <1>2

\* The commands between the markers of a pair that its block may be judged by.
Stops(t, i, k) ==
    \/ t[k].kind \in {"table", "matcher"}
    \/ t[k].kind = "hooks" /\ \E g \in DOMAIN t : i < g /\ g < k /\ t[g].kind = "hooks"
\* Line p says for which command the pair of markers at i and e stands.
Counts(t, i, e, p) ==
    /\ p \in DOMAIN t /\ i < p /\ p < e /\ IsCommand(t[p])
    /\ \A k \in DOMAIN t : i < k /\ k <= p => ~Stops(t, i, k)

\* That command is the one of the last such line.
LEMMA BodyCommandIs ==
    ASSUME NEW Lines, NEW t \in Seq(Lines), NEW i, NEW e, IsPair(t, i, e)
    PROVE  LET c == BodyCommand(SubSeq(t, i + 1, e - 1))
           IN \/ c = None /\ \A p : ~Counts(t, i, e, p)
              \/ \E p : /\ Counts(t, i, e, p) /\ c = t[p].cmd
                        /\ \A q : Counts(t, i, e, q) => q <= p
<1>. DEFINE b == SubSeq(t, i + 1, e - 1)
<1>1. /\ DOMAIN t = 1 .. Len(t) /\ Len(t) \in Nat /\ i \in Nat \ {0} /\ e \in Nat
      /\ i < e /\ e <= Len(t)
    BY DEF IsPair
<1>2. /\ b \in Seq(Lines) /\ DOMAIN b = 1 .. e - 1 - i
      /\ \A k \in DOMAIN b : b[k] = t[i + k] /\ i + k \in DOMAIN t /\ i < i + k /\ i + k < e
    BY BodyLines
<1>. HIDE DEF b
<1>3. b \in Seq(Lines)
    BY <1>2
<1>4. PICK top \in Seq(Lines) :
          /\ BodyCommand(b) = LastCommand(top)
          /\ \A p : p \in DOMAIN top <=> p \in DOMAIN b /\ \A k \in 1 .. p : ~StopsBody(b, k)
          /\ \A p \in DOMAIN top : top[p] = b[p]
    BY <1>3, ReadableBody
<1>5. ASSUME NEW k \in DOMAIN b PROVE StopsBody(b, k) <=> Stops(t, i, i + k)
    <2>1. b[k] = t[i + k] /\ k \in Nat \ {0} /\ k <= e - 1 - i
        BY <1>1, <1>2
    <2>2. ASSUME NEW j \in 1 .. k - 1, b[j].kind = "hooks"
          PROVE  \E g \in DOMAIN t : i < g /\ g < i + k /\ t[g].kind = "hooks"
        <3>1. j \in DOMAIN b /\ i + j < i + k
            BY <1>1, <1>2, <2>1
        <3> QED
            BY <1>2, <2>2, <3>1
    <2>3. ASSUME NEW g \in DOMAIN t, i < g, g < i + k, t[g].kind = "hooks"
          PROVE  \E j \in 1 .. k - 1 : b[j].kind = "hooks"
        <3>1. g - i \in 1 .. k - 1 /\ g - i \in DOMAIN b /\ i + (g - i) = g
            BY <1>1, <1>2, <2>1, <2>3
        <3>2. b[g - i] = t[i + (g - i)]
            BY <1>2, <3>1
        <3> QED
            BY <2>3, <3>1, <3>2
    <2> QED
        BY <2>1, <2>2, <2>3 DEF StopsBody, Stops
<1>6. ASSUME NEW p \in DOMAIN top, IsCommand(top[p]) PROVE Counts(t, i, e, i + p)
    <2>1. p \in DOMAIN b /\ \A k \in 1 .. p : ~StopsBody(b, k)
        BY <1>4
    <2>2. top[p] = t[i + p] /\ i + p \in DOMAIN t /\ i < i + p /\ i + p < e
        BY <1>2, <1>4, <2>1
    <2>3. ASSUME NEW k \in DOMAIN t, i < k, k <= i + p PROVE ~Stops(t, i, k)
        <3>1. k - i \in 1 .. p /\ k - i \in DOMAIN b /\ i + (k - i) = k
            BY <1>1, <1>2, <2>1, <2>3
        <3>2. ~StopsBody(b, k - i)
            BY <2>1, <3>1
        <3>3. ~Stops(t, i, i + (k - i))
            BY <1>5, <3>1, <3>2
        <3> QED
            BY <3>1, <3>3
    <2> QED
        BY <1>6, <2>2, <2>3 DEF Counts
<1>7. ASSUME NEW q, Counts(t, i, e, q)
      PROVE  q - i \in DOMAIN top /\ IsCommand(top[q - i]) /\ q \in Nat /\ i + (q - i) = q
    <2>1. /\ q \in DOMAIN t /\ i < q /\ q < e /\ IsCommand(t[q])
          /\ \A k \in DOMAIN t : i < k /\ k <= q => ~Stops(t, i, k)
        BY <1>7 DEF Counts
    <2>2. q - i \in DOMAIN b /\ i + (q - i) = q /\ q \in Nat
        BY <1>1, <1>2, <2>1
    <2>3. ASSUME NEW k \in 1 .. q - i PROVE ~StopsBody(b, k)
        <3>1. k \in DOMAIN b /\ i + k \in DOMAIN t /\ i < i + k /\ i + k <= q
            BY <1>1, <1>2, <2>2
        <3> QED
            BY <1>5, <2>1, <3>1
    <2>4. q - i \in DOMAIN top
        BY <1>4, <2>2, <2>3
    <2>5. top[q - i] = b[q - i] /\ b[q - i] = t[i + (q - i)]
        BY <1>2, <1>4, <2>2, <2>4
    <2> QED
        BY <2>1, <2>2, <2>4, <2>5
<1>. DEFINE cs == Positions(top, IsCommand)
<1>8. CASE cs = {}
    <2>1. BodyCommand(b) = None
        BY <1>4, <1>8 DEF LastCommand
    <2>2. \A p : ~Counts(t, i, e, p)
        BY <1>7, <1>8 DEF Positions
    <2> QED
        BY <2>1, <2>2 DEF b
<1>9. CASE cs # {}
    <2>1. cs \in SUBSET (0 .. Len(top)) /\ Len(top) \in Nat
        BY DEF Positions
    <2>2. Max(cs) \in cs /\ \A x \in cs : x <= Max(cs)
        BY <1>9, <2>1, GreatestMember
    <2>. DEFINE p == Max(cs)
    <2>3. p \in DOMAIN top /\ IsCommand(top[p]) /\ BodyCommand(b) = top[p].cmd
        BY <1>4, <1>9, <2>2 DEF LastCommand, Positions
    <2>. HIDE DEF p
    <2>4. Counts(t, i, e, i + p)
        BY <1>6, <2>3
    <2>5. top[p] = t[i + p] /\ p \in Nat
        <3>1. p \in DOMAIN b /\ top[p] = b[p]
            BY <1>4, <2>3
        <3> QED
            BY <1>2, <3>1
    <2>6. ASSUME NEW q, Counts(t, i, e, q) PROVE q <= i + p
        <3>1. q - i \in cs /\ q \in Nat /\ i + (q - i) = q
            BY <1>7, <2>6 DEF Positions
        <3>2. q - i <= p
            BY <2>2, <3>1 DEF p
        <3> QED
            BY <1>1, <2>5, <3>1, <3>2
    <2> QED
        BY <2>3, <2>4, <2>5, <2>6 DEF b
<1> QED
    BY <1>8, <1>9

\* Two pairs with the same lines in them, but for blank ones, are judged by the
\* same command.
SameLines(r, i, e, t, x, y, f) ==
    /\ \A k \in DOMAIN r : i < k /\ k < e =>
          f[k] \in DOMAIN t /\ x < f[k] /\ f[k] < y /\ t[f[k]] = r[k]
    /\ \A j, k \in DOMAIN r : i < j /\ j < e /\ i < k /\ k < e => ((j < k) <=> (f[j] < f[k]))
    /\ \A z \in DOMAIN t : x < z /\ z < y =>
          t[z].kind = "blank" \/ \E k \in DOMAIN r : i < k /\ k < e /\ f[k] = z

\* Lines that match, blank lines aside, count alike,
LEMMA SameCounts ==
    ASSUME NEW Lines, NEW r \in Seq(Lines), NEW t \in Seq(Lines), NEW i, NEW e, NEW x, NEW y,
           IsPair(r, i, e), IsPair(t, x, y), NEW f, SameLines(r, i, e, t, x, y, f),
           NEW p \in DOMAIN r, i < p, p < e
    PROVE  Counts(r, i, e, p) <=> Counts(t, x, y, f[p])
<1>1. /\ DOMAIN r = 1 .. Len(r) /\ Len(r) \in Nat /\ DOMAIN t = 1 .. Len(t) /\ Len(t) \in Nat
      /\ i \in DOMAIN r /\ e \in DOMAIN r /\ x \in DOMAIN t /\ y \in DOMAIN t
    BY DEF IsPair
<1>2. /\ \A k \in DOMAIN r : i < k /\ k < e =>
            f[k] \in DOMAIN t /\ x < f[k] /\ f[k] < y /\ t[f[k]] = r[k]
      /\ \A j, k \in DOMAIN r : i < j /\ j < e /\ i < k /\ k < e => ((j < k) <=> (f[j] < f[k]))
      /\ \A z \in DOMAIN t : x < z /\ z < y =>
            t[z].kind = "blank" \/ \E k \in DOMAIN r : i < k /\ k < e /\ f[k] = z
    BY DEF SameLines
<1>3. ASSUME NEW k \in DOMAIN r, i < k, k < e PROVE Stops(r, i, k) <=> Stops(t, x, f[k])
    <2>1. f[k] \in DOMAIN t /\ x < f[k] /\ f[k] < y /\ t[f[k]] = r[k]
        BY <1>2, <1>3
    <2>2. ASSUME NEW g \in DOMAIN r, i < g, g < k, r[g].kind = "hooks"
          PROVE  \E w \in DOMAIN t : x < w /\ w < f[k] /\ t[w].kind = "hooks"
        <3>1. g < e
            BY <1>1, <1>3, <2>2
        <3> QED
            BY <1>2, <1>3, <2>2, <3>1
    <2>3. ASSUME NEW w \in DOMAIN t, x < w, w < f[k], t[w].kind = "hooks"
          PROVE  \E g \in DOMAIN r : i < g /\ g < k /\ r[g].kind = "hooks"
        <3>1. w < y
            BY <1>1, <2>1, <2>3
        <3>2. PICK g \in DOMAIN r : i < g /\ g < e /\ f[g] = w
            BY <1>2, <2>3, <3>1
        <3> QED
            BY <1>2, <1>3, <2>3, <3>2
    <2> QED
        BY <2>1, <2>2, <2>3 DEF Stops
<1>4. f[p] \in DOMAIN t /\ x < f[p] /\ f[p] < y /\ t[f[p]] = r[p]
    BY <1>2
<1>5. ASSUME Counts(r, i, e, p) PROVE Counts(t, x, y, f[p])
    <2>1. ASSUME NEW z \in DOMAIN t, x < z, z <= f[p] PROVE ~Stops(t, x, z)
        <3>1. z < y
            BY <1>1, <1>4, <2>1
        <3>2. CASE t[z].kind = "blank"
            BY <3>2 DEF Stops
        <3>3. CASE t[z].kind # "blank"
            <4>1. PICK k \in DOMAIN r : i < k /\ k < e /\ f[k] = z
                BY <1>2, <2>1, <3>1, <3>3
            <4>2. ~(p < k)
                <5>1. ~(f[p] < f[k])
                    BY <1>1, <1>4, <2>1, <4>1
                <5> QED
                    BY <1>2, <4>1, <5>1
            <4>3. ~Stops(r, i, k)
                BY <1>1, <1>5, <4>1, <4>2 DEF Counts
            <4> QED
                BY <1>3, <4>1, <4>3
        <3> QED
            BY <3>2, <3>3
    <2> QED
        BY <1>4, <1>5, <2>1 DEF Counts
<1>6. ASSUME Counts(t, x, y, f[p]) PROVE Counts(r, i, e, p)
    <2>1. ASSUME NEW k \in DOMAIN r, i < k, k <= p PROVE ~Stops(r, i, k)
        <3>1. k < e
            BY <1>1, <2>1
        <3>2. f[k] \in DOMAIN t /\ x < f[k] /\ ~(f[p] < f[k])
            BY <1>1, <1>2, <2>1, <3>1
        <3>3. f[k] <= f[p]
            BY <1>1, <1>4, <3>2
        <3>4. ~Stops(t, x, f[k])
            BY <1>6, <3>2, <3>3 DEF Counts
        <3> QED
            BY <1>3, <2>1, <3>1, <3>4
    <2> QED
        BY <1>4, <1>6, <2>1 DEF Counts
<1> QED
    BY <1>5, <1>6

\* so a pair with such lines stands for the same command.
LEMMA BodyCommandSame ==
    ASSUME NEW Lines, NEW r \in Seq(Lines), NEW t \in Seq(Lines), NEW i, NEW e, NEW x, NEW y,
           IsPair(r, i, e), IsPair(t, x, y), NEW f, SameLines(r, i, e, t, x, y, f)
    PROVE  BodyCommand(SubSeq(r, i + 1, e - 1)) = BodyCommand(SubSeq(t, x + 1, y - 1))
<1>. DEFINE c == BodyCommand(SubSeq(r, i + 1, e - 1))
            d == BodyCommand(SubSeq(t, x + 1, y - 1))
<1>1. /\ \A k \in DOMAIN r : i < k /\ k < e =>
            f[k] \in DOMAIN t /\ x < f[k] /\ f[k] < y /\ t[f[k]] = r[k]
      /\ \A j, k \in DOMAIN r : i < j /\ j < e /\ i < k /\ k < e => ((j < k) <=> (f[j] < f[k]))
      /\ \A z \in DOMAIN t : x < z /\ z < y =>
            t[z].kind = "blank" \/ \E k \in DOMAIN r : i < k /\ k < e /\ f[k] = z
      /\ DOMAIN r = 1 .. Len(r) /\ Len(r) \in Nat /\ DOMAIN t = 1 .. Len(t) /\ Len(t) \in Nat
    BY DEF SameLines
<1>2. \A p \in DOMAIN r : i < p /\ p < e => (Counts(r, i, e, p) <=> Counts(t, x, y, f[p]))
    BY SameCounts
<1>3. \A p : Counts(r, i, e, p) => p \in DOMAIN r /\ i < p /\ p < e
    BY DEF Counts
<1>4. \A q : Counts(t, x, y, q) => q \in DOMAIN t /\ x < q /\ q < y /\ t[q].kind # "blank"
    BY DEF Counts, IsCommand
<1>5. \/ c = None /\ \A p : ~Counts(r, i, e, p)
      \/ \E p : Counts(r, i, e, p) /\ c = r[p].cmd /\ \A q : Counts(r, i, e, q) => q <= p
    BY BodyCommandIs
<1>6. \/ d = None /\ \A p : ~Counts(t, x, y, p)
      \/ \E p : Counts(t, x, y, p) /\ d = t[p].cmd /\ \A q : Counts(t, x, y, q) => q <= p
    BY BodyCommandIs
<1>. HIDE DEF c, d
<1>7. ASSUME NEW q, Counts(t, x, y, q) PROVE \E p : Counts(r, i, e, p) /\ f[p] = q
    <2>1. PICK p \in DOMAIN r : i < p /\ p < e /\ f[p] = q
        BY <1>1, <1>4, <1>7
    <2> QED
        BY <1>2, <1>7, <2>1
<1>8. ASSUME NEW p, Counts(r, i, e, p) PROVE Counts(t, x, y, f[p]) /\ t[f[p]] = r[p]
    BY <1>1, <1>2, <1>3, <1>8
<1>9. ASSUME \A p : ~Counts(r, i, e, p) PROVE c = d
    BY <1>5, <1>6, <1>7, <1>9
<1>10. ASSUME NEW p, Counts(r, i, e, p), c = r[p].cmd, \A q : Counts(r, i, e, q) => q <= p
       PROVE  c = d
    <2>1. Counts(t, x, y, f[p]) /\ t[f[p]] = r[p]
        BY <1>8, <1>10
    <2>2. PICK z : Counts(t, x, y, z) /\ d = t[z].cmd /\ \A q : Counts(t, x, y, q) => q <= z
        BY <1>6, <2>1
    <2>3. PICK w : Counts(r, i, e, w) /\ f[w] = z
        BY <1>7, <2>2
    <2>4. w <= p /\ f[p] <= f[w]
        BY <1>10, <2>1, <2>2, <2>3
    <2>5. p \in DOMAIN r /\ w \in DOMAIN r /\ i < p /\ p < e /\ i < w /\ w < e
        BY <1>3, <1>10, <2>3
    <2>6. f[p] \in DOMAIN t /\ f[w] \in DOMAIN t
        BY <1>1, <2>5
    <2>7. ~(f[w] < f[p])
        BY <1>1, <2>4, <2>6
    <2>8. ~(w < p)
        BY <1>1, <2>5, <2>7
    <2>9. w = p
        BY <1>1, <2>4, <2>5, <2>8
    <2> QED
        BY <1>10, <2>1, <2>2, <2>3, <2>9
<1>11. c = d
    BY <1>5, <1>9, <1>10
<1> QED
    BY <1>11 DEF c, d

-----------------------------------------------------------------------------
(* Where the new block is in place.                                        *)

\* Where the lines of one text are found in the other.
LEMMA ReplacedLines ==
    ASSUME NEW Lines, NEW t \in Seq(Lines), NEW r \in Seq(Lines), NEW block \in Seq(Lines),
           NEW a, NEW b, Replaced(r, t, a, b, block)
    PROVE  LET n == Len(block)
               d == Len(block) - (b - a + 1)
           IN /\ a \in Nat \ {0} /\ b \in Nat /\ n \in Nat /\ d \in Int
              /\ a - 1 <= b /\ b <= Len(t) /\ b + d = a - 1 + n /\ Len(r) = Len(t) + d
              /\ \A k \in DOMAIN t : k < a => k \in DOMAIN r /\ r[k] = t[k]
              /\ \A k \in DOMAIN t : k > b => k + d \in DOMAIN r /\ r[k + d] = t[k] /\ k + d > a - 1 + n
              /\ \A k \in DOMAIN r : k < a => k \in DOMAIN t /\ r[k] = t[k]
              /\ \A k \in DOMAIN r : a <= k /\ k <= a - 1 + n =>
                    k - a + 1 \in DOMAIN block /\ r[k] = block[k - a + 1]
              /\ \A k \in DOMAIN r : k > a - 1 + n => k - d \in DOMAIN t /\ k - d > b /\ r[k] = t[k - d]
              /\ \A j \in DOMAIN block : a - 1 + j \in DOMAIN r /\ r[a - 1 + j] = block[j]
<1>. DEFINE n == Len(block)
            d == n - (b - a + 1)
<1>1. /\ Len(t) \in Nat /\ Len(r) \in Nat /\ n \in Nat
      /\ DOMAIN t = 1 .. Len(t) /\ DOMAIN r = 1 .. Len(r) /\ DOMAIN block = 1 .. n
    OBVIOUS
<1>2. /\ a \in Nat \ {0} /\ b \in Nat /\ a - 1 <= b /\ b <= Len(t)
      /\ Len(r) = Len(t) - (b - a + 1) + n
      /\ \A k \in 1 .. a - 1 : r[k] = t[k]
      /\ \A j \in 1 .. n : r[a - 1 + j] = block[j]
      /\ \A k \in b + 1 .. Len(t) : r[k - (b - a + 1) + n] = t[k]
    BY DEF Replaced
<1>3. /\ d \in Int /\ Len(r) = Len(t) + d /\ b + d = a - 1 + n
      /\ \A k \in b + 1 .. Len(t) : r[k + d] = t[k]
    <2>1. \A k \in b + 1 .. Len(t) : k + d = k - (b - a + 1) + n
        BY <1>1, <1>2
    <2> QED
        BY <1>1, <1>2, <2>1
<1>. HIDE DEF n, d
<1>4. ASSUME NEW k \in DOMAIN t, k < a PROVE k \in DOMAIN r /\ r[k] = t[k]
    BY <1>1, <1>2, <1>3, <1>4
<1>5. ASSUME NEW k \in DOMAIN t, k > b
      PROVE  k + d \in DOMAIN r /\ r[k + d] = t[k] /\ k + d > a - 1 + n
    BY <1>1, <1>2, <1>3, <1>5, SMTT(30)
<1>6. ASSUME NEW k \in DOMAIN r, k < a PROVE k \in DOMAIN t /\ r[k] = t[k]
    <2>1. k \in 1 .. a - 1
        BY <1>1, <1>2, <1>6
    <2>2. k \in 1 .. Len(t)
        BY <1>1, <1>2, <2>1
    <2> QED
        BY <1>1, <1>2, <2>1, <2>2
<1>7. ASSUME NEW k \in DOMAIN r, a <= k, k <= a - 1 + n
      PROVE  k - a + 1 \in DOMAIN block /\ r[k] = block[k - a + 1]
    <2>1. k - a + 1 \in 1 .. n /\ a - 1 + (k - a + 1) = k
        BY <1>1, <1>2, <1>7
    <2>2. r[a - 1 + (k - a + 1)] = block[k - a + 1]
        BY <1>2, <2>1
    <2> QED
        BY <1>1, <2>1, <2>2
<1>8. ASSUME NEW k \in DOMAIN r, k > a - 1 + n
      PROVE  k - d \in DOMAIN t /\ k - d > b /\ r[k] = t[k - d]
    <2>1. k - d \in b + 1 .. Len(t) /\ (k - d) + d = k
        BY <1>1, <1>2, <1>3, <1>8
    <2>2. r[(k - d) + d] = t[k - d]
        BY <1>3, <2>1
    <2>3. r[k] = t[k - d]
        BY <2>1, <2>2
    <2> QED
        BY <1>1, <1>2, <2>1, <2>3
<1>9. ASSUME NEW j \in DOMAIN block PROVE a - 1 + j \in DOMAIN r /\ r[a - 1 + j] = block[j]
    <2>1. r[a - 1 + j] = block[j]
        BY <1>1, <1>2
    <2>2. a - 1 + j \in 1 .. Len(r)
        BY <1>1, <1>2, <1>3
    <2> QED
        BY <1>1, <2>1, <2>2
<1> QED
    BY <1>1, <1>2, <1>3, <1>4, <1>5, <1>6, <1>7, <1>8, <1>9 DEF n, d

\* Where setup puts its block: over a block, or at the end.
Slot(t, a, b) == IsPair(t, a, b) \/ (a = Len(t) + 1 /\ b = Len(t))

\* The markers of a text in which the block stands.
LEMMA PairsOfReplaced ==
    ASSUME NEW Lines, NEW t \in Seq(Lines), NEW r \in Seq(Lines), NEW block \in Seq(Lines),
           NEW a, NEW b, Replaced(r, t, a, b, block), Slot(t, a, b),
           NEW me, NEW c, block = ManagedBlock(me, c)
    PROVE  LET d == 7 - (b - a + 1)
           IN /\ IsPair(r, a, a + 6)
              /\ \A i, e : IsPair(r, i, e) =>
                    \/ i = a /\ e = a + 6
                    \/ e < a /\ IsPair(t, i, e)
                    \/ i > a + 6 /\ i - d > b /\ IsPair(t, i - d, e - d)
              /\ \A i, e : IsPair(t, i, e) =>
                    \/ i = a /\ e = b
                    \/ e < a /\ IsPair(r, i, e)
                    \/ i > b /\ i + d > a + 6 /\ IsPair(r, i + d, e + d)
<1>. DEFINE d == 7 - (b - a + 1)
<1>1. /\ Len(t) \in Nat /\ Len(r) \in Nat /\ DOMAIN t = 1 .. Len(t) /\ DOMAIN r = 1 .. Len(r)
    OBVIOUS
<1>2. /\ Len(block) = 7 /\ DOMAIN block = 1 .. 7
      /\ block[1].kind = "begin" /\ block[7].kind = "end"
      /\ \A j \in 2 .. 6 : ~IsMarker(block[j])
    <2>1. /\ Len(block) = 7 /\ DOMAIN block = 1 .. 7
          /\ block[1] = Marker("begin", me) /\ block[2] = Line("comment")
          /\ block[3] = Line("hooks") /\ block[4] = Line("event")
          /\ block[5] = CommandLine(c) /\ block[6] = Line("timeout")
          /\ block[7] = Marker("end", me)
        BY ManagedBlockLines
    <2>2. \A j \in 2 .. 6 : j \in {2, 3, 4, 5, 6}
        OBVIOUS
    <2> QED
        BY <2>1, <2>2, LineKind DEF IsMarker
<1>3. /\ a \in Nat \ {0} /\ b \in Nat /\ d \in Int
      /\ a - 1 <= b /\ b <= Len(t) /\ b + d = a + 6 /\ Len(r) = Len(t) + d
      /\ \A k \in DOMAIN t : k < a => k \in DOMAIN r /\ r[k] = t[k]
      /\ \A k \in DOMAIN t : k > b => k + d \in DOMAIN r /\ r[k + d] = t[k] /\ k + d > a + 6
      /\ \A k \in DOMAIN r : k < a => k \in DOMAIN t /\ r[k] = t[k]
      /\ \A k \in DOMAIN r : a <= k /\ k <= a + 6 =>
            k - a + 1 \in DOMAIN block /\ r[k] = block[k - a + 1]
      /\ \A k \in DOMAIN r : k > a + 6 => k - d \in DOMAIN t /\ k - d > b /\ r[k] = t[k - d]
      /\ \A j \in DOMAIN block : a - 1 + j \in DOMAIN r /\ r[a - 1 + j] = block[j]
    <2>. DEFINE n == Len(block)
                g == n - (b - a + 1)
    <2>1. /\ a \in Nat \ {0} /\ b \in Nat /\ n \in Nat /\ g \in Int
          /\ a - 1 <= b /\ b <= Len(t) /\ b + g = a - 1 + n /\ Len(r) = Len(t) + g
          /\ \A k \in DOMAIN t : k < a => k \in DOMAIN r /\ r[k] = t[k]
          /\ \A k \in DOMAIN t : k > b => k + g \in DOMAIN r /\ r[k + g] = t[k] /\ k + g > a - 1 + n
          /\ \A k \in DOMAIN r : k < a => k \in DOMAIN t /\ r[k] = t[k]
          /\ \A k \in DOMAIN r : a <= k /\ k <= a - 1 + n =>
                k - a + 1 \in DOMAIN block /\ r[k] = block[k - a + 1]
          /\ \A k \in DOMAIN r : k > a - 1 + n => k - g \in DOMAIN t /\ k - g > b /\ r[k] = t[k - g]
          /\ \A j \in DOMAIN block : a - 1 + j \in DOMAIN r /\ r[a - 1 + j] = block[j]
        BY ReplacedLines
    <2>2. n = 7 /\ g = d
        BY <1>2
    <2>. HIDE DEF n, g
    <2>3. a - 1 + n = a + 6
        BY <2>1, <2>2
    <2>. HIDE DEF d
    <2> QED
        BY <2>1, <2>2, <2>3
<1>4. /\ \A k \in DOMAIN t : a < k /\ k < b => ~IsMarker(t[k])
      /\ a \in DOMAIN t => IsMarker(t[a]) /\ IsMarker(t[b]) /\ b \in DOMAIN t /\ a < b
                            /\ t[a].kind = "begin" /\ t[b].kind = "end"
      /\ a \notin DOMAIN t => a = Len(t) + 1 /\ b = Len(t)
    BY <1>1 DEF Slot, IsPair, IsMarker
<1>. HIDE DEF d
<1>5. /\ a \in DOMAIN r /\ a + 6 \in DOMAIN r /\ r[a] = block[1] /\ r[a + 6] = block[7]
    <2>1. 1 \in DOMAIN block /\ 7 \in DOMAIN block /\ a - 1 + 1 = a /\ a - 1 + 7 = a + 6
        BY <1>2, <1>3
    <2>2. a - 1 + 1 \in DOMAIN r /\ r[a - 1 + 1] = block[1] /\ a - 1 + 7 \in DOMAIN r /\ r[a - 1 + 7] = block[7]
        BY <1>3, <2>1
    <2> QED
        BY <2>1, <2>2
<1>6. ASSUME NEW k \in DOMAIN r, a < k, k < a + 6 PROVE ~IsMarker(r[k])
    <2>0. k \in Nat /\ a \in Nat
        BY <1>1, <1>3
    <2>1. k - a + 1 \in 2 .. 6
        BY <1>6, <2>0
    <2>2. r[k] = block[k - a + 1]
        <3>1. a <= k /\ k <= a + 6
            BY <1>6, <2>0
        <3> QED
            BY <1>3, <3>1
    <2> QED
        BY <1>2, <2>1, <2>2
<1>7. IsPair(r, a, a + 6)
    BY <1>2, <1>3, <1>5, <1>6 DEF IsPair
<1>8. ASSUME NEW i, NEW e, IsPair(r, i, e)
      PROVE  \/ i = a /\ e = a + 6
             \/ e < a /\ IsPair(t, i, e)
             \/ i > a + 6 /\ i - d > b /\ IsPair(t, i - d, e - d)
    <2>1. /\ i \in DOMAIN r /\ e \in DOMAIN r /\ i < e /\ r[i].kind = "begin" /\ r[e].kind = "end"
          /\ IsMarker(r[i]) /\ IsMarker(r[e])
          /\ \A j \in DOMAIN r : i < j /\ j < e => ~IsMarker(r[j])
        BY <1>8 DEF IsPair, IsMarker
    <2>2. CASE i <= a + 6
        <3>1. CASE e >= a
            <4>1. CASE e <= a + 6
                <5>1. a <= e
                    BY <1>1, <1>3, <2>1, <3>1
                <5>2. i = a /\ e = a + 6
                    BY <1>7, <1>8, <4>1, <5>1, PairsApart
                <5> QED
                    BY <5>2
            <4>2. CASE e > a + 6
                <5>1. a + 6 <= e
                    BY <1>1, <1>3, <2>1, <4>2
                <5>2. a = i /\ a + 6 = e
                    BY <1>7, <1>8, <2>2, <5>1, PairsApart
                <5> QED
                    BY <5>2
            <4> QED
                BY <1>1, <1>3, <2>1, <4>1, <4>2
        <3>2. CASE e < a
            <4>1. i \in DOMAIN t /\ e \in DOMAIN t /\ r[i] = t[i] /\ r[e] = t[e]
                BY <1>1, <1>3, <2>1, <3>2
            <4>2. ASSUME NEW j \in DOMAIN t, i < j, j < e PROVE ~IsMarker(t[j])
                <5>1. j \in DOMAIN r /\ r[j] = t[j]
                    BY <1>1, <1>3, <2>1, <3>2, <4>2
                <5> QED
                    BY <2>1, <4>2, <5>1
            <4> QED
                BY <2>1, <3>2, <4>1, <4>2 DEF IsPair
        <3> QED
            BY <1>1, <1>3, <2>1, <3>1, <3>2
    <2>3. CASE i > a + 6
        <3>1. e > a + 6
            BY <1>1, <1>3, <2>1, <2>3
        <3>2. /\ i - d \in DOMAIN t /\ i - d > b /\ r[i] = t[i - d]
              /\ e - d \in DOMAIN t /\ r[e] = t[e - d] /\ i - d < e - d
            BY <1>1, <1>3, <2>1, <2>3, <3>1
        <3>3. ASSUME NEW j \in DOMAIN t, i - d < j, j < e - d PROVE ~IsMarker(t[j])
            <4>1. j > b /\ i < j + d /\ j + d < e
                BY <1>1, <1>3, <2>1, <3>2, <3>3, SMTT(30)
            <4>2. j + d \in DOMAIN r /\ r[j + d] = t[j]
                BY <1>3, <4>1
            <4> QED
                BY <2>1, <4>1, <4>2
        <3> QED
            BY <2>1, <2>3, <3>2, <3>3 DEF IsPair
    <2> QED
        BY <1>1, <1>3, <2>1, <2>2, <2>3
<1>9. ASSUME NEW i, NEW e, IsPair(t, i, e)
      PROVE  \/ i = a /\ e = b
             \/ e < a /\ IsPair(r, i, e)
             \/ i > b /\ i + d > a + 6 /\ IsPair(r, i + d, e + d)
    <2>1. /\ i \in DOMAIN t /\ e \in DOMAIN t /\ i < e /\ t[i].kind = "begin" /\ t[e].kind = "end"
          /\ IsMarker(t[i]) /\ IsMarker(t[e])
          /\ \A j \in DOMAIN t : i < j /\ j < e => ~IsMarker(t[j])
        BY <1>9 DEF IsPair, IsMarker
    <2>2. CASE i <= b
        <3>1. CASE e >= a
            <4>0. a \in DOMAIN t /\ IsPair(t, a, b)
                <5>1. ASSUME a = Len(t) + 1 PROVE FALSE
                    BY <1>1, <2>1, <3>1, <5>1
                <5> QED
                    BY <5>1 DEF Slot, IsPair
            <4>1. CASE e <= b
                BY <1>9, <3>1, <4>0, <4>1, PairsApart
            <4>2. CASE e > b
                <5>1. i = a
                    BY <1>1, <1>3, <1>9, <2>1, <2>2, <4>0, <4>2, PairsApart
                <5> QED
                    BY <1>1, <1>3, <1>4, <2>1, <4>0, <4>2, <5>1
            <4> QED
                BY <1>1, <1>3, <2>1, <4>1, <4>2
        <3>2. CASE e < a
            <4>1. i \in DOMAIN r /\ e \in DOMAIN r /\ r[i] = t[i] /\ r[e] = t[e]
                BY <1>1, <1>3, <2>1, <3>2
            <4>2. ASSUME NEW j \in DOMAIN r, i < j, j < e PROVE ~IsMarker(r[j])
                <5>1. j \in DOMAIN t /\ r[j] = t[j]
                    BY <1>1, <1>3, <2>1, <3>2, <4>2
                <5> QED
                    BY <2>1, <4>2, <5>1
            <4> QED
                BY <2>1, <3>2, <4>1, <4>2 DEF IsPair
        <3> QED
            BY <1>1, <1>3, <2>1, <3>1, <3>2
    <2>3. CASE i > b
        <3>1. e > b
            BY <1>1, <1>3, <2>1, <2>3
        <3>2. /\ i + d \in DOMAIN r /\ i + d > a + 6 /\ r[i + d] = t[i]
              /\ e + d \in DOMAIN r /\ r[e + d] = t[e] /\ i + d < e + d
            BY <1>1, <1>3, <2>1, <2>3, <3>1
        <3>3. ASSUME NEW j \in DOMAIN r, i + d < j, j < e + d PROVE ~IsMarker(r[j])
            <4>1. j > a + 6 /\ i < j - d /\ j - d < e
                BY <1>1, <1>3, <2>1, <3>2, <3>3, SMTT(30)
            <4>2. j - d \in DOMAIN t /\ r[j] = t[j - d]
                BY <1>3, <4>1
            <4> QED
                BY <2>1, <4>1, <4>2
        <3> QED
            BY <2>1, <2>3, <3>2, <3>3 DEF IsPair
    <2> QED
        BY <1>1, <1>3, <2>1, <2>2, <2>3
<1> QED
    BY <1>7, <1>8, <1>9 DEF d

\* Balanced: every marker belongs to a pair.
LEMMA BalancedMeans ==
    ASSUME NEW Lines, NEW t \in Seq(Lines)
    PROVE  Balanced(t) <=> \A k \in DOMAIN t : IsMarker(t[k]) => \E i, e : IsPair(t, i, e) /\ k \in {i, e}
<1>1. \A k \in Begins(t) : IsPair(t, k, EndOfPair(t, k))
    BY BeginsMeans
<1>2. ASSUME NEW i, NEW e, IsPair(t, i, e) PROVE i \in Begins(t) /\ EndOfPair(t, i) = e
    <2>1. i \in DOMAIN t
        BY <1>2 DEF IsPair
    <2> QED
        BY <1>2, <2>1, PairMeans DEF Begins
<1> QED
    BY <1>1, <1>2 DEF Balanced

\* Blocks for the same command are of the same host.
LEMMA SameEffectiveHost ==
    ASSUME NEW r, NEW t, NEW o, NEW q, o.host = q.host,
           BodyCommand(SubSeq(r, o.begin + 1, o.end - 1))
             = BodyCommand(SubSeq(t, q.begin + 1, q.end - 1)), NEW me
    PROVE  EffectiveHost(r, o, me) = EffectiveHost(t, q, me)
BY DEF EffectiveHost, Body

\* In the text with the new block that is the one block of its host.
LEMMA BlockFound ==
    ASSUME NEW Lines, NEW t \in Seq(Lines), NEW r \in Seq(Lines), NEW block \in Seq(Lines),
           NEW a, NEW b, Replaced(r, t, a, b, block), Slot(t, a, b),
           NEW me, me # None, NEW c, block = ManagedBlock(me, c), Balanced(t),
           \A o \in OwnBlocks(t, me) : o.begin = a
    PROVE  /\ BlockState(r, me) = "found" /\ Balanced(r)
           /\ OwnBlocks(r, me) = {[begin |-> a, end |-> a + 6, host |-> me]}
<1>. DEFINE n == Len(block)
            d == n - (b - a + 1)
            new == [begin |-> a, end |-> a + 6, host |-> me]
<1>1. /\ DOMAIN t = 1 .. Len(t) /\ DOMAIN r = 1 .. Len(r)
    OBVIOUS
<1>2. n = 7 /\ DOMAIN block = 1 .. 7 /\ block[1] = Marker("begin", me)
    BY ManagedBlockLines
<1>3. /\ a \in Nat \ {0} /\ b \in Nat /\ d \in Int
      /\ a - 1 <= b /\ b <= Len(t) /\ b + d = a - 1 + n /\ Len(r) = Len(t) + d
      /\ \A k \in DOMAIN t : k < a => k \in DOMAIN r /\ r[k] = t[k]
      /\ \A k \in DOMAIN t : k > b => k + d \in DOMAIN r /\ r[k + d] = t[k] /\ k + d > a - 1 + n
      /\ \A k \in DOMAIN r : k < a => k \in DOMAIN t /\ r[k] = t[k]
      /\ \A k \in DOMAIN r : k > a - 1 + n => k - d \in DOMAIN t /\ k - d > b /\ r[k] = t[k - d]
      /\ \A j \in DOMAIN block : a - 1 + j \in DOMAIN r /\ r[a - 1 + j] = block[j]
    BY ReplacedLines
<1>4. a - 1 + n = a + 6 /\ a - 1 + 1 = a /\ d = 7 - (b - a + 1)
    BY <1>2, <1>3
<1>5. /\ IsPair(r, a, a + 6)
      /\ \A i, e : IsPair(r, i, e) =>
            \/ i = a /\ e = a + 6
            \/ e < a /\ IsPair(t, i, e)
            \/ i > a + 6 /\ i - d > b /\ IsPair(t, i - d, e - d)
      /\ \A i, e : IsPair(t, i, e) =>
            \/ i = a /\ e = b
            \/ e < a /\ IsPair(r, i, e)
            \/ i > b /\ i + d > a + 6 /\ IsPair(r, i + d, e + d)
    BY <1>4, PairsOfReplaced
<1>. HIDE DEF d, n
<1>6. r[a].host = me
    <2>1. r[a - 1 + 1] = block[1]
        BY <1>2, <1>3
    <2> QED
        BY <1>2, <1>4, <2>1, LineKind
<1>7. Balanced(r)
    <2>. SUFFICES ASSUME NEW k \in DOMAIN r, IsMarker(r[k])
                  PROVE  \E i, e : IsPair(r, i, e) /\ k \in {i, e}
        BY BalancedMeans
    <2>0. k \in Nat
        BY <1>1
    <2>1. CASE k < a
        <3>1. k \in DOMAIN t /\ IsMarker(t[k])
            BY <1>3, <2>1
        <3>2. PICK i, e : IsPair(t, i, e) /\ k \in {i, e}
            BY <3>1, BalancedMeans
        <3>3. i \in Nat /\ e \in Nat /\ i < e
            BY <1>1, <3>2 DEF IsPair
        <3>4. ~(i = a /\ e = b) /\ ~(i > b)
            BY <1>3, <2>1, <3>2, <3>3
        <3> QED
            BY <1>5, <3>2, <3>4
    <2>2. CASE a <= k /\ k <= a + 6
        <3>1. ~(a < k /\ k < a + 6)
            BY <1>5 DEF IsPair
        <3>2. k \in {a, a + 6}
            BY <1>3, <2>0, <2>2, <3>1
        <3> QED
            BY <1>5, <3>2
    <2>3. CASE k > a + 6
        <3>1. k - d \in DOMAIN t /\ k - d > b /\ IsMarker(t[k - d])
            BY <1>3, <1>4, <2>3
        <3>2. PICK i, e : IsPair(t, i, e) /\ k - d \in {i, e}
            BY <3>1, BalancedMeans
        <3>3. i \in Nat /\ e \in Nat /\ i < e
            BY <1>1, <3>2 DEF IsPair
        <3>4. ~(i = a /\ e = b) /\ ~(e < a)
            BY <1>3, <3>1, <3>2, <3>3, SMTT(30)
        <3>5. IsPair(r, i + d, e + d)
            BY <1>5, <3>2, <3>4
        <3>6. d \in Int /\ (k - d = i \/ k - d = e)
            BY <1>3, <3>2
        <3>7. k = i + d \/ k = e + d
            BY <2>0, <3>3, <3>6
        <3> QED
            BY <3>5, <3>7
    <2> QED
        BY <1>3, <2>0, <2>1, <2>2, <2>3
<1>8. new \in OwnBlocks(r, me)
    <2>1. new \in Blocks(r)
        BY <1>5, <1>6, <1>7, PairBlock
    <2> QED
        BY <2>1 DEF OwnBlocks, EffectiveHost
<1>9. ASSUME NEW o \in OwnBlocks(r, me) PROVE o = new
    <2>1. o \in Blocks(r) /\ EffectiveHost(r, o, me) = me
        BY DEF OwnBlocks
    <2>. DEFINE i == o.begin
                e == o.end
    <2>2. /\ IsPair(r, i, e) /\ o.host = r[i].host
          /\ o = [begin |-> i, end |-> e, host |-> r[i].host]
        BY <2>1, BlockMeans
    <2>3. i \in DOMAIN r /\ e \in DOMAIN r /\ i < e /\ i \in Nat /\ e \in Nat
        BY <1>1, <2>2 DEF IsPair
    <2>4. CASE i = a /\ e = a + 6
        BY <1>6, <2>2, <2>4
    <2>5. ASSUME e < a, IsPair(t, i, e) PROVE FALSE
        <3>. DEFINE q == [begin |-> i, end |-> e, host |-> t[i].host]
                    f == [k \in DOMAIN r |-> k]
        <3>1. q \in Blocks(t)
            BY <2>5, PairBlock
        <3>2. i < a /\ t[i] = r[i]
            BY <1>3, <2>3, <2>5
        <3>3. ASSUME NEW k \in DOMAIN r, i < k, k < e PROVE k \in DOMAIN t /\ t[k] = r[k]
            BY <1>1, <1>3, <2>3, <2>5, <3>3
        <3>4. ASSUME NEW k \in DOMAIN t, i < k, k < e PROVE k \in DOMAIN r
            BY <1>1, <1>3, <2>3, <2>5, <3>4
        <3>5. SameLines(r, i, e, t, q.begin, q.end, f)
            BY <3>3, <3>4 DEF SameLines
        <3>6. EffectiveHost(r, o, me) = EffectiveHost(t, q, me)
            <4>. HIDE DEF f
            <4>1. /\ o.host = q.host /\ IsPair(t, q.begin, q.end) /\ IsPair(r, o.begin, o.end)
                  /\ SameLines(r, o.begin, o.end, t, q.begin, q.end, f)
                BY <2>2, <2>5, <3>2, <3>5
            <4>2. BodyCommand(SubSeq(r, o.begin + 1, o.end - 1))
                    = BodyCommand(SubSeq(t, q.begin + 1, q.end - 1))
                <5>. HIDE DEF f, q
                <5>. DEFINE p1 == o.begin
                            p2 == o.end
                            p3 == q.begin
                            p4 == q.end
                <5>1. IsPair(r, p1, p2) /\ IsPair(t, p3, p4) /\ SameLines(r, p1, p2, t, p3, p4, f)
                    BY <4>1
                <5>. HIDE DEF p1, p2, p3, p4
                <5>2. BodyCommand(SubSeq(r, p1 + 1, p2 - 1)) = BodyCommand(SubSeq(t, p3 + 1, p4 - 1))
                    BY <5>1, BodyCommandSame
                <5> QED
                    BY <5>2 DEF p1, p2, p3, p4
            <4> QED
                BY <4>1, <4>2, SameEffectiveHost
        <3>7. q \in OwnBlocks(t, me)
            BY <2>1, <3>1, <3>6 DEF OwnBlocks
        <3> QED
            BY <1>3, <2>3, <3>2, <3>7
    <2>6. ASSUME i > a + 6, i - d > b, IsPair(t, i - d, e - d) PROVE FALSE
        <3>. DEFINE q == [begin |-> i - d, end |-> e - d, host |-> t[i - d].host]
                    f == [k \in DOMAIN r |-> k - d]
        <3>1. q \in Blocks(t)
            BY <2>6, PairBlock
        <3>2. t[i - d] = r[i]
            BY <1>3, <1>4, <2>3, <2>6
        <3>3. ASSUME NEW k \in DOMAIN r, i < k, k < e
              PROVE  f[k] \in DOMAIN t /\ t[f[k]] = r[k] /\ i - d < f[k] /\ f[k] < e - d
            <4>0. k \in Nat /\ i \in Nat /\ a \in Nat /\ a - 1 + n = a + 6 /\ i > a + 6 /\ i < k
                BY <1>1, <1>3, <1>4, <2>3, <2>6, <3>3
            <4>1. k \in Nat /\ k > a - 1 + n
                BY <4>0
            <4>2. k - d \in DOMAIN t /\ t[k - d] = r[k]
                BY <1>3, <4>1
            <4> QED
                BY <1>3, <2>3, <3>3, <4>1, <4>2, SMTT(30)
        <3>4. ASSUME NEW k \in DOMAIN t, i - d < k, k < e - d
              PROVE  \E j \in DOMAIN r : i < j /\ j < e /\ f[j] = k
            <4>1. k \in Nat /\ k > b
                BY <1>1, <1>3, <2>3, <2>6, <3>4, SMTT(30)
            <4>3. k + d \in DOMAIN r
                BY <1>3, <4>1
            <4>4. k \in Nat /\ d \in Int /\ i \in Nat /\ e \in Nat /\ i - d < k /\ k < e - d
                BY <1>3, <2>3, <3>4, <4>1
            <4>5. i < k + d /\ k + d < e /\ (k + d) - d = k
                BY <4>4
            <4>2. k + d \in DOMAIN r /\ i < k + d /\ k + d < e /\ f[k + d] = k
                BY <4>3, <4>5
            <4> QED
                BY <4>2
        <3>5. ASSUME NEW j \in DOMAIN r, NEW k \in DOMAIN r PROVE (j < k) <=> (f[j] < f[k])
            BY <1>1, <1>3
        <3>. HIDE DEF f
        <3>6. SameLines(r, i, e, t, q.begin, q.end, f)
            BY <3>3, <3>4, <3>5 DEF SameLines
        <3>7. EffectiveHost(r, o, me) = EffectiveHost(t, q, me)
            <4>1. /\ o.host = q.host /\ IsPair(t, q.begin, q.end) /\ IsPair(r, o.begin, o.end)
                  /\ SameLines(r, o.begin, o.end, t, q.begin, q.end, f)
                BY <2>2, <2>6, <3>2, <3>6
            <4>2. BodyCommand(SubSeq(r, o.begin + 1, o.end - 1))
                    = BodyCommand(SubSeq(t, q.begin + 1, q.end - 1))
                <5>. HIDE DEF f, q
                <5>. DEFINE p1 == o.begin
                            p2 == o.end
                            p3 == q.begin
                            p4 == q.end
                <5>1. IsPair(r, p1, p2) /\ IsPair(t, p3, p4) /\ SameLines(r, p1, p2, t, p3, p4, f)
                    BY <4>1
                <5>. HIDE DEF p1, p2, p3, p4
                <5>2. BodyCommand(SubSeq(r, p1 + 1, p2 - 1)) = BodyCommand(SubSeq(t, p3 + 1, p4 - 1))
                    BY <5>1, BodyCommandSame
                <5> QED
                    BY <5>2 DEF p1, p2, p3, p4
            <4> QED
                BY <4>1, <4>2, SameEffectiveHost
        <3>8. q \in OwnBlocks(t, me)
            BY <2>1, <3>1, <3>7 DEF OwnBlocks
        <3>9. q.begin = a
            BY <3>8
        <3>10. i - d = a /\ i - d > b /\ a - 1 <= b /\ a \in Nat /\ b \in Nat /\ i - d \in DOMAIN t
            BY <1>3, <2>6, <3>9 DEF IsPair
        <3>11. IsPair(t, a, b) \/ a = Len(t) + 1
            BY DEF Slot
        <3>12. a \in DOMAIN t /\ a # Len(t) + 1
            BY <1>1, <3>10
        <3> QED
            BY <1>1, <3>10, <3>11, <3>12 DEF IsPair
    <2> QED
        BY <1>5, <2>2, <2>4, <2>5, <2>6
<1>10. OwnBlocks(r, me) = {new}
    BY <1>8, <1>9
<1>11. Cardinality(OwnBlocks(r, me)) = 1
    BY <1>10, FS_Singleton
<1>12. OwnBlocks(r, me) # {} /\ ~(Cardinality(OwnBlocks(r, me)) > 1)
    BY <1>10, <1>11
<1>. HIDE DEF new
<1>13. BlockState(r, me) = "found"
    BY <1>7, <1>12 DEF BlockState
<1> QED
    BY <1>7, <1>10, <1>13 DEF new

\* The lines of setup's block, where they stand.
BlockAt(r, a, me, c) ==
    /\ a \in Nat \ {0} /\ a .. a + 6 \subseteq DOMAIN r
    /\ r[a] = Marker("begin", me) /\ r[a + 1] = Line("comment") /\ r[a + 2] = Line("hooks")
    /\ r[a + 3] = Line("event") /\ r[a + 4] = CommandLine(c) /\ r[a + 5] = Line("timeout")
    /\ r[a + 6] = Marker("end", me)

\* The lines of the new block stand where it was put.
LEMMA ReplacedBlockAt ==
    ASSUME NEW Lines, NEW t \in Seq(Lines), NEW r \in Seq(Lines), NEW block \in Seq(Lines),
           NEW a, NEW b, Replaced(r, t, a, b, block), NEW me, NEW c, block = ManagedBlock(me, c)
    PROVE  BlockAt(r, a, me, c)
<1>1. /\ DOMAIN block = 1 .. 7
      /\ block[1] = Marker("begin", me) /\ block[2] = Line("comment")
      /\ block[3] = Line("hooks") /\ block[4] = Line("event")
      /\ block[5] = CommandLine(c) /\ block[6] = Line("timeout")
      /\ block[7] = Marker("end", me)
    BY ManagedBlockLines
<1>2. a \in Nat \ {0} /\ \A j \in DOMAIN block : a - 1 + j \in DOMAIN r /\ r[a - 1 + j] = block[j]
    BY ReplacedLines
<1>3. /\ a - 1 + 1 = a /\ a - 1 + 2 = a + 1 /\ a - 1 + 3 = a + 2 /\ a - 1 + 4 = a + 3
      /\ a - 1 + 5 = a + 4 /\ a - 1 + 6 = a + 5 /\ a - 1 + 7 = a + 6
    BY <1>2
<1>4. {1, 2, 3, 4, 5, 6, 7} \subseteq DOMAIN block
    BY <1>1
<1>5. /\ r[a] = block[1] /\ r[a + 1] = block[2] /\ r[a + 2] = block[3] /\ r[a + 3] = block[4]
      /\ r[a + 4] = block[5] /\ r[a + 5] = block[6] /\ r[a + 6] = block[7]
      /\ a + 6 \in DOMAIN r
    BY <1>2, <1>3, <1>4
<1>6. a .. a + 6 \subseteq DOMAIN r
    <2>1. DOMAIN r = 1 .. Len(r) /\ Len(r) \in Nat
        OBVIOUS
    <2> QED
        BY <1>2, <1>5, <2>1, SMTT(30)
<1> QED
    BY <1>1, <1>2, <1>5, <1>6 DEF BlockAt

\* What kimi reads in the block.
LEMMA BlockTable ==
    ASSUME NEW Lines, NEW r \in Seq(Lines), NEW a, NEW me, NEW c, BlockAt(r, a, me, c),
           \A k \in DOMAIN r : a + 6 < k /\ IsKey(r[k])
                                  => \E g \in HeadersOf(r) : a + 6 < g /\ g < k
    PROVE  /\ a + 2 \in HeadersOf(r) /\ r[a + 2].kind = "hooks"
           /\ TableAt(r, a + 2) = {a + 3, a + 4, a + 5}
           /\ Entry(r, a + 2) = {Line("event"), CommandLine(c), Line("timeout")}
<1>1. /\ a \in Nat \ {0} /\ DOMAIN r \subseteq Nat \ {0}
      /\ {a, a + 1, a + 2, a + 3, a + 4, a + 5, a + 6} \subseteq DOMAIN r
    <2>1. a \in Nat \ {0} /\ a .. a + 6 \subseteq DOMAIN r
        BY DEF BlockAt
    <2>2. {a, a + 1, a + 2, a + 3, a + 4, a + 5, a + 6} \subseteq a .. a + 6
        BY <2>1
    <2> QED
        BY <2>1, <2>2
<1>2. /\ r[a + 2].kind = "hooks" /\ r[a + 3].kind = "event" /\ r[a + 4].kind = "command"
      /\ r[a + 5].kind = "timeout" /\ r[a + 6].kind = "end"
    BY LineKind DEF BlockAt
<1>3. IsHeader(r[a + 2]) /\ IsKey(r[a + 3]) /\ IsKey(r[a + 4]) /\ IsKey(r[a + 5]) /\ ~IsKey(r[a + 6])
      /\ ~IsHeader(r[a + 3]) /\ ~IsHeader(r[a + 4])
    BY <1>2 DEF IsHeader, Headers, IsKey, Keys
<1>4. ASSUME NEW j \in {a + 3, a + 4, a + 5} PROVE j \in TableAt(r, a + 2)
    <2>1. j \in DOMAIN r /\ j > a + 2 /\ IsKey(r[j])
        BY <1>1, <1>3
    <2>2. ASSUME NEW g \in HeadersOf(r), g > a + 2 PROVE j < g
        <3>1. g \in Nat /\ IsHeader(r[g])
            BY <1>1 DEF HeadersOf
        <3>2. g # a + 3 /\ g # a + 4 /\ g # a + 5
            BY <1>3, <3>1, HeaderIsNoKey
        <3> QED
            BY <1>1, <2>2, <3>1, <3>2
    <2> QED
        BY <2>1, <2>2, InTable
<1>5. ASSUME NEW j \in TableAt(r, a + 2) PROVE j \in {a + 3, a + 4, a + 5}
    <2>1. j \in DOMAIN r /\ j > a + 2 /\ IsKey(r[j]) /\ \A g \in HeadersOf(r) : g > a + 2 => j < g
        BY InTable
    <2>2. j \in Nat /\ j # a + 6
        BY <1>1, <1>3, <2>1
    <2>3. ASSUME a + 6 < j PROVE FALSE
        <3>1. PICK g \in HeadersOf(r) : a + 6 < g /\ g < j
            BY <2>1, <2>3
        <3>2. g \in Nat
            BY <1>1 DEF HeadersOf
        <3> QED
            BY <1>1, <2>1, <2>2, <3>1, <3>2
    <2> QED
        BY <1>1, <2>1, <2>2, <2>3, SMTT(30)
<1>6. TableAt(r, a + 2) = {a + 3, a + 4, a + 5}
    BY <1>4, <1>5
<1>7. Entry(r, a + 2) = {r[a + 3], r[a + 4], r[a + 5]}
    BY <1>6 DEF Entry, EntryAmong, TableAt
<1>8. r[a + 3] = Line("event") /\ r[a + 4] = CommandLine(c) /\ r[a + 5] = Line("timeout")
    BY DEF BlockAt
<1>9. a + 2 \in HeadersOf(r)
    BY <1>1, <1>3 DEF HeadersOf
<1> QED
    BY <1>2, <1>6, <1>7, <1>8, <1>9

\* What the verifier makes of its body.
LEMMA BlockBodyValid ==
    ASSUME NEW Lines, NEW r \in Seq(Lines), NEW a, NEW me, NEW c, c # None,
           BlockAt(r, a, me, c), IsPair(r, a, a + 6)
    PROVE  LET body == SubSeq(r, a + 1, (a + 6) - 1)
           IN ValidBody(body) /\ BodyCommand(body) = c
<1>. DEFINE body == SubSeq(r, a + 1, (a + 6) - 1)
<1>1. a \in Nat \ {0}
    BY DEF BlockAt
<1>2. /\ body \in Seq(Lines) /\ DOMAIN body = 1 .. (a + 6) - 1 - a
      /\ \A k \in DOMAIN body : body[k] = r[a + k]
    <2>. DEFINE z == a + 6
    <2>1. IsPair(r, a, z)
        OBVIOUS
    <2>. HIDE DEF z
    <2>2. body = SubSeq(r, a + 1, z - 1)
        BY DEF z
    <2>. HIDE DEF body
    <2>3. /\ body \in Seq(Lines) /\ DOMAIN body = 1 .. z - 1 - a
          /\ \A k \in DOMAIN body : body[k] = r[a + k]
        BY <2>1, <2>2, BodyLines
    <2> QED
        BY <2>3 DEF z
<1>. HIDE DEF body
<1>3. DOMAIN body = 1 .. 5
    BY <1>1, <1>2
<1>4. \A k \in DOMAIN body : k \in {1, 2, 3, 4, 5}
    BY <1>3
<1>5. {1, 2, 3, 4, 5} \subseteq DOMAIN body
    BY <1>3
<1>6. /\ body[1].kind = "comment" /\ body[2].kind = "hooks" /\ body[3].kind = "event"
      /\ body[4].kind = "command" /\ body[5].kind = "timeout" /\ body[4].cmd = c
    <2>1. /\ body[1] = r[a + 1] /\ body[2] = r[a + 2] /\ body[3] = r[a + 3]
          /\ body[4] = r[a + 4] /\ body[5] = r[a + 5]
        BY <1>2, <1>5
    <2> QED
        BY <2>1, LineKind DEF BlockAt
<1>7. ASSUME NEW k \in DOMAIN body PROVE ~StopsBody(body, k)
    <2>1. \A j \in 1 .. k - 1 : k = 2 => j = 1
        OBVIOUS
    <2> QED
        BY <1>4, <1>6, <2>1 DEF StopsBody
<1>8. HeadersOf(body) = {2}
    BY <1>4, <1>5, <1>6 DEF HeadersOf, IsHeader, Headers
<1>9. \A k \in DOMAIN body : IsKey(body[k]) => k \in {3, 4, 5}
    BY <1>4, <1>6 DEF IsKey, Keys
<1>10. TableAt(body, 0) = {}
    <2>. SUFFICES ASSUME NEW k \in TableAt(body, 0) PROVE FALSE
        OBVIOUS
    <2>1. k \in DOMAIN body /\ IsKey(body[k]) /\ \A g \in HeadersOf(body) : g > 0 => k < g
        BY InTable
    <2> QED
        BY <1>8, <1>9, <2>1
<1>11. \A k \in TableAt(body, 2) : k \in {3, 4, 5}
    BY <1>9, InTable
<1>12. Parses(body)
    <2>1. ASSUME NEW h \in {0} \cup HeadersOf(body), NEW i \in TableAt(body, h), NEW j \in TableAt(body, h),
                 Keys[body[i].kind] = Keys[body[j].kind]
          PROVE  i = j
        <3>1. h = 2 /\ i \in {3, 4, 5} /\ j \in {3, 4, 5}
            BY <1>8, <1>10, <1>11
        <3>2. Keys[body[3].kind] = "event" /\ Keys[body[4].kind] = "command" /\ Keys[body[5].kind] = "timeout"
            BY <1>6 DEF Keys
        <3> QED
            BY <2>1, <3>1, <3>2
    <2> QED
        BY <1>10, <2>1, ParsesMeans
<1>13. \A e \in Entries(body) : ~Has(e, "matcher")
    <2>1. Entry(body, 0) = {}
        BY <1>10 DEF Entry, EntryAmong, TableAt
    <2>2. \A e \in Entries(body) : e = Entry(body, 2)
        BY <1>8, <2>1, EntriesMeans
    <2>3. \A l \in Entry(body, 2) : l \in {body[3], body[4], body[5]}
        BY <1>11 DEF Entry, EntryAmong, TableAt
    <2>4. Keys[body[3].kind] # "matcher" /\ Keys[body[4].kind] # "matcher" /\ Keys[body[5].kind] # "matcher"
        BY <1>6 DEF Keys
    <2> QED
        BY <2>2, <2>3, <2>4 DEF Has
<1>14. BodyCommand(body) = c
    <2>1. {i \in DOMAIN body : StopsBody(body, i)} = {}
        BY <1>7
    <2>2. BodyCommand(body) = LastCommand(body)
        BY <2>1 DEF BodyCommand
    <2>3. 4 \in DOMAIN body /\ IsCommand(body[4])
        BY <1>5, <1>6 DEF IsCommand
    <2>4. ASSUME NEW q \in DOMAIN body, IsCommand(body[q]) PROVE q <= 4
        BY <1>4, <1>6, <2>4 DEF IsCommand
    <2>5. LastCommand(body) = body[4].cmd
        BY <1>2, <2>3, <2>4, LastCommandMeans
    <2> QED
        BY <1>6, <2>2, <2>5
<1>15. /\ \E i \in DOMAIN body : body[i].kind = "hooks"
       /\ \E i \in DOMAIN body : body[i].kind = "event"
    BY <1>5, <1>6
<1>16. ValidBody(body)
    BY <1>7, <1>12, <1>13, <1>14, <1>15 DEF ValidBody
<1> QED
    BY <1>14, <1>16 DEF body

\* Setup's block, in place, is what the verifier looks for.
LEMMA BlockEstablishes ==
    ASSUME NEW Lines, NEW r \in Seq(Lines), NEW a, NEW me, NEW c, c # None,
           BlockAt(r, a, me, c), IsPair(r, a, a + 6), Parses(r),
           \A k \in DOMAIN r : a + 6 < k /\ IsKey(r[k])
                                  => \E g \in HeadersOf(r) : a + 6 < g /\ g < k,
           BlockState(r, me) = "found",
           OwnBlocks(r, me) = {[begin |-> a, end |-> a + 6, host |-> me]}
    PROVE  EvaluateInstalled(r, c, me)
<1>. DEFINE b == OwnBlock(r, me)
            h == a + 2
<1>1. b = [begin |-> a, end |-> a + 6, host |-> me]
    BY DEF OwnBlock
<1>2. Body(r, b) = SubSeq(r, a + 1, (a + 6) - 1)
    <2>. DEFINE z == a + 6
    <2>1. b.begin = a /\ b.end = z
        BY <1>1
    <2>. HIDE DEF b, z
    <2>2. Body(r, b) = SubSeq(r, a + 1, z - 1)
        BY <2>1 DEF Body
    <2> QED
        BY <2>2 DEF z
<1>. HIDE DEF b
<1>3. ValidBody(Body(r, b)) /\ BodyCommand(Body(r, b)) = c
    BY <1>2, BlockBodyValid
<1>4. /\ h \in HeadersOf(r) /\ r[h].kind = "hooks"
      /\ Entry(r, h) = {Line("event"), CommandLine(c), Line("timeout")}
    BY BlockTable
<1>. HIDE DEF h
<1>5. {l \in Entry(r, 0) : IsInline(l)} = {}
    <2>1. \A i \in TableAt(r, 0) : ~IsInline(r[i])
        BY <1>4, ParsesMeans
    <2>2. \A l \in Entry(r, 0) : \E i \in TableAt(r, 0) : l = r[i]
        BY DEF Entry, EntryAmong, TableAt
    <2> QED
        BY <2>1, <2>2
<1>6. Entry(r, h) \in Entries(r)
    BY <1>4, <1>5, EntriesMeans
<1>7. \A l \in Entry(r, h) : Keys[l.kind] \in {"event", "command", "timeout"}
    BY <1>4, LineKind DEF Keys
<1>8. HasCleanEntry(r, DOMAIN r, c)
    <2>1. ParsesAmong(r, DOMAIN r)
        BY DEF Parses
    <2>2. Entry(r, h) \in EntriesAmong(r, DOMAIN r)
        BY <1>6 DEF Entries
    <2>3. Line("event") \in Entry(r, h) /\ Runs(Entry(r, h), c)
        BY <1>4 DEF Runs
    <2> QED
        BY <1>7, <2>1, <2>2, <2>3 DEF HasCleanEntry
<1> QED
    BY <1>3, <1>8 DEF EvaluateInstalled, b

-----------------------------------------------------------------------------
(* Removals, and the block of a host.                                      *)

\* A text without some of its lines, of which none is a marker or, but for blank
\* ones, stands in a block.
Thinned(Lines, r, t, kept, f) ==
    /\ r \in Seq(Lines) /\ t \in Seq(Lines) /\ Embeds(r, t, kept, f)
    /\ \A i \in DOMAIN t : IsMarker(t[i]) => i \in kept
    /\ \A i, e, k \in DOMAIN t :
          IsPair(t, i, e) /\ i < k /\ k < e => k \in kept \/ t[k].kind = "blank"

\* Its pairs are the pairs of the whole text.
LEMMA ThinnedPair ==
    ASSUME NEW Lines, NEW r, NEW t, NEW kept, NEW f, Thinned(Lines, r, t, kept, f),
           NEW x, NEW y, IsPair(t, x, y)
    PROVE  \E i, e : IsPair(r, i, e) /\ f[i] = x /\ f[e] = y
<1>1. /\ r \in Seq(Lines) /\ t \in Seq(Lines) /\ Embeds(r, t, kept, f)
      /\ \A i \in DOMAIN t : IsMarker(t[i]) => i \in kept
    BY DEF Thinned
<1>2. /\ \A k \in DOMAIN r : f[k] \in DOMAIN t /\ r[k] = t[f[k]]
      /\ \A j, k \in DOMAIN r : (j < k) <=> (f[j] < f[k])
      /\ \A z \in kept : \E k \in DOMAIN r : f[k] = z
    BY <1>1, EmbedsFacts
<1>3. /\ x \in DOMAIN t /\ y \in DOMAIN t /\ x < y
      /\ t[x].kind = "begin" /\ t[y].kind = "end"
      /\ \A j \in DOMAIN t : x < j /\ j < y => ~IsMarker(t[j])
    BY DEF IsPair
<1>4. PICK i \in DOMAIN r : f[i] = x
    BY <1>1, <1>2, <1>3 DEF IsMarker
<1>5. PICK e \in DOMAIN r : f[e] = y
    BY <1>1, <1>2, <1>3 DEF IsMarker
<1>6. i < e /\ r[i].kind = "begin" /\ r[e].kind = "end"
    BY <1>2, <1>3, <1>4, <1>5
<1>7. \A j \in DOMAIN r : i < j /\ j < e => ~IsMarker(r[j])
    BY <1>2, <1>3, <1>4, <1>5
<1> QED
    BY <1>4, <1>5, <1>6, <1>7 DEF IsPair

\* The markers pair up in the one text if they do in the other.
LEMMA ThinnedBalanced ==
    ASSUME NEW Lines, NEW r, NEW t, NEW kept, NEW f, Thinned(Lines, r, t, kept, f)
    PROVE  Balanced(r) <=> Balanced(t)
<1>1. /\ r \in Seq(Lines) /\ t \in Seq(Lines) /\ Embeds(r, t, kept, f)
      /\ \A i \in DOMAIN t : IsMarker(t[i]) => i \in kept
    BY DEF Thinned
<1>2. /\ \A k \in DOMAIN r : f[k] \in DOMAIN t /\ r[k] = t[f[k]]
      /\ \A j, k \in DOMAIN r : f[j] = f[k] => j = k
      /\ \A z \in kept : \E k \in DOMAIN r : f[k] = z
    BY <1>1, EmbedsFacts
<1>3. ASSUME Balanced(t), NEW k \in DOMAIN r, IsMarker(r[k])
      PROVE  \E i, e : IsPair(r, i, e) /\ k \in {i, e}
    <2>1. PICK x, y : IsPair(t, x, y) /\ f[k] \in {x, y}
        BY <1>1, <1>2, <1>3, BalancedMeans
    <2>2. PICK i, e : IsPair(r, i, e) /\ f[i] = x /\ f[e] = y
        BY <2>1, ThinnedPair
    <2>3. i \in DOMAIN r /\ e \in DOMAIN r
        BY <2>2 DEF IsPair
    <2>4. k \in {i, e}
        BY <1>2, <2>1, <2>2, <2>3
    <2> QED
        BY <2>2, <2>4
<1>4. ASSUME Balanced(r), NEW z \in DOMAIN t, IsMarker(t[z])
      PROVE  \E x, y : IsPair(t, x, y) /\ z \in {x, y}
    <2>1. PICK k \in DOMAIN r : f[k] = z
        BY <1>1, <1>2, <1>4
    <2>2. PICK i, e : IsPair(r, i, e) /\ k \in {i, e}
        BY <1>1, <1>2, <1>4, <2>1, BalancedMeans
    <2>3. IsPair(t, f[i], f[e])
        BY <1>1, <2>2, KeepPairs
    <2> QED
        BY <2>1, <2>2, <2>3
<1> QED
    BY <1>1, <1>3, <1>4, BalancedMeans

\* The block of a pair is judged alike in both texts.
LEMMA ThinnedHost ==
    ASSUME NEW Lines, NEW r, NEW t, NEW kept, NEW f, Thinned(Lines, r, t, kept, f), NEW me,
           NEW o, NEW q, IsPair(r, o.begin, o.end), o.host = r[o.begin].host,
           q.begin = f[o.begin], q.end = f[o.end], q.host = t[q.begin].host
    PROVE  /\ IsPair(t, q.begin, q.end)
           /\ EffectiveHost(r, o, me) = EffectiveHost(t, q, me)
<1>. DEFINE i == o.begin
            e == o.end
            x == q.begin
            y == q.end
<1>1. /\ r \in Seq(Lines) /\ t \in Seq(Lines) /\ Embeds(r, t, kept, f)
      /\ \A j \in DOMAIN t : IsMarker(t[j]) => j \in kept
      /\ \A j, g, k \in DOMAIN t :
            IsPair(t, j, g) /\ j < k /\ k < g => k \in kept \/ t[k].kind = "blank"
    BY DEF Thinned
<1>2. /\ \A k \in DOMAIN r : f[k] \in DOMAIN t /\ r[k] = t[f[k]]
      /\ \A j, k \in DOMAIN r : (j < k) <=> (f[j] < f[k])
      /\ \A z \in kept : \E k \in DOMAIN r : f[k] = z
    BY <1>1, EmbedsFacts
<1>3. IsPair(r, i, e) /\ x = f[i] /\ y = f[e] /\ o.host = r[i].host /\ q.host = t[x].host
    OBVIOUS
<1>. HIDE DEF i, e, x, y
<1>4. IsPair(t, x, y)
    BY <1>1, <1>3, KeepPairs
<1>5. i \in DOMAIN r /\ e \in DOMAIN r /\ x \in DOMAIN t /\ y \in DOMAIN t
    BY <1>3, <1>4 DEF IsPair
<1>6. SameLines(r, i, e, t, x, y, f)
    <2>1. ASSUME NEW k \in DOMAIN r, i < k, k < e
          PROVE  f[k] \in DOMAIN t /\ x < f[k] /\ f[k] < y /\ t[f[k]] = r[k]
        BY <1>2, <1>3, <1>5, <2>1
    <2>2. ASSUME NEW z \in DOMAIN t, x < z, z < y
          PROVE  t[z].kind = "blank" \/ \E k \in DOMAIN r : i < k /\ k < e /\ f[k] = z
        <3>. SUFFICES ASSUME t[z].kind # "blank" PROVE \E k \in DOMAIN r : i < k /\ k < e /\ f[k] = z
            OBVIOUS
        <3>1. z \in kept
            BY <1>1, <1>4, <1>5, <2>2
        <3>2. PICK k \in DOMAIN r : f[k] = z
            BY <1>2, <3>1
        <3> QED
            BY <1>2, <1>3, <1>5, <2>2, <3>2
    <2> QED
        BY <1>2, <2>1, <2>2 DEF SameLines
<1>7. BodyCommand(SubSeq(r, i + 1, e - 1)) = BodyCommand(SubSeq(t, x + 1, y - 1))
    BY <1>1, <1>3, <1>4, <1>6, BodyCommandSame
<1>8. o.host = q.host
    BY <1>2, <1>3, <1>5
<1>9. EffectiveHost(r, o, me) = EffectiveHost(t, q, me)
    BY <1>7, <1>8, SameEffectiveHost DEF i, e, x, y
<1> QED
    BY <1>4, <1>9 DEF x, y

\* So its own blocks are those of the whole text.
LEMMA ThinnedOwn ==
    ASSUME NEW Lines, NEW r, NEW t, NEW kept, NEW f, Thinned(Lines, r, t, kept, f), NEW me,
           Balanced(t)
    PROVE  /\ \A o \in OwnBlocks(r, me) :
                 /\ IsPair(r, o.begin, o.end)
                 /\ \E q \in OwnBlocks(t, me) : q.begin = f[o.begin] /\ q.end = f[o.end]
           /\ \A q \in OwnBlocks(t, me) :
                 \E o \in OwnBlocks(r, me) : q.begin = f[o.begin] /\ q.end = f[o.end]
<1>1. r \in Seq(Lines) /\ t \in Seq(Lines) /\ Balanced(r)
    BY ThinnedBalanced DEF Thinned
<1>2. ASSUME NEW o \in OwnBlocks(r, me)
      PROVE  /\ IsPair(r, o.begin, o.end)
             /\ \E q \in OwnBlocks(t, me) : q.begin = f[o.begin] /\ q.end = f[o.end]
    <2>1. o \in Blocks(r) /\ EffectiveHost(r, o, me) = me
        BY DEF OwnBlocks
    <2>2. IsPair(r, o.begin, o.end) /\ o.host = r[o.begin].host
        BY <1>1, <2>1, BlockMeans
    <2>. DEFINE q == [begin |-> f[o.begin], end |-> f[o.end], host |-> t[f[o.begin]].host]
    <2>3. q.begin = f[o.begin] /\ q.end = f[o.end] /\ q.host = t[q.begin].host
        OBVIOUS
    <2>. HIDE DEF q
    <2>4. IsPair(t, q.begin, q.end) /\ EffectiveHost(r, o, me) = EffectiveHost(t, q, me)
        BY <2>2, <2>3, ThinnedHost
    <2>5. q \in Blocks(t)
        <3>1. IsPair(t, f[o.begin], f[o.end])
            BY <2>3, <2>4
        <3> QED
            BY <1>1, <3>1, PairBlock DEF q
    <2> QED
        BY <2>1, <2>2, <2>3, <2>4, <2>5 DEF OwnBlocks
<1>3. ASSUME NEW q \in OwnBlocks(t, me)
      PROVE  \E o \in OwnBlocks(r, me) : q.begin = f[o.begin] /\ q.end = f[o.end]
    <2>1. q \in Blocks(t) /\ EffectiveHost(t, q, me) = me
        BY DEF OwnBlocks
    <2>2. IsPair(t, q.begin, q.end) /\ q.host = t[q.begin].host
        BY <1>1, <2>1, BlockMeans
    <2>3. PICK i, e : IsPair(r, i, e) /\ f[i] = q.begin /\ f[e] = q.end
        BY <2>2, ThinnedPair
    <2>. DEFINE o == [begin |-> i, end |-> e, host |-> r[i].host]
    <2>4. /\ IsPair(r, o.begin, o.end) /\ o.host = r[o.begin].host
          /\ q.begin = f[o.begin] /\ q.end = f[o.end]
        BY <2>3
    <2>5. o \in Blocks(r)
        BY <1>1, <2>3, PairBlock
    <2>. HIDE DEF o
    <2>6. EffectiveHost(r, o, me) = EffectiveHost(t, q, me)
        BY <2>2, <2>4, ThinnedHost
    <2> QED
        BY <2>1, <2>4, <2>5, <2>6 DEF OwnBlocks
<1> QED
    BY <1>2, <1>3

\* Where the state is found, there is one own block.
LEMMA OneOwnBlock ==
    ASSUME NEW Lines, NEW t \in Seq(Lines), NEW me, OwnBlocks(t, me) # {},
           ~(Cardinality(OwnBlocks(t, me)) > 1)
    PROVE  \E q \in OwnBlocks(t, me) : OwnBlocks(t, me) = {q}
<1>. DEFINE S == OwnBlocks(t, me)
<1>1. IsFiniteSet(S)
    <2>1. IsFiniteSet(DOMAIN t)
        <3>1. Len(t) \in Nat /\ DOMAIN t = 1 .. Len(t)
            OBVIOUS
        <3> QED
            BY <3>1, FS_Interval
    <2>2. Begins(t) \subseteq DOMAIN t
        BY DEF Begins
    <2>3. IsFiniteSet(Begins(t))
        BY <2>1, <2>2, FS_Subset
    <2>. DEFINE blk == [i \in Begins(t) |-> [begin |-> i, end |-> EndOfPair(t, i), host |-> t[i].host]]
                all == {blk[i] : i \in Begins(t)}
    <2>4. IsFiniteSet(all)
        <3>1. blk \in Surjection(Begins(t), all)
            BY DEF Surjection
        <3> QED
            BY <2>3, <3>1, FS_Surjection
    <2>5. S \subseteq all
        BY DEF OwnBlocks, Blocks
    <2> QED
        BY <2>4, <2>5, FS_Subset
<1>. HIDE DEF S
<1>2. PICK q \in S : TRUE
    BY DEF S
<1>3. ASSUME NEW p \in S, p # q PROVE FALSE
    <2>1. {p, q} \in SUBSET S /\ IsFiniteSet({p}) /\ Cardinality({p}) = 1
        BY <1>2, FS_Singleton
    <2>3. {p} \cup {q} = {p, q} /\ q \notin {p}
        BY <1>3
    <2>4. IsFiniteSet({p, q}) /\ Cardinality({p, q}) = 2
        <3>1. Cardinality({p} \cup {q}) = Cardinality({p}) + 1 /\ IsFiniteSet({p} \cup {q})
            BY <2>1, <2>3, FS_AddElement
        <3>2. Cardinality({p} \cup {q}) = 2
            <4>. DEFINE u == Cardinality({p} \cup {q})
                        v == Cardinality({p})
            <4>1. u = v + 1 /\ v = 1
                BY <2>1, <3>1
            <4>. HIDE DEF u, v
            <4>2. u = 2
                BY <4>1
            <4> QED
                BY <4>2 DEF u
        <3> QED
            BY <2>3, <3>1, <3>2
    <2>2. Cardinality({p, q}) <= Cardinality(S) /\ Cardinality(S) \in Nat
        BY <1>1, <2>1, FS_Subset, FS_CardinalityType
    <2> QED
        BY <2>2, <2>4 DEF S
<1>4. S = {q}
    BY <1>2, <1>3
<1> QED
    BY <1>2, <1>4 DEF S

\* No marker is left alone, and no second block of the host comes up.
LEMMA ThinnedState ==
    ASSUME NEW Lines, NEW r, NEW t, NEW kept, NEW f, Thinned(Lines, r, t, kept, f), NEW me
    PROVE  /\ BlockState(t, me) = "absent" => BlockState(r, me) = "absent"
           /\ BlockState(t, me) = "found" => BlockState(r, me) = "found"
<1>0. r \in Seq(Lines) /\ t \in Seq(Lines) /\ Embeds(r, t, kept, f)
    BY DEF Thinned
<1>1. ASSUME BlockState(t, me) = "absent" PROVE BlockState(r, me) = "absent"
    <2>1. Balanced(t) /\ OwnBlocks(t, me) = {}
        BY <1>1 DEF BlockState
    <2>2. Balanced(r) /\ OwnBlocks(r, me) = {}
        BY <2>1, ThinnedBalanced, ThinnedOwn
    <2> QED
        BY <2>2 DEF BlockState
<1>2. ASSUME BlockState(t, me) = "found" PROVE BlockState(r, me) = "found"
    <2>1. Balanced(t) /\ OwnBlocks(t, me) # {} /\ ~(Cardinality(OwnBlocks(t, me)) > 1)
        BY <1>2 DEF BlockState
    <2>2. Balanced(r)
        BY <2>1, ThinnedBalanced
    <2>3. PICK q \in OwnBlocks(t, me) : OwnBlocks(t, me) = {q}
        BY <1>0, <2>1, OneOwnBlock
    <2>4. PICK o \in OwnBlocks(r, me) : q.begin = f[o.begin] /\ q.end = f[o.end]
        BY <2>1, <2>3, ThinnedOwn
    <2>5. ASSUME NEW p \in OwnBlocks(r, me) PROVE p = o
        <3>1. f[p.begin] = f[o.begin] /\ f[p.end] = f[o.end]
            BY <2>1, <2>3, <2>4, <2>5, ThinnedOwn
        <3>2. /\ p.begin \in DOMAIN r /\ o.begin \in DOMAIN r
              /\ p.end \in DOMAIN r /\ o.end \in DOMAIN r
            BY <2>1, <2>4, <2>5, ThinnedOwn DEF IsPair
        <3>3. p.begin = o.begin /\ p.end = o.end
            <4>1. \A j, k \in DOMAIN r : f[j] = f[k] => j = k
                BY <1>0, EmbedsFacts
            <4> QED
                BY <3>1, <3>2, <4>1
        <3>4. p \in Blocks(r) /\ o \in Blocks(r)
            BY DEF OwnBlocks
        <3>5. /\ p = [begin |-> p.begin, end |-> p.end, host |-> r[p.begin].host]
              /\ o = [begin |-> o.begin, end |-> o.end, host |-> r[o.begin].host]
            BY <1>0, <3>4, BlockMeans
        <3> QED
            BY <3>3, <3>5
    <2>6. OwnBlocks(r, me) = {o}
        BY <2>5
    <2>7. Cardinality(OwnBlocks(r, me)) = 1
        BY <2>6, FS_Singleton
    <2>8. OwnBlocks(r, me) # {} /\ ~(Cardinality(OwnBlocks(r, me)) > 1)
        BY <2>6, <2>7
    <2> QED
        BY <2>2, <2>8 DEF BlockState
<1> QED
    BY <1>1, <1>2

-----------------------------------------------------------------------------
(* Bare tables, after a removal.                                           *)

\* Two texts with the same lines are one.
LEMMA SameText ==
    ASSUME NEW Lines, NEW a \in Seq(Lines), NEW b \in Seq(Lines), Len(a) = Len(b),
           \A k \in 1 .. Len(a) : a[k] = b[k]
    PROVE  a = b
OBVIOUS

\* The lines of a bare table, and what makes setup prune it.
TableLines(t, h) == SubSeq(t, h + 1, EndOfBody(t, h) - 1)
\* What classifyHookTable takes for a hook of this plugin, by its lines,
OursTable(b, c, host) ==
    /\ \A i \in DOMAIN b : b[i].kind \in Comments \cup {"event", "command", "timeout"}
    /\ \E i \in DOMAIN b : b[i].kind = "event"
    /\ LastCommand(b) # None
    /\ \/ LastCommand(b) = c
       \/ OursByPath(LastCommand(b)) /\ host \in {None, HostOfCommand(LastCommand(b))}
\* and where findUnmanagedApprovalHookBlocks finds one.
OursAt(t, h, c, host) ==
    /\ h \in DOMAIN t /\ h \notin InBlocks(t) /\ t[h].kind = "hooks"
    /\ OursTable(TableLines(t, h), c, host) /\ ~MatcherInSpan(t, h)

\* The tables that findUnmanagedApprovalHookBlocks reports.
LEMMA PrunableAt ==
    ASSUME NEW t, NEW c, NEW host
    PROVE  /\ \A h : OursAt(t, h, c, host) =>
                 \E b \in Prunable(t, c, host) : b.start = h /\ b.end = EndOfBody(t, h)
           /\ \A b \in Prunable(t, c, host) : OursAt(t, b.start, c, host) /\ b.end = EndOfBody(t, b.start)
<1>1. ASSUME NEW h, OursAt(t, h, c, host)
      PROVE  \E b \in Prunable(t, c, host) : b.start = h /\ b.end = EndOfBody(t, h)
    <2>. DEFINE b == [start |-> h, end |-> EndOfBody(t, h), cmd |-> LastCommand(TableLines(t, h))]
    <2>1. b \in BareTables(t)
        BY <1>1 DEF OursAt, OursTable, TableLines, BareTables
    <2>2. b \in Prunable(t, c, host)
        BY <1>1, <2>1 DEF OursAt, OursTable, Prunable
    <2> QED
        BY <2>2
<1>2. ASSUME NEW b \in Prunable(t, c, host)
      PROVE  OursAt(t, b.start, c, host) /\ b.end = EndOfBody(t, b.start)
    <2>1. /\ b \in BareTables(t)
          /\ b.cmd = c \/ (OursByPath(b.cmd) /\ host \in {None, HostOfCommand(b.cmd)})
        BY DEF Prunable
    <2>2. PICK h \in DOMAIN t :
             /\ h \notin InBlocks(t) /\ t[h].kind = "hooks" /\ ~MatcherInSpan(t, h)
             /\ \A i \in DOMAIN TableLines(t, h) :
                   TableLines(t, h)[i].kind \in Comments \cup {"event", "command", "timeout"}
             /\ \E i \in DOMAIN TableLines(t, h) : TableLines(t, h)[i].kind = "event"
             /\ LastCommand(TableLines(t, h)) # None
             /\ b = [start |-> h, end |-> EndOfBody(t, h), cmd |-> LastCommand(TableLines(t, h))]
        BY <2>1 DEF BareTables, TableLines
    <2>3. b.start = h /\ b.end = EndOfBody(t, h) /\ b.cmd = LastCommand(TableLines(t, h))
        BY <2>2
    <2> QED
        BY <2>1, <2>2, <2>3 DEF OursAt, OursTable
<1> QED
    BY <1>1, <1>2

\* The lines of a part of a text, counted from the line before it.
IsPart(part, t, g, n) ==
    /\ g \in Nat /\ n \in Nat \ {0} /\ g + n <= Len(t) + 1
    /\ part = SubSeq(t, g + 1, (g + n) - 1)
\* They are those of the text, moved.
LEMMA PartLines ==
    ASSUME NEW Lines, NEW t \in Seq(Lines), NEW part, NEW g, NEW n, IsPart(part, t, g, n)
    PROVE  /\ part \in Seq(Lines) /\ Len(part) = n - 1
           /\ \A k \in 1 .. n - 1 : part[k] = t[g + k]
<1>. DEFINE p == g + 1
            q == (g + n) - 1
<1>0. g \in Nat /\ n \in Nat \ {0} /\ g + n <= Len(t) + 1 /\ part = SubSeq(t, p, q)
    BY DEF IsPart
<1>1. p \in Nat \ {0} /\ q \in Nat /\ q <= Len(t) /\ p <= q + 1 /\ q - p + 1 = n - 1
    BY <1>0
<1>2. \A k \in 1 .. n - 1 : p + k - 1 = g + k
    BY <1>0
<1>. HIDE DEF p, q
<1>3. /\ SubSeq(t, p, q) \in Seq(Lines) /\ DOMAIN SubSeq(t, p, q) = 1 .. q - p + 1
      /\ \A k \in 1 .. q - p + 1 : SubSeq(t, p, q)[k] = t[p + k - 1]
    BY <1>1, SubSeqFacts
<1>4. Len(SubSeq(t, p, q)) = n - 1
    BY <1>1, <1>3
<1> QED
    BY <1>0, <1>1, <1>2, <1>3, <1>4

\* A place in a table, in the other one.
LEMMA PlaceInOther ==
    ASSUME NEW x \in Nat, NEW g \in Nat, NEW h \in Nat \ {0}, NEW n \in Nat, NEW m \in Nat,
           g < x, x < g + n, h + n <= m + 1
    PROVE  /\ x - g \in 0 .. n - 1 /\ g + (x - g) = x /\ h + (x - g) \in 1 .. m
           /\ h < h + (x - g) /\ h + (x - g) < h + n
OBVIOUS

\* A table has the same lines in both texts, and ends there.
SameSpan(r, h, t, g) ==
    LET n == EndOfBody(r, h) - h
    IN /\ \A j \in 0 .. n - 1 : g + j \in DOMAIN t /\ t[g + j] = r[h + j]
       /\ \/ g + n = Len(t) + 1
          \/ g + n \in DOMAIN t /\ (Parts(t[g + n]) \/ IsHeader(t[g + n]))

\* So it has the same lines in both.
LEMMA SameTable ==
    ASSUME NEW Lines, NEW r \in Seq(Lines), NEW t \in Seq(Lines),
           NEW h \in DOMAIN r, NEW g \in DOMAIN t, SameSpan(r, h, t, g)
    PROVE  TableLines(t, g) = TableLines(r, h)
<1>. DEFINE e == EndOfBody(r, h)
            x == EndOfBody(t, g)
            n == e - h
<1>1. /\ DOMAIN r = 1 .. Len(r) /\ Len(r) \in Nat /\ DOMAIN t = 1 .. Len(t) /\ Len(t) \in Nat
      /\ h \in Nat \ {0} /\ g \in Nat \ {0}
    OBVIOUS
<1>2. /\ e \in Nat /\ h < e /\ e <= Len(r) + 1
      /\ \A j \in DOMAIN r : h < j /\ j < e => ~Parts(r[j]) /\ ~IsHeader(r[j])
    BY EndOfBodyMeans
<1>3. /\ x \in Nat /\ g < x /\ x <= Len(t) + 1
      /\ \A j \in DOMAIN t : g < j /\ j < x => ~Parts(t[j]) /\ ~IsHeader(t[j])
      /\ x <= Len(t) => Parts(t[x]) \/ IsHeader(t[x])
    BY EndOfBodyMeans
<1>4. n \in Nat \ {0} /\ h + n = e
    <2>. HIDE DEF e
    <2> QED
        BY <1>1, <1>2
<1>9. /\ \A j \in 0 .. n - 1 : g + j \in DOMAIN t /\ t[g + j] = r[h + j]
      /\ \/ g + n = Len(t) + 1
         \/ g + n \in DOMAIN t /\ (Parts(t[g + n]) \/ IsHeader(t[g + n]))
    BY DEF SameSpan
<1>. HIDE DEF e, x, n
<1>5. x = g + n
    <2>1. ASSUME x < g + n PROVE FALSE
        <3>1. /\ x - g \in 0 .. n - 1 /\ g + (x - g) = x /\ h + (x - g) \in DOMAIN r
              /\ h < h + (x - g) /\ h + (x - g) < e
            BY <1>1, <1>2, <1>3, <1>4, <2>1, PlaceInOther
        <3>2. t[x] = r[h + (x - g)] /\ x \in DOMAIN t
            BY <1>9, <3>1
        <3>3. x <= Len(t)
            BY <1>1, <3>2
        <3> QED
            BY <1>2, <1>3, <3>1, <3>2, <3>3
    <2>2. ASSUME g + n < x PROVE FALSE
        <3>1. g + n # Len(t) + 1 /\ g < g + n
            BY <1>1, <1>3, <1>4, <2>2
        <3> QED
            BY <1>3, <1>9, <2>2, <3>1
    <2> QED
        BY <1>1, <1>3, <1>4, <2>1, <2>2
<1>. DEFINE b == SubSeq(r, h + 1, e - 1)
<1>6. /\ b \in Seq(Lines) /\ Len(b) = n - 1
      /\ \A k \in 1 .. n - 1 : b[k] = r[h + k]
    <2>1. h \in Nat /\ n \in Nat \ {0} /\ h + n <= Len(r) + 1 /\ h + n = e
        BY <1>1, <1>2, <1>4
    <2>2. b = SubSeq(r, h + 1, (h + n) - 1)
        BY <2>1
    <2>. HIDE DEF b
    <2>3. IsPart(b, r, h, n)
        BY <2>1, <2>2 DEF IsPart
    <2> QED
        BY <2>3, PartLines
<1>. HIDE DEF b
<1>. DEFINE c == SubSeq(t, g + 1, x - 1)
<1>7. /\ c \in Seq(Lines) /\ Len(c) = n - 1
      /\ \A k \in 1 .. n - 1 : c[k] = t[g + k]
    <2>1. g \in Nat /\ n \in Nat \ {0} /\ g + n <= Len(t) + 1 /\ g + n = x
        BY <1>1, <1>3, <1>4, <1>5
    <2>2. c = SubSeq(t, g + 1, (g + n) - 1)
        BY <2>1
    <2>. HIDE DEF c
    <2>3. IsPart(c, t, g, n)
        BY <2>1, <2>2 DEF IsPart
    <2> QED
        BY <2>3, PartLines
<1>. HIDE DEF c
<1>8. c = b
    <2>2. \A k \in 1 .. n - 1 : c[k] = b[k]
        <3>1. \A k \in 1 .. n - 1 : k \in 0 .. n - 1
            BY <1>4
        <3> QED
            BY <1>6, <1>7, <1>9, <3>1
    <2> QED
        BY <1>6, <1>7, <2>2, SameText
<1> QED
    BY <1>5, <1>8 DEF b, c, e, x, TableLines

\* Lines are dropped before, behind and between tables, not out of them.
Gapless(r, t, kept, f) ==
    /\ \A k \in DOMAIN r : k + 1 \in DOMAIN r =>
          \/ f[k + 1] = f[k] + 1
          \/ Parts(r[k]) \/ Parts(r[k + 1]) \/ IsHeader(r[k + 1])
    /\ \A k \in DOMAIN r : f[k] + 1 \in DOMAIN t \ kept =>
          Parts(t[f[k] + 1]) \/ IsHeader(t[f[k] + 1])

\* So a table that is kept has the same lines as before.
LEMMA GaplessSpan ==
    ASSUME NEW Lines, NEW r \in Seq(Lines), NEW t \in Seq(Lines), NEW kept, NEW f,
           Embeds(r, t, kept, f), Gapless(r, t, kept, f), NEW h \in DOMAIN r, IsHeader(r[h])
    PROVE  SameSpan(r, h, t, f[h])
<1>. DEFINE e == EndOfBody(r, h)
            n == e - h
            g == f[h]
<1>1. /\ DOMAIN r = 1 .. Len(r) /\ Len(r) \in Nat /\ DOMAIN t = 1 .. Len(t) /\ Len(t) \in Nat
      /\ \A k \in DOMAIN r : f[k] \in DOMAIN t /\ r[k] = t[f[k]]
      /\ \A j, k \in DOMAIN r : (j < k) <=> (f[j] < f[k])
      /\ \A z \in kept : \E k \in DOMAIN r : f[k] = z
    BY EmbedsFacts
<1>2. /\ e \in Nat /\ h < e /\ e <= Len(r) + 1
      /\ \A j \in DOMAIN r : h < j /\ j < e => ~Parts(r[j]) /\ ~IsHeader(r[j])
      /\ e <= Len(r) => Parts(r[e]) \/ IsHeader(r[e])
    BY EndOfBodyMeans
<1>3. h \in Nat \ {0} /\ g \in DOMAIN t /\ g \in Nat \ {0}
    BY <1>1
<1>. HIDE DEF e, g
<1>4. n \in Nat \ {0} /\ h + n = e
    BY <1>2, <1>3
<1>. HIDE DEF n
<1>5. /\ \A k \in DOMAIN r : k + 1 \in DOMAIN r =>
            \/ f[k + 1] = f[k] + 1
            \/ Parts(r[k]) \/ Parts(r[k + 1]) \/ IsHeader(r[k + 1])
      /\ \A k \in DOMAIN r : f[k] + 1 \in DOMAIN t \ kept =>
            Parts(t[f[k] + 1]) \/ IsHeader(t[f[k] + 1])
    BY DEF Gapless
<1>6. ASSUME NEW j \in 0 .. n - 1
      PROVE  h + j \in DOMAIN r /\ h + j < e /\ (j # 0 => ~Parts(r[h + j]) /\ ~IsHeader(r[h + j]))
    <2>1. h + j \in 1 .. Len(r) /\ h + j < e /\ (j # 0 => h < h + j)
        BY <1>1, <1>2, <1>3, <1>4
    <2> QED
        BY <1>1, <1>2, <2>1
<1>. DEFINE bad == {j \in 0 .. n - 1 : f[h + j] # g + j}
<1>7. bad = {}
    <2>. SUFFICES ASSUME bad # {} PROVE FALSE
        OBVIOUS
    <2>1. bad \in SUBSET Nat
        OBVIOUS
    <2>. DEFINE m == Min(bad)
    <2>2. m \in bad /\ \A j \in bad : m <= j
        BY <2>1, LeastMember
    <2>. HIDE DEF m
    <2>3. m \in 0 .. n - 1 /\ f[h + m] # g + m /\ m \in Nat
        BY <2>2
    <2>4. h + 0 = h /\ g + 0 = g
        BY <1>3
    <2>5. m # 0
        BY <2>3, <2>4 DEF g
    <2>6. m - 1 \in 0 .. n - 1 /\ m - 1 \notin bad
        BY <1>4, <2>2, <2>3, <2>5
    <2>. DEFINE k == h + (m - 1)
    <2>7. k + 1 = h + m /\ (g + (m - 1)) + 1 = g + m /\ k \in Nat
        <3>1. h \in Nat /\ g \in Nat /\ m \in Nat /\ m # 0
            BY <1>3, <2>3, <2>5
        <3> QED
            BY <3>1
    <2>8. f[k] = g + (m - 1)
        BY <2>6
    <2>9. k \in DOMAIN r /\ k + 1 \in DOMAIN r /\ ~Parts(r[k])
        <3>1. k \in DOMAIN r /\ (m - 1 # 0 => ~Parts(r[k]))
            BY <1>6, <2>6
        <3>2. m - 1 = 0 => k = h
            BY <1>3
        <3>3. ~Parts(r[h])
            BY PartsIsNoKey
        <3>4. h + m \in DOMAIN r
            BY <1>6, <2>3
        <3> QED
            BY <2>7, <3>1, <3>2, <3>3, <3>4
    <2>10. ~Parts(r[k + 1]) /\ ~IsHeader(r[k + 1])
        BY <1>6, <2>3, <2>5, <2>7
    <2>. HIDE DEF k
    <2>11. f[k + 1] = f[k] + 1
        BY <1>5, <2>9, <2>10
    <2> QED
        BY <2>3, <2>7, <2>8, <2>11
<1>8. ASSUME NEW j \in 0 .. n - 1 PROVE f[h + j] = g + j /\ g + j \in DOMAIN t /\ t[g + j] = r[h + j]
    <2>1. f[h + j] = g + j
        BY <1>7
    <2> QED
        BY <1>1, <1>6, <2>1
<1>9. g + n = Len(t) + 1 \/ (g + n \in DOMAIN t /\ (Parts(t[g + n]) \/ IsHeader(t[g + n])))
    <2>. SUFFICES ASSUME g + n # Len(t) + 1
                  PROVE  g + n \in DOMAIN t /\ (Parts(t[g + n]) \/ IsHeader(t[g + n]))
        OBVIOUS
    <2>. DEFINE k == h + (n - 1)
    <2>1. n - 1 \in 0 .. n - 1 /\ k + 1 = e /\ (g + (n - 1)) + 1 = g + n /\ k \in Nat
        <3>1. h \in Nat /\ g \in Nat /\ n \in Nat /\ n # 0 /\ h + n = e
            BY <1>3, <1>4
        <3> QED
            BY <3>1
    <2>2. f[k] = g + (n - 1) /\ g + (n - 1) \in DOMAIN t /\ k \in DOMAIN r
        BY <1>6, <1>8, <2>1
    <2>. HIDE DEF k
    <2>3. g + n \in DOMAIN t
        <3>1. g + n \in Nat /\ g + (n - 1) \in Nat /\ g + (n - 1) <= Len(t)
            BY <1>1, <1>3, <1>4, <2>2
        <3>2. g + n <= Len(t) + 1
            BY <1>1, <2>1, <3>1
        <3>3. g + n \in 1 .. Len(t)
            BY <1>1, <1>3, <1>4, <3>1, <3>2
        <3> QED
            BY <1>1, <3>3
    <2>4. f[k] + 1 = g + n
        BY <2>1, <2>2
    <2>5. CASE g + n \notin kept
        BY <1>5, <2>2, <2>3, <2>4, <2>5
    <2>6. CASE g + n \in kept
        <3>1. PICK z \in DOMAIN r : f[z] = g + n
            BY <1>1, <2>6
        <3>2. f[k] < f[z] /\ f[k] \in Nat
            BY <1>1, <2>2, <2>4, <3>1
        <3>3. k < z /\ z \in Nat
            BY <1>1, <2>2, <3>1, <3>2
        <3>4. k + 1 \in DOMAIN r
            BY <1>1, <2>1, <3>1, <3>3
        <3>5. Parts(r[k + 1]) \/ IsHeader(r[k + 1])
            BY <1>1, <1>2, <2>1, <3>4
        <3>6. ~(k + 1 < z)
            <4>1. ASSUME k + 1 < z PROVE FALSE
                <5>1. f[k] < f[k + 1] /\ f[k + 1] < f[z] /\ f[k + 1] \in Nat
                    <6>1. k < k + 1 /\ k \in DOMAIN r
                        BY <2>1, <2>2
                    <6>2. f[k] < f[k + 1] /\ f[k + 1] < f[z] /\ f[k + 1] \in DOMAIN t
                        BY <1>1, <3>1, <3>4, <4>1, <6>1
                    <6> QED
                        BY <1>1, <6>2
                <5> QED
                    BY <2>4, <3>1, <3>2, <5>1
            <4> QED
                BY <4>1
        <3>7. z = k + 1
            BY <2>1, <3>3, <3>6
        <3>8. t[g + n] = r[k + 1]
            BY <1>1, <3>1, <3>7
        <3> QED
            BY <2>3, <3>5, <3>8
    <2> QED
        BY <2>5, <2>6
<1> QED
    BY <1>8, <1>9 DEF SameSpan, e, n, g

\* Between two lines that come next to each other only dropped lines stood.
LEMMA GapDrops ==
    ASSUME NEW Lines, NEW r \in Seq(Lines), NEW t \in Seq(Lines), NEW kept, NEW f,
           Embeds(r, t, kept, f), NEW k \in DOMAIN r, k + 1 \in DOMAIN r, f[k + 1] # f[k] + 1
    PROVE  f[k] + 1 \in DOMAIN t \ kept /\ f[k + 1] - 1 \in DOMAIN t \ kept
<1>1. /\ DOMAIN r = 1 .. Len(r) /\ Len(r) \in Nat /\ DOMAIN t = 1 .. Len(t) /\ Len(t) \in Nat
      /\ \A j, z \in DOMAIN r : (j < z) <=> (f[j] < f[z])
      /\ \A z \in kept : \E j \in DOMAIN r : f[j] = z
    BY EmbedsFacts
<1>2. f[k] \in 1 .. Len(t) /\ f[k + 1] \in 1 .. Len(t)
    BY EmbedsFacts
<1>3. k \in Nat /\ k < k + 1
    BY <1>1
<1>4. f[k] < f[k + 1]
    BY <1>1, <1>3
<1>. DEFINE x == f[k]
            y == f[k + 1]
<1>5. x \in 1 .. Len(t) /\ y \in 1 .. Len(t) /\ x < y /\ y # x + 1
    BY <1>2, <1>4
<1>6. ASSUME NEW z \in kept, x < z, z < y PROVE FALSE
    <2>1. PICK j \in DOMAIN r : f[j] = z
        BY <1>1, <1>6
    <2>2. k < j /\ j < k + 1
        BY <1>1, <1>6, <2>1
    <2> QED
        BY <1>1, <1>3, <2>2
<1>. HIDE DEF x, y
<1>7. x + 1 \in 1 .. Len(t) /\ x < x + 1 /\ x + 1 < y /\ y - 1 \in 1 .. Len(t) /\ x < y - 1 /\ y - 1 < y
    BY <1>1, <1>5
<1>8. x + 1 \notin kept /\ y - 1 \notin kept
    BY <1>6, <1>7
<1> QED
    BY <1>1, <1>7, <1>8 DEF x, y

\* Collapsing blank lines leaves tables as they are.
LEMMA CollapseGapless ==
    ASSUME NEW Lines, NEW t \in Seq(Lines), NEW r \in Seq(Lines), NEW f,
           Embeds(r, t, DOMAIN t \ BlanksTwice(t), f)
    PROVE  Gapless(r, t, DOMAIN t \ BlanksTwice(t), f)
<1>. DEFINE kept == DOMAIN t \ BlanksTwice(t)
<1>1. \A d \in DOMAIN t \ kept : d > 1 /\ t[d].kind = "blank" /\ t[d - 1].kind = "blank"
    BY DEF BlanksTwice
<1>2. Embeds(r, t, kept, f)
    OBVIOUS
<1>. HIDE DEF kept
<1>3. \A k \in DOMAIN r : f[k] \in Nat /\ r[k] = t[f[k]] /\ k \in Nat
    BY <1>2, EmbedsFacts
<1>4. ASSUME NEW k \in DOMAIN r, k + 1 \in DOMAIN r, f[k + 1] # f[k] + 1 PROVE Parts(r[k])
    <2>1. f[k] + 1 \in DOMAIN t \ kept
        BY <1>2, <1>4, GapDrops
    <2>. DEFINE x == f[k]
    <2>2. (x + 1) - 1 = x
        BY <1>3
    <2>3. t[x].kind = "blank"
        <3>1. x + 1 \in DOMAIN t \ kept
            BY <2>1
        <3>. HIDE DEF x
        <3> QED
            BY <1>1, <2>2, <3>1
    <2> QED
        BY <1>3, <2>3 DEF Parts
<1>5. ASSUME NEW k \in DOMAIN r, f[k] + 1 \in DOMAIN t \ kept PROVE Parts(t[f[k] + 1])
    BY <1>1, <1>5 DEF Parts
<1>6. Gapless(r, t, kept, f)
    BY <1>4, <1>5 DEF Gapless
<1> QED
    BY <1>6 DEF kept

\* Pruning bare tables leaves the other ones as they are.
LEMMA PruneGapless ==
    ASSUME NEW Lines, NEW t \in Seq(Lines), NEW r \in Seq(Lines), NEW c, NEW host, NEW f,
           Embeds(r, t, DOMAIN t \ PrunedLines(t, c, host), f)
    PROVE  Gapless(r, t, DOMAIN t \ PrunedLines(t, c, host), f)
<1>. DEFINE kept == DOMAIN t \ PrunedLines(t, c, host)
<1>0. DOMAIN t = 1 .. Len(t) /\ Len(t) \in Nat
    OBVIOUS
<1>1. ASSUME NEW d \in DOMAIN t \ kept
      PROVE  \E x \in DOMAIN t : /\ x <= d /\ d < EndOfBody(t, x) /\ t[x].kind = "hooks"
                                 /\ \A z \in DOMAIN t : x <= z /\ z < EndOfBody(t, x) => z \notin kept
                                 /\ EndOfBody(t, x) \in Nat
    <2>1. PICK b \in Prunable(t, c, host) : d \in b.start .. b.end - 1
        BY DEF PrunedLines
    <2>2. b.start \in DOMAIN t /\ t[b.start].kind = "hooks" /\ b.end = EndOfBody(t, b.start)
        BY PrunableMeans
    <2>3. b.end \in Nat
        BY <2>2, EndOfBodyMeans
    <2>4. ASSUME NEW z \in DOMAIN t, b.start <= z, z < b.end PROVE z \notin kept
        <3>1. z \in b.start .. b.end - 1
            BY <1>0, <2>2, <2>3, <2>4
        <3> QED
            BY <3>1 DEF PrunedLines
    <2>5. b.start <= d /\ d < b.end
        BY <1>0, <2>1, <2>2, <2>3
    <2> QED
        BY <2>2, <2>3, <2>4, <2>5
<1>2. Embeds(r, t, kept, f)
    OBVIOUS
<1>. HIDE DEF kept
<1>3. \A k \in DOMAIN r : f[k] \in DOMAIN t /\ f[k] \in kept /\ r[k] = t[f[k]] /\ k \in Nat
    BY <1>2, EmbedsFacts
<1>4. ASSUME NEW k \in DOMAIN r, k + 1 \in DOMAIN r, f[k + 1] # f[k] + 1
      PROVE  Parts(r[k + 1]) \/ IsHeader(r[k + 1])
    <2>1. f[k + 1] - 1 \in DOMAIN t \ kept
        BY <1>2, <1>4, GapDrops
    <2>2. PICK x \in DOMAIN t : /\ x <= f[k + 1] - 1 /\ f[k + 1] - 1 < EndOfBody(t, x)
                                /\ t[x].kind = "hooks"
                                /\ \A z \in DOMAIN t : x <= z /\ z < EndOfBody(t, x) => z \notin kept
                                /\ EndOfBody(t, x) \in Nat
        BY <1>1, <2>1
    <2>. DEFINE y == f[k + 1]
                e == EndOfBody(t, x)
    <2>3. y \in 1 .. Len(t) /\ y \in kept /\ r[k + 1] = t[y]
        BY <1>0, <1>3, <1>4
    <2>4. x \in Nat /\ e \in Nat /\ x <= y - 1 /\ y - 1 < e
        BY <1>0, <2>2
    <2>5. \A z \in DOMAIN t : x <= z /\ z < e => z \notin kept
        BY <2>2
    <2>6. e <= Len(t) => Parts(t[e]) \/ IsHeader(t[e])
        BY <2>2, EndOfBodyMeans
    <2>. HIDE DEF y, e
    <2>7. y \in DOMAIN t /\ x <= y
        BY <1>0, <2>3, <2>4
    <2>8. ~(y < e)
        BY <2>3, <2>5, <2>7
    <2>9. y = e
        BY <1>0, <2>3, <2>4, <2>8
    <2> QED
        BY <1>0, <2>3, <2>6, <2>9
<1>5. ASSUME NEW k \in DOMAIN r, f[k] + 1 \in DOMAIN t \ kept PROVE IsHeader(t[f[k] + 1])
    <2>. DEFINE y == f[k]
    <2>1. PICK x \in DOMAIN t : /\ x <= y + 1 /\ y + 1 < EndOfBody(t, x) /\ t[x].kind = "hooks"
                                /\ \A z \in DOMAIN t : x <= z /\ z < EndOfBody(t, x) => z \notin kept
                                /\ EndOfBody(t, x) \in Nat
        BY <1>1, <1>5
    <2>2. y \in 1 .. Len(t) /\ y \in kept
        BY <1>0, <1>3
    <2>. HIDE DEF y
    <2>3. ~(x <= y)
        BY <1>0, <2>1, <2>2
    <2>4. x = y + 1
        BY <1>0, <2>1, <2>2, <2>3
    <2>5. IsHeader(t[y + 1])
        BY <2>1, <2>4 DEF IsHeader, Headers
    <2> QED
        BY <2>5 DEF y
<1>6. Gapless(r, t, kept, f)
    BY <1>4, <1>5 DEF Gapless
<1> QED
    BY <1>6 DEF kept

\* A table that setup would prune, it would have pruned before.
LEMMA OursLifted ==
    ASSUME NEW Lines, NEW r \in Seq(Lines), NEW t \in Seq(Lines), NEW kept, NEW f,
           Embeds(r, t, kept, f), Gapless(r, t, kept, f),
           \A i \in DOMAIN t : IsMarker(t[i]) => i \in kept,
           \A i \in DOMAIN t : t[i].kind = "matcher" => i \in kept,
           Balanced(r), NEW c, NEW host, NEW h, OursAt(r, h, c, host)
    PROVE  f[h] \in kept /\ OursAt(t, f[h], c, host)
<1>1. /\ DOMAIN r = 1 .. Len(r) /\ Len(r) \in Nat /\ DOMAIN t = 1 .. Len(t) /\ Len(t) \in Nat
      /\ \A k \in DOMAIN r : f[k] \in DOMAIN t /\ f[k] \in kept /\ r[k] = t[f[k]]
      /\ \A j, k \in DOMAIN r : (j < k) <=> (f[j] < f[k])
      /\ \A z \in kept : \E k \in DOMAIN r : f[k] = z
    BY EmbedsFacts
<1>2. /\ h \in DOMAIN r /\ h \notin InBlocks(r) /\ r[h].kind = "hooks"
      /\ OursTable(TableLines(r, h), c, host) /\ ~MatcherInSpan(r, h)
    BY DEF OursAt
<1>3. f[h] \in DOMAIN t /\ f[h] \in kept /\ t[f[h]].kind = "hooks"
    BY <1>1, <1>2
<1>4. IsHeader(r[h])
    BY <1>2 DEF IsHeader, Headers
<1>5. TableLines(t, f[h]) = TableLines(r, h)
    BY <1>2, <1>3, <1>4, GaplessSpan, SameTable
<1>6. f[h] \notin InBlocks(t)
    BY <1>2, KeepInBlocks
<1>7. ASSUME MatcherInSpan(t, f[h]) PROVE FALSE
    <2>1. PICK x \in f[h] + 1 .. Len(t) :
             /\ t[x].kind = "matcher"
             /\ \A j \in f[h] + 1 .. x - 1 : ~IsHeader(t[j]) /\ ~IsMarker(t[j])
        BY <1>7 DEF MatcherInSpan
    <2>2. x \in DOMAIN t /\ f[h] < x /\ x \in Nat
        BY <1>1, <1>3, <2>1
    <2>3. x \in kept
        BY <2>1, <2>2
    <2>4. PICK k \in DOMAIN r : f[k] = x
        BY <1>1, <2>3
    <2>5. h < k /\ k \in h + 1 .. Len(r) /\ r[k].kind = "matcher"
        <3>1. h < k
            BY <1>1, <1>2, <2>2, <2>4
        <3> QED
            BY <1>1, <1>2, <2>1, <2>4, <3>1
    <2>6. ASSUME NEW j \in h + 1 .. k - 1 PROVE ~IsHeader(r[j]) /\ ~IsMarker(r[j])
        <3>1. j \in DOMAIN r /\ h < j /\ j < k
            BY <1>1, <1>2, <2>5
        <3>2. f[h] < f[j] /\ f[j] < x /\ f[j] \in DOMAIN t
            BY <1>1, <1>2, <2>4, <3>1
        <3>3. f[j] \in f[h] + 1 .. x - 1
            BY <1>1, <1>3, <2>2, <3>2
        <3> QED
            BY <1>1, <2>1, <3>1, <3>3
    <2>7. MatcherInSpan(r, h)
        BY <2>5, <2>6 DEF MatcherInSpan
    <2> QED
        BY <1>2, <2>7
<1> QED
    BY <1>2, <1>3, <1>5, <1>6, <1>7 DEF OursAt

\* Setup prunes tables in which no line pattern of its own matches a matcher.
LEMMA PrunedLinesMatchers ==
    ASSUME NEW Lines, NEW t \in Seq(Lines), NEW c, NEW host,
           NEW d \in PrunedLines(t, c, host)
    PROVE  t[d].kind # "matcher"
<1>1. PICK b \in Prunable(t, c, host) : d \in b.start .. b.end - 1
    BY DEF PrunedLines
<1>. DEFINE h == b.start
            e == b.end
            n == e - h
<1>2. OursAt(t, h, c, host) /\ e = EndOfBody(t, h)
    BY PrunableAt
<1>3. h \in DOMAIN t /\ h \in Nat \ {0} /\ t[h].kind = "hooks"
    BY <1>2 DEF OursAt
<1>4. e \in Nat /\ h < e /\ e <= Len(t) + 1
    BY <1>2, <1>3, EndOfBodyMeans
<1>0. d \in h .. e - 1
    BY <1>1
<1>. HIDE DEF h, e
<1>5. n \in Nat \ {0} /\ h + n = e /\ h + n <= Len(t) + 1
    BY <1>3, <1>4
<1>6. TableLines(t, h) = SubSeq(t, h + 1, (h + n) - 1)
    BY <1>2, <1>5 DEF TableLines
<1>7. d \in h .. (h + n) - 1
    BY <1>0, <1>5
<1>. HIDE DEF n
<1>. DEFINE v == TableLines(t, h)
<1>. HIDE DEF v
<1>8. v \in Seq(Lines) /\ Len(v) = n - 1 /\ \A k \in 1 .. n - 1 : v[k] = t[h + k]
    <2>1. h \in Nat /\ n \in Nat \ {0} /\ h + n <= Len(t) + 1
        BY <1>3, <1>5
    <2>2. v = SubSeq(t, h + 1, (h + n) - 1)
        BY <1>6 DEF v
    <2>3. IsPart(v, t, h, n)
        BY <2>1, <2>2 DEF IsPart
    <2> QED
        BY <2>3, PartLines
<1>9. DOMAIN v = 1 .. n - 1 /\ \A k \in 1 .. n - 1 : v[k] = t[h + k]
    BY <1>8
<1>10. \A i \in DOMAIN v : v[i].kind \in Comments \cup {"event", "command", "timeout"}
    BY <1>2 DEF OursAt, OursTable, v
<1>11. CASE d = h
    BY <1>3, <1>11
<1>12. CASE d # h
    <2>1. d - h \in 1 .. n - 1 /\ h + (d - h) = d
        BY <1>3, <1>5, <1>7, <1>12
    <2>2. t[d].kind \in Comments \cup {"event", "command", "timeout"}
        BY <1>9, <1>10, <2>1
    <2> QED
        BY <2>2 DEF Comments
<1> QED
    BY <1>11, <1>12

\* A text with single blank lines only is the text but for some of its blank
\* lines.
LEMMA CollapsedThinned ==
    ASSUME NEW Lines, NEW w \in Seq(Lines)
    PROVE  /\ Collapsed(w) \in Seq(Lines)
           /\ \E g : /\ Embeds(Collapsed(w), w, DOMAIN w \ BlanksTwice(w), g)
                     /\ Thinned(Lines, Collapsed(w), w, DOMAIN w \ BlanksTwice(w), g)
<1>1. Collapsed(w) = Without(w, BlanksTwice(w))
    BY DEF Collapsed, BlanksTwice
<1>2. Collapsed(w) \in Seq(Lines)
    BY <1>1, WithoutEmbeds
<1>3. PICK g : Embeds(Collapsed(w), w, DOMAIN w \ BlanksTwice(w), g)
    BY <1>1, WithoutEmbeds
<1>4. \A i \in BlanksTwice(w) : w[i].kind = "blank"
    BY DEF BlanksTwice
<1>5. Thinned(Lines, Collapsed(w), w, DOMAIN w \ BlanksTwice(w), g)
    BY <1>2, <1>3, <1>4 DEF Thinned, IsMarker
<1> QED
    BY <1>2, <1>3, <1>5

\* A bare table of the text with single blank lines only is one of the text.
LEMMA CollapsedOurs ==
    ASSUME NEW Lines, NEW w \in Seq(Lines), Balanced(Collapsed(w)),
           NEW c, NEW host, NEW h, OursAt(Collapsed(w), h, c, host)
    PROVE  Balanced(w) /\ \E x : OursAt(w, x, c, host)
<1>. DEFINE r == Collapsed(w)
            kept == DOMAIN w \ BlanksTwice(w)
<1>1. r \in Seq(Lines)
    BY CollapsedThinned
<1>2. PICK g : Embeds(r, w, kept, g) /\ Thinned(Lines, r, w, kept, g)
    BY CollapsedThinned
<1>3. Gapless(r, w, kept, g)
    BY <1>1, <1>2, CollapseGapless
<1>4. \A i \in BlanksTwice(w) : w[i].kind = "blank"
    BY DEF BlanksTwice
<1>5. \A i \in DOMAIN w : IsMarker(w[i]) => i \in kept
    BY <1>4 DEF IsMarker
<1>6. \A i \in DOMAIN w : w[i].kind = "matcher" => i \in kept
    BY <1>4
<1>7. Balanced(r) /\ OursAt(r, h, c, host)
    OBVIOUS
<1>. HIDE DEF r, kept
<1>8. Balanced(w)
    BY <1>2, <1>7, ThinnedBalanced
<1>9. OursAt(w, g[h], c, host)
    BY <1>1, <1>2, <1>3, <1>5, <1>6, <1>7, OursLifted
<1> QED
    BY <1>8, <1>9

\* After pruning there is nothing left to prune.
LEMMA PrunedClean ==
    ASSUME NEW Lines, NEW t \in Seq(Lines), NEW c, NEW host, Balanced(Prune(t, c, host))
    PROVE  Prunable(Prune(t, c, host), c, host) = {}
<1>1. CASE Prunable(t, c, host) = {}
    BY <1>1 DEF Prune
<1>2. CASE Prunable(t, c, host) # {}
    <2>. DEFINE P == PrunedLines(t, c, host)
                w == Without(t, P)
    <2>1. Prune(t, c, host) = Collapsed(w)
        BY <1>2 DEF Prune, PrunedLines
    <2>2. w \in Seq(Lines)
        BY WithoutEmbeds
    <2>3. PICK f : Embeds(w, t, DOMAIN t \ P, f)
        BY WithoutEmbeds
    <2>4. \A i \in DOMAIN t : IsMarker(t[i]) => i \in DOMAIN t \ P
        BY PrunedLinesMarkers
    <2>5. \A i \in DOMAIN t : t[i].kind = "matcher" => i \in DOMAIN t \ P
        BY PrunedLinesMatchers
    <2>. HIDE DEF w
    <2>6. Gapless(w, t, DOMAIN t \ P, f)
        BY <2>2, <2>3, PruneGapless
    <2>7. ASSUME NEW b \in Prunable(Collapsed(w), c, host) PROVE FALSE
        <3>1. OursAt(Collapsed(w), b.start, c, host)
            BY PrunableAt
        <3>2. Balanced(w)
            BY <2>1, <2>2, <3>1, CollapsedOurs
        <3>3. PICK x : OursAt(w, x, c, host)
            BY <2>1, <2>2, <3>1, CollapsedOurs
        <3>4. f[x] \in DOMAIN t \ P /\ OursAt(t, f[x], c, host)
            <4>. HIDE DEF P
            <4> QED
                BY <2>2, <2>3, <2>4, <2>5, <2>6, <3>2, <3>3, OursLifted
        <3>5. PICK v \in Prunable(t, c, host) : v.start = f[x] /\ v.end = EndOfBody(t, f[x])
            BY <3>4, PrunableAt
        <3>6. v.end \in Nat /\ v.start < v.end /\ v.start \in Nat
            BY <3>4, <3>5, EndOfBodyMeans
        <3>7. f[x] \in v.start .. v.end - 1
            BY <3>5, <3>6
        <3> QED
            BY <3>4, <3>5, <3>7 DEF PrunedLines
    <2> QED
        BY <2>1, <2>7
<1> QED
    BY <1>1, <1>2

-----------------------------------------------------------------------------
(* Old markers that setup leaves.                                          *)

\* A BEGIN under the old marker names me, and below it stands a command of this
\* plugin for another host; between the two stands a command that is no one's.
Mislabelled(t, i, p, me) ==
    /\ i \in DOMAIN t /\ p \in DOMAIN t /\ i < p
    /\ t[i].kind = "oldBegin" /\ t[i].host = me
    /\ IsCommand(t[p]) /\ OursByPath(t[p].cmd) /\ t[p].cmd.host # me
\* A command that is neither the one looked for nor one of this plugin.
NoOnes(l, c) == IsCommand(l) /\ l.cmd # c /\ ~OursByPath(l.cmd)
\* One stands between the two.
Screened(t, c, i, p) == \E q \in DOMAIN t : i < q /\ q < p /\ NoOnes(t[q], c)

\* No old marker stands between a pair of markers.
OldApart(t) ==
    \A i, e, k : IsPair(t, i, e) /\ k \in DOMAIN t /\ i < k /\ k < e =>
        t[k].kind \notin {"oldBegin", "oldEnd"}
\* Every such BEGIN is screened.
OldCleared(t, c, me) == \A i, p : Mislabelled(t, i, p, me) => Screened(t, c, i, p)
\* Both, of the text that gets the block.
OldSettled(t, c, me) == OldApart(t) /\ OldCleared(t, c, me)

\* Both stay true of a text without some lines, when the markers and the commands
\* of no one are kept.
LEMMA KeepOldApart ==
    ASSUME NEW Lines, NEW r \in Seq(Lines), NEW t \in Seq(Lines), NEW kept, NEW f,
           Embeds(r, t, kept, f), \A i \in DOMAIN t : IsMarker(t[i]) => i \in kept,
           OldApart(t)
    PROVE  OldApart(r)
<1>. SUFFICES ASSUME NEW i, NEW e, NEW k, IsPair(r, i, e), k \in DOMAIN r, i < k, k < e
              PROVE  r[k].kind \notin {"oldBegin", "oldEnd"}
    BY DEF OldApart
<1>1. i \in DOMAIN r /\ e \in DOMAIN r
    BY DEF IsPair
<1>2. /\ \A j \in DOMAIN r : f[j] \in DOMAIN t /\ r[j] = t[f[j]]
      /\ \A j, z \in DOMAIN r : (j < z) <=> (f[j] < f[z])
    BY EmbedsFacts
<1>3. IsPair(t, f[i], f[e])
    BY KeepPairs
<1>4. f[k] \in DOMAIN t /\ f[i] < f[k] /\ f[k] < f[e] /\ r[k] = t[f[k]]
    BY <1>1, <1>2
<1> QED
    BY <1>3, <1>4 DEF OldApart

\* A BEGIN that encloses a command of another host stood above it before, too.
LEMMA KeepMislabelled ==
    ASSUME NEW Lines, NEW r \in Seq(Lines), NEW t \in Seq(Lines), NEW kept, NEW f,
           Embeds(r, t, kept, f), NEW me, NEW i, NEW p, Mislabelled(r, i, p, me)
    PROVE  /\ f[i] \in kept /\ f[p] \in kept /\ Mislabelled(t, f[i], f[p], me)
           /\ \A c : (\A q \in DOMAIN t : NoOnes(t[q], c) => q \in kept)
                     /\ Screened(t, c, f[i], f[p]) => Screened(r, c, i, p)
<1>1. /\ \A j \in DOMAIN r : f[j] \in DOMAIN t /\ f[j] \in kept /\ r[j] = t[f[j]]
      /\ \A j, z \in DOMAIN r : (j < z) <=> (f[j] < f[z])
      /\ \A x \in kept : \E j \in DOMAIN r : f[j] = x
    BY EmbedsFacts
<1>2. i \in DOMAIN r /\ p \in DOMAIN r
    BY DEF Mislabelled
<1>3. Mislabelled(t, f[i], f[p], me)
    BY <1>1, <1>2 DEF Mislabelled
<1>4. ASSUME NEW c, \A q \in DOMAIN t : NoOnes(t[q], c) => q \in kept,
             Screened(t, c, f[i], f[p])
      PROVE  Screened(r, c, i, p)
    <2>1. PICK q \in DOMAIN t : f[i] < q /\ q < f[p] /\ NoOnes(t[q], c)
        BY <1>4 DEF Screened
    <2>2. PICK j \in DOMAIN r : f[j] = q
        BY <1>1, <1>4, <2>1
    <2>3. i < j /\ j < p /\ NoOnes(r[j], c)
        BY <1>1, <1>2, <2>1, <2>2
    <2> QED
        BY <2>3 DEF Screened
<1> QED
    BY <1>1, <1>2, <1>3, <1>4

\* And none encloses one alone.
LEMMA KeepOldCleared ==
    ASSUME NEW Lines, NEW r \in Seq(Lines), NEW t \in Seq(Lines), NEW kept, NEW f,
           Embeds(r, t, kept, f), NEW c, NEW me,
           \A q \in DOMAIN t : NoOnes(t[q], c) => q \in kept, OldCleared(t, c, me)
    PROVE  OldCleared(r, c, me)
<1>. SUFFICES ASSUME NEW i, NEW p, Mislabelled(r, i, p, me) PROVE Screened(r, c, i, p)
    BY DEF OldCleared
<1>1. Mislabelled(t, f[i], f[p], me)
    BY KeepMislabelled
<1>2. Screened(t, c, f[i], f[p])
    BY <1>1 DEF OldCleared
<1> QED
    BY <1>2, KeepMislabelled

\* A block that stripLegacyBrandBlocks removes is known by a command of its own.
LEMMA OldIsOurs ==
    ASSUME NEW t, NEW c, NEW host, NEW b \in OldRemoved(t, c, host)
    PROVE  b.cmd = c \/ OursByPath(b.cmd)
<1>1. b \in OldBlocks(t, c) /\ b.ours
    BY DEF OldRemoved
<1>2. PICK i \in DOMAIN t : b = OldBlockAt(t, c, i)
    BY <1>1 DEF OldBlocks
<1> QED
    BY <1>1, <1>2 DEF OldBlockAt

\* A bare table that stands in another text too, outside its blocks, is one there.
LEMMA OursMoved ==
    ASSUME NEW Lines, NEW r \in Seq(Lines), NEW t \in Seq(Lines),
           NEW h \in DOMAIN r, NEW g \in DOMAIN t, r[h] = t[g], SameSpan(r, h, t, g),
           g \notin InBlocks(t), MatcherInSpan(t, g) => MatcherInSpan(r, h),
           NEW c, NEW host, OursAt(r, h, c, host)
    PROVE  OursAt(t, g, c, host)
<1>1. TableLines(t, g) = TableLines(r, h)
    BY SameTable
<1> QED
    BY <1>1 DEF OursAt

\* The blank line that setup puts before a new block.
LEMMA BlankLines ==
    ASSUME NEW Lines, NEW x \in Seq(Lines), Line("blank") \in Lines
    PROVE  LET s == x \o <<Line("blank")>>
           IN /\ s \in Seq(Lines) /\ Len(s) = Len(x) + 1
              /\ DOMAIN x = 1 .. Len(x) /\ DOMAIN s = 1 .. Len(x) + 1 /\ Len(x) \in Nat
              /\ \A k \in 1 .. Len(x) : s[k] = x[k]
              /\ s[Len(x) + 1].kind = "blank"
<1>. DEFINE q == <<Line("blank")>>
            s == x \o q
<1>1. q \in Seq(Lines) /\ Len(q) = 1 /\ q[1] = Line("blank")
    OBVIOUS
<1>. HIDE DEF q
<1>2. /\ s \in Seq(Lines) /\ Len(s) = Len(x) + Len(q)
      /\ \A k \in 1 .. Len(x) : s[k] = x[k]
      /\ \A k \in 1 .. Len(q) : s[Len(x) + k] = q[k]
    BY <1>1, ConcatFacts
<1>. HIDE DEF s
<1>3. Len(x) \in Nat /\ DOMAIN x = 1 .. Len(x) /\ DOMAIN s = 1 .. Len(s)
    BY <1>2
<1>4. s[Len(x) + 1] = Line("blank")
    BY <1>1, <1>2
<1>5. s[Len(x) + 1].kind = "blank"
    BY <1>4, LineKind
<1> QED
    BY <1>1, <1>2, <1>3, <1>5 DEF s, q

\* Adding it leaves the blocks and the bare tables as they are.
LEMMA BlankThinned ==
    ASSUME NEW Lines, NEW x \in Seq(Lines), Line("blank") \in Lines
    PROVE  LET s == x \o <<Line("blank")>>
           IN Thinned(Lines, x, s, DOMAIN x, [k \in DOMAIN x |-> k])
<1>. DEFINE s == x \o <<Line("blank")>>
            f == [k \in DOMAIN x |-> k]
<1>1. /\ s \in Seq(Lines) /\ Len(s) = Len(x) + 1
      /\ DOMAIN x = 1 .. Len(x) /\ DOMAIN s = 1 .. Len(x) + 1 /\ Len(x) \in Nat
      /\ \A k \in 1 .. Len(x) : s[k] = x[k]
      /\ s[Len(x) + 1].kind = "blank"
    BY BlankLines
<1>. HIDE DEF s
<1>2. Embeds(x, s, DOMAIN x, f)
    BY <1>1 DEF Embeds
<1>3. \A i \in DOMAIN s : i \in DOMAIN x \/ i = Len(x) + 1
    BY <1>1
<1>4. Thinned(Lines, x, s, DOMAIN x, f)
    BY <1>1, <1>2, <1>3 DEF Thinned, IsMarker
<1> QED
    BY <1>4 DEF s

\* A blank line at the end makes no bare table,
LEMMA BlankOurs ==
    ASSUME NEW Lines, NEW x \in Seq(Lines), Line("blank") \in Lines, Balanced(x),
           NEW c, NEW host, NEW h, OursAt(x \o <<Line("blank")>>, h, c, host)
    PROVE  OursAt(x, h, c, host)
<1>. DEFINE s == x \o <<Line("blank")>>
            f == [k \in DOMAIN x |-> k]
            n == Len(x)
<1>1. /\ s \in Seq(Lines) /\ Len(s) = n + 1
      /\ DOMAIN x = 1 .. n /\ DOMAIN s = 1 .. n + 1 /\ n \in Nat
      /\ \A k \in 1 .. n : s[k] = x[k]
      /\ s[n + 1].kind = "blank"
    BY BlankLines
<1>2. Thinned(Lines, x, s, DOMAIN x, f)
    BY BlankThinned
<1>3. OursAt(s, h, c, host)
    OBVIOUS
<1>. HIDE DEF s
<1>4. Balanced(s)
    BY <1>2, ThinnedBalanced
<1>5. h \in DOMAIN s /\ h \notin InBlocks(s) /\ s[h].kind = "hooks" /\ ~MatcherInSpan(s, h)
    BY <1>3 DEF OursAt
<1>. HIDE DEF n
<1>6. h \in 1 .. n /\ h \in DOMAIN x /\ x[h] = s[h] /\ h \in Nat \ {0}
    BY <1>1, <1>5
<1>. DEFINE e == EndOfBody(s, h)
<1>7. /\ e \in Nat /\ h < e /\ e <= n + 2
      /\ \A j \in DOMAIN s : h < j /\ j < e => ~Parts(s[j]) /\ ~IsHeader(s[j])
      /\ e <= n + 1 => Parts(s[e]) \/ IsHeader(s[e])
    <2>1. /\ e \in Nat /\ h < e /\ e <= Len(s) + 1
          /\ \A j \in DOMAIN s : h < j /\ j < e => ~Parts(s[j]) /\ ~IsHeader(s[j])
          /\ e <= Len(s) => Parts(s[e]) \/ IsHeader(s[e])
        BY <1>1, <1>5, EndOfBodyMeans
    <2>2. Len(s) + 1 = n + 2
        BY <1>1
    <2>. HIDE DEF e
    <2> QED
        BY <1>1, <2>1, <2>2
<1>. HIDE DEF e
<1>8. e <= n + 1
    <2>1. n + 1 \in DOMAIN s /\ h < n + 1 /\ Parts(s[n + 1])
        BY <1>1, <1>6 DEF Parts
    <2> QED
        BY <1>1, <1>7, <2>1
<1>9. SameSpan(s, h, x, h)
    <2>. DEFINE m == e - h
    <2>1. m \in Nat /\ h + m = e
        BY <1>6, <1>7
    <2>. HIDE DEF m
    <2>2. ASSUME NEW j \in 0 .. m - 1 PROVE h + j \in DOMAIN x /\ x[h + j] = s[h + j]
        <3>1. h + j \in 1 .. n
            BY <1>1, <1>6, <1>8, <2>1
        <3> QED
            BY <1>1, <3>1
    <2>3. h + m = n + 1 \/ (h + m \in DOMAIN x /\ (Parts(x[h + m]) \/ IsHeader(x[h + m])))
        <3>1. e = n + 1 \/ e \in 1 .. n
            BY <1>1, <1>6, <1>7, <1>8
        <3> QED
            BY <1>1, <1>7, <2>1, <3>1
    <2> QED
        BY <2>2, <2>3 DEF SameSpan, e, m, n
<1>10. h \notin InBlocks(x)
    <2>1. ASSUME h \in InBlocks(x) PROVE FALSE
        <3>1. PICK b \in Blocks(x) : h \in b.begin .. b.end
            BY <2>1 DEF InBlocks
        <3>2. IsPair(x, b.begin, b.end)
            BY <3>1, BlockMeans
        <3>3. IsPair(s, f[b.begin], f[b.end])
            BY <1>1, <1>2, <3>2, KeepPairs DEF Thinned
        <3>4. f[b.begin] = b.begin /\ f[b.end] = b.end
            BY <3>2 DEF IsPair
        <3>5. IsPair(s, b.begin, b.end)
            BY <3>3, <3>4
        <3>6. [begin |-> b.begin, end |-> b.end, host |-> s[b.begin].host] \in Blocks(s)
            BY <1>1, <1>4, <3>5, PairBlock
        <3>7. h \in InBlocks(s)
            BY <3>1, <3>6 DEF InBlocks
        <3> QED
            BY <1>5, <3>7
    <2> QED
        BY <2>1
<1>11. MatcherInSpan(x, h) => MatcherInSpan(s, h)
    <2>. SUFFICES ASSUME NEW i \in h + 1 .. Len(x), x[i].kind = "matcher",
                         \A j \in h + 1 .. i - 1 : ~IsHeader(x[j]) /\ ~IsMarker(x[j])
                  PROVE  MatcherInSpan(s, h)
        BY DEF MatcherInSpan
    <2>1. i \in 1 .. n /\ i \in h + 1 .. Len(s)
        BY <1>1, <1>6 DEF n
    <2>2. \A j \in h + 1 .. i - 1 : j \in 1 .. n
        BY <1>1, <1>6, <2>1
    <2> QED
        BY <1>1, <2>1, <2>2 DEF MatcherInSpan
<1> QED
    BY <1>1, <1>3, <1>5, <1>6, <1>9, <1>10, <1>11, OursMoved

\* cuts off no key,
LEMMA BlankTied ==
    ASSUME NEW Lines, NEW x \in Seq(Lines), Line("blank") \in Lines, Tied(x)
    PROVE  Tied(x \o <<Line("blank")>>)
<1>. DEFINE s == x \o <<Line("blank")>>
            n == Len(x)
<1>1. /\ s \in Seq(Lines) /\ Len(s) = n + 1
      /\ DOMAIN x = 1 .. n /\ DOMAIN s = 1 .. n + 1 /\ n \in Nat
      /\ \A k \in 1 .. n : s[k] = x[k]
      /\ s[n + 1].kind = "blank"
    BY BlankLines
<1>. HIDE DEF s, n
<1>2. ~IsKey(s[n + 1])
    BY <1>1, PartsIsNoKey DEF Parts
<1>3. ASSUME NEW i \in DOMAIN s, NEW k \in DOMAIN s, i < k, Parts(s[i]), IsKey(s[k])
      PROVE  \E g \in HeadersOf(s) : i < g /\ g < k
    <2>1. k \in 1 .. n /\ i \in 1 .. n
        <3>1. k # n + 1
            BY <1>2, <1>3
        <3> QED
            BY <1>1, <1>3, <3>1
    <2>2. PICK g \in HeadersOf(x) : i < g /\ g < k
        BY <1>1, <1>3, <2>1 DEF Tied
    <2>3. g \in HeadersOf(s)
        BY <1>1, <2>2 DEF HeadersOf
    <2> QED
        BY <2>2, <2>3
<1> QED
    BY <1>3 DEF Tied, s

\* kimi loads the hooks, and none stands in hooks = [{...}].
Sound(t, knows) == ValidHookSet(t, knows) /\ InlineAt(t) = {}

\* Sound, table by table.
LEMMA SoundMeans ==
    ASSUME NEW t, NEW knows
    PROVE  Sound(t, knows) <=>
             /\ Parses(t) /\ InlineAt(t) = {}
             /\ \A h \in HeadersOf(t) : t[h].kind = "hooks" => ValidEntry(Entry(t, h), knows)
<1>1. CASE InlineAt(t) = {}
    <2>1. {l \in Entry(t, 0) : IsInline(l)} = {}
        <3>1. \A l \in Entry(t, 0) : \E i \in TableAt(t, 0) : l = t[i]
            BY DEF Entry, EntryAmong, TableAt
        <3>2. \A i \in TableAt(t, 0) : ~IsInline(t[i])
            BY <1>1 DEF InlineAt
        <3> QED
            BY <3>1, <3>2
    <2>2. Entries(t) = {Entry(t, h) : h \in {h \in HeadersOf(t) : t[h].kind = "hooks"}}
        BY <2>1, EntriesMeans
    <2>3. (\A e \in Entries(t) : ValidEntry(e, knows)) <=>
             \A h \in HeadersOf(t) : t[h].kind = "hooks" => ValidEntry(Entry(t, h), knows)
        BY <2>2
    <2> QED
        BY <1>1, <2>3 DEF Sound, ValidHookSet
<1>2. CASE InlineAt(t) # {}
    BY <1>2 DEF Sound
<1> QED
    BY <1>1, <1>2

\* and leaves the hooks as they are.
LEMMA BlankSound ==
    ASSUME NEW Lines, NEW x \in Seq(Lines), Line("blank") \in Lines, NEW knows, Sound(x, knows)
    PROVE  Sound(x \o <<Line("blank")>>, knows)
<1>. DEFINE q == <<Line("blank")>>
            s == x \o q
            n == Len(x)
            m == n + 1
<1>1. /\ s \in Seq(Lines) /\ Len(s) = n + 1
      /\ DOMAIN x = 1 .. n /\ DOMAIN s = 1 .. n + 1 /\ n \in Nat
      /\ \A k \in 1 .. n : s[k] = x[k]
      /\ s[n + 1].kind = "blank"
    BY BlankLines
<1>2. q \in Seq(Lines)
    OBVIOUS
<1>3. Replaced(s, x, m, n, q) /\ Sealed(x, m, n)
    BY <1>2, AppendReplaces
<1>4. OpensTables(q)
    <2>1. \A j \in DOMAIN q : q[j].kind = "blank"
        BY LineKind
    <2>2. \A j \in DOMAIN q : ~IsKey(q[j])
        BY <2>1, PartsIsNoKey DEF Parts
    <2> QED
        BY <2>2 DEF OpensTables
<1>. HIDE DEF q, s
<1>5. \A h \in HeadersOf(x) \cup {0} : h < m
    BY <1>1 DEF HeadersOf
<1>. HIDE DEF m, n
<1>6. \A h \in HeadersOf(x) \cup {0} : \A j : j \in TableAt(s, h) <=> j \in TableAt(x, h)
    <2>. SUFFICES ASSUME NEW h \in HeadersOf(x) \cup {0}
                  PROVE  \A j : j \in TableAt(s, h) <=> j \in TableAt(x, h)
        OBVIOUS
    <2> QED
        BY <1>1, <1>2, <1>3, <1>4, <1>5, ReplacedAbove
<1>7. \A h \in HeadersOf(x) \cup {0} : TableAt(s, h) = TableAt(x, h)
    BY <1>6
<1>8. \A h : \A j \in TableAt(x, h) : s[j] = x[j]
    BY <1>1, InTable
<1>9. \A h \in HeadersOf(x) \cup {0} : Entry(s, h) = Entry(x, h)
    BY <1>7, <1>8 DEF Entry, EntryAmong, TableAt
<1>10. HeadersOf(s) = HeadersOf(x) /\ \A h \in HeadersOf(x) : s[h] = x[h]
    <2>1. ~IsHeader(s[n + 1])
        BY <1>1 DEF IsHeader, Headers
    <2>2. \A k \in DOMAIN s : k \in DOMAIN x \/ k = n + 1
        BY <1>1
    <2>3. \A k \in DOMAIN x : k \in DOMAIN s /\ s[k] = x[k]
        BY <1>1
    <2> QED
        BY <2>1, <2>2, <2>3 DEF HeadersOf
<1>11. /\ Parses(x) /\ InlineAt(x) = {}
       /\ \A h \in HeadersOf(x) : x[h].kind = "hooks" => ValidEntry(Entry(x, h), knows)
    BY SoundMeans
<1>12. InlineAt(s) = {}
    BY <1>7, <1>8, <1>11 DEF InlineAt
<1>13. Parses(s)
    <2>1. \A h \in {0} \cup HeadersOf(x) : \A i, j \in TableAt(x, h) :
                Keys[x[i].kind] = Keys[x[j].kind] => i = j
        BY <1>11, ParsesMeans
    <2>2. \A h \in {0} \cup HeadersOf(s) : \A i, j \in TableAt(s, h) :
                Keys[s[i].kind] = Keys[s[j].kind] => i = j
        BY <1>7, <1>8, <1>10, <2>1
    <2>3. \A i \in TableAt(s, 0) : ~IsInline(s[i])
        BY <1>12 DEF InlineAt
    <2> QED
        BY <2>2, <2>3, ParsesMeans
<1>14. \A h \in HeadersOf(s) : s[h].kind = "hooks" => ValidEntry(Entry(s, h), knows)
    BY <1>9, <1>10, <1>11
<1>15. Sound(s, knows)
    BY <1>12, <1>13, <1>14, SoundMeans
<1> QED
    BY <1>15 DEF s, q

\* Dropping whole tables leaves it so.
LEMMA KeepSound ==
    ASSUME NEW Lines, NEW r \in Seq(Lines), NEW t \in Seq(Lines), NEW kept, NEW f,
           Embeds(r, t, kept, f), Closed(t, DOMAIN t \ kept), NEW knows, Sound(t, knows)
    PROVE  Sound(r, knows)
<1>1. ValidHookSet(r, knows)
    BY KeepValid DEF Sound
<1>2. \A j \in DOMAIN r : j \in TableAt(r, 0) <=> f[j] \in TableAt(t, 0)
    BY KeepTop
<1>3. \A j \in DOMAIN r : r[j] = t[f[j]]
    BY EmbedsFacts
<1>4. \A i \in TableAt(t, 0) : ~IsInline(t[i])
    BY DEF Sound, InlineAt
<1>5. \A i \in TableAt(r, 0) : ~IsInline(r[i])
    BY <1>2, <1>3, <1>4, InTable
<1> QED
    BY <1>1, <1>5 DEF Sound, InlineAt

\* Nor does it disturb the blocks under the old marker.
LEMMA BlankSettled ==
    ASSUME NEW Lines, NEW x \in Seq(Lines), Line("blank") \in Lines,
           NEW c, NEW me, OldSettled(x, c, me)
    PROVE  OldSettled(x \o <<Line("blank")>>, c, me)
<1>. DEFINE s == x \o <<Line("blank")>>
            n == Len(x)
<1>1. /\ DOMAIN x = 1 .. n /\ DOMAIN s = 1 .. n + 1 /\ n \in Nat
      /\ \A k \in 1 .. n : s[k] = x[k]
      /\ s[n + 1].kind = "blank"
    BY BlankLines
<1>. HIDE DEF s, n
<1>2. \A k \in DOMAIN s : s[k].kind # "blank" => k \in DOMAIN x /\ s[k] = x[k]
    BY <1>1
<1>3. DOMAIN x \subseteq DOMAIN s /\ \A k \in DOMAIN x : s[k] = x[k]
    BY <1>1
<1>4. ASSUME NEW i, NEW e, NEW k, IsPair(s, i, e), k \in DOMAIN s, i < k, k < e
      PROVE  s[k].kind \notin {"oldBegin", "oldEnd"}
    <2>1. /\ i \in DOMAIN x /\ e \in DOMAIN x /\ s[i] = x[i] /\ s[e] = x[e]
          /\ i < e /\ s[i].kind = "begin" /\ s[e].kind = "end"
          /\ \A j \in DOMAIN s : i < j /\ j < e => ~IsMarker(s[j])
        BY <1>2, <1>4 DEF IsPair
    <2>2. IsPair(x, i, e)
        BY <1>3, <2>1 DEF IsPair
    <2>3. k \in DOMAIN x => s[k].kind \notin {"oldBegin", "oldEnd"}
        BY <1>3, <1>4, <2>2 DEF OldSettled, OldApart
    <2> QED
        BY <1>2, <1>4, <2>3
<1>5. ASSUME NEW i, NEW p, Mislabelled(s, i, p, me) PROVE Screened(s, c, i, p)
    <2>1. /\ i \in DOMAIN x /\ p \in DOMAIN x /\ s[i] = x[i] /\ s[p] = x[p]
        BY <1>2, <1>5 DEF Mislabelled, IsCommand
    <2>2. Mislabelled(x, i, p, me)
        BY <1>5, <2>1 DEF Mislabelled
    <2>3. PICK q \in DOMAIN x : i < q /\ q < p /\ NoOnes(x[q], c)
        BY <2>2 DEF OldSettled, OldCleared, Screened
    <2> QED
        BY <1>3, <2>3 DEF Screened
<1>6. OldSettled(s, c, me)
    BY <1>4, <1>5 DEF OldSettled, OldApart, OldCleared
<1> QED
    BY <1>6 DEF s

\* A text without a block or a bare table of the host.
Vacant(x, me, c) ==
    Tied(x) /\ Balanced(x) /\ OwnBlocks(x, me) = {} /\ Prunable(x, c, me) = {}

\* What then stands above a new block.
Precedes(Lines, y, x, me, c) ==
    /\ \A block \in Seq(Lines) : Append1(x, block) = y \o block
    /\ Vacant(y, me, c)
    /\ \A knows : Sound(x, knows) => Sound(y, knows)
    /\ OldSettled(x, c, me) => OldSettled(y, c, me)

\* Where setup puts a new block: behind the text as it was, but for blank lines.
LEMMA AppendSpot ==
    ASSUME NEW Lines, NEW x \in Seq(Lines), Line("blank") \in Lines,
           NEW me, NEW c, Vacant(x, me, c)
    PROVE  \E y \in Seq(Lines) : Precedes(Lines, y, x, me, c)
<1>0. Tied(x) /\ Balanced(x) /\ OwnBlocks(x, me) = {} /\ Prunable(x, c, me) = {}
    BY DEF Vacant
<1>1. CASE x = <<>>
    <2>1. \A block \in Seq(Lines) : Append1(x, block) = x \o block
        BY <1>1 DEF Append1
    <2> QED
        BY <1>0, <2>1 DEF Precedes, Vacant
<1>2. CASE x # <<>>
    <2>. DEFINE s == x \o <<Line("blank")>>
                f == [k \in DOMAIN x |-> k]
                y == Collapsed(s)
    <2>1. \A block \in Seq(Lines) : Append1(x, block) = y \o block
        BY <1>2 DEF Append1
    <2>2. s \in Seq(Lines)
        BY BlankLines
    <2>3. Thinned(Lines, x, s, DOMAIN x, f)
        BY BlankThinned
    <2>4. Tied(s)
        BY <1>0, BlankTied
    <2>5. \A h : ~OursAt(s, h, c, me)
        <3>. SUFFICES ASSUME NEW h, OursAt(s, h, c, me) PROVE FALSE
            OBVIOUS
        <3>1. OursAt(x, h, c, me)
            BY <1>0, BlankOurs
        <3> QED
            BY <1>0, <3>1, PrunableAt
    <2>12. \A knows : Sound(x, knows) => Sound(s, knows)
        BY BlankSound
    <2>14. OldSettled(x, c, me) => OldSettled(s, c, me)
        BY BlankSettled
    <2>. HIDE DEF s, f
    <2>6. Balanced(s) /\ OwnBlocks(s, me) = {}
        BY <1>0, <2>3, ThinnedBalanced, ThinnedOwn
    <2>7. y \in Seq(Lines)
        BY <2>2, CollapsedThinned
    <2>8. PICK g : /\ Embeds(y, s, DOMAIN s \ BlanksTwice(s), g)
                   /\ Thinned(Lines, y, s, DOMAIN s \ BlanksTwice(s), g)
        BY <2>2, CollapsedThinned
    <2>13. \A knows : Sound(s, knows) => Sound(y, knows)
        <3>1. Closed(s, DOMAIN s \ (DOMAIN s \ BlanksTwice(s)))
            BY <2>2, BlankDrop, SealedIsClosed
        <3>. HIDE DEF y
        <3> QED
            BY <2>2, <2>7, <2>8, <3>1, KeepSound
    <2>15. OldSettled(s, c, me) => OldSettled(y, c, me)
        <3>. HIDE DEF y
        <3>1. \A i \in DOMAIN s : IsMarker(s[i]) => i \in DOMAIN s \ BlanksTwice(s)
            BY <2>8 DEF Thinned
        <3>2. \A i \in DOMAIN s : NoOnes(s[i], c) => i \in DOMAIN s \ BlanksTwice(s)
            BY DEF BlanksTwice, NoOnes, IsCommand
        <3> QED
            BY <2>2, <2>7, <2>8, <3>1, <3>2, KeepOldApart, KeepOldCleared DEF OldSettled
    <2>9. Tied(y)
        <3>1. y = Without(s, BlanksTwice(s))
            BY DEF Collapsed, BlanksTwice
        <3>2. SealedDrop(s, BlanksTwice(s))
            BY BlankDrop
        <3> QED
            BY <2>2, <2>4, <3>1, <3>2, DropKeeps
    <2>. HIDE DEF y
    <2>10. Balanced(y) /\ OwnBlocks(y, me) = {}
        BY <2>6, <2>8, ThinnedBalanced, ThinnedOwn
    <2>11. Prunable(y, c, me) = {}
        <3>. SUFFICES ASSUME NEW b \in Prunable(y, c, me) PROVE FALSE
            OBVIOUS
        <3>1. OursAt(Collapsed(s), b.start, c, me) /\ Balanced(Collapsed(s))
            BY <2>10, PrunableAt DEF y
        <3>2. \E h : OursAt(s, h, c, me)
            BY <2>2, <3>1, CollapsedOurs
        <3> QED
            BY <2>5, <3>2
    <2> QED
        BY <2>1, <2>7, <2>9, <2>10, <2>11, <2>12, <2>13, <2>14, <2>15 DEF Vacant, Precedes
<1> QED
    BY <1>1, <1>2

-----------------------------------------------------------------------------
(* The inline hooks key.                                                   *)

\* The table that takes the place of hooks = [{...}].
HooksTable(c) == <<Line("hooks"), Line("otherEvent"), CommandLine(c)>>

\* Its lines.
LEMMA HooksTableLines ==
    ASSUME NEW c
    PROVE  LET block == HooksTable(c)
           IN /\ Len(block) = 3 /\ DOMAIN block = 1 .. 3
              /\ IsHeader(block[1]) /\ \A j \in 1 .. 3 : ~Parts(block[j])
<1>. DEFINE block == HooksTable(c)
<1>1. /\ Len(block) = 3 /\ DOMAIN block = 1 .. 3
      /\ block[1] = Line("hooks") /\ block[2] = Line("otherEvent") /\ block[3] = CommandLine(c)
    BY DEF HooksTable
<1>. HIDE DEF block
<1>2. \A j \in 1 .. 3 : j = 1 \/ j = 2 \/ j = 3
    OBVIOUS
<1>3. IsHeader(block[1]) /\ ~Parts(block[1]) /\ ~Parts(block[2]) /\ ~Parts(block[3])
    BY <1>1, LineKind DEF Parts, IsMarker, IsHeader, Headers
<1> QED
    BY <1>1, <1>2, <1>3 DEF block

\* n has that table where t has the assignment, at i, above every header.
Unfolded(n, t, i) ==
    /\ i \in InlineAt(t) /\ i \in DOMAIN t /\ i \in Nat \ {0}
    /\ DOMAIN t = 1 .. Len(t) /\ Len(t) \in Nat /\ DOMAIN n = 1 .. Len(n) /\ Len(n) \in Nat
    /\ IsKey(t[i]) /\ \A g \in HeadersOf(t) : i < g
    /\ \A k \in DOMAIN t : k < i => k \in DOMAIN n /\ n[k] = t[k]
    /\ \A k \in DOMAIN t : k > i => k + 2 \in DOMAIN n /\ n[k + 2] = t[k]
    /\ \A k \in DOMAIN n : k < i => k \in DOMAIN t /\ n[k] = t[k]
    /\ \A k \in DOMAIN n : k > i + 2 => k - 2 \in DOMAIN t /\ k - 2 > i /\ n[k] = t[k - 2]
    /\ i \in DOMAIN n /\ n[i] = Line("hooks")
    /\ i + 1 \in DOMAIN n /\ n[i + 1] = Line("otherEvent")
    /\ i + 2 \in DOMAIN n /\ n[i + 2] = CommandLine(t[i].cmd)

\* normalizeTopLevelInlineHooks puts it in the place of hooks = [{...}].
LEMMA NormalizedUnfolds ==
    ASSUME NEW t \in Texts, InlineAt(t) # {}, Parses(t)
    PROVE  \E i : Unfolded(Normalized(t), t, i)
<1>0. Normalized(t) \in Texts
    BY NormalizedType
<1>. DEFINE i == Min(InlineAt(t))
            block == HooksTable(t[i].cmd)
            b == [begin |-> i, end |-> i]
            n == Normalized(t)
<1>1. Len(t) \in Nat /\ DOMAIN t = 1 .. Len(t) /\ t \in Seq(TextLine)
    BY DEF Texts
<1>2. InlineAt(t) \subseteq DOMAIN t
    BY InTable DEF InlineAt
<1>3. InlineAt(t) \in SUBSET Nat
    BY <1>1, <1>2
<1>4. i \in DOMAIN t /\ i \in InlineAt(t)
    BY <1>2, <1>3, LeastMember
<1>5. n = Splice(t, b, block)
    BY DEF Normalized, Splice, HooksTable
<1>6. block \in Seq(TextLine)
    <2>1. t[i] \in TextLine
        BY <1>1, <1>4
    <2>. HIDE DEF i
    <2>2. t[i].cmd \in Commands \cup {None}
        BY <2>1 DEF TextLine
    <2> QED
        BY <2>2, NewLines, KindsMeans DEF HooksTable
<1>7. IsKey(t[i]) /\ \A g \in HeadersOf(t) : i < g
    <2>. HIDE DEF i
    <2>1. i \in TableAt(t, 0)
        BY <1>4 DEF InlineAt
    <2>2. \A g \in HeadersOf(t) : g > 0
        BY <1>1 DEF HeadersOf
    <2> QED
        BY <2>1, <2>2, InTable
<1>. HIDE DEF i, block
<1>8. Replaced(n, t, i, i, block)
    <2>1. b.begin = i /\ b.end = i /\ i <= i
        BY <1>1, <1>4
    <2>. HIDE DEF b, n
    <2> QED
        BY <1>1, <1>4, <1>5, <1>6, <2>1, SpliceReplaces
<1>13. /\ block[1] = Line("hooks") /\ block[2] = Line("otherEvent")
       /\ block[3] = CommandLine(t[i].cmd)
    BY DEF block, HooksTable
<1>9. Len(block) = 3 /\ DOMAIN block = 1 .. 3 /\ IsHeader(block[1])
      /\ \A j \in 1 .. 3 : ~Parts(block[j])
    BY HooksTableLines DEF block
<1>. HIDE DEF n
<1>10. n \in Seq(TextLine)
    BY <1>0 DEF Texts, n
<1>11. i \in Nat \ {0} /\ i <= Len(t)
    BY <1>1, <1>4
<1>12. /\ \A k \in DOMAIN t : k < i => k \in DOMAIN n /\ n[k] = t[k]
       /\ \A k \in DOMAIN t : k > i => k + 2 \in DOMAIN n /\ n[k + 2] = t[k] /\ k + 2 > i + 2
       /\ \A k \in DOMAIN n : k < i => k \in DOMAIN t /\ n[k] = t[k]
       /\ \A k \in DOMAIN n : i <= k /\ k <= i + 2 =>
             k - i + 1 \in DOMAIN block /\ n[k] = block[k - i + 1]
       /\ \A k \in DOMAIN n : k > i + 2 => k - 2 \in DOMAIN t /\ k - 2 > i /\ n[k] = t[k - 2]
       /\ \A j \in DOMAIN block : i - 1 + j \in DOMAIN n /\ n[i - 1 + j] = block[j]
    <2>. DEFINE z == Len(block)
                y == i
                d == z - (y - i + 1)
    <2>0. t \in Seq(TextLine) /\ n \in Seq(TextLine) /\ Replaced(n, t, i, y, block) /\ y = i
        BY <1>1, <1>8, <1>10
    <2>. HIDE DEF y
    <2>1. /\ \A k \in DOMAIN t : k < i => k \in DOMAIN n /\ n[k] = t[k]
          /\ \A k \in DOMAIN t : k > y => k + d \in DOMAIN n /\ n[k + d] = t[k] /\ k + d > i - 1 + z
          /\ \A k \in DOMAIN n : k < i => k \in DOMAIN t /\ n[k] = t[k]
          /\ \A k \in DOMAIN n : i <= k /\ k <= i - 1 + z =>
                k - i + 1 \in DOMAIN block /\ n[k] = block[k - i + 1]
          /\ \A k \in DOMAIN n : k > i - 1 + z => k - d \in DOMAIN t /\ k - d > y /\ n[k] = t[k - d]
          /\ \A j \in DOMAIN block : i - 1 + j \in DOMAIN n /\ n[i - 1 + j] = block[j]
        BY <1>6, <2>0, ReplacedLines, SMTT(30)
    <2>2. z = 3 /\ d = 2 /\ i - 1 + z = i + 2 /\ y = i
        BY <1>9, <1>11, <2>0
    <2>. HIDE DEF z, d
    <2> QED
        BY <2>1, <2>2
<1>14. DOMAIN n = 1 .. Len(n) /\ Len(n) \in Nat
    BY <1>10
<1>15. /\ i \in DOMAIN n /\ n[i] = block[1]
       /\ i + 1 \in DOMAIN n /\ n[i + 1] = block[2]
       /\ i + 2 \in DOMAIN n /\ n[i + 2] = block[3]
    <2>1. i - 1 + 1 = i /\ i - 1 + 2 = i + 1 /\ i - 1 + 3 = i + 2
        BY <1>11
    <2>2. 1 \in DOMAIN block /\ 2 \in DOMAIN block /\ 3 \in DOMAIN block
        BY <1>9
    <2>3. /\ i - 1 + 1 \in DOMAIN n /\ n[i - 1 + 1] = block[1]
          /\ i - 1 + 2 \in DOMAIN n /\ n[i - 1 + 2] = block[2]
          /\ i - 1 + 3 \in DOMAIN n /\ n[i - 1 + 3] = block[3]
        BY <1>12, <2>2
    <2> QED
        BY <2>1, <2>3
<1>16. Unfolded(n, t, i)
    BY <1>1, <1>4, <1>7, <1>11, <1>12, <1>13, <1>14, <1>15 DEF Unfolded
<1> QED
    BY <1>16 DEF n

\* normalizeTopLevelInlineHooks leaves the keys in the tables that they were in.
LEMMA NormalizedTied ==
    ASSUME NEW t \in Texts, Tied(t)
    PROVE  Normalized(t) \in Texts /\ Tied(Normalized(t))
<1>0. Normalized(t) \in Texts
    BY NormalizedType
<1>. SUFFICES ASSUME InlineAt(t) # {}, Parses(t) PROVE Tied(Normalized(t))
    BY <1>0 DEF Normalized
<1>. DEFINE n == Normalized(t)
<1>1. PICK i : Unfolded(n, t, i)
    BY NormalizedUnfolds
<1>. HIDE DEF n
<1>4. i \in DOMAIN t /\ i \in Nat \ {0} /\ DOMAIN t = 1 .. Len(t) /\ Len(t) \in Nat
    BY <1>1 DEF Unfolded
<1>13. DOMAIN n = 1 .. Len(n) /\ Len(n) \in Nat
    BY <1>1 DEF Unfolded
<1>7. IsKey(t[i]) /\ \A g \in HeadersOf(t) : i < g
    BY <1>1 DEF Unfolded
<1>12. /\ \A k \in DOMAIN t : k > i => k + 2 \in DOMAIN n /\ n[k + 2] = t[k]
       /\ \A k \in DOMAIN n : k < i => k \in DOMAIN t /\ n[k] = t[k]
       /\ \A k \in DOMAIN n : k > i + 2 => k - 2 \in DOMAIN t /\ k - 2 > i /\ n[k] = t[k - 2]
    BY <1>1 DEF Unfolded
<1>9. ~Parts(n[i]) /\ ~Parts(n[i + 1]) /\ ~Parts(n[i + 2])
    <2>1. n[i].kind = "hooks" /\ n[i + 1].kind = "otherEvent" /\ n[i + 2].kind = "command"
        BY <1>1, LineKind DEF Unfolded
    <2> QED
        BY <2>1 DEF Parts, IsMarker
<1>14. ASSUME NEW p \in DOMAIN n, NEW k \in DOMAIN n, p < k, Parts(n[p]), IsKey(n[k])
       PROVE  \E g \in HeadersOf(n) : p < g /\ g < k
    <2>0. p \in Nat /\ k \in Nat
        BY <1>13
    <2>1. CASE p < i
        <3>1. p \in DOMAIN t /\ Parts(t[p])
            BY <1>12, <1>14, <2>1
        <3>2. PICK g \in HeadersOf(t) : p < g /\ g < i
            BY <1>4, <1>7, <2>1, <3>1 DEF Tied
        <3>3. i < g /\ g \in Nat
            BY <1>4, <1>7, <3>2 DEF HeadersOf
        <3> QED
            BY <1>4, <3>2, <3>3
    <2>2. CASE i <= p /\ p <= i + 2
        <3>1. p = i \/ p = i + 1 \/ p = i + 2
            BY <1>4, <2>0, <2>2
        <3> QED
            BY <1>9, <1>14, <3>1
    <2>3. CASE p > i + 2
        <3>1. p - 2 \in DOMAIN t /\ p - 2 > i /\ n[p] = t[p - 2]
            BY <1>12, <2>3
        <3>2. k > i + 2
            BY <1>4, <1>14, <2>0, <2>3
        <3>3. k - 2 \in DOMAIN t /\ n[k] = t[k - 2]
            BY <1>12, <3>2
        <3>4. p - 2 < k - 2
            BY <1>14, <2>0
        <3>5. PICK g \in HeadersOf(t) : p - 2 < g /\ g < k - 2
            BY <1>14, <3>1, <3>3, <3>4 DEF Tied
        <3>6. g \in DOMAIN t /\ g \in Nat /\ g > i /\ IsHeader(t[g])
            BY <1>4, <2>0, <3>1, <3>5 DEF HeadersOf
        <3>7. g + 2 \in DOMAIN n /\ n[g + 2] = t[g]
            BY <1>12, <3>6
        <3>8. p < g + 2 /\ g + 2 < k
            BY <2>0, <3>5, <3>6
        <3> QED
            BY <3>6, <3>7, <3>8 DEF HeadersOf
    <2> QED
        BY <1>4, <2>0, <2>1, <2>2, <2>3
<1> QED
    BY <1>14 DEF Tied, n

-----------------------------------------------------------------------------
(* What setup writes is accepted, and a second setup changes nothing.      *)

\* A text that is ready for a host's block between a and b: where its own block
\* stands, or behind the last line if it has none.
Ready(y, a, b, me) ==
    /\ y \in Texts /\ Slot(y, a, b) /\ Tied(y) /\ Balanced(y)
    /\ \A o \in OwnBlocks(y, me) : o.begin = a

\* A text over some lines is a text over more lines.
LEMMA SeqWithin ==
    ASSUME NEW Lines, NEW More, Lines \subseteq More, NEW t \in Seq(Lines)
    PROVE  t \in Seq(More)
OBVIOUS

\* The text with the block in place of the host's own, or behind the last line.
NextText(x, me, block) ==
    IF BlockState(x, me) = "found" THEN Splice(x, OwnBlock(x, me), block)
    ELSE Append1(x, block)

\* Either way the block replaces lines of a text that is ready for it.
LEMMA NextReplaces ==
    ASSUME NEW Lines \in SUBSET TextLine, NEW x \in Seq(Lines), Tied(x), NEW me, NEW c,
           BlockState(x, me) \notin {"orphan", "duplicate"}, Prunable(x, c, me) = {},
           Line("blank") \in Lines, NEW block \in Seq(Lines)
    PROVE  LET r == NextText(x, me, block)
           IN /\ r \in Seq(Lines)
              /\ \E y, a, b : /\ Ready(y, a, b, me) /\ Prunable(y, c, me) = {}
                              /\ Replaced(r, y, a, b, block)
                              /\ \A kn : Sound(x, kn) => Sound(y, kn)
                              /\ OldSettled(x, c, me) => OldSettled(y, c, me)
<1>. DEFINE r == NextText(x, me, block)
<1>5. Balanced(x)
    BY DEF BlockState
<1>9. CASE BlockState(x, me) = "found"
    <2>1. OwnBlocks(x, me) # {} /\ ~(Cardinality(OwnBlocks(x, me)) > 1)
        BY <1>9 DEF BlockState
    <2>2. PICK q \in OwnBlocks(x, me) : OwnBlocks(x, me) = {q}
        BY <2>1, OneOwnBlock
    <2>3. OwnBlock(x, me) = q
        BY <2>2 DEF OwnBlock
    <2>4. IsPair(x, q.begin, q.end)
        BY OwnBlockMeans
    <2>5. q.begin \in DOMAIN x /\ q.end \in DOMAIN x /\ q.begin <= q.end
        BY <2>4 DEF IsPair
    <2>6. Splice(x, q, block) \in Seq(Lines) /\ Replaced(Splice(x, q, block), x, q.begin, q.end, block)
        BY <2>5, SpliceReplaces
    <2>7. r \in Seq(Lines) /\ Replaced(r, x, q.begin, q.end, block)
        BY <1>9, <2>3, <2>6 DEF NextText
    <2>8. Ready(x, q.begin, q.end, me)
        <3>1. \A o \in OwnBlocks(x, me) : o.begin = q.begin
            BY <2>2
        <3>2. Slot(x, q.begin, q.end)
            <4>. DEFINE i == q.begin
                        e == q.end
            <4>1. IsPair(x, i, e)
                BY <2>4
            <4>. HIDE DEF i, e
            <4>2. Slot(x, i, e)
                BY <4>1 DEF Slot
            <4> QED
                BY <4>2 DEF i, e
        <3>3. x \in Texts
            BY SeqWithin DEF Texts
        <3> QED
            BY <1>5, <3>1, <3>2, <3>3 DEF Ready
    <2> QED
        BY <2>7, <2>8
<1>10. CASE BlockState(x, me) # "found"
    <2>1. OwnBlocks(x, me) = {}
        BY <1>5, <1>10 DEF BlockState
    <2>2. PICK y \in Seq(Lines) : Precedes(Lines, y, x, me, c)
        <3>1. Vacant(x, me, c)
            BY <1>5, <2>1 DEF Vacant
        <3> QED
            BY <3>1, AppendSpot
    <2>3. r = y \o block
        BY <1>10, <2>2 DEF NextText, Precedes
    <2>4. r \in Seq(Lines) /\ Replaced(r, y, Len(y) + 1, Len(y), block)
        BY <2>3, AppendReplaces
    <2>5. Ready(y, Len(y) + 1, Len(y), me)
        <3>1. y \in Texts
            BY SeqWithin DEF Texts
        <3> QED
            BY <2>2, <3>1 DEF Ready, Slot, Vacant, Precedes
    <2>6. Prunable(y, c, me) = {}
        BY <2>2 DEF Vacant, Precedes
    <2> QED
        BY <2>2, <2>4, <2>5, <2>6 DEF Precedes
<1> QED
    BY <1>9, <1>10

\* Every old BEGIN that names me above a command of this plugin for another host
\* is one that this setup removes, or else a command of no one stands between.
OldMoved(t, c, me) ==
    LET n == Normalized(t)
    IN /\ OldApart(n)
       /\ \A i, p : Mislabelled(n, i, p, me) =>
             i \in OldLines(n, c, me) \/ (Parses(n) /\ Screened(n, c, i, p))

\* So the old markers that setup leaves are settled.
LEMMA RemovalsSettle ==
    ASSUME NEW Lines, NEW t, Normalized(t) \in Seq(Lines), Tied(Normalized(t)),
           NEW c, NEW me, OldMoved(t, c, me)
    PROVE  OldSettled(Prune(StripOld(Normalized(t), c, me), c, me), c, me)
<1>. DEFINE n == Normalized(t)
            old == StripOld(n, c, me)
            x == Prune(old, c, me)
            D == OldLines(n, c, me)
            P == PrunedLines(old, c, me)
<1>1. /\ n \in Seq(Lines) /\ Tied(n) /\ OldApart(n)
      /\ \A i, p : Mislabelled(n, i, p, me) => i \in D \/ (Parses(n) /\ Screened(n, c, i, p))
    BY DEF OldMoved
<1>. HIDE DEF n
<1>2. Stage(Lines, old, n, D)
    BY <1>1, StripOldStage
<1>3. \A d \in D : d \in DOMAIN n /\ ~IsMarker(n[d])
    BY <1>1, OldLinesMarkers
<1>4. ASSUME NEW d \in D PROVE ~NoOnes(n[d], c)
    <2>. SUFFICES ASSUME NoOnes(n[d], c) PROVE FALSE
        OBVIOUS
    <2>1. PICK b \in OldRemoved(n, c, me) : d \in b.begin .. b.end
        BY DEF OldLines
    <2>2. b.cmd = n[d].cmd
        BY <1>1, <1>3, <2>1, OldCommand DEF NoOnes
    <2>3. b.cmd = c \/ OursByPath(b.cmd)
        BY OldIsOurs
    <2> QED
        BY <2>2, <2>3 DEF NoOnes
<1>5. old \in Seq(Lines) /\ Tied(old)
    BY <1>1, <1>2, StageTied
<1>6. Stage(Lines, x, old, P)
    BY <1>5, PruneStage
<1>7. \A d \in P : d \in DOMAIN old => ~IsMarker(old[d])
    BY <1>5, PrunedLinesMarkers
<1>8. ASSUME Parses(old), NEW d \in P, d \in DOMAIN old PROVE ~NoOnes(old[d], c)
    <2>. SUFFICES ASSUME NoOnes(old[d], c) PROVE FALSE
        OBVIOUS
    <2>1. PICK b \in Prunable(old, c, me) : d \in b.start .. b.end - 1
        BY DEF PrunedLines
    <2>2. b.cmd = old[d].cmd
        BY <1>5, <1>8, <2>1, PrunedCommand DEF NoOnes
    <2>3. b.cmd = c \/ OursByPath(b.cmd)
        BY DEF Prunable
    <2> QED
        BY <2>2, <2>3 DEF NoOnes
<1>. HIDE DEF old, D, x, P
<1>9. PICK k1, f1 : /\ Embeds(old, n, k1, f1) /\ k1 \subseteq DOMAIN n \ D
                    /\ \A i \in DOMAIN n \ D : i \in k1 \/ n[i].kind = "blank"
                    /\ Closed(n, DOMAIN n \ k1)
    BY <1>2 DEF Stage
<1>10. PICK k2, f2 : /\ Embeds(x, old, k2, f2) /\ k2 \subseteq DOMAIN old \ P
                     /\ \A i \in DOMAIN old \ P : i \in k2 \/ old[i].kind = "blank"
                     /\ Closed(old, DOMAIN old \ k2)
    BY <1>6 DEF Stage
<1>11. x \in Seq(Lines)
    BY <1>6 DEF Stage
<1>12. \A i \in DOMAIN n : IsMarker(n[i]) => i \in k1
    BY <1>3, <1>9 DEF IsMarker
<1>13. \A i \in DOMAIN old : IsMarker(old[i]) => i \in k2
    BY <1>7, <1>10 DEF IsMarker
<1>14. \A q \in DOMAIN n : NoOnes(n[q], c) => q \in k1
    BY <1>4, <1>9 DEF NoOnes, IsCommand
<1>15. Parses(old) => \A q \in DOMAIN old : NoOnes(old[q], c) => q \in k2
    BY <1>8, <1>10 DEF NoOnes, IsCommand
<1>16. Parses(n) => Parses(old)
    BY <1>1, <1>5, <1>9, KeepParses
<1>17. OldApart(x)
    <2>1. OldApart(old)
        BY <1>1, <1>5, <1>9, <1>12, KeepOldApart
    <2> QED
        BY <1>5, <1>10, <1>11, <1>13, <2>1, KeepOldApart
<1>18. ASSUME NEW i, NEW p, Mislabelled(x, i, p, me) PROVE Screened(x, c, i, p)
    <2>1. /\ Mislabelled(old, f2[i], f2[p], me)
          /\ (\A q \in DOMAIN old : NoOnes(old[q], c) => q \in k2)
             /\ Screened(old, c, f2[i], f2[p]) => Screened(x, c, i, p)
        BY <1>5, <1>10, <1>11, <1>18, KeepMislabelled
    <2>. DEFINE j == f2[i]
                z == f2[p]
    <2>. HIDE DEF j, z
    <2>2. Mislabelled(old, j, z, me)
        BY <2>1 DEF j, z
    <2>3. /\ f1[j] \in k1 /\ Mislabelled(n, f1[j], f1[z], me)
          /\ (\A q \in DOMAIN n : NoOnes(n[q], c) => q \in k1)
             /\ Screened(n, c, f1[j], f1[z]) => Screened(old, c, j, z)
        BY <1>1, <1>5, <1>9, <2>2, KeepMislabelled
    <2>4. f1[j] \notin D
        BY <1>9, <2>3
    <2>5. Parses(n) /\ Screened(n, c, f1[j], f1[z])
        BY <1>1, <2>3, <2>4
    <2>6. Screened(old, c, j, z)
        BY <1>14, <2>3, <2>5
    <2> QED
        BY <1>15, <1>16, <2>1, <2>5, <2>6 DEF j, z
<1>19. OldSettled(x, c, me)
    BY <1>17, <1>18 DEF OldSettled, OldCleared
<1> QED
    BY <1>19 DEF x, old, n

\* Setup writes one block, into a text that has no bare table left to prune.
LEMMA InstallReplaces ==
    ASSUME NEW t \in Texts, Tied(t), NEW me \in Hosts, NEW c \in Commands, NEW knows,
           Installed(t, c, me, knows) # Refused,
           NEW Lines \in SUBSET TextLine, StripOld(Normalized(t), c, me) \in Seq(Lines),
           Line("blank") \in Lines, ManagedBlock(me, c) \in Seq(Lines)
    PROVE  LET r == Installed(t, c, me, knows)
           IN /\ r \in Seq(Lines) /\ ValidHookSet(r, knows)
              /\ \E y, a, b : /\ Ready(y, a, b, me) /\ Prunable(y, c, me) = {}
                              /\ Replaced(r, y, a, b, ManagedBlock(me, c))
                              /\ OldMoved(t, c, me) => OldSettled(y, c, me)
<1>. DEFINE block == ManagedBlock(me, c)
            n == Normalized(t)
            old == StripOld(n, c, me)
            x == Prune(old, c, me)
            r == Installed(t, c, me, knows)
<1>1. /\ r = NextText(x, me, block)
      /\ BlockState(x, me) \notin {"orphan", "duplicate"}
      /\ ValidHookSet(NextText(x, me, block), knows)
    BY DEF Installed, NextText
<1>2. n \in Seq(TextLine) /\ Tied(n) /\ old \in Seq(Lines)
    BY NormalizedTied DEF Texts
<1>9. OldMoved(t, c, me) => OldSettled(x, c, me)
    BY <1>2, RemovalsSettle
<1>. HIDE DEF n
<1>3. old \in Seq(Lines) /\ Tied(old)
    BY <1>2, StripOldStage, StageTied
<1>. HIDE DEF old
<1>4. x \in Seq(Lines) /\ Tied(x)
    BY <1>3, PruneStage, StageTied
<1>5. Balanced(x)
    BY <1>1 DEF BlockState
<1>6. Prunable(x, c, me) = {}
    BY <1>3, <1>5, PrunedClean
<1>7. block \in Seq(Lines)
    OBVIOUS
<1>. HIDE DEF x, block, r
<1>8. /\ NextText(x, me, block) \in Seq(Lines)
      /\ \E y, a, b : /\ Ready(y, a, b, me) /\ Prunable(y, c, me) = {}
                      /\ Replaced(NextText(x, me, block), y, a, b, block)
                      /\ OldMoved(t, c, me) => OldSettled(y, c, me)
    <2>. DEFINE new == NextText(x, me, block)
    <2>1. /\ new \in Seq(Lines)
          /\ \E y, a, b : /\ Ready(y, a, b, me) /\ Prunable(y, c, me) = {}
                          /\ Replaced(new, y, a, b, block)
                          /\ \A kn : Sound(x, kn) => Sound(y, kn)
                          /\ OldSettled(x, c, me) => OldSettled(y, c, me)
        BY <1>1, <1>4, <1>6, <1>7, NextReplaces
    <2>. HIDE DEF new
    <2>2. PICK y, a, b : /\ Ready(y, a, b, me) /\ Prunable(y, c, me) = {}
                         /\ Replaced(new, y, a, b, block)
                         /\ OldSettled(x, c, me) => OldSettled(y, c, me)
        BY <2>1
    <2>3. OldMoved(t, c, me) => OldSettled(y, c, me)
        BY <1>9, <2>2
    <2>4. /\ new \in Seq(Lines)
          /\ \E u, v, w : /\ Ready(u, v, w, me) /\ Prunable(u, c, me) = {}
                          /\ Replaced(new, u, v, w, block)
                          /\ OldMoved(t, c, me) => OldSettled(u, c, me)
        BY <2>1, <2>2, <2>3
    <2> QED
        BY <2>4 DEF new
<1> QED
    BY <1>1, <1>8 DEF block, r

\* Below a pair of markers the keys are in tables that are opened there.
LEMMA TiedBelow ==
    ASSUME NEW Lines, NEW y \in Seq(Lines), NEW r \in Seq(Lines), NEW block \in Seq(Lines),
           NEW a, NEW b, Replaced(r, y, a, b, block), Slot(y, a, b), Tied(y),
           NEW me, NEW c, block = ManagedBlock(me, c)
    PROVE  \A k \in DOMAIN r : a + 6 < k /\ IsKey(r[k])
                                  => \E g \in HeadersOf(r) : a + 6 < g /\ g < k
<1>. DEFINE n == Len(block)
            d == n - (b - a + 1)
<1>1. n = 7
    BY ManagedBlockLines
<1>2. /\ a \in Nat \ {0} /\ b \in Nat /\ d \in Int /\ b + d = a - 1 + n
      /\ \A k \in DOMAIN y : k > b => k + d \in DOMAIN r /\ r[k + d] = y[k] /\ k + d > a - 1 + n
      /\ \A k \in DOMAIN r : k > a - 1 + n => k - d \in DOMAIN y /\ k - d > b /\ r[k] = y[k - d]
    BY ReplacedLines
<1>. HIDE DEF n, d
<1>3. a - 1 + n = a + 6
    BY <1>1, <1>2
<1>4. DOMAIN r = 1 .. Len(r) /\ DOMAIN y = 1 .. Len(y) /\ Len(y) \in Nat
    OBVIOUS
<1>5. ASSUME NEW k \in DOMAIN r, a + 6 < k, IsKey(r[k])
      PROVE  \E g \in HeadersOf(r) : a + 6 < g /\ g < k
    <2>1. k - d \in DOMAIN y /\ k - d > b /\ r[k] = y[k - d] /\ k \in Nat
        BY <1>2, <1>3, <1>4, <1>5
    <2>2. b \in DOMAIN y /\ y[b].kind = "end"
        <3>1. IsPair(y, a, b)
            <4>. DEFINE z == k - d
            <4>1. z \in DOMAIN y /\ z > b
                BY <2>1
            <4>. HIDE DEF z
            <4>2. b # Len(y)
                BY <1>4, <4>1
            <4> QED
                BY <4>2 DEF Slot
        <3> QED
            BY <3>1 DEF IsPair
    <2>3. PICK g \in HeadersOf(y) : b < g /\ g < k - d
        BY <1>5, <2>1, <2>2 DEF Tied, Parts, IsMarker
    <2>4. g \in DOMAIN y /\ g \in Nat /\ IsHeader(y[g])
        BY <1>4, <2>3 DEF HeadersOf
    <2>5. g + d \in DOMAIN r /\ r[g + d] = y[g] /\ g + d > a + 6
        BY <1>2, <1>3, <2>3, <2>4
    <2>6. g + d < k
        BY <1>2, <2>1, <2>3, <2>4, SMTT(30)
    <2> QED
        BY <2>4, <2>5, <2>6 DEF HeadersOf
<1> QED
    BY <1>5

\* The markers pair up, and the host's only block begins at a.
SoleBlock(r, a, me) ==
    /\ BlockState(r, me) = "found" /\ Balanced(r)
    /\ OwnBlocks(r, me) = {[begin |-> a, end |-> a + 6, host |-> me]}

\* What setup writes, the verifier accepts.
LEMMA InPlaceEstablishes ==
    ASSUME NEW y, NEW r \in Texts, NEW a, NEW b, NEW me \in Hosts, NEW c \in Commands,
           Ready(y, a, b, me), Replaced(r, y, a, b, ManagedBlock(me, c)), Parses(r)
    PROVE  EvaluateInstalled(r, c, me) /\ SoleBlock(r, a, me)
<1>. DEFINE block == ManagedBlock(me, c)
<1>1. /\ y \in Seq(TextLine) /\ Slot(y, a, b) /\ Tied(y) /\ Balanced(y)
      /\ \A o \in OwnBlocks(y, me) : o.begin = a
    BY DEF Ready, Texts
<1>2. r \in Seq(TextLine) /\ block \in Seq(TextLine) /\ Replaced(r, y, a, b, block)
    BY BlockType DEF Texts
<1>3. me # None /\ c # None
    BY HostsAssumption
<1>4. /\ BlockState(r, me) = "found" /\ Balanced(r)
      /\ OwnBlocks(r, me) = {[begin |-> a, end |-> a + 6, host |-> me]}
    BY <1>1, <1>2, <1>3, BlockFound
<1>5. IsPair(r, a, a + 6)
    BY <1>1, <1>2, PairsOfReplaced
<1>6. BlockAt(r, a, me, c)
    BY <1>1, <1>2, ReplacedBlockAt
<1>7. \A k \in DOMAIN r : a + 6 < k /\ IsKey(r[k])
                             => \E g \in HeadersOf(r) : a + 6 < g /\ g < k
    BY <1>1, <1>2, TiedBelow
<1>8. EvaluateInstalled(r, c, me)
    BY <1>2, <1>3, <1>4, <1>5, <1>6, <1>7, BlockEstablishes
<1> QED
    BY <1>4, <1>8 DEF SoleBlock

\* The lines of a text in which setup's block stands, above it and below it.
Shifted(r, y, a, b, d) ==
    /\ a \in Nat \ {0} /\ b \in Nat /\ d \in Int /\ a - 1 <= b /\ b <= Len(y)
    /\ b + d = a + 6 /\ Len(r) = Len(y) + d /\ Len(y) \in Nat /\ Len(r) \in Nat
    /\ DOMAIN y = 1 .. Len(y) /\ DOMAIN r = 1 .. Len(r)
    /\ \A k \in DOMAIN y : k < a => k \in DOMAIN r /\ r[k] = y[k]
    /\ \A k \in DOMAIN y : k > b => k + d \in DOMAIN r /\ r[k + d] = y[k]
    /\ \A k \in DOMAIN r : k < a => k \in DOMAIN y /\ r[k] = y[k]
    /\ \A k \in DOMAIN r : k > a + 6 => k - d \in DOMAIN y /\ k - d > b /\ r[k] = y[k - d]
    /\ IsPair(r, a, a + 6)
    /\ \A i, e : IsPair(y, i, e) =>
          \/ i = a /\ e = b
          \/ e < a /\ IsPair(r, i, e)
          \/ i > b /\ IsPair(r, i + d, e + d)

\* The text with the new block, against the one without.
LEMMA ReplacedShifts ==
    ASSUME NEW Lines, NEW y \in Seq(Lines), NEW r \in Seq(Lines), NEW block \in Seq(Lines),
           NEW a, NEW b, Replaced(r, y, a, b, block), Slot(y, a, b),
           NEW me, NEW c, block = ManagedBlock(me, c)
    PROVE  Shifted(r, y, a, b, 7 - (b - a + 1))
<1>. DEFINE n == Len(block)
            d == n - (b - a + 1)
            v == 7 - (b - a + 1)
<1>1. n = 7
    BY ManagedBlockLines
<1>2. /\ a \in Nat \ {0} /\ b \in Nat /\ d \in Int
      /\ a - 1 <= b /\ b <= Len(y) /\ b + d = a - 1 + n /\ Len(r) = Len(y) + d
      /\ \A k \in DOMAIN y : k < a => k \in DOMAIN r /\ r[k] = y[k]
      /\ \A k \in DOMAIN y : k > b => k + d \in DOMAIN r /\ r[k + d] = y[k] /\ k + d > a - 1 + n
      /\ \A k \in DOMAIN r : k < a => k \in DOMAIN y /\ r[k] = y[k]
      /\ \A k \in DOMAIN r : k > a - 1 + n => k - d \in DOMAIN y /\ k - d > b /\ r[k] = y[k - d]
    BY ReplacedLines
<1>3. /\ IsPair(r, a, a + 6)
      /\ \A i, e : IsPair(y, i, e) =>
            \/ i = a /\ e = b
            \/ e < a /\ IsPair(r, i, e)
            \/ i > b /\ i + v > a + 6 /\ IsPair(r, i + v, e + v)
    BY PairsOfReplaced
<1>4. d = v
    BY <1>1
<1>. HIDE DEF n, d, v
<1>5. a - 1 + n = a + 6
    BY <1>1, <1>2
<1>6. /\ Len(y) \in Nat /\ Len(r) \in Nat /\ DOMAIN y = 1 .. Len(y) /\ DOMAIN r = 1 .. Len(r)
    OBVIOUS
<1>7. Shifted(r, y, a, b, v)
    BY <1>2, <1>3, <1>4, <1>5, <1>6 DEF Shifted
<1> QED
    BY <1>7 DEF v

\* A bare table above the block is one of the text without it.
LEMMA OursAbove ==
    ASSUME NEW Lines, NEW y \in Seq(Lines), NEW r \in Seq(Lines), NEW a, NEW b, NEW d,
           Shifted(r, y, a, b, d), Slot(y, a, b), Balanced(r),
           NEW c, NEW host, NEW h, OursAt(r, h, c, host), h < a
    PROVE  OursAt(y, h, c, host)
<1>1. /\ a \in Nat \ {0} /\ b \in Nat /\ a - 1 <= b /\ b <= Len(y)
      /\ Len(y) \in Nat /\ Len(r) \in Nat
      /\ DOMAIN y = 1 .. Len(y) /\ DOMAIN r = 1 .. Len(r)
      /\ \A k \in DOMAIN y : k < a => k \in DOMAIN r /\ r[k] = y[k]
      /\ \A k \in DOMAIN r : k < a => k \in DOMAIN y /\ r[k] = y[k]
      /\ IsPair(r, a, a + 6)
    BY DEF Shifted
<1>2. \A i, e : IsPair(y, i, e) => \/ i = a /\ e = b
                                   \/ e < a /\ IsPair(r, i, e)
                                   \/ i > b
    BY DEF Shifted
<1>3. h \in DOMAIN r /\ h \notin InBlocks(r) /\ r[h].kind = "hooks" /\ ~MatcherInSpan(r, h)
    BY DEF OursAt
<1>4. h \in DOMAIN y /\ r[h] = y[h] /\ h \in Nat \ {0}
    BY <1>1, <1>3
<1>5. a \in DOMAIN r /\ IsMarker(r[a])
    BY <1>1 DEF IsPair, IsMarker
<1>6. a = Len(y) + 1 \/ (a \in DOMAIN y /\ IsMarker(y[a]))
    BY DEF Slot, IsPair, IsMarker
<1>. DEFINE e == EndOfBody(r, h)
<1>7. /\ e \in Nat /\ h < e /\ e <= Len(r) + 1
      /\ \A j \in DOMAIN r : h < j /\ j < e => ~Parts(r[j]) /\ ~IsHeader(r[j])
      /\ e <= Len(r) => Parts(r[e]) \/ IsHeader(r[e])
    BY <1>3, EndOfBodyMeans
<1>. HIDE DEF e
<1>8. e <= a
    BY <1>1, <1>4, <1>5, <1>7 DEF Parts
<1>9. SameSpan(r, h, y, h)
    <2>. DEFINE m == e - h
    <2>1. m \in Nat /\ h + m = e
        BY <1>4, <1>7
    <2>. HIDE DEF m
    <2>2. ASSUME NEW j \in 0 .. m - 1 PROVE h + j \in DOMAIN y /\ y[h + j] = r[h + j]
        <3>1. h + j \in 1 .. Len(r) /\ h + j < a
            BY <1>1, <1>4, <1>7, <1>8, <2>1
        <3> QED
            BY <1>1, <3>1
    <2>3. h + m = Len(y) + 1 \/ (h + m \in DOMAIN y /\ (Parts(y[h + m]) \/ IsHeader(y[h + m])))
        <3>1. CASE e = a
            BY <1>6, <2>1, <3>1 DEF Parts
        <3>2. CASE e < a
            <4>1. e \in DOMAIN r /\ e <= Len(r)
                BY <1>1, <1>4, <1>5, <1>7, <3>2
            <4> QED
                BY <1>1, <1>7, <2>1, <3>2, <4>1
        <3> QED
            BY <1>1, <1>7, <1>8, <3>1, <3>2
    <2> QED
        BY <2>2, <2>3 DEF SameSpan, e, m
<1>10. h \notin InBlocks(y)
    <2>1. ASSUME h \in InBlocks(y) PROVE FALSE
        <3>1. PICK q \in Blocks(y) : h \in q.begin .. q.end
            BY <2>1 DEF InBlocks
        <3>. DEFINE i == q.begin
                    x == q.end
        <3>2. IsPair(y, i, x) /\ h \in i .. x
            BY <3>1, BlockMeans
        <3>. HIDE DEF i, x
        <3>3. i \in Nat /\ x \in Nat /\ i <= h /\ h <= x
            BY <1>1, <3>2 DEF IsPair
        <3>4. ~(i = a) /\ ~(i > b)
            BY <1>1, <1>4, <3>3
        <3>5. IsPair(r, i, x)
            BY <1>2, <3>2, <3>4
        <3>6. [begin |-> i, end |-> x, host |-> r[i].host] \in Blocks(r)
            BY <3>5, PairBlock
        <3>7. h \in InBlocks(r)
            BY <3>2, <3>6 DEF InBlocks
        <3> QED
            BY <1>3, <3>7
    <2> QED
        BY <2>1
<1>11. MatcherInSpan(y, h) => MatcherInSpan(r, h)
    <2>. SUFFICES ASSUME NEW i \in h + 1 .. Len(y), y[i].kind = "matcher",
                         \A j \in h + 1 .. i - 1 : ~IsHeader(y[j]) /\ ~IsMarker(y[j])
                  PROVE  MatcherInSpan(r, h)
        BY DEF MatcherInSpan
    <2>0. i \in Nat /\ i \in DOMAIN y /\ h < i
        BY <1>1, <1>4
    <2>1. i < a
        <3>1. ASSUME a < i PROVE FALSE
            <4>1. a \in h + 1 .. i - 1 /\ a # Len(y) + 1
                BY <1>1, <1>4, <2>0, <3>1
            <4> QED
                BY <1>6, <4>1
        <3>2. i # a
            <4>1. ~IsMarker(y[i])
                BY DEF IsMarker
            <4>2. i # Len(y) + 1
                BY <1>1, <2>0
            <4> QED
                BY <1>6, <4>1, <4>2
        <3> QED
            BY <1>1, <2>0, <3>1, <3>2
    <2>2. i \in DOMAIN r /\ r[i] = y[i] /\ i \in h + 1 .. Len(r)
        BY <1>1, <1>4, <2>0, <2>1
    <2>3. ASSUME NEW j \in h + 1 .. i - 1 PROVE ~IsHeader(r[j]) /\ ~IsMarker(r[j])
        <3>1. j \in DOMAIN y /\ j < a
            BY <1>1, <1>4, <2>0, <2>1
        <3>2. r[j] = y[j]
            BY <1>1, <3>1
        <3> QED
            BY <3>2
    <2> QED
        BY <2>2, <2>3 DEF MatcherInSpan
<1> QED
    BY <1>3, <1>4, <1>9, <1>10, <1>11, OursMoved

\* So is one below it.
LEMMA OursBelow ==
    ASSUME NEW Lines, NEW y \in Seq(Lines), NEW r \in Seq(Lines), NEW a, NEW b, NEW d,
           Shifted(r, y, a, b, d), Balanced(r),
           NEW c, NEW host, NEW h, OursAt(r, h, c, host), h > a + 6
    PROVE  OursAt(y, h - d, c, host)
<1>1. /\ a \in Nat \ {0} /\ b \in Nat /\ d \in Int /\ a - 1 <= b /\ b <= Len(y)
      /\ b + d = a + 6 /\ Len(r) = Len(y) + d /\ Len(y) \in Nat /\ Len(r) \in Nat
      /\ DOMAIN y = 1 .. Len(y) /\ DOMAIN r = 1 .. Len(r)
      /\ \A k \in DOMAIN y : k > b => k + d \in DOMAIN r /\ r[k + d] = y[k]
      /\ \A k \in DOMAIN r : k > a + 6 => k - d \in DOMAIN y /\ k - d > b /\ r[k] = y[k - d]
    BY DEF Shifted
<1>0. /\ a \in Nat \ {0} /\ b \in Nat /\ d \in Int /\ b + d = a + 6
      /\ Len(r) = Len(y) + d /\ Len(y) \in Nat /\ Len(r) \in Nat
      /\ DOMAIN y = 1 .. Len(y) /\ DOMAIN r = 1 .. Len(r)
    BY <1>1
<1>2. \A i, e : IsPair(y, i, e) => \/ i = a /\ e = b
                                   \/ e < a
                                   \/ i > b /\ IsPair(r, i + d, e + d)
    BY DEF Shifted
<1>3. h \in DOMAIN r /\ h \notin InBlocks(r) /\ r[h].kind = "hooks" /\ ~MatcherInSpan(r, h)
    BY DEF OursAt
<1>. DEFINE g == h - d
<1>4. h \in Nat \ {0} /\ g \in DOMAIN y /\ g > b /\ r[h] = y[g] /\ g \in Nat \ {0} /\ g + d = h
    BY <1>1, <1>3
<1>40. h \in Nat /\ g \in Nat /\ g + d = h /\ g > b /\ g >= 1
    BY <1>4
<1>. HIDE DEF g
<1>. DEFINE e == EndOfBody(r, h)
<1>7. /\ e \in Nat /\ h < e /\ e <= Len(r) + 1
      /\ \A j \in DOMAIN r : h < j /\ j < e => ~Parts(r[j]) /\ ~IsHeader(r[j])
      /\ e <= Len(r) => Parts(r[e]) \/ IsHeader(r[e])
    BY <1>3, EndOfBodyMeans
<1>. HIDE DEF e
<1>70. e \in Nat /\ h < e /\ e <= Len(r) + 1
    BY <1>7
<1>8. \A k \in DOMAIN y : k > b => k + d \in DOMAIN r /\ r[k + d] = y[k]
    BY <1>1
<1>9. SameSpan(r, h, y, g)
    <2>. DEFINE m == e - h
    <2>1. m \in Nat \ {0} /\ h + m = e
        BY <1>40, <1>70
    <2>. HIDE DEF m
    <2>2. ASSUME NEW j \in 0 .. m - 1 PROVE g + j \in DOMAIN y /\ y[g + j] = r[h + j]
        <3>1. g + j \in 1 .. Len(y) /\ g + j > b /\ (g + j) + d = h + j
            BY <1>0, <1>40, <1>70, <2>1
        <3> QED
            BY <1>1, <1>8, <3>1
    <2>3. g + m = Len(y) + 1 \/ (g + m \in DOMAIN y /\ (Parts(y[g + m]) \/ IsHeader(y[g + m])))
        <3>1. (g + m) + d = e /\ g + m \in Nat /\ g + m > b
            BY <1>0, <1>40, <2>1
        <3>2. CASE e = Len(r) + 1
            <4>1. g + m = Len(y) + 1
                BY <1>0, <3>1, <3>2
            <4> QED
                BY <4>1
        <3>3. CASE e <= Len(r)
            <4>1. g + m \in DOMAIN y
                BY <1>0, <3>1, <3>3
            <4>2. r[e] = y[g + m]
                BY <1>8, <3>1, <4>1
            <4> QED
                BY <1>7, <3>3, <4>1, <4>2
        <3> QED
            BY <1>0, <1>70, <3>2, <3>3
    <2> QED
        BY <2>2, <2>3 DEF SameSpan, e, m
<1>10. g \notin InBlocks(y)
    <2>1. ASSUME g \in InBlocks(y) PROVE FALSE
        <3>1. PICK q \in Blocks(y) : g \in q.begin .. q.end
            BY <2>1 DEF InBlocks
        <3>. DEFINE i == q.begin
                    x == q.end
        <3>2. IsPair(y, i, x) /\ g \in i .. x
            BY <3>1, BlockMeans
        <3>. HIDE DEF i, x
        <3>3. i \in Nat /\ x \in Nat /\ i <= g /\ g <= x
            BY <1>1, <3>2 DEF IsPair
        <3>4. ~(x = b) /\ ~(x < a)
            BY <1>1, <1>4, <3>3
        <3>5. IsPair(r, i + d, x + d)
            BY <1>2, <3>2, <3>4
        <3>6. [begin |-> i + d, end |-> x + d, host |-> r[i + d].host] \in Blocks(r)
            BY <3>5, PairBlock
        <3>7. h \in i + d .. x + d
            BY <1>1, <1>4, <3>3
        <3>8. h \in InBlocks(r)
            BY <3>6, <3>7 DEF InBlocks
        <3> QED
            BY <1>3, <3>8
    <2> QED
        BY <2>1
<1>11. MatcherInSpan(y, g) => MatcherInSpan(r, h)
    <2>. SUFFICES ASSUME NEW i \in g + 1 .. Len(y), y[i].kind = "matcher",
                         \A j \in g + 1 .. i - 1 : ~IsHeader(y[j]) /\ ~IsMarker(y[j])
                  PROVE  MatcherInSpan(r, h)
        BY DEF MatcherInSpan
    <2>0. i \in Nat /\ i \in DOMAIN y /\ g < i /\ i > b
        BY <1>1, <1>4
    <2>1. i + d \in h + 1 .. Len(r)
        BY <1>0, <1>40, <2>0
    <2>2. r[i + d] = y[i] /\ i + d \in h + 1 .. Len(r)
        BY <1>8, <2>0, <2>1
    <2>3. ASSUME NEW j \in h + 1 .. (i + d) - 1 PROVE ~IsHeader(r[j]) /\ ~IsMarker(r[j])
        <3>1. j - d \in DOMAIN y /\ j - d > b /\ j - d \in g + 1 .. i - 1 /\ (j - d) + d = j
            BY <1>1, <1>4, <2>0
        <3>2. r[j] = y[j - d]
            BY <1>8, <3>1
        <3> QED
            BY <3>1, <3>2
    <2> QED
        BY <2>2, <2>3 DEF MatcherInSpan
<1>12. OursAt(y, g, c, host)
    BY <1>3, <1>4, <1>9, <1>10, <1>11, OursMoved
<1> QED
    BY <1>12 DEF g

\* A text that setup has written has no bare table that it would prune.
LEMMA ReplacedBare ==
    ASSUME NEW Lines, NEW y \in Seq(Lines), NEW r \in Seq(Lines), NEW block \in Seq(Lines),
           NEW a, NEW b, Replaced(r, y, a, b, block), Slot(y, a, b),
           NEW me, NEW c, block = ManagedBlock(me, c), Balanced(r), Prunable(y, c, me) = {}
    PROVE  Prunable(r, c, me) = {}
<1>. SUFFICES ASSUME NEW t \in Prunable(r, c, me) PROVE FALSE
    OBVIOUS
<1>. DEFINE h == t.start
            d == 7 - (b - a + 1)
<1>1. OursAt(r, h, c, me)
    BY PrunableAt
<1>2. Shifted(r, y, a, b, d)
    BY ReplacedShifts
<1>. HIDE DEF h, d
<1>3. IsPair(r, a, a + 6) /\ a \in Nat /\ DOMAIN r = 1 .. Len(r)
    BY <1>2 DEF Shifted
<1>4. h \in DOMAIN r /\ h \notin InBlocks(r)
    BY <1>1 DEF OursAt
<1>5. h \notin a .. a + 6
    <2>1. [begin |-> a, end |-> a + 6, host |-> r[a].host] \in Blocks(r)
        BY <1>3, PairBlock
    <2> QED
        BY <1>4, <2>1 DEF InBlocks
<1>6. h < a \/ h > a + 6
    BY <1>3, <1>4, <1>5
<1>7. \E g : OursAt(y, g, c, me)
    BY <1>1, <1>2, <1>6, OursAbove, OursBelow
<1> QED
    BY <1>7, PrunableAt

\* Beside a table of hooks no hooks = [...] stands.
LEMMA NoInlineBesideHooks ==
    ASSUME NEW r, Parses(r), NEW h \in HeadersOf(r), r[h].kind = "hooks"
    PROVE  InlineAt(r) = {} /\ Normalized(r) = r
<1>1. \A i \in TableAt(r, 0) : ~IsInline(r[i])
    BY ParsesMeans
<1> QED
    BY <1>1 DEF InlineAt, Normalized

\* Setting the block that stands in a text changes nothing.
LEMMA SpliceSame ==
    ASSUME NEW Lines, NEW r \in Seq(Lines), NEW a, NEW me, NEW c,
           BlockAt(r, a, me, c), IsPair(r, a, a + 6), ManagedBlock(me, c) \in Seq(Lines)
    PROVE  Splice(r, [begin |-> a, end |-> a + 6, host |-> me], ManagedBlock(me, c)) = r
<1>. DEFINE z == a + 6
            b == [begin |-> a, end |-> z, host |-> me]
            block == ManagedBlock(me, c)
            s == Splice(r, b, block)
            n == Len(block)
            d == n - (z - a + 1)
<1>1. /\ n = 7 /\ DOMAIN block = 1 .. 7
      /\ block[1] = Marker("begin", me) /\ block[2] = Line("comment")
      /\ block[3] = Line("hooks") /\ block[4] = Line("event")
      /\ block[5] = CommandLine(c) /\ block[6] = Line("timeout")
      /\ block[7] = Marker("end", me)
    BY ManagedBlockLines
<1>2. /\ a \in Nat \ {0} /\ r[a] = Marker("begin", me) /\ r[a + 1] = Line("comment")
      /\ r[a + 2] = Line("hooks") /\ r[a + 3] = Line("event") /\ r[a + 4] = CommandLine(c)
      /\ r[a + 5] = Line("timeout") /\ r[a + 6] = Marker("end", me)
    BY DEF BlockAt
<1>3. a \in DOMAIN r /\ z \in DOMAIN r /\ a <= z /\ b.begin = a /\ b.end = z
    BY <1>2 DEF IsPair
<1>4. z = a + 6
    OBVIOUS
<1>. HIDE DEF z, b
<1>5. block \in Seq(Lines)
    OBVIOUS
<1>. HIDE DEF block
<1>6. s \in Seq(Lines) /\ Replaced(s, r, a, z, block)
    BY <1>3, <1>5, SpliceReplaces
<1>. HIDE DEF s
<1>7. /\ z + d = a - 1 + n /\ Len(s) = Len(r) + d
      /\ \A k \in DOMAIN r : k < a => s[k] = r[k]
      /\ \A k \in DOMAIN r : k > z => s[k + d] = r[k]
      /\ \A j \in DOMAIN block : s[a - 1 + j] = block[j]
    BY <1>5, <1>6, ReplacedLines, SMTT(30)
<1>. HIDE DEF n
<1>8. d = 0
    BY <1>1, <1>2, <1>4
<1>. HIDE DEF d
<1>9. Len(r) \in Nat /\ DOMAIN r = 1 .. Len(r) /\ Len(s) = Len(r)
    BY <1>7, <1>8
<1>10. \A k \in DOMAIN r : k > z => s[k] = r[k]
    BY <1>7, <1>8, <1>9
<1>11. /\ a - 1 + 1 = a /\ a - 1 + 2 = a + 1 /\ a - 1 + 3 = a + 2 /\ a - 1 + 4 = a + 3
       /\ a - 1 + 5 = a + 4 /\ a - 1 + 6 = a + 5 /\ a - 1 + 7 = a + 6
    BY <1>2
<1>12. \A j \in 1 .. 7 : s[a - 1 + j] = block[j]
    BY <1>1, <1>7
<1>13. /\ s[a] = r[a] /\ s[a + 1] = r[a + 1] /\ s[a + 2] = r[a + 2] /\ s[a + 3] = r[a + 3]
       /\ s[a + 4] = r[a + 4] /\ s[a + 5] = r[a + 5] /\ s[a + 6] = r[a + 6]
    <2>1. /\ s[a - 1 + 1] = block[1] /\ s[a - 1 + 2] = block[2] /\ s[a - 1 + 3] = block[3]
          /\ s[a - 1 + 4] = block[4] /\ s[a - 1 + 5] = block[5] /\ s[a - 1 + 6] = block[6]
          /\ s[a - 1 + 7] = block[7]
        BY <1>12
    <2>2. /\ s[a] = block[1] /\ s[a + 1] = block[2] /\ s[a + 2] = block[3] /\ s[a + 3] = block[4]
          /\ s[a + 4] = block[5] /\ s[a + 5] = block[6] /\ s[a + 6] = block[7]
        BY <1>11, <2>1
    <2> QED
        BY <1>1, <1>2, <2>2
<1>14. ASSUME NEW k \in 1 .. Len(r) PROVE s[k] = r[k]
    <2>1. \/ k < a \/ k > z \/ k = a \/ k = a + 1 \/ k = a + 2 \/ k = a + 3
          \/ k = a + 4 \/ k = a + 5 \/ k = a + 6
        BY <1>2, <1>4
    <2> QED
        BY <1>7, <1>9, <1>10, <1>13, <2>1
<1>15. s = r
    BY <1>6, <1>9, <1>14, SameText
<1> QED
    BY <1>15 DEF s, b, z, block

-----------------------------------------------------------------------------
(* A second setup finds no old block to remove.                            *)

\* The table in a block that stripLegacyBrandBlocks would remove.
OldTable(t, b, h, p) ==
    /\ h \in HeadersOf(t) /\ t[h].kind = "hooks" /\ b.begin < h /\ h < p /\ p < b.end
    /\ p \in DOMAIN t /\ IsCommand(t[p]) /\ t[p].cmd = b.cmd
    /\ \A k \in DOMAIN t : b.begin < k /\ k < b.end =>
          /\ t[k].kind \in {"hooks", "event", "command", "timeout", "comment", "blank"}
          /\ IsHeader(t[k]) => k = h
          /\ IsCommand(t[k]) => k = p
          /\ IsKey(t[k]) => h < k
    /\ \E v \in DOMAIN t : h < v /\ v < b.end /\ t[v].kind = "event"

\* Its BEGIN and END enclose one table, with one command.
LEMMA OldTableOf ==
    ASSUME NEW Lines, NEW t \in Seq(Lines), NEW c, NEW host, NEW b \in OldRemoved(t, c, host)
    PROVE  \E h, p : OldTable(t, b, h, p)
<1>. DEFINE i == b.begin
            e == b.end
            body == SubSeq(t, i + 1, e - 1)
            S(kind) == {k \in DOMAIN body : body[k].kind = kind}
            first == Min(S("hooks"))
<1>1. /\ i \in DOMAIN t /\ SimpleBody(body) /\ b.cmd = LastCommand(body)
    BY OldRemovedMeans
<1>2. e \in DOMAIN t /\ i < e
    BY OldRemovedMeans, OldEndMeans
<1>3. Len(t) \in Nat /\ DOMAIN t = 1 .. Len(t)
    OBVIOUS
<1>. HIDE DEF i, e
<1>4. i \in Nat \ {0} /\ e \in Nat /\ e <= Len(t)
    BY <1>1, <1>2, <1>3
<1>5. /\ body \in Seq(Lines) /\ DOMAIN body = 1 .. e - 1 - i
      /\ \A x \in 1 .. e - 1 - i : body[x] = t[i + x]
    <2>1. i + 1 \in Nat \ {0} /\ e - 1 \in Nat /\ e - 1 <= Len(t) /\ i + 1 <= e - 1 + 1
        BY <1>2, <1>4
    <2>2. (e - 1) - (i + 1) + 1 = e - 1 - i /\ \A x \in 1 .. e - 1 - i : (i + 1) + x - 1 = i + x
        BY <1>4
    <2> QED
        BY <2>1, <2>2, SubSeqFacts
<1>. HIDE DEF body
<1>6. /\ \A x \in DOMAIN body : i + x \in DOMAIN t /\ i < i + x /\ i + x < e /\ body[x] = t[i + x]
      /\ \A k \in DOMAIN t : i < k /\ k < e =>
            k - i \in DOMAIN body /\ body[k - i] = t[k] /\ i + (k - i) = k
      /\ \A x, z \in DOMAIN body : (i + x < i + z) <=> (x < z)
    BY <1>3, <1>4, <1>5
<1>7. /\ \A x \in DOMAIN body :
            body[x].kind \in {"hooks", "event", "command", "timeout", "comment", "blank"}
      /\ Cardinality(S("hooks")) = 1 /\ Cardinality(S("event")) > 0
      /\ Cardinality(S("command")) = 1
      /\ \A x \in 1 .. first - 1 : ~IsKey(body[x])
    BY <1>1 DEF SimpleBody
<1>8. ASSUME NEW kind PROVE IsFiniteSet(S(kind))
    <2>1. S(kind) \in SUBSET (1 .. e - 1 - i) /\ IsFiniteSet(1 .. e - 1 - i)
        <3>1. 1 \in Int /\ e - 1 - i \in Int
            BY <1>4
        <3> QED
            BY <1>5, <3>1, FS_Interval
    <2>. HIDE DEF S
    <2> QED
        BY <2>1, FS_Subset
<1>. HIDE DEF S
<1>9. (\E x : S("hooks") = {x}) /\ (\E x : S("command") = {x})
    BY <1>7, <1>8, FS_Singleton
<1>10. S("event") # {}
    <2>1. Cardinality(S("event")) # 0
        BY <1>7
    <2> QED
        BY <2>1, FS_EmptySet
<1>11. PICK g : S("hooks") = {g}
    BY <1>9
<1>12. PICK q : S("command") = {q}
    BY <1>9
<1>13. PICK w : w \in S("event")
    BY <1>10
<1>14. first = g
    <2>1. S("hooks") \in SUBSET Nat /\ S("hooks") # {}
        BY <1>5, <1>11 DEF S
    <2>2. first \in S("hooks")
        BY <2>1, LeastMember
    <2> QED
        BY <1>11, <2>2
<1>15. /\ g \in DOMAIN body /\ body[g].kind = "hooks"
       /\ q \in DOMAIN body /\ body[q].kind = "command"
       /\ w \in DOMAIN body /\ body[w].kind = "event"
       /\ \A x \in DOMAIN body : body[x].kind = "hooks" => x = g
       /\ \A x \in DOMAIN body : body[x].kind = "command" => x = q
    BY <1>11, <1>12, <1>13 DEF S
<1>16. ASSUME NEW x \in DOMAIN body, IsKey(body[x]) PROVE g < x
    <2>1. x \notin 1 .. g - 1
        BY <1>7, <1>14, <1>16
    <2>2. x # g
        BY <1>15, <1>16 DEF IsKey, Keys
    <2> QED
        BY <1>5, <1>15, <2>1, <2>2
<1>17. g < q /\ g < w
    BY <1>15, <1>16 DEF IsKey, Keys
<1>18. b.cmd = t[i + q].cmd
    <2>1. IsCommand(body[q]) /\ \A x \in DOMAIN body : IsCommand(body[x]) => x <= q
        BY <1>5, <1>15 DEF IsCommand
    <2>2. LastCommand(body) = body[q].cmd
        BY <1>5, <1>15, <2>1, LastCommandMeans
    <2> QED
        BY <1>1, <1>6, <1>15, <2>2
<1>. DEFINE h == i + g
            p == i + q
            v == i + w
<1>19. /\ h \in DOMAIN t /\ i < h /\ h < p /\ p < e /\ p \in DOMAIN t
       /\ v \in DOMAIN t /\ h < v /\ v < e
       /\ t[h].kind = "hooks" /\ t[p].kind = "command" /\ t[v].kind = "event"
    <2>1. /\ h \in DOMAIN t /\ i < h /\ p < e /\ p \in DOMAIN t /\ v \in DOMAIN t /\ v < e
          /\ t[h].kind = "hooks" /\ t[p].kind = "command" /\ t[v].kind = "event"
        BY <1>6, <1>15
    <2>2. h < p /\ h < v
        BY <1>6, <1>15, <1>17
    <2> QED
        BY <2>1, <2>2
<1>20. ASSUME NEW k \in DOMAIN t, i < k, k < e
       PROVE  /\ t[k].kind \in {"hooks", "event", "command", "timeout", "comment", "blank"}
              /\ IsHeader(t[k]) => k = h
              /\ IsCommand(t[k]) => k = p
              /\ IsKey(t[k]) => h < k
    <2>1. k - i \in DOMAIN body /\ body[k - i] = t[k] /\ i + (k - i) = k
        BY <1>6, <1>20
    <2>2. t[k].kind \in {"hooks", "event", "command", "timeout", "comment", "blank"}
        BY <1>7, <2>1
    <2>3. IsHeader(t[k]) => k - i = g
        BY <1>15, <2>1, <2>2 DEF IsHeader, Headers
    <2>4. IsCommand(t[k]) => k - i = q
        BY <1>15, <2>1 DEF IsCommand
    <2>5. IsKey(t[k]) => h < k
        BY <1>6, <1>15, <1>16, <2>1
    <2> QED
        BY <2>1, <2>2, <2>3, <2>4, <2>5
<1>21. h \in HeadersOf(t) /\ IsCommand(t[p]) /\ t[p].cmd = b.cmd
    BY <1>18, <1>19 DEF HeadersOf, IsHeader, Headers, IsCommand
<1>. HIDE DEF h, p, v
<1>22. OldTable(t, b, h, p)
    BY <1>19, <1>20, <1>21 DEF OldTable, i, e
<1> QED
    BY <1>22

\* Below the END of such a block there is no key before the next header.
LEMMA OldBlockStands ==
    ASSUME NEW Lines, NEW t \in Seq(Lines), NEW c, NEW host, NEW b \in OldRemoved(t, c, host)
    PROVE  /\ b.begin \in DOMAIN t /\ b.end \in DOMAIN t /\ b.begin < b.end
           /\ t[b.begin].kind = "oldBegin" /\ t[b.end].kind = "oldEnd"
           /\ \A j \in DOMAIN t : b.begin < j /\ j < b.end => t[j].kind \notin OldMarkers
           /\ \A k \in DOMAIN t : b.end < k /\ IsKey(t[k]) =>
                 \E g \in HeadersOf(t) : b.end < g /\ g < k
<1>1. /\ b.begin \in DOMAIN t /\ t[b.begin].kind = "oldBegin"
      /\ b.end = OldEnd(t, b.begin) /\ OldEnd(t, b.begin) # 0 /\ ~KeyFollows(t, b.end)
    BY OldRemovedMeans
<1>2. /\ b.end \in DOMAIN t /\ b.begin < b.end /\ t[b.end].kind = "oldEnd"
      /\ \A j \in DOMAIN t : b.begin < j /\ j < b.end => t[j].kind \notin OldMarkers
    BY <1>1, OldEndMeans
<1>3. \A k \in DOMAIN t : b.end < k /\ IsKey(t[k]) =>
          \E g \in HeadersOf(t) : b.end < g /\ g < k
    BY <1>1, <1>2, NoKeyFollows
<1> QED
    BY <1>1, <1>2, <1>3

\* Nor does the table of such a block stand between a pair of markers.
LEMMA OldTableOutside ==
    ASSUME NEW Lines, NEW t \in Seq(Lines), OldApart(t), NEW c, NEW host,
           NEW b \in OldRemoved(t, c, host), NEW h \in DOMAIN t, b.begin < h, h < b.end
    PROVE  h \notin InBlocks(t)
<1>. DEFINE x == b.begin
            y == b.end
<1>1. /\ x \in DOMAIN t /\ y \in DOMAIN t /\ t[x].kind = "oldBegin"
      /\ \A j \in DOMAIN t : x < j /\ j < y => t[j].kind \notin OldMarkers
    BY OldBlockStands
<1>2. x < h /\ h < y
    OBVIOUS
<1>. HIDE DEF x, y
<1>. SUFFICES ASSUME NEW o \in Blocks(t), h \in o.begin .. o.end PROVE FALSE
    BY DEF InBlocks
<1>. DEFINE i == o.begin
            e == o.end
<1>3. IsPair(t, i, e) /\ h \in i .. e
    BY BlockMeans
<1>. HIDE DEF i, e
<1>4. i \in DOMAIN t /\ e \in DOMAIN t /\ t[i].kind = "begin" /\ t[e].kind = "end"
    BY <1>3 DEF IsPair
<1>5. x \in Nat /\ y \in Nat /\ h \in Nat /\ i \in Nat /\ e \in Nat
    BY <1>1, <1>4
<1>6. i <= h /\ h <= e
    BY <1>3, <1>5
<1>7. CASE i < x
    <2>1. x < e
        BY <1>2, <1>5, <1>6
    <2> QED
        BY <1>1, <1>3, <1>7, <2>1 DEF OldApart
<1>8. CASE x < i
    <2>1. i < y
        BY <1>2, <1>5, <1>6
    <2> QED
        BY <1>1, <1>4, <1>8, <2>1 DEF OldMarkers
<1>9. x # i
    BY <1>1, <1>4
<1> QED
    BY <1>5, <1>7, <1>8, <1>9

\* So it is a bare table, which pruning removes as well.
LEMMA OldTableBare ==
    ASSUME NEW t \in Seq(TextLine), Tied(t), OldApart(t), NEW c, NEW me,
           NEW b \in OldRemoved(t, c, me), NEW h, NEW p, OldTable(t, b, h, p),
           b.cmd = c \/ (OursByPath(b.cmd) /\ me \in {None, HostOfCommand(b.cmd)}), b.cmd # None
    PROVE  OursAt(t, h, c, me)
<1>. DEFINE i == b.begin
            e == b.end
            x == EndOfBody(t, h)
            n == x - h
            lines == TableLines(t, h)
<1>1. /\ i \in DOMAIN t /\ e \in DOMAIN t /\ t[e].kind = "oldEnd"
      /\ \A k \in DOMAIN t : e < k /\ IsKey(t[k]) => \E g \in HeadersOf(t) : e < g /\ g < k
    BY OldBlockStands
<1>2. /\ h \in DOMAIN t /\ IsHeader(t[h]) /\ t[h].kind = "hooks" /\ i < h /\ h < p /\ p < e
      /\ p \in DOMAIN t /\ IsCommand(t[p]) /\ t[p].cmd = b.cmd
      /\ \A k \in DOMAIN t : i < k /\ k < e =>
            /\ t[k].kind \in {"hooks", "event", "command", "timeout", "comment", "blank"}
            /\ IsHeader(t[k]) => k = h
            /\ IsCommand(t[k]) => k = p
      /\ \E v \in DOMAIN t : h < v /\ v < e /\ t[v].kind = "event"
    BY DEF OldTable, HeadersOf
<1>3. h \notin InBlocks(t)
    <2>1. b.begin < h
        BY DEF OldTable
    <2>2. h < b.end
        BY <1>1, <1>2
    <2>3. h \in DOMAIN t
        BY <1>2
    <2>. HIDE DEF i, e
    <2> QED
        BY <2>1, <2>2, <2>3, OldTableOutside
<1>. HIDE DEF i, e
<1>4. /\ DOMAIN t = 1 .. Len(t) /\ Len(t) \in Nat
      /\ i \in Nat /\ e \in Nat /\ h \in Nat \ {0} /\ p \in Nat /\ e <= Len(t)
    BY <1>1, <1>2
<1>5. /\ x \in Nat /\ h < x /\ x <= Len(t) + 1
      /\ \A j \in DOMAIN t : h < j /\ j < x => ~Parts(t[j]) /\ ~IsHeader(t[j])
      /\ x <= Len(t) => Parts(t[x]) \/ IsHeader(t[x])
    BY <1>2, EndOfBodyMeans
<1>. HIDE DEF x
<1>6. ASSUME NEW k \in DOMAIN t, h < k, k < e, IsKey(t[k]) PROVE k < x
    <2>. SUFFICES ASSUME x <= k PROVE FALSE
        BY <1>4, <1>5
    <2>1. x \in DOMAIN t /\ i < x /\ x < e
        BY <1>2, <1>4, <1>5, <1>6
    <2>2. ~IsHeader(t[x])
        BY <1>2, <1>4, <1>5, <2>1
    <2>3. Parts(t[x])
        BY <1>4, <1>5, <2>1, <2>2
    <2>4. x < k
        BY <1>4, <1>5, <1>6, <2>3, PartsIsNoKey
    <2>5. PICK g \in HeadersOf(t) : x < g /\ g < k
        BY <1>6, <2>1, <2>3, <2>4 DEF Tied
    <2>6. g \in DOMAIN t /\ IsHeader(t[g])
        BY DEF HeadersOf
    <2>7. i < g /\ g < e /\ g # h
        BY <1>4, <1>5, <1>6, <2>1, <2>5, <2>6
    <2> QED
        BY <1>2, <2>6, <2>7
<1>7. n \in Nat \ {0} /\ h + n = x
    BY <1>4, <1>5
<1>8. /\ lines \in Seq(TextLine) /\ DOMAIN lines = 1 .. n - 1
      /\ \A k \in 1 .. n - 1 : lines[k] = t[h + k]
    <2>1. h \in Nat /\ h + n <= Len(t) + 1 /\ (h + n) - 1 = x - 1
        BY <1>4, <1>5, <1>7
    <2>. HIDE DEF n
    <2>2. lines = SubSeq(t, h + 1, (h + n) - 1)
        BY <2>1 DEF TableLines, x
    <2>. HIDE DEF lines
    <2>4. IsPart(lines, t, h, n)
        BY <1>7, <2>1, <2>2 DEF IsPart
    <2>3. /\ lines \in Seq(TextLine) /\ Len(lines) = n - 1
          /\ \A k \in 1 .. n - 1 : lines[k] = t[h + k]
        BY <2>4, PartLines
    <2> QED
        BY <2>3
<1>. HIDE DEF n, lines
<1>9. /\ \A k \in DOMAIN lines : h + k \in DOMAIN t /\ h < h + k /\ h + k < x /\ lines[k] = t[h + k]
      /\ \A k \in DOMAIN t : h < k /\ k < x => k - h \in DOMAIN lines /\ lines[k - h] = t[k]
      /\ \A j, k \in DOMAIN lines : j <= k <=> h + j <= h + k
    BY <1>4, <1>5, <1>7, <1>8
<1>10. ASSUME NEW k \in DOMAIN t, h < k, k < x
       PROVE  /\ t[k].kind \in Comments \cup {"event", "command", "timeout"}
              /\ IsCommand(t[k]) => k = p
    <2>1. ~Parts(t[k]) /\ ~IsHeader(t[k])
        BY <1>5, <1>10
    <2>2. CASE k < e
        BY <1>2, <1>4, <1>10, <2>1, <2>2 DEF IsHeader, Headers, Parts, Comments
    <2>3. CASE k = e
        BY <1>1, <2>3 DEF Comments, IsCommand
    <2>4. CASE e < k
        <3>1. ~IsKey(t[k])
            <4>. SUFFICES ASSUME IsKey(t[k]) PROVE FALSE
                OBVIOUS
            <4>1. PICK g \in HeadersOf(t) : e < g /\ g < k
                BY <1>1, <1>10, <2>4
            <4>2. g \in DOMAIN t /\ IsHeader(t[g]) /\ h < g /\ g < x
                BY <1>2, <1>4, <1>5, <1>10, <4>1 DEF HeadersOf
            <4> QED
                BY <1>5, <4>2
        <3>2. t[k].kind \in Kinds
            BY KnownKinds
        <3>3. t[k].kind \in Comments
            BY <2>1, <3>1, <3>2 DEF Kinds, IsKey, IsHeader, Parts, IsMarker
        <3> QED
            BY <3>1, <3>3 DEF IsCommand, IsKey, Keys
    <2> QED
        BY <1>4, <2>2, <2>3, <2>4
<1>11. PICK v \in DOMAIN t : h < v /\ v < e /\ t[v].kind = "event"
    BY <1>2
<1>12. v < x /\ p < x
    BY <1>2, <1>6, <1>11 DEF IsKey, Keys, IsCommand
<1>13. v - h \in DOMAIN lines /\ lines[v - h].kind = "event"
    BY <1>9, <1>11, <1>12
<1>14. /\ p - h \in DOMAIN lines /\ lines[p - h] = t[p]
       /\ \A q \in DOMAIN lines : IsCommand(lines[q]) => q <= p - h
    <2>1. p - h \in DOMAIN lines /\ lines[p - h] = t[p] /\ h + (p - h) = p
        BY <1>2, <1>4, <1>9, <1>12
    <2>2. ASSUME NEW q \in DOMAIN lines, IsCommand(lines[q]) PROVE q <= p - h
        <3>1. h + q = p
            BY <1>9, <1>10, <2>2
        <3> QED
            BY <1>4, <1>8, <3>1
    <2> QED
        BY <2>1, <2>2
<1>15. LastCommand(lines) = b.cmd
    <2>. DEFINE z == p - h
    <2>1. /\ z \in DOMAIN lines /\ IsCommand(lines[z]) /\ lines[z].cmd = b.cmd
          /\ \A q \in DOMAIN lines : IsCommand(lines[q]) => q <= z
        BY <1>2, <1>14
    <2>. HIDE DEF z
    <2> QED
        BY <1>8, <2>1, LastCommandMeans
<1>16. \A k \in DOMAIN lines : lines[k].kind \in Comments \cup {"event", "command", "timeout"}
    BY <1>9, <1>10
<1>17. OursTable(lines, c, me)
    BY <1>13, <1>15, <1>16 DEF OursTable
<1>18. ASSUME MatcherInSpan(t, h) PROVE FALSE
    <2>1. PICK m \in h + 1 .. Len(t) :
             /\ t[m].kind = "matcher"
             /\ \A j \in h + 1 .. m - 1 : ~IsHeader(t[j]) /\ ~IsMarker(t[j])
        BY <1>18 DEF MatcherInSpan
    <2>2. m \in DOMAIN t /\ h < m /\ m \in Nat /\ IsKey(t[m])
        BY <1>4, <2>1 DEF IsKey, Keys
    <2>3. ~(m < e)
        BY <1>2, <1>4, <2>1, <2>2
    <2>4. m # e
        BY <1>1, <2>1
    <2>5. e < m
        BY <1>4, <2>2, <2>3, <2>4
    <2>6. PICK g \in HeadersOf(t) : e < g /\ g < m
        BY <1>1, <2>2, <2>5
    <2>7. g \in DOMAIN t /\ IsHeader(t[g]) /\ g \in h + 1 .. m - 1
        BY <1>2, <1>4, <2>2, <2>6 DEF HeadersOf
    <2> QED
        BY <2>1, <2>7
<1>19. OursAt(t, h, c, me)
    BY <1>2, <1>3, <1>17, <1>18 DEF OursAt, lines
<1> QED
    BY <1>19

\* With nothing left to prune, there is no block under the old marker to remove.
LEMMA NoOldLeft ==
    ASSUME NEW t \in Seq(TextLine), Tied(t), OldApart(t), NEW me \in Hosts, NEW c \in Commands,
           Prunable(t, c, me) = {},
           \A i, p : Mislabelled(t, i, p, me) =>
               \/ Screened(t, c, i, p)
               \/ \E j \in DOMAIN t : i < j /\ j < p /\ t[j].kind \in OldMarkers
    PROVE  OldRemoved(t, c, me) = {}
<1>. SUFFICES ASSUME NEW b \in OldRemoved(t, c, me) PROVE FALSE
    OBVIOUS
<1>1. PICK h, p : OldTable(t, b, h, p)
    BY OldTableOf
<1>2. /\ p \in DOMAIN t /\ IsCommand(t[p]) /\ t[p].cmd = b.cmd
      /\ b.begin < h /\ h < p /\ p < b.end /\ h \in DOMAIN t
      /\ \A k \in DOMAIN t : b.begin < k /\ k < b.end /\ IsCommand(t[k]) => k = p
    BY <1>1 DEF OldTable, HeadersOf
<1>3. /\ b.begin \in DOMAIN t /\ t[b.begin].kind = "oldBegin" /\ b.end \in DOMAIN t
      /\ \A j \in DOMAIN t : b.begin < j /\ j < b.end => t[j].kind \notin OldMarkers
    BY OldBlockStands
<1>4. b.begin < p /\ \A j \in DOMAIN t : j < p => j < b.end
    BY <1>2, <1>3
<1>5. b.cmd = c \/ OursByPath(b.cmd)
    BY OldIsOurs
<1>6. b.cmd # None
    BY <1>5, HostsAssumption DEF OursByPath
<1>7. b.cmd = c \/ HostOfCommand(b.cmd) = me
    <2>. SUFFICES ASSUME b.cmd # c PROVE HostOfCommand(b.cmd) = me
        OBVIOUS
    <2>1. OursByPath(b.cmd) /\ HostOfCommand(b.cmd) = b.cmd.host
        BY <1>5 DEF OursByPath, HostOfCommand
    <2>2. b.host = me
        BY OldRemovedMeans, HostsAssumption
    <2>3. b.host = IF t[b.begin].host # None THEN t[b.begin].host ELSE HostOfCommand(b.cmd)
        BY OldRemovedMeans
    <2>4. CASE t[b.begin].host = me
        <3>. SUFFICES ASSUME b.cmd.host # me PROVE FALSE
            BY <2>1
        <3>1. Mislabelled(t, b.begin, p, me)
            BY <1>2, <1>3, <1>4, <2>1, <2>4 DEF Mislabelled
        <3>2. CASE Screened(t, c, b.begin, p)
            <4>1. PICK q \in DOMAIN t : b.begin < q /\ q < p /\ NoOnes(t[q], c)
                BY <3>2 DEF Screened
            <4>2. q = p
                BY <1>2, <1>4, <4>1 DEF NoOnes
            <4> QED
                BY <1>2, <4>1, <4>2
        <3>3. CASE \E j \in DOMAIN t : b.begin < j /\ j < p /\ t[j].kind \in OldMarkers
            BY <1>3, <1>4, <3>3
        <3> QED
            BY <3>1, <3>2, <3>3
    <2> QED
        BY <2>2, <2>3, <2>4
<1>8. OursAt(t, h, c, me)
    BY <1>1, <1>5, <1>6, <1>7, OldTableBare
<1> QED
    BY <1>8, PrunableAt

\* The text with the new block, below whose END no key is cut off from its table.
LEMMA ShiftedTied ==
    ASSUME NEW Lines, NEW y \in Seq(Lines), NEW r \in Seq(Lines), NEW a, NEW b, NEW d,
           Shifted(r, y, a, b, d), Tied(y), NEW me, NEW c, BlockAt(r, a, me, c),
           \A k \in DOMAIN r : a + 6 < k /\ IsKey(r[k])
                                  => \E g \in HeadersOf(r) : a + 6 < g /\ g < k
    PROVE  Tied(r)
<1>1. /\ a \in Nat \ {0} /\ b \in Nat /\ d \in Int /\ a - 1 <= b /\ b + d = a + 6
      /\ Len(y) \in Nat /\ Len(r) \in Nat
      /\ DOMAIN y = 1 .. Len(y) /\ DOMAIN r = 1 .. Len(r)
      /\ \A k \in DOMAIN y : k < a => k \in DOMAIN r /\ r[k] = y[k]
      /\ \A k \in DOMAIN y : k > b => k + d \in DOMAIN r /\ r[k + d] = y[k]
      /\ \A k \in DOMAIN r : k < a => k \in DOMAIN y /\ r[k] = y[k]
      /\ \A k \in DOMAIN r : k > a + 6 => k - d \in DOMAIN y /\ k - d > b /\ r[k] = y[k - d]
    BY DEF Shifted
<1>2. /\ {a, a + 1, a + 2, a + 3, a + 4, a + 5, a + 6} \subseteq DOMAIN r
      /\ r[a] = Marker("begin", me) /\ r[a + 1] = Line("comment") /\ r[a + 2] = Line("hooks")
      /\ r[a + 3] = Line("event") /\ r[a + 4] = CommandLine(c) /\ r[a + 5] = Line("timeout")
      /\ r[a + 6] = Marker("end", me)
    <2>1. a .. a + 6 \subseteq DOMAIN r
        BY DEF BlockAt
    <2> QED
        BY <1>1, <2>1 DEF BlockAt
<1>3. /\ IsHeader(r[a + 2]) /\ ~IsKey(r[a]) /\ ~IsKey(r[a + 1]) /\ ~IsKey(r[a + 2])
      /\ ~IsKey(r[a + 6]) /\ ~Parts(r[a + 2]) /\ ~Parts(r[a + 3]) /\ ~Parts(r[a + 4])
      /\ ~Parts(r[a + 5])
    <2>1. /\ r[a].kind = "begin" /\ r[a + 1].kind = "comment" /\ r[a + 2].kind = "hooks"
          /\ r[a + 3].kind = "event" /\ r[a + 4].kind = "command" /\ r[a + 5].kind = "timeout"
          /\ r[a + 6].kind = "end"
        BY <1>2, LineKind, SMTT(30)
    <2>2. IsHeader(r[a + 2]) /\ ~Parts(r[a + 2]) /\ ~Parts(r[a + 3]) /\ ~Parts(r[a + 4])
          /\ ~Parts(r[a + 5])
        BY <2>1 DEF IsHeader, Headers, Parts, IsMarker
    <2>3. ~IsKey(r[a]) /\ ~IsKey(r[a + 1]) /\ ~IsKey(r[a + 2]) /\ ~IsKey(r[a + 6])
        BY <2>1 DEF IsKey, Keys
    <2> QED
        BY <2>2, <2>3
<1>. SUFFICES ASSUME NEW i \in DOMAIN r, NEW k \in DOMAIN r, i < k, Parts(r[i]), IsKey(r[k])
              PROVE  \E g \in HeadersOf(r) : i < g /\ g < k
    BY DEF Tied
<1>4. i \in Nat /\ k \in Nat
    BY <1>1
<1>5. CASE k < a
    <2>1. /\ i \in DOMAIN y /\ k \in DOMAIN y /\ Parts(y[i]) /\ IsKey(y[k])
        BY <1>1, <1>4, <1>5
    <2>2. PICK g \in HeadersOf(y) : i < g /\ g < k
        BY <2>1 DEF Tied
    <2>3. g \in DOMAIN y /\ IsHeader(y[g]) /\ g < a
        BY <1>1, <1>4, <1>5, <2>1, <2>2 DEF HeadersOf
    <2>4. g \in HeadersOf(r)
        BY <1>1, <2>3 DEF HeadersOf
    <2> QED
        BY <2>2, <2>4
<1>6. CASE a <= k /\ k <= a + 6
    <2>1. \/ k = a \/ k = a + 1 \/ k = a + 2 \/ k = a + 3 \/ k = a + 4 \/ k = a + 5 \/ k = a + 6
        BY <1>1, <1>4, <1>6
    <2>2. k = a + 3 \/ k = a + 4 \/ k = a + 5
        BY <1>3, <2>1
    <2>3. a + 2 < k
        BY <1>1, <2>2
    <2>4. \/ i < a + 2 \/ i = a + 2 \/ i = a + 3 \/ i = a + 4
        BY <1>1, <1>4, <2>2
    <2>5. i < a + 2
        BY <1>3, <2>4
    <2>6. a + 2 \in HeadersOf(r)
        BY <1>2, <1>3 DEF HeadersOf
    <2> QED
        BY <2>3, <2>5, <2>6
<1>7. CASE a + 6 < k
    <2>1. CASE i <= a + 6
        <3>1. PICK g \in HeadersOf(r) : a + 6 < g /\ g < k
            BY <1>7
        <3>2. g \in Nat
            BY <1>1 DEF HeadersOf
        <3> QED
            BY <1>1, <1>4, <2>1, <3>1, <3>2
    <2>2. CASE a + 6 < i
        <3>. DEFINE u == i - d
                    v == k - d
        <3>1. /\ u \in DOMAIN y /\ v \in DOMAIN y /\ u > b /\ u < v
              /\ Parts(y[u]) /\ IsKey(y[v]) /\ u + d = i /\ v + d = k
            <4>1. u + d = i /\ v + d = k /\ u < v
                BY <1>1, <1>4
            <4> QED
                BY <1>1, <1>7, <2>2, <4>1
        <3>. HIDE DEF u, v
        <3>2. PICK g \in HeadersOf(y) : u < g /\ g < v
            BY <3>1 DEF Tied
        <3>3. g \in DOMAIN y /\ IsHeader(y[g]) /\ g > b /\ i < g + d /\ g + d < k
            <4>1. g \in DOMAIN y /\ IsHeader(y[g])
                BY DEF HeadersOf
            <4>2. g \in Int /\ u \in Int /\ v \in Int
                BY <1>1, <3>1, <4>1
            <4> QED
                BY <1>1, <3>1, <3>2, <4>1, <4>2
        <3>4. g + d \in HeadersOf(r)
            BY <1>1, <3>3 DEF HeadersOf
        <3> QED
            BY <3>3, <3>4
    <2> QED
        BY <1>1, <1>4, <2>1, <2>2
<1> QED
    BY <1>1, <1>4, <1>5, <1>6, <1>7

\* The lines of the block, one by one.
LEMMA SevenLines ==
    ASSUME NEW a \in Nat, NEW k \in Nat, a <= k, k <= a + 6
    PROVE  \/ k = a \/ k = a + 1 \/ k = a + 2 \/ k = a + 3 \/ k = a + 4 \/ k = a + 5 \/ k = a + 6
OBVIOUS

\* A text that is settled stays so when setup's block is put in it.
LEMMA ShiftedSettled ==
    ASSUME NEW Lines, NEW y \in Seq(Lines), NEW r \in Seq(Lines), NEW block \in Seq(Lines),
           NEW a, NEW b, Replaced(r, y, a, b, block), Slot(y, a, b),
           NEW me, NEW c, block = ManagedBlock(me, c), OldSettled(y, c, me)
    PROVE  /\ OldApart(r)
           /\ \A i, p : Mislabelled(r, i, p, me) =>
                 \/ Screened(r, c, i, p)
                 \/ \E j \in DOMAIN r : i < j /\ j < p /\ r[j].kind \in OldMarkers
<1>. DEFINE d == 7 - (b - a + 1)
<1>1. /\ Shifted(r, y, a, b, d)
      /\ \A i, e : IsPair(r, i, e) =>
            \/ i = a /\ e = a + 6
            \/ e < a /\ IsPair(y, i, e)
            \/ i > a + 6 /\ i - d > b /\ IsPair(y, i - d, e - d)
    BY ReplacedShifts, PairsOfReplaced
<1>2. BlockAt(r, a, me, c)
    BY ReplacedBlockAt
<1>. HIDE DEF d
<1>3. /\ a \in Nat \ {0} /\ b \in Nat /\ d \in Int /\ a - 1 <= b /\ b + d = a + 6
      /\ Len(y) \in Nat /\ Len(r) \in Nat
      /\ DOMAIN y = 1 .. Len(y) /\ DOMAIN r = 1 .. Len(r)
      /\ \A k \in DOMAIN y : k < a => k \in DOMAIN r /\ r[k] = y[k]
      /\ \A k \in DOMAIN y : k > b => k + d \in DOMAIN r /\ r[k + d] = y[k]
      /\ \A k \in DOMAIN r : k < a => k \in DOMAIN y /\ r[k] = y[k]
      /\ \A k \in DOMAIN r : k > a + 6 => k - d \in DOMAIN y /\ k - d > b /\ r[k] = y[k - d]
    BY <1>1 DEF Shifted
<1>4. a .. a + 6 \subseteq DOMAIN r
    BY <1>2 DEF BlockAt
<1>5. /\ r[a] = Marker("begin", me) /\ r[a + 1] = Line("comment") /\ r[a + 2] = Line("hooks")
      /\ r[a + 3] = Line("event") /\ r[a + 4] = CommandLine(c) /\ r[a + 5] = Line("timeout")
      /\ r[a + 6] = Marker("end", me)
    BY <1>2 DEF BlockAt
<1>6. /\ r[a].kind = "begin" /\ r[a + 1].kind = "comment" /\ r[a + 2].kind = "hooks"
      /\ r[a + 3].kind = "event" /\ r[a + 4].kind = "command" /\ r[a + 5].kind = "timeout"
      /\ r[a + 6].kind = "end"
    BY <1>5, LineKind
<1>7. ASSUME NEW k \in DOMAIN r, a <= k, k <= a + 6
      PROVE  r[k].kind \notin {"oldBegin", "oldEnd"}
    <2>1. a \in Nat /\ k \in Nat
        BY <1>3, <1>7
    <2>2. a <= k /\ k <= a + 6
        BY <1>7
    <2>3. \/ k = a \/ k = a + 1 \/ k = a + 2 \/ k = a + 3 \/ k = a + 4 \/ k = a + 5 \/ k = a + 6
        BY <2>1, <2>2, SevenLines
    <2> QED
        BY <1>6, <2>3
<1>8. ASSUME NEW i, NEW e, NEW k, IsPair(r, i, e), k \in DOMAIN r, i < k, k < e
      PROVE  r[k].kind \notin {"oldBegin", "oldEnd"}
    <2>0. i \in DOMAIN r /\ e \in DOMAIN r /\ i \in Nat /\ e \in Nat /\ k \in Nat
        BY <1>3, <1>8 DEF IsPair
    <2>1. CASE i = a /\ e = a + 6
        <3>1. a <= k /\ k <= a + 6
            BY <1>3, <1>8, <2>0, <2>1
        <3> QED
            BY <1>7, <1>8, <3>1
    <2>2. CASE e < a /\ IsPair(y, i, e)
        <3>1. k < a
            BY <1>3, <1>8, <2>0, <2>2
        <3>2. k \in DOMAIN y /\ r[k] = y[k]
            BY <1>3, <1>8, <3>1
        <3> QED
            BY <1>8, <2>2, <3>2 DEF OldSettled, OldApart
    <2>3. CASE i > a + 6 /\ IsPair(y, i - d, e - d)
        <3>1. k > a + 6 /\ i - d < k - d /\ k - d < e - d
            BY <1>3, <1>8, <2>0, <2>3
        <3>2. k - d \in DOMAIN y /\ r[k] = y[k - d]
            BY <1>3, <1>8, <3>1
        <3> QED
            BY <2>3, <3>1, <3>2 DEF OldSettled, OldApart
    <2> QED
        BY <1>1, <1>8, <2>1, <2>2, <2>3
<1>9. ASSUME NEW i, NEW p, Mislabelled(r, i, p, me)
      PROVE  \/ Screened(r, c, i, p)
             \/ \E j \in DOMAIN r : i < j /\ j < p /\ r[j].kind \in OldMarkers
    <2>1. /\ i \in DOMAIN r /\ p \in DOMAIN r /\ i < p /\ r[i].kind = "oldBegin"
          /\ r[p].kind = "command" /\ i \in Nat /\ p \in Nat
        BY <1>3, <1>9 DEF Mislabelled, IsCommand
    <2>2. i < a \/ i > a + 6
        BY <1>3, <1>7, <2>1
    <2>3. CASE i < a /\ p < a
        <3>1. i \in DOMAIN y /\ p \in DOMAIN y /\ r[i] = y[i] /\ r[p] = y[p]
            BY <1>3, <2>1, <2>3
        <3>2. Mislabelled(y, i, p, me)
            BY <1>9, <3>1 DEF Mislabelled
        <3>3. PICK q \in DOMAIN y : i < q /\ q < p /\ NoOnes(y[q], c)
            BY <3>2 DEF OldSettled, OldCleared, Screened
        <3>4. q < a
            BY <1>3, <2>1, <2>3, <3>3
        <3>5. q \in DOMAIN r /\ r[q] = y[q]
            BY <1>3, <3>4
        <3>6. Screened(r, c, i, p)
            BY <3>3, <3>5 DEF Screened
        <3> QED
            BY <3>6
    <2>4. CASE i < a /\ p >= a
        <3>1. p # a
            BY <1>6, <2>1
        <3>2. a < p
            BY <1>3, <2>1, <2>4, <3>1
        <3>3. a \in DOMAIN r /\ r[a].kind \in OldMarkers
            BY <1>3, <1>4, <1>6 DEF OldMarkers
        <3> QED
            BY <2>4, <3>2, <3>3
    <2>5. CASE i > a + 6
        <3>. DEFINE u == i - d
                    v == p - d
        <3>1. u + d = i /\ v + d = p /\ u < v /\ p > a + 6 /\ u \in Int /\ v \in Int
            BY <1>3, <2>1, <2>5, SMTT(30)
        <3>2. u \in DOMAIN y /\ v \in DOMAIN y /\ u > b /\ r[i] = y[u] /\ r[p] = y[v]
            BY <1>3, <2>1, <2>5, <3>1
        <3>. HIDE DEF u, v
        <3>3. Mislabelled(y, u, v, me)
            BY <1>9, <3>1, <3>2 DEF Mislabelled
        <3>4. PICK q \in DOMAIN y : u < q /\ q < v /\ NoOnes(y[q], c)
            BY <3>3 DEF OldSettled, OldCleared, Screened
        <3>5. q > b /\ i < q + d /\ q + d < p
            <4>1. q \in Int
                BY <1>3
            <4> QED
                BY <1>3, <3>1, <3>2, <3>4, <4>1
        <3>6. q + d \in DOMAIN r /\ r[q + d] = y[q]
            BY <1>3, <3>5
        <3>7. Screened(r, c, i, p)
            BY <3>4, <3>5, <3>6 DEF Screened
        <3> QED
            BY <3>7
    <2> QED
        BY <1>3, <2>1, <2>2, <2>3, <2>4, <2>5
<1> QED
    BY <1>8, <1>9 DEF OldApart

\* A second setup finds in place what it would write.
LEMMA InstalledTwice ==
    ASSUME NEW t \in Texts, Tied(t), NEW me \in Hosts, NEW c \in Commands, NEW knows,
           OldMoved(t, c, me),
           Installed(t, c, me, knows) # Refused
    PROVE  LET r == Installed(t, c, me, knows)
           IN EvaluateInstalled(r, c, me) /\ Installed(r, c, me, knows) = r
<1>. DEFINE r == Installed(t, c, me, knows)
            block == ManagedBlock(me, c)
<1>1. /\ StripOld(Normalized(t), c, me) \in Seq(TextLine) /\ Line("blank") \in TextLine
      /\ block \in Seq(TextLine)
    BY NormalizedType, StagesType, BlankLine, BlockType DEF Texts
<1>2. /\ r \in Seq(TextLine) /\ ValidHookSet(r, knows)
      /\ \E y, a, b : /\ Ready(y, a, b, me) /\ Prunable(y, c, me) = {}
                      /\ Replaced(r, y, a, b, ManagedBlock(me, c))
                      /\ OldMoved(t, c, me) => OldSettled(y, c, me)
    BY <1>1, InstallReplaces
<1>3. PICK y, a, b : /\ Ready(y, a, b, me) /\ Prunable(y, c, me) = {}
                     /\ Replaced(r, y, a, b, ManagedBlock(me, c))
                     /\ OldMoved(t, c, me) => OldSettled(y, c, me)
    BY <1>2
<1>. HIDE DEF r
<1>4. /\ r \in Texts /\ Parses(r) /\ Replaced(r, y, a, b, block) /\ OldSettled(y, c, me)
      /\ Tied(y) /\ y \in Seq(TextLine) /\ Slot(y, a, b)
    BY <1>2, <1>3 DEF Texts, ValidHookSet, Ready
<1>0. EvaluateInstalled(r, c, me) /\ SoleBlock(r, a, me)
    BY <1>3, <1>4, InPlaceEstablishes
<1>5. /\ BlockState(r, me) = "found" /\ Balanced(r)
      /\ OwnBlocks(r, me) = {[begin |-> a, end |-> a + 6, host |-> me]}
    BY <1>0 DEF SoleBlock
<1>8. Prunable(r, c, me) = {}
    BY <1>1, <1>2, <1>3, <1>4, <1>5, ReplacedBare
<1>9. BlockAt(r, a, me, c)
    BY <1>1, <1>2, <1>4, ReplacedBlockAt
<1>10. IsPair(r, a, a + 6)
    BY <1>1, <1>2, <1>4, PairsOfReplaced
<1>11. a + 2 \in HeadersOf(r) /\ r[a + 2].kind = "hooks"
    BY <1>9, LineKind DEF BlockAt, HeadersOf, IsHeader, Headers
<1>12. InlineAt(r) = {} /\ Normalized(r) = r
    BY <1>2, <1>4, <1>11, NoInlineBesideHooks
<1>13. OldRemoved(r, c, me) = {}
    <2>1. Tied(r)
        <3>. DEFINE d == 7 - (b - a + 1)
        <3>1. Shifted(r, y, a, b, d)
            BY <1>1, <1>2, <1>4, ReplacedShifts
        <3>. HIDE DEF d
        <3>2. \A k \in DOMAIN r : a + 6 < k /\ IsKey(r[k])
                                      => \E g \in HeadersOf(r) : a + 6 < g /\ g < k
            BY <1>1, <1>2, <1>4, TiedBelow
        <3> QED
            BY <1>2, <1>4, <1>9, <3>1, <3>2, ShiftedTied
    <2>2. /\ OldApart(r)
          /\ \A i, p : Mislabelled(r, i, p, me) =>
                \/ Screened(r, c, i, p)
                \/ \E j \in DOMAIN r : i < j /\ j < p /\ r[j].kind \in OldMarkers
        BY <1>1, <1>2, <1>4, ShiftedSettled
    <2> QED
        BY <1>2, <1>8, <2>1, <2>2, NoOldLeft
<1>14. StripOld(r, c, me) = r /\ OldConfirmed(r, c, me)
    BY <1>13 DEF StripOld, OldConfirmed
<1>15. Prune(r, c, me) = r
    BY <1>8 DEF Prune
<1>16. Splice(r, OwnBlock(r, me), block) = r
    <2>1. OwnBlock(r, me) = [begin |-> a, end |-> a + 6, host |-> me]
        BY <1>5 DEF OwnBlock
    <2>2. Splice(r, [begin |-> a, end |-> a + 6, host |-> me], block) = r
        BY <1>1, <1>2, <1>9, <1>10, SpliceSame
    <2> QED
        BY <2>1, <2>2
<1>17. Installed(r, c, me, knows) = r
    <2>1. BlockState(r, me) \notin {"orphan", "duplicate"}
        BY <1>5
    <2> QED
        BY <1>2, <1>5, <1>12, <1>14, <1>15, <1>16, <2>1 DEF Installed
<1> QED
    BY <1>0, <1>17 DEF r

\* What the run writes, a second run would leave as it is.
LEMMA EstablishStep ==
    TypeOK /\ RunOK => (OldMoved(Base, run.cmd, run.host) => InstallEstablishes)
<1>. SUFFICES ASSUME TypeOK, RunOK, OldMoved(Base, run.cmd, run.host), Computed, run.mode = "install",
                     ~KeyAdrift(Base)
              PROVE  /\ EvaluateInstalled(run.next, run.cmd, run.host)
                     /\ Installed(run.next, run.cmd, run.host, run.knows) = run.next
    BY DEF InstallEstablishes
<1>. DEFINE t == run.base
<1>1. /\ run.host \in Hosts /\ run.cmd \in Commands
      /\ run.next = Installed(t, run.cmd, run.host, run.knows) /\ run.next # Refused
    BY DEF RunOK, Planned, Computed
<1>2. t \in Texts /\ t \in Seq(TextLine) /\ OldMoved(t, run.cmd, run.host)
    BY DEF TypeOK, Texts, Base
<1>3. Tied(t)
    BY <1>2, NotAdriftIsTied DEF Base
<1> QED
    BY <1>1, <1>2, <1>3, InstalledTwice

\* What a setup writes, the verifier accepts, and a second setup leaves it as it
\* is: for any text in which every BEGIN under the marker used before 0.6 that names
\* this host, and stands above a command of this plugin for another, is one that
\* setup removes or is kept from that command by a command of no host, and in which
\* no old marker stands between a pair.
THEOREM SetupInstallEstablishes ==
    Spec => [](OldMoved(Base, run.cmd, run.host) => InstallEstablishes)
<1>1. TypeOK /\ RunOK => (OldMoved(Base, run.cmd, run.host) => InstallEstablishes)
    BY EstablishStep
<1> QED
    BY <1>1, RunInvariant, PTL

\* What a setup writes from any text, the verifier accepts.
Accepted ==
    Computed /\ run.mode = "install" /\ ~KeyAdrift(Base) =>
        EvaluateInstalled(run.next, run.cmd, run.host)
\* What the run writes is accepted.
LEMMA AcceptedStep == TypeOK /\ RunOK => Accepted
<1>. SUFFICES ASSUME TypeOK, RunOK, Computed, run.mode = "install", ~KeyAdrift(Base)
              PROVE  EvaluateInstalled(run.next, run.cmd, run.host)
    BY DEF Accepted
<1>. DEFINE t == run.base
            me == run.host
            c == run.cmd
            r == run.next
<1>1. /\ me \in Hosts /\ c \in Commands
      /\ r = Installed(t, c, me, run.knows) /\ r # Refused
    BY DEF RunOK, Planned, Computed
<1>2. t \in Texts /\ t \in Seq(TextLine)
    BY DEF TypeOK, Texts
<1>3. Tied(t)
    BY <1>2, NotAdriftIsTied DEF Base
<1>. HIDE DEF t, me, c, r
<1>4. /\ StripOld(Normalized(t), c, me) \in Seq(TextLine) /\ Line("blank") \in TextLine
      /\ ManagedBlock(me, c) \in Seq(TextLine)
    BY <1>1, <1>2, NormalizedType, StagesType, BlankLine, BlockType DEF Texts
<1>5. r \in Texts /\ Parses(r)
      /\ \E y, a, b : /\ Ready(y, a, b, me) /\ Prunable(y, c, me) = {}
                      /\ Replaced(r, y, a, b, ManagedBlock(me, c))
                      /\ OldMoved(t, c, me) => OldSettled(y, c, me)
    BY <1>1, <1>2, <1>3, <1>4, InstallReplaces DEF Texts, ValidHookSet
<1>7. PICK y, a, b : /\ Ready(y, a, b, me) /\ Prunable(y, c, me) = {}
                     /\ Replaced(r, y, a, b, ManagedBlock(me, c))
                     /\ OldMoved(t, c, me) => OldSettled(y, c, me)
    BY <1>5
<1>6. EvaluateInstalled(r, c, me)
    BY <1>1, <1>5, <1>7, InPlaceEstablishes
<1> QED
    BY <1>6 DEF r, c, me

\* What runInstall writes, the verifier accepts: for every text in which no key is cut
\* off from its table, with old blocks left or not.
THEOREM SetupInstallAccepted == Spec => []Accepted
<1>1. TypeOK /\ RunOK => Accepted
    BY AcceptedStep
<1> QED
    BY <1>1, RunInvariant, PTL

-----------------------------------------------------------------------------
(* A retry converges.                                                      *)

\* Two tables with the same keys, in two texts.
Alike(r, g, y, h) ==
    \E d \in Int : /\ \A j \in TableAt(r, g) : j - d \in TableAt(y, h) /\ r[j] = y[j - d]
                   /\ \A j \in TableAt(y, h) : j + d \in TableAt(r, g) /\ r[j + d] = y[j]

\* They have the same entry.
LEMMA AlikeMeans ==
    ASSUME NEW Lines, NEW r \in Seq(Lines), NEW y \in Seq(Lines), NEW g, NEW h, Alike(r, g, y, h)
    PROVE  /\ Entry(r, g) = Entry(y, h)
           /\ (\A i, j \in TableAt(y, h) : Keys[y[i].kind] = Keys[y[j].kind] => i = j)
              => (\A i, j \in TableAt(r, g) : Keys[r[i].kind] = Keys[r[j].kind] => i = j)
<1>1. PICK d \in Int : /\ \A j \in TableAt(r, g) : j - d \in TableAt(y, h) /\ r[j] = y[j - d]
                       /\ \A j \in TableAt(y, h) : j + d \in TableAt(r, g) /\ r[j + d] = y[j]
    BY DEF Alike
<1>2. \A l : l \in Entry(r, g) <=> \E j \in TableAt(r, g) : l = r[j]
    BY DEF Entry, EntryAmong, TableAt
<1>3. \A l : l \in Entry(y, h) <=> \E j \in TableAt(y, h) : l = y[j]
    BY DEF Entry, EntryAmong, TableAt
<1>4. \A l : l \in Entry(r, g) <=> l \in Entry(y, h)
    BY <1>1, <1>2, <1>3
<1>5. Entry(r, g) = Entry(y, h)
    BY <1>4
<1>6. ASSUME \A i, j \in TableAt(y, h) : Keys[y[i].kind] = Keys[y[j].kind] => i = j,
             NEW i \in TableAt(r, g), NEW j \in TableAt(r, g), Keys[r[i].kind] = Keys[r[j].kind]
      PROVE  i = j
    <2>1. i \in Nat /\ j \in Nat
        BY InTable
    <2>2. /\ i - d \in TableAt(y, h) /\ r[i] = y[i - d]
          /\ j - d \in TableAt(y, h) /\ r[j] = y[j - d]
        BY <1>1
    <2>3. i - d = j - d
        BY <1>6, <2>2
    <2> QED
        BY <2>1, <2>3
<1> QED
    BY <1>5, <1>6

\* The tables of a text in which setup's block stands: the block's, and those of
\* the text but for the ones that gave way.
LEMMA ReplacedTables ==
    ASSUME NEW Lines, NEW y \in Seq(Lines), NEW r \in Seq(Lines), NEW block \in Seq(Lines),
           NEW a, NEW b, Replaced(r, y, a, b, block), Slot(y, a, b), Tied(y),
           NEW me, NEW c, block = ManagedBlock(me, c)
    PROVE  LET d == 7 - (b - a + 1)
           IN /\ Alike(r, 0, y, 0)
              /\ \A g \in HeadersOf(r) :
                    \/ g < a /\ g \in HeadersOf(y) /\ r[g] = y[g] /\ Alike(r, g, y, g)
                    \/ g = a + 2
                    \/ g > a + 6 /\ g - d > b /\ g - d \in HeadersOf(y) /\ r[g] = y[g - d]
                       /\ Alike(r, g, y, g - d)
              /\ \A g \in HeadersOf(y) :
                    \/ g < a /\ g \in HeadersOf(r)
                    \/ a < g /\ g < b /\ IsPair(y, a, b)
                    \/ g > b /\ g + d \in HeadersOf(r) /\ g + d > a + 6
<1>. DEFINE n == Len(block)
            d == n - (b - a + 1)
            v == 7 - (b - a + 1)
<1>1. n = 7
    BY ManagedBlockLines
<1>2. d = v
    BY <1>1
<1>3. OpensTables(block)
    BY ManagedBlockOpens
<1>4. Sealed(y, a, b)
    <2>1. CASE IsPair(y, a, b)
        BY <2>1, PairSealed
    <2>2. CASE a = Len(y) + 1 /\ b = Len(y)
        <3>1. Sealed(y, Len(y) + 1, Len(y))
            BY AppendReplaces
        <3> QED
            BY <2>2, <3>1
    <2> QED
        BY <2>1, <2>2 DEF Slot
<1>5. Shifted(r, y, a, b, v)
    BY ReplacedShifts
<1>6. BlockAt(r, a, me, c)
    BY ReplacedBlockAt
<1>7. \A h \in HeadersOf(y) : b < h =>
             /\ h + d \in HeadersOf(r) /\ r[h + d] = y[h]
             /\ \A j : j \in TableAt(y, h) => j + d \in TableAt(r, h + d) /\ r[j + d] = y[j]
             /\ \A j : j \in TableAt(r, h + d) => j - d \in TableAt(y, h) /\ r[j] = y[j - d]
    <2>. SUFFICES ASSUME NEW h \in HeadersOf(y), b < h
                  PROVE  /\ h + d \in HeadersOf(r) /\ r[h + d] = y[h]
                         /\ \A j : j \in TableAt(y, h) => j + d \in TableAt(r, h + d) /\ r[j + d] = y[j]
                         /\ \A j : j \in TableAt(r, h + d) => j - d \in TableAt(y, h) /\ r[j] = y[j - d]
        OBVIOUS
    <2> QED
        BY ReplacedBelow
<1>8. \A h \in HeadersOf(y) \cup {0} : h < a =>
             /\ \A j : j \in TableAt(r, h) <=> j \in TableAt(y, h)
             /\ \A j \in TableAt(y, h) : j \in 1 .. a - 1
    BY <1>3, <1>4, ReplacedAbove
<1>. HIDE DEF n, d, v
<1>9. /\ a \in Nat \ {0} /\ b \in Nat /\ v \in Int /\ a - 1 <= b
      /\ DOMAIN y = 1 .. Len(y) /\ DOMAIN r = 1 .. Len(r) /\ Len(y) \in Nat /\ Len(r) \in Nat
    BY <1>5 DEF Shifted
<1>10. /\ \A k \in DOMAIN y : k < a => k \in DOMAIN r /\ r[k] = y[k]
       /\ \A k \in DOMAIN y : k > b => k + v \in DOMAIN r /\ r[k + v] = y[k]
       /\ \A k \in DOMAIN r : k < a => k \in DOMAIN y /\ r[k] = y[k]
       /\ \A k \in DOMAIN r : k > a + 6 => k - v \in DOMAIN y /\ k - v > b /\ r[k] = y[k - v]
    BY <1>5 DEF Shifted
<1>11. ASSUME NEW h \in HeadersOf(y) \cup {0}, h < a PROVE Alike(r, h, y, h)
    <2>1. \A j \in TableAt(y, h) : j - 0 = j /\ j + 0 = j /\ r[j] = y[j]
        <3>1. ASSUME NEW j \in TableAt(y, h) PROVE j \in Nat /\ j < a /\ j \in DOMAIN y
            <4>1. j \in 1 .. a - 1 /\ j \in DOMAIN y
                BY <1>8, <1>11, InTable
            <4> QED
                BY <1>9, <4>1
        <3> QED
            BY <1>10, <3>1
    <2>2. \A j : j \in TableAt(r, h) <=> j \in TableAt(y, h)
        BY <1>8, <1>11
    <2> QED
        BY <2>1, <2>2 DEF Alike
<1>12. Alike(r, 0, y, 0)
    BY <1>9, <1>11
<1>13. ASSUME NEW h \in HeadersOf(y), b < h
       PROVE  h + v \in HeadersOf(r) /\ r[h + v] = y[h] /\ Alike(r, h + v, y, h)
    <2>1. /\ h + v \in HeadersOf(r) /\ r[h + v] = y[h]
          /\ \A j : j \in TableAt(y, h) => j + v \in TableAt(r, h + v) /\ r[j + v] = y[j]
          /\ \A j : j \in TableAt(r, h + v) => j - v \in TableAt(y, h) /\ r[j] = y[j - v]
        BY <1>2, <1>7, <1>13
    <2> QED
        BY <1>9, <2>1 DEF Alike
<1>14. ASSUME NEW g \in HeadersOf(r)
       PROVE  \/ g < a /\ g \in HeadersOf(y) /\ r[g] = y[g] /\ Alike(r, g, y, g)
              \/ g = a + 2
              \/ g > a + 6 /\ g - v > b /\ g - v \in HeadersOf(y) /\ r[g] = y[g - v]
                 /\ Alike(r, g, y, g - v)
    <2>0. g \in DOMAIN r /\ IsHeader(r[g]) /\ g \in Nat
        BY <1>9 DEF HeadersOf
    <2>1. CASE g < a
        <3>1. g \in HeadersOf(y) /\ r[g] = y[g]
            BY <1>10, <2>0, <2>1 DEF HeadersOf
        <3> QED
            BY <1>11, <2>1, <3>1
    <2>2. CASE a <= g /\ g <= a + 6
        <3>1. \/ g = a \/ g = a + 1 \/ g = a + 2 \/ g = a + 3 \/ g = a + 4 \/ g = a + 5 \/ g = a + 6
            BY <1>9, <2>0, <2>2
        <3>2. /\ ~IsHeader(r[a]) /\ ~IsHeader(r[a + 1]) /\ ~IsHeader(r[a + 3])
              /\ ~IsHeader(r[a + 4]) /\ ~IsHeader(r[a + 5]) /\ ~IsHeader(r[a + 6])
            <4>1. /\ r[a].kind = "begin" /\ r[a + 1].kind = "comment" /\ r[a + 3].kind = "event"
                  /\ r[a + 4].kind = "command" /\ r[a + 5].kind = "timeout"
                  /\ r[a + 6].kind = "end"
                BY <1>6, LineKind DEF BlockAt
            <4> QED
                BY <4>1 DEF IsHeader, Headers
        <3> QED
            BY <2>0, <3>1, <3>2
    <2>3. CASE g > a + 6
        <3>. DEFINE h == g - v
        <3>1. h \in DOMAIN y /\ h > b /\ r[g] = y[h]
            BY <1>10, <2>0, <2>3
        <3>2. h + v = g
            BY <1>9, <2>0
        <3>. HIDE DEF h
        <3>3. h \in HeadersOf(y)
            BY <2>0, <3>1 DEF HeadersOf
        <3>4. Alike(r, h + v, y, h)
            BY <1>13, <3>1, <3>3
        <3>5. Alike(r, g, y, h)
            BY <3>2, <3>4
        <3> QED
            BY <2>3, <3>1, <3>3, <3>5 DEF h
    <2> QED
        BY <1>9, <2>0, <2>1, <2>2, <2>3
<1>15. ASSUME NEW g \in HeadersOf(y)
       PROVE  \/ g < a /\ g \in HeadersOf(r)
              \/ a < g /\ g < b /\ IsPair(y, a, b)
              \/ g > b /\ g + v \in HeadersOf(r) /\ g + v > a + 6
    <2>0. g \in DOMAIN y /\ IsHeader(y[g]) /\ g \in Nat
        BY <1>9 DEF HeadersOf
    <2>1. CASE g < a
        BY <1>10, <2>0, <2>1 DEF HeadersOf
    <2>2. CASE a <= g /\ g <= b
        <3>1. IsPair(y, a, b)
            <4>0. g \in 1 .. Len(y)
                BY <1>9, <2>0
            <4>1. a # Len(y) + 1
                BY <1>9, <2>2, <4>0
            <4> QED
                BY <4>1 DEF Slot
        <3>2. ~IsHeader(y[a]) /\ ~IsHeader(y[b])
            BY <3>1 DEF IsPair, IsHeader, Headers
        <3>3. g # a /\ g # b
            BY <2>0, <3>2
        <3> QED
            BY <1>9, <2>0, <2>2, <3>1, <3>3
    <2>3. CASE g > b
        <3>1. g + v \in HeadersOf(r)
            BY <1>13, <2>3
        <3>2. b + v = a + 6
            BY <1>5 DEF Shifted
        <3>3. g + v > a + 6
            BY <1>9, <2>0, <2>3, <3>2
        <3> QED
            BY <2>3, <3>1, <3>3
    <2> QED
        BY <1>9, <2>0, <2>1, <2>2, <2>3
<1> QED
    BY <1>12, <1>14, <1>15 DEF v

\* With a table of hooks below, hooks = [{...}] would not parse.
LEMMA RetryState ==
    ASSUME NEW Lines, NEW t \in Seq(Lines), Parses(t), NEW c, NEW me, Retryable(t, c, me)
    PROVE  /\ BlockState(t, me) = "absent" \/ BlockState(t, me) = "found"
           /\ InlineAt(t) = {} /\ Normalized(t) = t
<1>. DEFINE bare == {b \in BareTables(t) :
                       b.cmd # c /\ OursByPath(b.cmd) /\ HostOfCommand(b.cmd) = me}
            body == Body(t, OwnBlock(t, me))
<1>1. StaleCommand(t, c, me) # None
    BY DEF Retryable, BenignDrift
<1>2. \/ BlockState(t, me) = "absent" /\ bare # {}
      \/ BlockState(t, me) = "found" /\ ValidBody(body)
    BY <1>1 DEF StaleCommand
<1>3. \E h \in HeadersOf(t) : t[h].kind = "hooks"
    <2>1. CASE bare # {}
        <3>1. PICK b \in BareTables(t) : TRUE
            BY <2>1
        <3>2. b.start \in DOMAIN t /\ t[b.start].kind = "hooks"
            BY <3>1, BareTableMeans
        <3> QED
            BY <3>2 DEF HeadersOf, IsHeader, Headers
    <2>2. CASE BlockState(t, me) = "found" /\ ValidBody(body)
        <3>1. OwnBlocks(t, me) # {} /\ ~(Cardinality(OwnBlocks(t, me)) > 1)
            BY <2>2 DEF BlockState
        <3>2. PICK q \in OwnBlocks(t, me) : OwnBlocks(t, me) = {q}
            BY <3>1, OneOwnBlock
        <3>3. OwnBlock(t, me) = q
            BY <3>2 DEF OwnBlock
        <3>4. IsPair(t, q.begin, q.end)
            BY OwnBlockMeans
        <3>5. PICK k \in DOMAIN body : body[k].kind = "hooks"
            BY <2>2 DEF ValidBody
        <3>6. body = SubSeq(t, q.begin + 1, q.end - 1)
            BY <3>3 DEF Body
        <3>7. body[k] = t[q.begin + k] /\ q.begin + k \in DOMAIN t
            BY <3>4, <3>5, <3>6, BodyLines
        <3> QED
            BY <3>5, <3>7 DEF HeadersOf, IsHeader, Headers
    <2> QED
        BY <1>2, <2>1, <2>2
<1> QED
    BY <1>2, <1>3, NoInlineBesideHooks

\* A step that drops whole tables outside the pairs of markers.
LEMMA StageKeeps ==
    ASSUME NEW Lines, NEW r, NEW t \in Seq(Lines), NEW dropped, Stage(Lines, r, t, dropped),
           \A d \in dropped : d \in DOMAIN t => ~IsMarker(t[d]),
           \A i, e, k : IsPair(t, i, e) /\ i < k /\ k < e => k \notin dropped
    PROVE  /\ r \in Seq(Lines)
           /\ \A me : /\ BlockState(t, me) = "absent" => BlockState(r, me) = "absent"
                      /\ BlockState(t, me) = "found" => BlockState(r, me) = "found"
           /\ \A knows : Sound(t, knows) => Sound(r, knows)
<1>1. r \in Seq(Lines)
    BY DEF Stage
<1>2. PICK kept, f : /\ Embeds(r, t, kept, f)
                     /\ kept \subseteq DOMAIN t \ dropped
                     /\ \A i \in DOMAIN t \ dropped : i \in kept \/ t[i].kind = "blank"
                     /\ Closed(t, DOMAIN t \ kept)
    BY DEF Stage
<1>3. \A i \in DOMAIN t : IsMarker(t[i]) => i \in kept
    BY <1>2 DEF IsMarker
<1>4. Thinned(Lines, r, t, kept, f)
    BY <1>1, <1>2, <1>3 DEF Thinned
<1>5. \A knows : Sound(t, knows) => Sound(r, knows)
    BY <1>1, <1>2, KeepSound
<1> QED
    BY <1>1, <1>4, <1>5, ThinnedState

\* A block under the old marker stands beside the pairs, as does a bare table.
LEMMA OldOutsidePairs ==
    ASSUME NEW Lines, NEW t \in Seq(Lines), TidyPairs(t), NEW c, NEW host,
           NEW i, NEW e, NEW k, IsPair(t, i, e), i < k, k < e
    PROVE  k \notin OldLines(t, c, host)
<1>. SUFFICES ASSUME NEW b \in OldRemoved(t, c, host), k \in b.begin .. b.end
              PROVE  FALSE
    BY DEF OldLines
<1>. DEFINE x == b.begin
            y == b.end
<1>1. x \in DOMAIN t /\ t[x].kind = "oldBegin" /\ y = OldEnd(t, x) /\ OldEnd(t, x) # 0
    BY OldRemovedMeans
<1>2. y \in DOMAIN t /\ \A j \in DOMAIN t : x < j /\ j < y => t[j].kind \notin OldMarkers
    BY <1>1, OldEndMeans
<1>3. k \in x .. y
    OBVIOUS
<1>. HIDE DEF x, y
<1>4. i \in DOMAIN t /\ e \in DOMAIN t /\ t[i].kind = "begin"
    BY DEF IsPair
<1>5. x \in Nat /\ y \in Nat /\ k \in Nat /\ i \in Nat /\ e \in Nat
    BY <1>1, <1>2, <1>3, <1>4
<1>6. CASE i < x
    <2>1. x < e
        BY <1>3, <1>5
    <2> QED
        BY <1>1, <1>4, <1>6, <2>1 DEF TidyPairs
<1>7. CASE x < i
    <2>1. i < y
        BY <1>3, <1>5
    <2> QED
        BY <1>2, <1>4, <1>7, <2>1 DEF OldMarkers
<1>8. x # i
    BY <1>1, <1>4
<1> QED
    BY <1>5, <1>6, <1>7, <1>8

\* The same for bare tables.
LEMMA PrunedOutsidePairs ==
    ASSUME NEW Lines, NEW t \in Seq(Lines), Balanced(t), NEW c, NEW host,
           NEW i, NEW e, NEW k, IsPair(t, i, e), i < k, k < e
    PROVE  k \notin PrunedLines(t, c, host)
<1>. SUFFICES ASSUME NEW b \in Prunable(t, c, host), k \in b.start .. b.end - 1
              PROVE  FALSE
    BY DEF PrunedLines
<1>. DEFINE h == b.start
            y == b.end
<1>1. h \in DOMAIN t /\ h \notin InBlocks(t) /\ t[h].kind = "hooks" /\ y = EndOfBody(t, h)
    BY PrunableAt DEF OursAt
<1>2. y \in Nat /\ \A j \in DOMAIN t : h < j /\ j < y => ~Parts(t[j])
    BY <1>1, EndOfBodyMeans
<1>3. k \in h .. y - 1
    OBVIOUS
<1>. HIDE DEF h, y
<1>4. i \in DOMAIN t /\ e \in DOMAIN t /\ t[i].kind = "begin"
    BY DEF IsPair
<1>5. h \in Nat /\ y \in Nat /\ k \in Nat /\ i \in Nat /\ e \in Nat
    BY <1>1, <1>2, <1>3, <1>4
<1>6. CASE i < h
    <2>1. h \in i .. e
        BY <1>3, <1>5, <1>6
    <2>2. [begin |-> i, end |-> e, host |-> t[i].host] \in Blocks(t)
        BY PairBlock
    <2>3. h \in InBlocks(t)
        BY <2>1, <2>2 DEF InBlocks
    <2> QED
        BY <1>1, <2>3
<1>7. CASE h < i
    <2>1. i < y
        BY <1>3, <1>5
    <2> QED
        BY <1>2, <1>4, <1>7, <2>1 DEF Parts, IsMarker
<1>8. h # i
    BY <1>1, <1>4
<1> QED
    BY <1>5, <1>6, <1>7, <1>8

\* The block that setup writes is a valid entry, and the other tables stay.
LEMMA ReplacedSound ==
    ASSUME NEW Lines, NEW y \in Seq(Lines), NEW r \in Seq(Lines), NEW block \in Seq(Lines),
           NEW a, NEW b, Replaced(r, y, a, b, block), Slot(y, a, b), Tied(y),
           NEW me, NEW c, block = ManagedBlock(me, c), NEW knows, Sound(y, knows)
    PROVE  Sound(r, knows)
<1>. DEFINE d == 7 - (b - a + 1)
<1>1. /\ Alike(r, 0, y, 0)
      /\ \A g \in HeadersOf(r) :
            \/ g < a /\ g \in HeadersOf(y) /\ r[g] = y[g] /\ Alike(r, g, y, g)
            \/ g = a + 2
            \/ g > a + 6 /\ g - d > b /\ g - d \in HeadersOf(y) /\ r[g] = y[g - d]
               /\ Alike(r, g, y, g - d)
    BY ReplacedTables
<1>2. \A g \in HeadersOf(r) : g = a + 2 \/ \E h \in HeadersOf(y) : r[g] = y[h] /\ Alike(r, g, y, h)
    BY <1>1
<1>. HIDE DEF d
<1>3. BlockAt(r, a, me, c)
    BY ReplacedBlockAt
<1>4. /\ TableAt(r, a + 2) = {a + 3, a + 4, a + 5}
      /\ Entry(r, a + 2) = {Line("event"), CommandLine(c), Line("timeout")}
    BY <1>3, TiedBelow, BlockTable
<1>5. /\ Parses(y) /\ InlineAt(y) = {}
      /\ \A h \in HeadersOf(y) : y[h].kind = "hooks" => ValidEntry(Entry(y, h), knows)
    BY SoundMeans
<1>6. \A h \in {0} \cup HeadersOf(y) : \A i, j \in TableAt(y, h) :
            Keys[y[i].kind] = Keys[y[j].kind] => i = j
    BY <1>5, ParsesMeans
<1>7. Entry(r, 0) = Entry(y, 0)
    BY <1>1, AlikeMeans
<1>8. InlineAt(r) = {}
    <2>1. \A i \in TableAt(r, 0) : r[i] \in Entry(r, 0)
        BY DEF Entry, EntryAmong, TableAt
    <2>2. \A l \in Entry(y, 0) : \E i \in TableAt(y, 0) : l = y[i]
        BY DEF Entry, EntryAmong, TableAt
    <2>3. \A i \in TableAt(y, 0) : ~IsInline(y[i])
        BY <1>5 DEF InlineAt
    <2>4. \A i \in TableAt(r, 0) : ~IsInline(r[i])
        BY <1>7, <2>1, <2>2, <2>3
    <2> QED
        BY <2>4 DEF InlineAt
<1>9. \A h \in {0} \cup HeadersOf(r) : \A i, j \in TableAt(r, h) :
            Keys[r[i].kind] = Keys[r[j].kind] => i = j
    <2>1. \A i, j \in TableAt(r, 0) : Keys[r[i].kind] = Keys[r[j].kind] => i = j
        BY <1>1, <1>6, AlikeMeans
    <2>2. \A i, j \in TableAt(r, a + 2) : Keys[r[i].kind] = Keys[r[j].kind] => i = j
        <3>1. /\ Keys[r[a + 3].kind] = "event" /\ Keys[r[a + 4].kind] = "command"
              /\ Keys[r[a + 5].kind] = "timeout"
            <4>1. /\ r[a + 3].kind = "event" /\ r[a + 4].kind = "command"
                  /\ r[a + 5].kind = "timeout"
                BY <1>3, LineKind DEF BlockAt
            <4> QED
                BY <4>1 DEF Keys
        <3> QED
            BY <1>4, <3>1
    <2>3. ASSUME NEW g \in HeadersOf(r), NEW h \in HeadersOf(y), Alike(r, g, y, h)
          PROVE  \A i, j \in TableAt(r, g) : Keys[r[i].kind] = Keys[r[j].kind] => i = j
        <3>1. \A i, j \in TableAt(y, h) : Keys[y[i].kind] = Keys[y[j].kind] => i = j
            BY <1>6
        <3> QED
            BY <2>3, <3>1, AlikeMeans
    <2>4. ASSUME NEW g \in HeadersOf(r)
          PROVE  \A i, j \in TableAt(r, g) : Keys[r[i].kind] = Keys[r[j].kind] => i = j
        <3>1. CASE g = a + 2
            BY <2>2, <3>1
        <3>2. CASE g # a + 2
            <4>1. PICK h \in HeadersOf(y) : Alike(r, g, y, h)
                BY <1>2, <3>2
            <4> QED
                BY <2>3, <4>1
        <3> QED
            BY <3>1, <3>2
    <2> QED
        BY <2>1, <2>4
<1>10. Parses(r)
    <2>1. \A i \in TableAt(r, 0) : ~IsInline(r[i])
        BY <1>8 DEF InlineAt
    <2> QED
        BY <1>9, <2>1, ParsesMeans
<1>11. ASSUME NEW g \in HeadersOf(r), r[g].kind = "hooks" PROVE ValidEntry(Entry(r, g), knows)
    <2>1. CASE g = a + 2
        <3>. DEFINE e == {Line("event"), CommandLine(c), Line("timeout")}
        <3>1. \A l \in e : l.kind = "event" \/ l.kind = "command" \/ l.kind = "timeout"
            BY LineKind
        <3>2. /\ \A l \in e : Keys[l.kind] \in {"event", "matcher", "command", "timeout"}
              /\ \A l \in e : l.kind # "newEvent"
            BY <3>1 DEF Keys
        <3>3. Line("newEvent") \notin e
            BY <3>2, LineKind
        <3>4. Has(e, "event") /\ Has(e, "command")
            <4>1. Line("event") \in e /\ CommandLine(c) \in e
                OBVIOUS
            <4>2. Keys[Line("event").kind] = "event" /\ Keys[CommandLine(c).kind] = "command"
                <5>1. Line("event").kind = "event" /\ CommandLine(c).kind = "command"
                    BY LineKind
                <5> QED
                    BY <5>1 DEF Keys
            <4>. HIDE DEF e
            <4> QED
                BY <4>1, <4>2 DEF Has
        <3>. HIDE DEF e
        <3>5. ValidEntry(e, knows)
            BY <3>2, <3>3, <3>4 DEF ValidEntry
        <3> QED
            BY <1>4, <2>1, <3>5 DEF e
    <2>2. CASE g # a + 2
        <3>1. PICK h \in HeadersOf(y) : r[g] = y[h] /\ Alike(r, g, y, h)
            BY <1>2, <2>2
        <3>2. Entry(r, g) = Entry(y, h)
            BY <3>1, AlikeMeans
        <3> QED
            BY <1>5, <1>11, <3>1, <3>2
    <2> QED
        BY <2>1, <2>2
<1> QED
    BY <1>8, <1>10, <1>11, SoundMeans

\* Setup does not refuse a text whose hooks kimi loads, when the drift in it is
\* of the kind that invites a retry and the removal of old blocks is confirmed.
LEMMA RetryAccepts ==
    ASSUME NEW t \in Texts, Tied(t), TidyPairs(t), NEW me \in Hosts, NEW c \in Commands, NEW knows,
           ValidHookSet(t, knows), Retryable(t, c, me), OldConfirmed(t, c, me)
    PROVE  Installed(t, c, me, knows) # Refused
<1>. DEFINE block == ManagedBlock(me, c)
            old == StripOld(t, c, me)
            x == Prune(old, c, me)
            r == NextText(x, me, block)
<1>1. t \in Seq(TextLine) /\ block \in Seq(TextLine) /\ Line("blank") \in TextLine
    BY BlockType, BlankLine DEF Texts
<1>2. /\ BlockState(t, me) = "absent" \/ BlockState(t, me) = "found"
      /\ InlineAt(t) = {} /\ Normalized(t) = t
    BY <1>1, RetryState DEF ValidHookSet
<1>3. Sound(t, knows)
    BY <1>2 DEF Sound
<1>. HIDE DEF block
<1>4. /\ old \in Seq(TextLine) /\ Tied(old) /\ Sound(old, knows)
      /\ BlockState(old, me) = "absent" \/ BlockState(old, me) = "found"
    <2>1. Stage(TextLine, old, t, OldLines(t, c, me))
        BY <1>1, StripOldStage
    <2>2. \A d \in OldLines(t, c, me) : d \in DOMAIN t => ~IsMarker(t[d])
        BY <1>1, OldLinesMarkers
    <2>3. \A i, e, k : IsPair(t, i, e) /\ i < k /\ k < e => k \notin OldLines(t, c, me)
        BY <1>1, OldOutsidePairs
    <2>. HIDE DEF old
    <2>4. /\ \A m : /\ BlockState(t, m) = "absent" => BlockState(old, m) = "absent"
                    /\ BlockState(t, m) = "found" => BlockState(old, m) = "found"
          /\ \A kn : Sound(t, kn) => Sound(old, kn)
        BY <1>1, <2>1, <2>2, <2>3, StageKeeps
    <2> QED
        BY <1>1, <1>2, <1>3, <2>1, <2>4, StageTied
<1>. HIDE DEF old
<1>5. /\ x \in Seq(TextLine) /\ Tied(x) /\ Sound(x, knows)
      /\ BlockState(x, me) = "absent" \/ BlockState(x, me) = "found"
    <2>1. Stage(TextLine, x, old, PrunedLines(old, c, me))
        BY <1>4, PruneStage
    <2>2. \A d \in PrunedLines(old, c, me) : d \in DOMAIN old => ~IsMarker(old[d])
        BY <1>4, PrunedLinesMarkers
    <2>5. Balanced(old)
        BY <1>4 DEF BlockState
    <2>3. \A i, e, k : IsPair(old, i, e) /\ i < k /\ k < e => k \notin PrunedLines(old, c, me)
        BY <1>4, <2>5, PrunedOutsidePairs
    <2>. HIDE DEF x
    <2>4. /\ \A m : /\ BlockState(old, m) = "absent" => BlockState(x, m) = "absent"
                    /\ BlockState(old, m) = "found" => BlockState(x, m) = "found"
          /\ \A kn : Sound(old, kn) => Sound(x, kn)
        BY <1>4, <2>1, <2>2, <2>3, StageKeeps
    <2> QED
        BY <1>4, <2>1, <2>4, StageTied
<1>6. Prunable(x, c, me) = {}
    <2>1. Balanced(x)
        BY <1>5 DEF BlockState
    <2> QED
        BY <1>4, <2>1, PrunedClean
<1>. HIDE DEF x
<1>7. BlockState(x, me) \notin {"orphan", "duplicate"}
    BY <1>5
<1>8. /\ r \in Seq(TextLine)
      /\ \E y, a, b : /\ Ready(y, a, b, me) /\ Prunable(y, c, me) = {}
                      /\ Replaced(r, y, a, b, block)
                      /\ \A kn : Sound(x, kn) => Sound(y, kn)
    BY <1>1, <1>5, <1>6, <1>7, NextReplaces
<1>9. PICK y, a, b : /\ Ready(y, a, b, me) /\ Replaced(r, y, a, b, block) /\ Sound(y, knows)
    BY <1>5, <1>8
<1>. HIDE DEF r
<1>10. y \in Seq(TextLine) /\ Slot(y, a, b) /\ Tied(y)
    BY <1>9 DEF Ready, Texts
<1>11. ValidHookSet(r, knows)
    <2>1. block = ManagedBlock(me, c)
        BY DEF block
    <2>2. Sound(r, knows)
        BY <1>1, <1>8, <1>9, <1>10, <2>1, ReplacedSound
    <2> QED
        BY <2>2 DEF Sound
<1>12. r # Refused
    <2>1. BlockAt(r, a, me, c)
        BY <1>1, <1>8, <1>9, <1>10, ReplacedBlockAt DEF block
    <2>2. a + 6 \in DOMAIN r /\ a + 6 # 1
        BY <2>1 DEF BlockAt
    <2>3. DOMAIN Refused = {1}
        BY DEF Refused
    <2> QED
        BY <2>2, <2>3
<1>13. Installed(t, c, me, knows) = r
    BY <1>2, <1>7, <1>11 DEF Installed, NextText, r, x, old, block
<1> QED
    BY <1>12, <1>13

\* The run is not refused, and what it writes is accepted.
LEMMA RetryStep ==
    TypeOK /\ RunOK => (TidyPairs(Base) /\ OldConfirmed(Base, run.cmd, run.host) => RetryConverges)
<1>. SUFFICES ASSUME TypeOK, RunOK, TidyPairs(Base), OldConfirmed(Base, run.cmd, run.host),
                     run.mode = "install", ValidHookSet(Base, run.knows), ~KeyAdrift(Base),
                     Retryable(Base, run.cmd, run.host)
              PROVE  run.next # Refused /\ EvaluateInstalled(run.next, run.cmd, run.host)
    BY DEF RetryConverges
<1>. DEFINE t == run.base
            me == run.host
            c == run.cmd
<1>1. /\ me \in Hosts /\ c \in Commands
      /\ run.next = Installed(t, c, me, run.knows)
    BY DEF RunOK, Planned
<1>2. t \in Texts /\ t \in Seq(TextLine)
    BY DEF TypeOK, Texts
<1>3. Tied(t)
    BY <1>2, NotAdriftIsTied DEF Base
<1>4. /\ TidyPairs(t) /\ OldConfirmed(t, c, me) /\ ValidHookSet(t, run.knows)
      /\ Retryable(t, c, me)
    BY DEF Base
<1>5. run.next # Refused
    <2>. HIDE DEF t, me, c
    <2>1. Installed(t, c, me, run.knows) # Refused
        BY <1>1, <1>2, <1>3, <1>4, RetryAccepts
    <2> QED
        BY <1>1, <2>1
<1>6. Computed
    BY <1>5 DEF Computed
<1> QED
    BY <1>5, <1>6, AcceptedStep DEF Accepted

\* A refusal that tells its caller to run setup and retry once is right: setup
\* does not refuse, and the verifier accepts what it writes, whenever the removal
\* of blocks under the marker used before 0.6 is confirmed to take nothing else.
THEOREM SetupRetryConverges ==
    Spec => [](TidyPairs(Base) /\ OldConfirmed(Base, run.cmd, run.host) => RetryConverges)
<1>1. TypeOK /\ RunOK =>
        (TidyPairs(Base) /\ OldConfirmed(Base, run.cmd, run.host) => RetryConverges)
    BY RetryStep
<1> QED
    BY <1>1, RunInvariant, PTL

\* Whoever edited the file: a verifier's yes means that kimi runs this hook before
\* every tool call, when no key is cut off from its table.
THEOREM SetupVerifierSound == Spec => [](~KeyAdrift(text) => VerifiedIsEnforced)
<1>1. TypeOK => (~KeyAdrift(text) => VerifiedIsEnforced)
    <2>. SUFFICES ASSUME TypeOK, ~KeyAdrift(text) PROVE VerifiedIsEnforced
        OBVIOUS
    <2>1. text \in Seq(TextLine)
        BY DEF TypeOK, Texts
    <2>2. BlocksOpenTables(text)
        BY <2>1, NotAdriftIsTied, TiedOpensTables
    <2> QED
        BY <2>1, <2>2, VerifierSound
<1> QED
    BY <1>1, SetupTypeOK, PTL

-----------------------------------------------------------------------------
(* Foreign hooks and other tables stay.                                    *)

\* g lists the numbers of S, n of them, the smallest first.
Listed(g, n, S) ==
    /\ n \in Nat /\ g \in [1 .. n -> S]
    /\ \A x \in S : \E k \in 1 .. n : g[k] = x
    /\ \A j, k \in 1 .. n : j < k => g[j] < g[k]

\* The order of a list is the order of its numbers.
LEMMA ListedOrder ==
    ASSUME NEW S \in SUBSET Nat, NEW g, NEW n, Listed(g, n, S)
    PROVE  /\ \A k \in 1 .. n : g[k] \in S /\ g[k] \in Nat
           /\ \A j, k \in 1 .. n : g[j] < g[k] => j < k
           /\ \A j, k \in 1 .. n : g[j] = g[k] => j = k
<1>0. n \in Nat /\ g \in [1 .. n -> S]
    BY DEF Listed
<1>1. n \in Nat /\ \A k \in 1 .. n : g[k] \in S /\ g[k] \in Nat /\ k \in Nat
    <2>1. \A k \in 1 .. n : g[k] \in S
        BY <1>0
    <2>2. \A k \in 1 .. n : k \in Nat
        BY <1>0
    <2> QED
        BY <1>0, <2>1, <2>2
<1>2. \A j, k \in 1 .. n : j < k => g[j] < g[k]
    BY DEF Listed
<1>3. \A j, k \in 1 .. n : j < k \/ k < j \/ j = k
    BY <1>1
<1>4. ASSUME NEW j \in 1 .. n, NEW k \in 1 .. n
      PROVE  (g[j] < g[k] => j < k) /\ (g[j] = g[k] => j = k)
    <2>1. g[j] \in Nat /\ g[k] \in Nat
        BY <1>1
    <2>2. (j < k => g[j] < g[k]) /\ (k < j => g[k] < g[j]) /\ (j < k \/ k < j \/ j = k)
        BY <1>2, <1>3
    <2> QED
        BY <2>1, <2>2
<1>5. \A k \in 1 .. n : g[k] \in S /\ g[k] \in Nat
    BY <1>1
<1>6. \A j, k \in 1 .. n : g[j] < g[k] => j < k
    BY <1>4
<1>7. \A j, k \in 1 .. n : g[j] = g[k] => j = k
    BY <1>4
<1> QED
    BY <1>5, <1>6, <1>7

\* There is one such list.
LEMMA ListedOnce ==
    ASSUME NEW S \in SUBSET Nat, NEW g, NEW n, Listed(g, n, S), NEW h, NEW m, Listed(h, m, S)
    PROVE  n = m /\ g = h
<1>1. /\ n \in Nat /\ g \in [1 .. n -> S] /\ \A x \in S : \E k \in 1 .. n : g[k] = x
      /\ m \in Nat /\ h \in [1 .. m -> S] /\ \A x \in S : \E k \in 1 .. m : h[k] = x
    BY DEF Listed
<1>2. /\ \A k \in 1 .. n : g[k] \in S /\ g[k] \in Nat
      /\ \A j, k \in 1 .. n : g[j] < g[k] => j < k
      /\ \A j, k \in 1 .. n : g[j] = g[k] => j = k
    BY ListedOrder
<1>3. /\ \A k \in 1 .. m : h[k] \in S /\ h[k] \in Nat
      /\ \A j, k \in 1 .. m : h[j] < h[k] => j < k
      /\ \A j, k \in 1 .. m : h[j] = h[k] => j = k
    BY ListedOrder
<1>4. \A k \in Nat : k \in 1 .. n /\ k \in 1 .. m => g[k] = h[k]
    <2>. DEFINE Bad == {k \in Nat : k \in 1 .. n /\ k \in 1 .. m /\ g[k] # h[k]}
    <2>. SUFFICES ASSUME Bad # {} PROVE FALSE
        OBVIOUS
    <2>. DEFINE b == Min(Bad)
    <2>1. b \in Bad /\ \A x \in Bad : b <= x
        BY LeastMember
    <2>2. b \in Nat /\ b \in 1 .. n /\ b \in 1 .. m /\ g[b] # h[b]
        BY <2>1
    <2>3. \A k \in 1 .. n : k < b => k \in 1 .. m /\ g[k] = h[k]
        <3>. SUFFICES ASSUME NEW k \in 1 .. n, k < b PROVE k \in 1 .. m /\ g[k] = h[k]
            OBVIOUS
        <3>1. k \in Nat /\ k \in 1 .. m
            BY <1>1, <2>2
        <3>2. k \notin Bad
            <4>. HIDE DEF b, Bad
            <4> QED
                BY <2>1, <2>2, <3>1
        <3> QED
            BY <3>1, <3>2
    <2>. HIDE DEF b, Bad
    <2>4. \A k \in 1 .. m : k < b => k \in 1 .. n
        BY <1>1, <2>2
    <2>5. PICK j \in 1 .. m : h[j] = g[b]
        BY <1>1, <1>2, <2>2
    <2>6. PICK i \in 1 .. n : g[i] = h[b]
        BY <1>1, <1>3, <2>2
    <2>7. ~(j < b)
        <3>. SUFFICES ASSUME j < b PROVE FALSE
            OBVIOUS
        <3>1. j \in 1 .. n /\ g[j] = h[j]
            BY <2>3, <2>4
        <3>2. j = b
            BY <1>2, <2>2, <2>5, <3>1
        <3> QED
            BY <2>2, <3>2
    <2>8. ~(i < b)
        <3>. SUFFICES ASSUME i < b PROVE FALSE
            OBVIOUS
        <3>1. i \in 1 .. m /\ g[i] = h[i]
            BY <2>3
        <3>2. i = b
            BY <1>3, <2>2, <2>6, <3>1
        <3> QED
            BY <2>2, <3>2
    <2>9. g[b] \in Nat /\ h[b] \in Nat
        BY <1>2, <1>3, <2>2
    <2>10. ~(g[b] < h[b])
        <3>. SUFFICES ASSUME g[b] < h[b] PROVE FALSE
            OBVIOUS
        <3>1. j < b
            BY <1>3, <2>2, <2>5
        <3> QED
            BY <2>7, <3>1
    <2>11. ~(h[b] < g[b])
        <3>. SUFFICES ASSUME h[b] < g[b] PROVE FALSE
            OBVIOUS
        <3>1. i < b
            BY <1>2, <2>2, <2>6
        <3> QED
            BY <2>8, <3>1
    <2> QED
        BY <2>2, <2>9, <2>10, <2>11
<1>5. n <= m
    <2>. SUFFICES ASSUME m < n PROVE FALSE
        BY <1>1
    <2>1. n \in 1 .. n
        BY <1>1
    <2>2. PICK j \in 1 .. m : h[j] = g[n]
        BY <1>1, <1>2, <2>1
    <2>3. j \in 1 .. n /\ j \in Nat /\ j # n
        BY <1>1
    <2>4. g[j] = h[j]
        BY <1>4, <2>3
    <2> QED
        BY <1>2, <2>1, <2>2, <2>3, <2>4
<1>6. m <= n
    <2>. SUFFICES ASSUME n < m PROVE FALSE
        BY <1>1
    <2>1. m \in 1 .. m
        BY <1>1
    <2>2. PICK j \in 1 .. n : g[j] = h[m]
        BY <1>1, <1>3, <2>1
    <2>3. j \in 1 .. m /\ j \in Nat /\ j # m
        BY <1>1
    <2>4. g[j] = h[j]
        BY <1>4, <2>3
    <2> QED
        BY <1>3, <2>1, <2>2, <2>3, <2>4
<1>7. n = m
    BY <1>1, <1>5, <1>6
<1>8. \A k \in 1 .. n : g[k] = h[k]
    BY <1>4, <1>7
<1> QED
    BY <1>1, <1>7, <1>8

\* InOrder is it.
LEMMA InOrderListed ==
    ASSUME NEW n \in Nat, NEW S \in SUBSET (1 .. n)
    PROVE  Listed(InOrder(S), Cardinality(S), S)
BY InOrderLists DEF Listed

\* The tables whose headers g lists.
Listing(t, g, n) == [k \in 1 .. n |-> Entry(t, g[k])]

\* An entry of this plugin has a command that isOurApprovalHookCommand takes for its own.
OursEntry(e) == \E l \in e : l.kind = "command" /\ OursByPath(l.cmd)
\* Headers of hooks that are not of this plugin,
ForeignHooks(t) == {h \in HeadersOf(t) : t[h].kind = "hooks" /\ ~OursEntry(Entry(t, h))}
\* of other tables,
TableHeaders(t) == {h \in HeadersOf(t) : t[h].kind = "table"}
\* and of all hooks.
HooksHeaders(t) == {h \in HeadersOf(t) : t[h].kind = "hooks"}

\* Ordered lists these headers.
LEMMA PositionsAre ==
    ASSUME NEW Lines, NEW t \in Seq(Lines)
    PROVE  /\ Ordered(t, LAMBDA l : l.kind = "hooks") = InOrder(HooksHeaders(t))
           /\ Ordered(t, LAMBDA l : l.kind = "table") = InOrder(TableHeaders(t))
           /\ HooksHeaders(t) \in SUBSET (1 .. Len(t)) /\ TableHeaders(t) \in SUBSET (1 .. Len(t))
           /\ Len(t) \in Nat
<1>1. HooksHeaders(t) = {h \in DOMAIN t : t[h].kind = "hooks"}
    BY DEF HooksHeaders, HeadersOf, IsHeader, Headers
<1>2. TableHeaders(t) = {h \in DOMAIN t : t[h].kind = "table"}
    BY DEF TableHeaders, HeadersOf, IsHeader, Headers
<1> QED
    BY <1>1, <1>2 DEF Ordered, Positions

\* The foreign hooks of a text without hooks = [{...}] are listed by header,
LEMMA ForeignList ==
    ASSUME NEW Lines, NEW t \in Seq(Lines), {l \in Entry(t, 0) : IsInline(l)} = {}
    PROVE  \E g, n : /\ Listed(g, n, ForeignHooks(t))
                     /\ Foreign(HookEntries(t)) = Listing(t, g, n)
<1>. DEFINE P == HooksHeaders(t)
            n == Cardinality(P)
            tables == InOrder(P)
            E == [k \in 1 .. n |-> Entry(t, tables[k])]
            K == {k \in 1 .. n : ~OursEntry(E[k])}
            m == Cardinality(K)
            kept == InOrder(K)
            g == [k \in 1 .. m |-> tables[kept[k]]]
<1>1. Listed(tables, n, P)
    BY PositionsAre, InOrderListed
<1>2. n \in Nat /\ tables \in [1 .. n -> P] /\ DOMAIN tables = 1 .. n
    BY <1>1 DEF Listed
<1>3. HookEntries(t) = E
    <2>1. Ordered(t, LAMBDA l : l.kind = "hooks") = tables
        BY PositionsAre
    <2>. HIDE DEF tables, n
    <2> QED
        BY <1>2, <2>1 DEF HookEntries
<1>4. Listed(kept, m, K)
    BY <1>2, InOrderListed
<1>5. m \in Nat /\ kept \in [1 .. m -> K] /\ DOMAIN kept = 1 .. m
    BY <1>4 DEF Listed
<1>6. Foreign(E) = [k \in 1 .. m |-> E[kept[k]]]
    <2>1. DOMAIN E \ {k \in DOMAIN E : \E l \in E[k] : l.kind = "command" /\ OursByPath(l.cmd)} = K
        BY DEF OursEntry
    <2>. HIDE DEF E, K, m
    <2>2. Foreign(E) = [k \in DOMAIN kept |-> E[kept[k]]]
        BY <2>1 DEF Foreign, Without
    <2> QED
        BY <1>5, <2>2
<1>7. \A k \in 1 .. m : kept[k] \in 1 .. n /\ ~OursEntry(Entry(t, tables[kept[k]]))
    BY <1>5
<1>8. Foreign(E) = [k \in 1 .. m |-> Entry(t, g[k])]
    <2>1. \A k \in 1 .. m : E[kept[k]] = Entry(t, g[k])
        BY <1>7
    <2>. HIDE DEF E, g
    <2> QED
        BY <1>6, <2>1
<1>9. Listed(g, m, ForeignHooks(t))
    <2>. HIDE DEF tables, n, m, kept
    <2>1. g \in [1 .. m -> ForeignHooks(t)]
        <3>1. \A k \in 1 .. m : tables[kept[k]] \in P
            BY <1>2, <1>7
        <3> QED
            BY <1>7, <3>1 DEF ForeignHooks, HooksHeaders
    <2>2. ASSUME NEW x \in ForeignHooks(t) PROVE \E k \in 1 .. m : g[k] = x
        <3>1. x \in P /\ ~OursEntry(Entry(t, x))
            BY DEF ForeignHooks, HooksHeaders
        <3>2. PICK i \in 1 .. n : tables[i] = x
            BY <1>1, <3>1 DEF Listed
        <3>3. i \in K
            BY <3>1, <3>2
        <3>4. PICK k \in 1 .. m : kept[k] = i
            BY <1>4, <3>3 DEF Listed
        <3> QED
            BY <3>2, <3>4
    <2>3. ASSUME NEW j \in 1 .. m, NEW k \in 1 .. m, j < k PROVE g[j] < g[k]
        <3>1. kept[j] < kept[k]
            BY <1>4, <2>3 DEF Listed
        <3>2. tables[kept[j]] < tables[kept[k]]
            BY <1>1, <1>7, <3>1 DEF Listed
        <3> QED
            BY <3>2
    <2> QED
        BY <1>5, <2>1, <2>2, <2>3 DEF Listed
<1>. HIDE DEF g, E, m
<1> QED
    BY <1>3, <1>8, <1>9 DEF Listing

\* and so are the tables that are no hooks.
LEMMA OtherList ==
    ASSUME NEW Lines, NEW t \in Seq(Lines)
    PROVE  \E g, n : /\ Listed(g, n, TableHeaders(t))
                     /\ OtherData(t) = <<{l \in Entry(t, 0) : ~IsInline(l)},
                                         Listing(t, g, n)>>
<1>. DEFINE g == InOrder(TableHeaders(t))
            n == Cardinality(TableHeaders(t))
<1>1. Listed(g, n, TableHeaders(t))
    BY PositionsAre, InOrderListed
<1>2. DOMAIN g = 1 .. n
    BY <1>1 DEF Listed
<1>3. Ordered(t, LAMBDA l : l.kind = "table") = g
    BY PositionsAre
<1>. HIDE DEF g, n
<1>4. OtherData(t) = <<{l \in Entry(t, 0) : ~IsInline(l)}, [k \in 1 .. n |-> Entry(t, g[k])]>>
    BY <1>2, <1>3 DEF OtherData
<1> QED
    BY <1>1, <1>4 DEF Listing

\* The tables with headers R in one text are those with headers T in another, in
\* the same order.
Alikes(r, R, t, T) ==
    \E f \in [R -> T] : /\ \A x \in T : \E h \in R : f[h] = x
                        /\ \A g, h \in R : g < h => f[g] < f[h]
                        /\ \A h \in R : Entry(r, h) = Entry(t, f[h])

\* Such tables make the same list of entries.
LEMMA SameLists ==
    ASSUME NEW r, NEW R \in SUBSET Nat, NEW t, NEW T \in SUBSET Nat, Alikes(r, R, t, T),
           NEW g, NEW n, Listed(g, n, R), NEW h, NEW m, Listed(h, m, T)
    PROVE  Listing(r, g, n) = Listing(t, h, m)
<1>1. PICK f \in [R -> T] : /\ \A x \in T : \E y \in R : f[y] = x
                            /\ \A x, y \in R : x < y => f[x] < f[y]
                            /\ \A x \in R : Entry(r, x) = Entry(t, f[x])
    BY DEF Alikes
<1>2. n \in Nat /\ g \in [1 .. n -> R] /\ \A x \in R : \E k \in 1 .. n : g[k] = x
    BY DEF Listed
<1>3. \A j, k \in 1 .. n : j < k => g[j] < g[k]
    BY DEF Listed
<1>. DEFINE u == [k \in 1 .. n |-> f[g[k]]]
<1>4. Listed(u, n, T)
    <2>1. u \in [1 .. n -> T]
        BY <1>1, <1>2
    <2>2. ASSUME NEW x \in T PROVE \E k \in 1 .. n : u[k] = x
        <3>1. PICK y \in R : f[y] = x
            BY <1>1
        <3>2. PICK k \in 1 .. n : g[k] = y
            BY <1>2
        <3> QED
            BY <3>1, <3>2
    <2>3. ASSUME NEW j \in 1 .. n, NEW k \in 1 .. n, j < k PROVE u[j] < u[k]
        <3>1. g[j] < g[k] /\ g[j] \in R /\ g[k] \in R
            BY <1>2, <1>3, <2>3
        <3>2. f[g[j]] < f[g[k]]
            BY <1>1, <3>1
        <3> QED
            BY <3>2
    <2>. HIDE DEF u
    <2> QED
        BY <1>2, <2>1, <2>2, <2>3 DEF Listed
<1>5. n = m /\ u = h
    <2>. HIDE DEF u
    <2> QED
        BY <1>4, ListedOnce
<1>6. \A k \in 1 .. n : Entry(r, g[k]) = Entry(t, h[k])
    <2>1. \A k \in 1 .. n : u[k] = f[g[k]] /\ g[k] \in R
        BY <1>2
    <2>. HIDE DEF u
    <2> QED
        BY <1>1, <1>5, <2>1
<1> QED
    BY <1>5, <1>6 DEF Listing

\* Two texts with the same data but for this plugin's hooks.
SameData(r, t) ==
    /\ Foreign(HookEntries(r)) = Foreign(HookEntries(t))
    /\ OtherData(r) = OtherData(t)

\* Headers are line numbers.
LEMMA HeadersAreNumbers ==
    ASSUME NEW Lines, NEW t \in Seq(Lines)
    PROVE  /\ \A h \in HeadersOf(t) : h \in Nat \ {0}
           /\ ForeignHooks(t) \in SUBSET Nat /\ TableHeaders(t) \in SUBSET Nat
<1>1. \A h \in HeadersOf(t) : h \in Nat \ {0}
    BY DEF HeadersOf
<1> QED
    BY <1>1 DEF ForeignHooks, TableHeaders

\* Texts with such tables have the same data.
LEMMA AlikesSameData ==
    ASSUME NEW Lines, NEW r \in Seq(Lines), NEW t \in Seq(Lines), Entry(r, 0) = Entry(t, 0),
           Alikes(r, ForeignHooks(r), t, ForeignHooks(t)),
           Alikes(r, TableHeaders(r), t, TableHeaders(t))
    PROVE  SameData(r, t)
<1>1. /\ ForeignHooks(r) \in SUBSET Nat /\ TableHeaders(r) \in SUBSET Nat
      /\ ForeignHooks(t) \in SUBSET Nat /\ TableHeaders(t) \in SUBSET Nat
    BY HeadersAreNumbers
<1>2. OtherData(r) = OtherData(t)
    <2>1. PICK g, n : /\ Listed(g, n, TableHeaders(r))
                      /\ OtherData(r) = <<{l \in Entry(r, 0) : ~IsInline(l)},
                                          Listing(r, g, n)>>
        BY OtherList
    <2>2. PICK h, m : /\ Listed(h, m, TableHeaders(t))
                      /\ OtherData(t) = <<{l \in Entry(t, 0) : ~IsInline(l)},
                                          Listing(t, h, m)>>
        BY OtherList
    <2>3. Listing(r, g, n) = Listing(t, h, m)
        BY <1>1, <2>1, <2>2, SameLists
    <2> QED
        BY <2>1, <2>2, <2>3
<1>3. Foreign(HookEntries(r)) = Foreign(HookEntries(t))
    <2>. DEFINE inline == {l \in Entry(t, 0) : IsInline(l)}
    <2>1. CASE inline # {}
        <3>1. HookEntries(t) = <<InlineEntry(CHOOSE l \in inline : TRUE)>>
            BY <2>1 DEF HookEntries
        <3>2. HookEntries(r) = <<InlineEntry(CHOOSE l \in inline : TRUE)>>
            BY <2>1 DEF HookEntries
        <3> QED
            BY <3>1, <3>2
    <2>2. CASE inline = {}
        <3>1. PICK g, n : /\ Listed(g, n, ForeignHooks(r))
                          /\ Foreign(HookEntries(r)) = Listing(r, g, n)
            BY <2>2, ForeignList
        <3>2. PICK h, m : /\ Listed(h, m, ForeignHooks(t))
                          /\ Foreign(HookEntries(t)) = Listing(t, h, m)
            BY <2>2, ForeignList
        <3>3. Listing(r, g, n) = Listing(t, h, m)
            BY <1>1, <3>1, <3>2, SameLists
        <3> QED
            BY <3>1, <3>2, <3>3
    <2> QED
        BY <2>1, <2>2
<1> QED
    BY <1>2, <1>3 DEF SameData

\* The table of a hook of this plugin.
OursTableAt(t, h) == t[h].kind = "hooks" /\ OursEntry(Entry(t, h))

\* Dropping whole tables, of this plugin all of them, keeps the rest.
LEMMA KeepData ==
    ASSUME NEW Lines, NEW r \in Seq(Lines), NEW t \in Seq(Lines), NEW kept, NEW f,
           Embeds(r, t, kept, f), Closed(t, DOMAIN t \ kept),
           \A h \in HeadersOf(t) : h \in kept \/ OursTableAt(t, h)
    PROVE  SameData(r, t)
<1>1. /\ \A k \in HeadersOf(r) : Entry(r, k) = Entry(t, f[k])
      /\ Entry(r, 0) = Entry(t, 0)
    BY KeepEntry
<1>2. /\ \A k \in DOMAIN r : f[k] \in DOMAIN t /\ r[k] = t[f[k]]
      /\ \A j, k \in DOMAIN r : (j < k) <=> (f[j] < f[k])
      /\ \A x \in kept : \E k \in DOMAIN r : f[k] = x
    BY EmbedsFacts
<1>3. ASSUME NEW R \in SUBSET HeadersOf(r), NEW T \in SUBSET HeadersOf(t),
             \A h \in HeadersOf(r) : h \in R <=> f[h] \in T, T \subseteq kept
      PROVE  Alikes(r, R, t, T)
    <2>. DEFINE u == [h \in R |-> f[h]]
    <2>0. HeadersOf(r) \subseteq DOMAIN r
        BY DEF HeadersOf
    <2>1. u \in [R -> T]
        BY <1>3
    <2>2. ASSUME NEW x \in T PROVE \E h \in R : u[h] = x
        <3>1. PICK k \in DOMAIN r : f[k] = x
            BY <1>2, <1>3
        <3>2. k \in HeadersOf(r)
            BY <1>2, <3>1 DEF HeadersOf
        <3>3. k \in R
            BY <1>3, <3>1, <3>2
        <3> QED
            BY <3>1, <3>3
    <2>3. \A g, h \in R : g < h => u[g] < u[h]
        BY <1>2, <2>0
    <2>4. \A h \in R : Entry(r, h) = Entry(t, u[h])
        BY <1>1
    <2>. HIDE DEF u
    <2> QED
        BY <2>1, <2>2, <2>3, <2>4 DEF Alikes
<1>4. \A h \in HeadersOf(r) : f[h] \in HeadersOf(t) /\ r[h] = t[f[h]] /\ Entry(r, h) = Entry(t, f[h])
    BY <1>1, <1>2 DEF HeadersOf
<1>5. Alikes(r, ForeignHooks(r), t, ForeignHooks(t))
    <2>1. ForeignHooks(r) \in SUBSET HeadersOf(r) /\ ForeignHooks(t) \in SUBSET HeadersOf(t)
        BY DEF ForeignHooks
    <2>2. \A h \in HeadersOf(r) : h \in ForeignHooks(r) <=> f[h] \in ForeignHooks(t)
        BY <1>4 DEF ForeignHooks
    <2>3. ForeignHooks(t) \subseteq kept
        BY DEF ForeignHooks, OursTableAt
    <2> QED
        BY <1>3, <2>1, <2>2, <2>3
<1>6. Alikes(r, TableHeaders(r), t, TableHeaders(t))
    <2>1. TableHeaders(r) \in SUBSET HeadersOf(r) /\ TableHeaders(t) \in SUBSET HeadersOf(t)
        BY DEF TableHeaders
    <2>2. \A h \in HeadersOf(r) : h \in TableHeaders(r) <=> f[h] \in TableHeaders(t)
        BY <1>4 DEF TableHeaders
    <2>3. TableHeaders(t) \subseteq kept
        BY DEF TableHeaders, OursTableAt
    <2> QED
        BY <1>3, <2>1, <2>2, <2>3
<1> QED
    BY <1>1, <1>5, <1>6, AlikesSameData

\* Setup's block in place of a block of this plugin, or behind the text.
LEMMA ReplacedData ==
    ASSUME NEW Lines, NEW y \in Seq(Lines), NEW r \in Seq(Lines), NEW block \in Seq(Lines),
           NEW a, NEW b, Replaced(r, y, a, b, block), Slot(y, a, b), Tied(y),
           NEW me, NEW c, block = ManagedBlock(me, c), OursByPath(c),
           \A h \in HeadersOf(y) : a < h /\ h < b /\ IsPair(y, a, b) => OursTableAt(y, h)
    PROVE  SameData(r, y)
<1>. DEFINE d == 7 - (b - a + 1)
<1>1. /\ Alike(r, 0, y, 0)
      /\ \A g \in HeadersOf(r) :
            \/ g < a /\ g \in HeadersOf(y) /\ r[g] = y[g] /\ Alike(r, g, y, g)
            \/ g = a + 2
            \/ g > a + 6 /\ g - d > b /\ g - d \in HeadersOf(y) /\ r[g] = y[g - d]
               /\ Alike(r, g, y, g - d)
      /\ \A g \in HeadersOf(y) :
            \/ g < a /\ g \in HeadersOf(r)
            \/ a < g /\ g < b /\ IsPair(y, a, b)
            \/ g > b /\ g + d \in HeadersOf(r) /\ g + d > a + 6
    BY ReplacedTables
<1>2. BlockAt(r, a, me, c)
    BY ReplacedBlockAt
<1>3. r[a + 2].kind = "hooks" /\ OursEntry(Entry(r, a + 2))
    <2>1. Entry(r, a + 2) = {Line("event"), CommandLine(c), Line("timeout")}
        BY <1>2, TiedBelow, BlockTable
    <2>2. r[a + 2].kind = "hooks"
        BY <1>2, LineKind DEF BlockAt
    <2>3. CommandLine(c).kind = "command" /\ CommandLine(c).cmd = c
        BY LineKind
    <2> QED
        BY <2>1, <2>2, <2>3 DEF OursEntry
<1>4. Shifted(r, y, a, b, d)
    BY ReplacedShifts
<1>. HIDE DEF d
<1>5. a \in Nat \ {0} /\ b \in Nat /\ d \in Int /\ a - 1 <= b /\ b + d = a + 6
    BY <1>4 DEF Shifted
<1>6. /\ \A g \in HeadersOf(r) : g \in Nat
      /\ \A g \in HeadersOf(y) : g \in Nat
    BY HeadersAreNumbers
<1>. DEFINE to(g) == IF g < a THEN g ELSE g - d
<1>7. \A g \in HeadersOf(r) : g = a + 2 \/
         /\ to(g) \in HeadersOf(y) /\ r[g] = y[to(g)] /\ Entry(r, g) = Entry(y, to(g))
         /\ g < a \/ g > a + 6
         /\ g < a => to(g) = g
         /\ g > a + 6 => to(g) = g - d /\ to(g) > b
    <2>. SUFFICES ASSUME NEW g \in HeadersOf(r), g # a + 2
                  PROVE  /\ to(g) \in HeadersOf(y) /\ r[g] = y[to(g)] /\ Entry(r, g) = Entry(y, to(g))
                         /\ g < a \/ g > a + 6
                         /\ g < a => to(g) = g
                         /\ g > a + 6 => to(g) = g - d /\ to(g) > b
        OBVIOUS
    <2>1. CASE g < a
        <3>1. g \in HeadersOf(y) /\ r[g] = y[g] /\ Alike(r, g, y, g) /\ to(g) = g /\ ~(g > a + 6)
            BY <1>1, <1>5, <1>6, <2>1
        <3>2. Entry(r, g) = Entry(y, g)
            BY <3>1, AlikeMeans
        <3> QED
            BY <2>1, <3>1, <3>2
    <2>2. CASE ~(g < a)
        <3>. DEFINE h == g - d
        <3>1. g > a + 6 /\ h > b /\ h \in HeadersOf(y) /\ r[g] = y[h] /\ Alike(r, g, y, h)
            BY <1>1, <2>2
        <3>2. to(g) = h
            BY <2>2
        <3>. HIDE DEF h
        <3>3. Entry(r, g) = Entry(y, h)
            BY <3>1, AlikeMeans
        <3>. HIDE DEF to
        <3>4. h = g - d
            BY DEF h
        <3> QED
            BY <2>2, <3>1, <3>2, <3>3, <3>4
    <2> QED
        BY <2>1, <2>2
<1>8. \A x \in HeadersOf(y) : OursTableAt(y, x) \/ \E g \in HeadersOf(r) : g # a + 2 /\ to(g) = x
    <2>. SUFFICES ASSUME NEW x \in HeadersOf(y), ~OursTableAt(y, x)
                  PROVE  \E g \in HeadersOf(r) : g # a + 2 /\ to(g) = x
        OBVIOUS
    <2>1. \/ x < a /\ x \in HeadersOf(r)
          \/ x > b /\ x + d \in HeadersOf(r) /\ x + d > a + 6
        BY <1>1
    <2>2. CASE x < a /\ x \in HeadersOf(r)
        <3>1. x # a + 2 /\ to(x) = x
            BY <1>5, <1>6, <2>2
        <3> QED
            BY <2>2, <3>1
    <2>3. CASE x > b /\ x + d \in HeadersOf(r) /\ x + d > a + 6
        <3>1. x + d # a + 2 /\ ~(x + d < a) /\ (x + d) - d = x
            BY <1>5, <1>6, <2>3
        <3>2. to(x + d) = x
            BY <3>1
        <3> QED
            BY <2>3, <3>1, <3>2
    <2> QED
        BY <2>1, <2>2, <2>3
<1>9. \A g, h \in HeadersOf(r) : g # a + 2 /\ h # a + 2 /\ g < h => to(g) < to(h)
    <2>. SUFFICES ASSUME NEW g \in HeadersOf(r), NEW h \in HeadersOf(r), g # a + 2, h # a + 2, g < h
                  PROVE  to(g) < to(h)
        OBVIOUS
    <2>1. /\ g < a => to(g) = g
          /\ g > a + 6 => to(g) = g - d
          /\ h < a => to(h) = h
          /\ h > a + 6 => to(h) = h - d /\ to(h) > b
          /\ g < a \/ g > a + 6
          /\ h < a \/ h > a + 6
          /\ to(h) \in Nat
        BY <1>6, <1>7
    <2>. DEFINE u == to(g)
                v == to(h)
    <2>2. /\ g < a => u = g
          /\ g > a + 6 => u = g - d
          /\ h < a => v = h
          /\ h > a + 6 => v = h - d /\ v > b
          /\ v \in Nat /\ g \in Nat /\ h \in Nat
        BY <1>6, <2>1
    <2>. HIDE DEF u, v
    <2>3. u < v
        BY <1>5, <2>1, <2>2
    <2> QED
        BY <2>3 DEF u, v
<1>. HIDE DEF to
<1>10. ASSUME NEW R \in SUBSET HeadersOf(r), NEW T \in SUBSET HeadersOf(y), a + 2 \notin R,
              \A g \in HeadersOf(r) : g # a + 2 => (g \in R <=> to(g) \in T),
              \A x \in T : ~OursTableAt(y, x)
       PROVE  Alikes(r, R, y, T)
    <2>. DEFINE u == [g \in R |-> to(g)]
    <2>1. u \in [R -> T]
        BY <1>10
    <2>2. \A x \in T : \E g \in R : u[g] = x
        BY <1>8, <1>10
    <2>3. \A g, h \in R : g < h => u[g] < u[h]
        BY <1>9, <1>10
    <2>4. \A g \in R : Entry(r, g) = Entry(y, u[g])
        BY <1>7, <1>10
    <2>. HIDE DEF u
    <2> QED
        BY <2>1, <2>2, <2>3, <2>4 DEF Alikes
<1>11. Alikes(r, ForeignHooks(r), y, ForeignHooks(y))
    <2>1. ForeignHooks(r) \in SUBSET HeadersOf(r) /\ ForeignHooks(y) \in SUBSET HeadersOf(y)
        BY DEF ForeignHooks
    <2>2. a + 2 \notin ForeignHooks(r)
        BY <1>3 DEF ForeignHooks
    <2>3. \A g \in HeadersOf(r) : g # a + 2 => (g \in ForeignHooks(r) <=> to(g) \in ForeignHooks(y))
        BY <1>7 DEF ForeignHooks
    <2>4. \A x \in ForeignHooks(y) : ~OursTableAt(y, x)
        BY DEF ForeignHooks, OursTableAt
    <2> QED
        BY <1>10, <2>1, <2>2, <2>3, <2>4
<1>12. Alikes(r, TableHeaders(r), y, TableHeaders(y))
    <2>1. TableHeaders(r) \in SUBSET HeadersOf(r) /\ TableHeaders(y) \in SUBSET HeadersOf(y)
        BY DEF TableHeaders
    <2>2. a + 2 \notin TableHeaders(r)
        BY <1>3 DEF TableHeaders
    <2>3. \A g \in HeadersOf(r) : g # a + 2 => (g \in TableHeaders(r) <=> to(g) \in TableHeaders(y))
        BY <1>7 DEF TableHeaders
    <2>4. \A x \in TableHeaders(y) : ~OursTableAt(y, x)
        BY DEF TableHeaders, OursTableAt
    <2> QED
        BY <1>10, <2>1, <2>2, <2>3, <2>4
<1>13. Entry(r, 0) = Entry(y, 0)
    BY <1>1, AlikeMeans
<1> QED
    BY <1>11, <1>12, <1>13, AlikesSameData

\* Between a pair of markers there are tables of this plugin alone.
OnlyOurs(t) ==
    \A i, e, h : IsPair(t, i, e) /\ h \in HeadersOf(t) /\ i < h /\ h < e => OursTableAt(t, h)

\* A removal of whole tables of this plugin keeps the rest.
LEMMA StageData ==
    ASSUME NEW Lines, NEW r, NEW t \in Seq(Lines), NEW dropped, Stage(Lines, r, t, dropped),
           \A h \in HeadersOf(t) : h \in dropped => OursTableAt(t, h)
    PROVE  /\ SameData(r, t)
           /\ InlineAt(t) = {} => InlineAt(r) = {}
           /\ Parses(t) => Parses(r)
           /\ (\A d \in dropped : d \in DOMAIN t => ~IsMarker(t[d])) /\ OnlyOurs(t) => OnlyOurs(r)
<1>1. r \in Seq(Lines)
    BY DEF Stage
<1>2. PICK kept, f : /\ Embeds(r, t, kept, f)
                     /\ kept \subseteq DOMAIN t \ dropped
                     /\ \A i \in DOMAIN t \ dropped : i \in kept \/ t[i].kind = "blank"
                     /\ Closed(t, DOMAIN t \ kept)
    BY DEF Stage
<1>3. \A h \in HeadersOf(t) : h \in kept \/ OursTableAt(t, h)
    BY <1>2 DEF HeadersOf, IsHeader, Headers
<1>4. SameData(r, t)
    BY <1>1, <1>2, <1>3, KeepData
<1>5. ASSUME InlineAt(t) = {} PROVE InlineAt(r) = {}
    <2>1. \A j \in DOMAIN r : j \in TableAt(r, 0) <=> f[j] \in TableAt(t, 0)
        BY <1>1, <1>2, KeepTop
    <2>2. \A j \in DOMAIN r : r[j] = t[f[j]]
        BY <1>1, <1>2, EmbedsFacts
    <2>3. \A i \in TableAt(t, 0) : ~IsInline(t[i])
        BY <1>5 DEF InlineAt
    <2>4. \A i \in TableAt(r, 0) : ~IsInline(r[i])
        BY <2>1, <2>2, <2>3, InTable
    <2> QED
        BY <2>4 DEF InlineAt
<1>6. Parses(t) => Parses(r)
    BY <1>1, <1>2, KeepParses
<1>7. ASSUME \A d \in dropped : d \in DOMAIN t => ~IsMarker(t[d]), OnlyOurs(t)
      PROVE  OnlyOurs(r)
    <2>. SUFFICES ASSUME NEW i, NEW e, NEW h \in HeadersOf(r), IsPair(r, i, e), i < h, h < e
                  PROVE  OursTableAt(r, h)
        BY DEF OnlyOurs
    <2>1. \A m \in DOMAIN t : IsMarker(t[m]) => m \in kept
        BY <1>2, <1>7 DEF IsMarker
    <2>2. IsPair(t, f[i], f[e])
        BY <1>1, <1>2, <2>1, KeepPairs
    <2>3. i \in DOMAIN r /\ e \in DOMAIN r /\ h \in DOMAIN r
        BY DEF IsPair, HeadersOf
    <2>4. f[i] < f[h] /\ f[h] < f[e] /\ r[h] = t[f[h]]
        BY <1>1, <1>2, <2>3, EmbedsFacts
    <2>5. f[h] \in HeadersOf(t)
        BY <1>1, <1>2, KeepTable
    <2>6. Entry(r, h) = Entry(t, f[h])
        BY <1>1, <1>2, KeepEntry
    <2> QED
        BY <1>7, <2>2, <2>4, <2>5, <2>6 DEF OnlyOurs, OursTableAt
<1> QED
    BY <1>4, <1>5, <1>6, <1>7

\* A table with a command line of this plugin in it is one of its tables.
LEMMA TableIsOurs ==
    ASSUME NEW Lines, NEW t \in Seq(Lines), NEW h \in HeadersOf(t), t[h].kind = "hooks",
           NEW p \in DOMAIN t, h < p, IsCommand(t[p]), OursByPath(t[p].cmd),
           \A g \in HeadersOf(t) : g > h => p < g
    PROVE  OursTableAt(t, h)
<1>1. IsKey(t[p])
    BY DEF IsCommand, IsKey, Keys
<1>2. h \in Nat /\ p \in Nat
    BY DEF HeadersOf
<1>3. p \in TableAt(t, h)
    BY <1>1, <1>2, InTable
<1>4. t[p] \in Entry(t, h)
    BY <1>3 DEF Entry, EntryAmong, TableAt
<1> QED
    BY <1>4 DEF OursTableAt, OursEntry, IsCommand

\* A body that confirmOldBrandRemovals lets go has one header at most.
LEMMA SimpleBodyHeader ==
    ASSUME NEW Lines, NEW b \in Seq(Lines), SimpleBody(b)
    PROVE  /\ \A p, q \in DOMAIN b : IsHeader(b[p]) /\ IsHeader(b[q]) => p = q
           /\ \A p \in DOMAIN b : IsHeader(b[p]) => b[p].kind = "hooks"
<1>. DEFINE S == {i \in DOMAIN b : b[i].kind = "hooks"}
<1>1. Cardinality(S) = 1 /\ \A i \in DOMAIN b : b[i].kind # "table"
    BY DEF SimpleBody
<1>2. IsFiniteSet(S)
    <2>1. S \in SUBSET (1 .. Len(b)) /\ IsFiniteSet(1 .. Len(b))
        BY FS_Interval
    <2>. HIDE DEF S
    <2> QED
        BY <2>1, FS_Subset
<1>. HIDE DEF S
<1>3. \E x : S = {x}
    BY <1>1, <1>2, FS_Singleton
<1> QED
    BY <1>1, <1>3 DEF S, IsHeader, Headers

\* What setup takes for its own under the old marker.
LEMMA OldLinesOurs ==
    ASSUME NEW Lines, NEW t \in Seq(Lines), NEW c, OursByPath(c), NEW host,
           NEW h \in HeadersOf(t), h \in OldLines(t, c, host)
    PROVE  OursTableAt(t, h)
<1>1. PICK b \in OldRemoved(t, c, host) : h \in b.begin .. b.end
    BY DEF OldLines
<1>. DEFINE x == b.begin
            y == b.end
            body == SubSeq(t, x + 1, y - 1)
<1>2. /\ x \in DOMAIN t /\ t[x].kind = "oldBegin" /\ y = OldEnd(t, x) /\ OldEnd(t, x) # 0
      /\ b.cmd = LastCommand(body) /\ SimpleBody(body) /\ h \in x .. y
    BY <1>1, OldRemovedMeans
<1>3. b.cmd # None /\ OursByPath(b.cmd)
    <2>1. PICK i : b = OldBlockAt(t, c, i)
        BY DEF OldRemoved, OldBlocks
    <2>2. b.ours
        BY DEF OldRemoved
    <2>3. b.cmd = c \/ OursByPath(b.cmd)
        BY <2>1, <2>2 DEF OldBlockAt
    <2> QED
        BY <2>3 DEF OursByPath
<1>4. y \in DOMAIN t /\ x < y /\ t[y].kind = "oldEnd"
    BY <1>2, OldEndMeans
<1>. DEFINE cmd == b.cmd
<1>5. cmd = LastCommand(body) /\ cmd # None /\ OursByPath(cmd)
    BY <1>2, <1>3
<1>. HIDE DEF x, y, cmd
<1>6. Len(t) \in Nat /\ DOMAIN t = 1 .. Len(t) /\ h \in DOMAIN t /\ IsHeader(t[h])
    BY DEF HeadersOf
<1>7. h # x /\ h # y
    BY <1>2, <1>4, <1>6 DEF IsHeader, Headers
<1>8. x \in Nat \ {0} /\ y \in Nat /\ h \in Nat /\ y <= Len(t) /\ x < h /\ h < y
    BY <1>2, <1>4, <1>6, <1>7
<1>9. /\ body \in Seq(Lines) /\ DOMAIN body = 1 .. y - 1 - x
      /\ \A k \in 1 .. y - 1 - x : body[k] = t[x + k]
    <2>1. x + 1 \in Nat \ {0} /\ y - 1 \in Nat /\ y - 1 <= Len(t) /\ x + 1 <= y - 1 + 1
        BY <1>6, <1>8
    <2>2. (y - 1) - (x + 1) + 1 = y - 1 - x /\ \A k \in 1 .. y - 1 - x : (x + 1) + k - 1 = x + k
        BY <1>8
    <2> QED
        BY <2>1, <2>2, SubSeqFacts
<1>. HIDE DEF body
<1>10. /\ \A p, q \in DOMAIN body : IsHeader(body[p]) /\ IsHeader(body[q]) => p = q
       /\ \A p \in DOMAIN body : IsHeader(body[p]) => body[p].kind = "hooks"
       /\ \A k \in DOMAIN body : IsKey(body[k]) => \E g \in DOMAIN body : g < k /\ IsHeader(body[g])
    BY <1>2, <1>9, SimpleBodyHeader, SimpleBodyMeans
<1>11. PICK q \in DOMAIN body : IsCommand(body[q]) /\ body[q].cmd = cmd
    BY <1>5, <1>9, LastCommandIn
<1>12. PICK g \in DOMAIN body : g < q /\ IsHeader(body[g])
    <2>1. IsKey(body[q])
        BY <1>11 DEF IsCommand, IsKey, Keys
    <2> QED
        BY <1>10, <2>1
<1>13. \A k \in DOMAIN t : x < k /\ k < y => k - x \in DOMAIN body /\ body[k - x] = t[k]
    <2>. SUFFICES ASSUME NEW k \in DOMAIN t, x < k, k < y
                  PROVE  k - x \in DOMAIN body /\ body[k - x] = t[k]
        OBVIOUS
    <2>1. k - x \in 1 .. y - 1 - x /\ x + (k - x) = k
        BY <1>6, <1>8
    <2> QED
        BY <1>9, <2>1
<1>14. h - x = g
    <2>1. h - x \in DOMAIN body /\ body[h - x] = t[h]
        BY <1>6, <1>8, <1>13
    <2> QED
        BY <1>6, <1>10, <1>12, <2>1
<1>15. t[h].kind = "hooks"
    BY <1>6, <1>8, <1>10, <1>12, <1>13, <1>14
<1>. DEFINE p == x + q
<1>16. p \in DOMAIN t /\ h < p /\ p < y /\ t[p] = body[q]
    <2>1. q \in 1 .. y - 1 - x /\ g \in 1 .. y - 1 - x /\ g < q
        BY <1>9, <1>11, <1>12
    <2>2. x + q \in 1 .. Len(t) /\ h < x + q /\ x + q < y
        BY <1>6, <1>8, <1>14, <2>1
    <2> QED
        BY <1>6, <1>9, <2>1, <2>2
<1>. HIDE DEF p
<1>17. ASSUME NEW j \in HeadersOf(t), j > h PROVE p < j
    <2>1. j \in DOMAIN t /\ j \in Nat /\ IsHeader(t[j])
        BY <1>6 DEF HeadersOf
    <2>2. CASE j < y
        <3>1. j - x \in DOMAIN body /\ body[j - x] = t[j]
            BY <1>8, <1>13, <1>17, <2>1, <2>2
        <3>2. j - x = g
            BY <1>10, <1>12, <2>1, <3>1
        <3>3. j = h
            BY <1>8, <1>14, <2>1, <3>2
        <3> QED
            BY <1>8, <1>17, <3>3
    <2>3. CASE ~(j < y)
        <3>1. p \in Nat
            BY <1>6, <1>16
        <3> QED
            BY <1>8, <1>16, <2>1, <2>3, <3>1
    <2> QED
        BY <2>2, <2>3
<1> QED
    BY <1>5, <1>11, <1>15, <1>16, <1>17, TableIsOurs

\* What it takes for its own outside the blocks.
LEMMA PrunedLinesOurs ==
    ASSUME NEW Lines, NEW t \in Seq(Lines), NEW c, OursByPath(c), NEW host,
           NEW h \in HeadersOf(t), h \in PrunedLines(t, c, host)
    PROVE  OursTableAt(t, h)
<1>1. PICK b \in Prunable(t, c, host) : h \in b.start .. b.end - 1
    BY DEF PrunedLines
<1>. DEFINE s == b.start
            e == EndOfBody(t, s)
            lines == TableLines(t, s)
            cmd == LastCommand(lines)
<1>2. OursAt(t, s, c, host) /\ h \in s .. e - 1
    BY <1>1, PrunableAt
<1>3. s \in DOMAIN t /\ t[s].kind = "hooks" /\ OursTable(lines, c, host)
    BY <1>2 DEF OursAt
<1>. HIDE DEF s
<1>4. /\ e \in Nat /\ s < e /\ e <= Len(t) + 1
      /\ \A j \in DOMAIN t : s < j /\ j < e => ~Parts(t[j]) /\ ~IsHeader(t[j])
    BY <1>3, EndOfBodyMeans
<1>5. Len(t) \in Nat /\ DOMAIN t = 1 .. Len(t) /\ h \in DOMAIN t /\ IsHeader(t[h])
    BY DEF HeadersOf
<1>6. s = h
    <2>. HIDE DEF e
    <2>1. s \in Nat /\ h \in Nat /\ s <= h /\ h < e
        BY <1>2, <1>3, <1>4, <1>5
    <2> QED
        BY <1>4, <1>5, <2>1
<1>7. cmd # None /\ OursByPath(cmd)
    BY <1>3 DEF OursTable
<1>8. /\ lines \in Seq(Lines) /\ DOMAIN lines = 1 .. e - s - 1
      /\ \A k \in 1 .. e - s - 1 : lines[k] = t[s + k]
    <2>. DEFINE n == e - s
    <2>0. s \in Nat
        BY <1>3, <1>5
    <2>1. n \in Nat \ {0} /\ s + n = e
        BY <1>4, <2>0
    <2>. HIDE DEF n, e
    <2>2. s + n <= Len(t) + 1
        BY <1>4, <2>1
    <2>4. lines = SubSeq(t, s + 1, (s + n) - 1)
        BY <2>1 DEF TableLines, e
    <2>. HIDE DEF lines
    <2>3. IsPart(lines, t, s, n)
        BY <2>0, <2>1, <2>2, <2>4 DEF IsPart
    <2>5. lines \in Seq(Lines) /\ Len(lines) = n - 1 /\ \A k \in 1 .. n - 1 : lines[k] = t[s + k]
        BY <2>3, PartLines
    <2>6. DOMAIN lines = 1 .. n - 1
        BY <2>5
    <2> QED
        BY <2>5, <2>6 DEF n
<1>. HIDE DEF lines
<1>9. PICK q \in DOMAIN lines : IsCommand(lines[q]) /\ lines[q].cmd = cmd
    BY <1>7, <1>8, LastCommandIn
<1>. HIDE DEF cmd, e
<1>. DEFINE p == s + q
<1>10. p \in DOMAIN t /\ s < p /\ p < e /\ t[p] = lines[q]
    <2>1. q \in 1 .. e - s - 1 /\ s \in Nat
        BY <1>3, <1>5, <1>8, <1>9
    <2>2. s + q \in 1 .. Len(t) /\ s < s + q /\ s + q < e
        BY <1>4, <1>5, <2>1
    <2> QED
        BY <1>5, <1>8, <2>1, <2>2
<1>. HIDE DEF p
<1>11. ASSUME NEW j \in HeadersOf(t), j > s PROVE p < j
    <2>1. j \in DOMAIN t /\ j \in Nat /\ IsHeader(t[j])
        BY <1>5 DEF HeadersOf
    <2>2. ~(j < e)
        BY <1>4, <1>11, <2>1
    <2>3. p \in Nat
        BY <1>5, <1>10
    <2> QED
        BY <1>4, <1>10, <2>1, <2>2, <2>3
<1> QED
    BY <1>3, <1>6, <1>7, <1>9, <1>10, <1>11, TableIsOurs

\* What it takes for its own between its markers is, when only such tables are there.
LEMMA ManagedLinesOurs ==
    ASSUME NEW Lines, NEW t \in Seq(Lines), OnlyOurs(t), NEW me, NEW all,
           NEW h \in HeadersOf(t), h \in OrphanLines(t, me, all) \cup PairLines(t, me, all)
    PROVE  OursTableAt(t, h)
<1>1. h \in DOMAIN t /\ IsHeader(t[h])
    BY DEF HeadersOf
<1>2. h \notin OrphanLines(t, me, all)
    BY <1>1 DEF OrphanLines, IsMarker, IsHeader, Headers
<1>3. PICK i \in Begins(t) : h \in i .. EndOfPair(t, i)
    BY <1>2 DEF PairLines
<1>. DEFINE e == EndOfPair(t, i)
<1>4. IsPair(t, i, e) /\ h \in i .. e
    BY <1>3, BeginsMeans
<1>. HIDE DEF e
<1>5. h # i /\ h # e
    BY <1>1, <1>4 DEF IsPair, IsHeader, Headers
<1>6. i < h /\ h < e
    BY <1>4, <1>5 DEF IsPair
<1> QED
    BY <1>4, <1>6 DEF OnlyOurs

\* The blank line before a new block, and the blank lines that are dropped there.
LEMMA AppendData ==
    ASSUME NEW Lines, NEW x \in Seq(Lines), Line("blank") \in Lines, NEW y \in Seq(Lines),
           \A block \in Seq(Lines) : Append1(x, block) = y \o block
    PROVE  SameData(y, x)
<1>1. y = Append1(x, <<>>)
    <2>1. <<>> \in Seq(Lines) /\ y \o <<>> = y
        OBVIOUS
    <2> QED
        BY <2>1
<1>2. CASE x = <<>>
    BY <1>1, <1>2 DEF Append1, SameData
<1>3. CASE x # <<>>
    <2>. DEFINE s == x \o <<Line("blank")>>
                f == [k \in DOMAIN x |-> k]
    <2>1. y = Collapsed(s)
        <3>1. Append1(x, <<>>) = Collapsed(s) \o <<>>
            BY <1>3 DEF Append1
        <3>2. Collapsed(s) \in Seq(Lines)
            BY BlankLines, CollapsedThinned
        <3>. HIDE DEF s
        <3> QED
            BY <1>1, <3>1, <3>2
    <2>2. /\ s \in Seq(Lines)
          /\ DOMAIN x = 1 .. Len(x) /\ DOMAIN s = 1 .. Len(x) + 1 /\ Len(x) \in Nat
          /\ s[Len(x) + 1].kind = "blank"
        BY BlankLines
    <2>3. Embeds(x, s, DOMAIN x, f)
        BY BlankThinned DEF Thinned
    <2>. HIDE DEF s, f
    <2>4. \A k \in DOMAIN s : k \in DOMAIN x \/ (~IsHeader(s[k]) /\ ~IsKey(s[k]))
        <3>1. \A k \in DOMAIN s : k \in DOMAIN x \/ Parts(s[k])
            BY <2>2 DEF Parts
        <3> QED
            BY <3>1, PartsIsNoKey
    <2>5. Closed(s, DOMAIN s \ DOMAIN x)
        <3>1. 0 \notin DOMAIN s \ DOMAIN x
            BY <2>2
        <3>2. \A h \in HeadersOf(s) : h \in DOMAIN x
            BY <2>4 DEF HeadersOf
        <3>3. \A h : \A i \in TableAt(s, h) : i \in DOMAIN x
            BY <2>4, InTable
        <3> QED
            BY <3>1, <3>2, <3>3 DEF Closed
    <2>6. SameData(x, s)
        <3>1. \A h \in HeadersOf(s) : h \in DOMAIN x \/ OursTableAt(s, h)
            BY <2>4 DEF HeadersOf
        <3> QED
            BY <2>2, <2>3, <2>5, <3>1, KeepData
    <2>7. PICK g : Embeds(y, s, DOMAIN s \ BlanksTwice(s), g)
        BY <2>1, <2>2, CollapsedThinned
    <2>8. SameData(y, s)
        <3>1. Closed(s, DOMAIN s \ (DOMAIN s \ BlanksTwice(s)))
            BY <2>2, BlankDrop, SealedIsClosed
        <3>2. \A h \in HeadersOf(s) : h \in DOMAIN s \ BlanksTwice(s) \/ OursTableAt(s, h)
            BY DEF HeadersOf, BlanksTwice, IsHeader, Headers
        <3> QED
            BY <2>2, <2>7, <3>1, <3>2, KeepData
    <2> QED
        BY <2>6, <2>8 DEF SameData
<1> QED
    BY <1>2, <1>3

\* AppendSpot with the facts a caller has.
LEMMA AppendSpotOf ==
    ASSUME NEW Lines, NEW x \in Seq(Lines), Line("blank") \in Lines, Tied(x), NEW me, NEW c,
           Balanced(x), OwnBlocks(x, me) = {}, Prunable(x, c, me) = {}
    PROVE  \E y \in Seq(Lines) : /\ \A bl \in Seq(Lines) : Append1(x, bl) = y \o bl
                                 /\ Tied(y)
<1>1. Vacant(x, me, c)
    BY DEF Vacant
<1>2. PICK y \in Seq(Lines) : Precedes(Lines, y, x, me, c)
    BY <1>1, AppendSpot
<1> QED
    BY <1>2 DEF Precedes, Vacant

\* So setting the block keeps what is not of this plugin,
LEMMA NextData ==
    ASSUME NEW Lines \in SUBSET TextLine, NEW x \in Seq(Lines), Tied(x), OnlyOurs(x),
           NEW me, NEW c, OursByPath(c),
           BlockState(x, me) \notin {"orphan", "duplicate"}, Prunable(x, c, me) = {},
           Line("blank") \in Lines, NEW block \in Seq(Lines), block = ManagedBlock(me, c)
    PROVE  SameData(NextText(x, me, block), x)
<1>. DEFINE r == NextText(x, me, block)
<1>5. Balanced(x)
    BY DEF BlockState
<1>9. CASE BlockState(x, me) = "found"
    <2>1. OwnBlocks(x, me) # {} /\ ~(Cardinality(OwnBlocks(x, me)) > 1)
        BY <1>9 DEF BlockState
    <2>2. PICK q \in OwnBlocks(x, me) : OwnBlocks(x, me) = {q}
        BY <2>1, OneOwnBlock
    <2>3. OwnBlock(x, me) = q
        BY <2>2 DEF OwnBlock
    <2>. DEFINE i == q.begin
                e == q.end
    <2>4. IsPair(x, i, e)
        BY OwnBlockMeans
    <2>5. i \in DOMAIN x /\ e \in DOMAIN x /\ i <= e
        BY <2>4 DEF IsPair
    <2>6. Splice(x, q, block) \in Seq(Lines) /\ Replaced(Splice(x, q, block), x, i, e, block)
        BY <2>5, SpliceReplaces
    <2>7. r \in Seq(Lines) /\ Replaced(r, x, i, e, block)
        BY <1>9, <2>3, <2>6 DEF NextText
    <2>. HIDE DEF i, e, r
    <2>8. Slot(x, i, e)
        BY <2>4 DEF Slot
    <2>9. \A h \in HeadersOf(x) : i < h /\ h < e /\ IsPair(x, i, e) => OursTableAt(x, h)
        BY DEF OnlyOurs
    <2>10. SameData(r, x)
        BY <2>7, <2>8, <2>9, ReplacedData
    <2> QED
        BY <2>10 DEF r
<1>10. CASE BlockState(x, me) # "found"
    <2>1. OwnBlocks(x, me) = {}
        BY <1>5, <1>10 DEF BlockState
    <2>2. PICK y \in Seq(Lines) : /\ \A bl \in Seq(Lines) : Append1(x, bl) = y \o bl
                                  /\ Tied(y)
        BY <1>5, <2>1, AppendSpotOf
    <2>3. r = y \o block
        BY <1>10, <2>2 DEF NextText
    <2>. DEFINE a == Len(y) + 1
                b == Len(y)
    <2>4. r \in Seq(Lines) /\ Replaced(r, y, a, b, block)
        BY <2>3, AppendReplaces
    <2>5. Slot(y, a, b) /\ Tied(y)
        BY <2>2 DEF Slot
    <2>6. ~IsPair(y, a, b)
        BY DEF IsPair
    <2>. HIDE DEF a, b, r
    <2>7. SameData(r, y)
        BY <2>4, <2>5, <2>6, ReplacedData
    <2>8. SameData(y, x)
        BY <2>2, AppendData
    <2>9. SameData(r, x)
        BY <2>7, <2>8 DEF SameData
    <2> QED
        BY <2>9 DEF r
<1> QED
    BY <1>9, <1>10

\* The removals of setup.
LEMMA StripOldData ==
    ASSUME NEW Lines, NEW t \in Seq(Lines), NEW c, OursByPath(c), NEW host
    PROVE  LET r == StripOld(t, c, host)
           IN /\ SameData(r, t)
              /\ Parses(t) => Parses(r)
              /\ OnlyOurs(t) => OnlyOurs(r)
<1>. DEFINE r == StripOld(t, c, host)
<1>1. Stage(Lines, r, t, OldLines(t, c, host))
    BY StripOldStage
<1>2. \A h \in HeadersOf(t) : h \in OldLines(t, c, host) => OursTableAt(t, h)
    BY OldLinesOurs
<1>3. \A d \in OldLines(t, c, host) : d \in DOMAIN t => ~IsMarker(t[d])
    BY OldLinesMarkers
<1>. HIDE DEF r
<1>4. /\ SameData(r, t)
      /\ Parses(t) => Parses(r)
      /\ OnlyOurs(t) => OnlyOurs(r)
    BY <1>1, <1>2, <1>3, StageData
<1> QED
    BY <1>4 DEF r

\* The same for the pruning of bare tables
LEMMA PruneData ==
    ASSUME NEW Lines, NEW t \in Seq(Lines), Tied(t), NEW c, OursByPath(c), NEW host
    PROVE  LET r == Prune(t, c, host)
           IN /\ SameData(r, t)
              /\ Parses(t) => Parses(r)
              /\ OnlyOurs(t) => OnlyOurs(r)
<1>. DEFINE r == Prune(t, c, host)
<1>1. Stage(Lines, r, t, PrunedLines(t, c, host))
    BY PruneStage
<1>2. \A h \in HeadersOf(t) : h \in PrunedLines(t, c, host) => OursTableAt(t, h)
    BY PrunedLinesOurs
<1>3. \A d \in PrunedLines(t, c, host) : d \in DOMAIN t => ~IsMarker(t[d])
    BY PrunedLinesMarkers
<1>. HIDE DEF r
<1>4. /\ SameData(r, t)
      /\ Parses(t) => Parses(r)
      /\ OnlyOurs(t) => OnlyOurs(r)
    BY <1>1, <1>2, <1>3, StageData
<1> QED
    BY <1>4 DEF r

\* and for stripManagedBlocks.
LEMMA StripManagedData ==
    ASSUME NEW Lines, NEW t \in Seq(Lines), Tied(t), OnlyOurs(t), NEW me, NEW all
    PROVE  LET r == StripManaged(t, me, all)
           IN /\ SameData(r, t)
              /\ Parses(t) => Parses(r)
<1>. DEFINE r == StripManaged(t, me, all)
            dropped == OrphanLines(t, me, all) \cup PairLines(t, me, all)
<1>1. Stage(Lines, r, t, dropped)
    BY StripManagedStage
<1>2. \A h \in HeadersOf(t) : h \in dropped => OursTableAt(t, h)
    BY ManagedLinesOurs
<1>. HIDE DEF r, dropped
<1>3. /\ SameData(r, t)
      /\ Parses(t) => Parses(r)
    BY <1>1, <1>2, StageData
<1> QED
    BY <1>3 DEF r

\* runInstall, from the unfolded text on, keeps what is not of this plugin,
LEMMA InstallKeepsData ==
    ASSUME NEW t \in Texts, Tied(t), NEW me \in Hosts, NEW c \in Commands, OursByPath(c), NEW knows,
           SameData(Normalized(t), t), OnlyOurs(Normalized(t)),
           Installed(t, c, me, knows) # Refused
    PROVE  LET r == Installed(t, c, me, knows)
           IN SameData(r, t) /\ Parses(r)
<1>. DEFINE block == ManagedBlock(me, c)
            n == Normalized(t)
            old == StripOld(n, c, me)
            x == Prune(old, c, me)
            r == Installed(t, c, me, knows)
<1>1. /\ r = NextText(x, me, block)
      /\ BlockState(x, me) \notin {"orphan", "duplicate"}
      /\ ValidHookSet(NextText(x, me, block), knows)
    BY DEF Installed, NextText
<1>2. n \in Seq(TextLine) /\ Tied(n) /\ SameData(n, t) /\ OnlyOurs(n)
    BY NormalizedTied DEF Texts
<1>. HIDE DEF n
<1>3. old \in Seq(TextLine) /\ Tied(old) /\ SameData(old, n) /\ OnlyOurs(old)
    BY <1>2, StripOldStage, StageTied, StripOldData
<1>. HIDE DEF old
<1>4. x \in Seq(TextLine) /\ Tied(x) /\ SameData(x, old) /\ OnlyOurs(x)
    BY <1>3, PruneStage, StageTied, PruneData
<1>5. Prunable(x, c, me) = {}
    <2>1. Balanced(x)
        BY <1>1 DEF BlockState
    <2> QED
        BY <1>3, <2>1, PrunedClean
<1>6. block \in Seq(TextLine) /\ Line("blank") \in TextLine /\ block = ManagedBlock(me, c)
    BY BlockType, BlankLine DEF Texts
<1>. HIDE DEF x, block
<1>7. SameData(NextText(x, me, block), x)
    BY <1>1, <1>4, <1>5, <1>6, NextData
<1>8. SameData(r, x) /\ Parses(r)
    BY <1>1, <1>7 DEF ValidHookSet
<1>. HIDE DEF r
<1>9. SameData(r, t)
    BY <1>2, <1>3, <1>4, <1>8 DEF SameData
<1> QED
    BY <1>8, <1>9 DEF r

\* and so does runUninstallLocked.
LEMMA UninstallKeepsData ==
    ASSUME NEW t \in Texts, Tied(t), NEW me, NEW all, NEW c, OursByPath(c), OnlyOurs(t),
           Parses(t), Uninstalled(t, c, me, all) # Refused
    PROVE  LET r == Uninstalled(t, c, me, all)
           IN SameData(r, t) /\ Parses(r)
<1>. DEFINE host == IF all THEN None ELSE me
            cur == StripManaged(t, me, all)
            old == StripOld(cur, c, host)
            x == Prune(old, c, host)
            r == Uninstalled(t, c, me, all)
<1>1. r = t \/ r = x
    BY DEF Uninstalled
<1>2. t \in Seq(TextLine)
    BY DEF Texts
<1>. HIDE DEF host
<1>3. cur \in Seq(TextLine) /\ Tied(cur) /\ SameData(cur, t) /\ Parses(cur)
    BY <1>2, StripManagedStage, StageTied, StripManagedData
<1>. HIDE DEF cur
<1>4. old \in Seq(TextLine) /\ Tied(old) /\ SameData(old, cur) /\ Parses(old)
    BY <1>3, StripOldStage, StageTied, StripOldData
<1>. HIDE DEF old
<1>5. SameData(x, old) /\ Parses(x)
    BY <1>4, PruneData
<1>. HIDE DEF x, r
<1>6. SameData(r, t) /\ Parses(r)
    BY <1>1, <1>3, <1>4, <1>5 DEF SameData
<1> QED
    BY <1>6 DEF r

\* No top-level key stands below hooks = [{...}], where it would become a key of
\* the table that takes the place of the assignment.
InlineLast(t) == \A i \in InlineAt(t) : \A j \in TableAt(t, 0) : j <= i

\* The tables of the unfolded text are those of the text, and one more.
LEMMA UnfoldedTables ==
    ASSUME NEW t, NEW n, NEW i, Unfolded(n, t, i), Parses(t), InlineLast(t)
    PROVE  /\ {h \in HeadersOf(n) : h <= i} = {i}
           /\ \A h \in HeadersOf(n) : h = i \/ (h > i + 2 /\ h - 2 \in HeadersOf(t) /\ n[h] = t[h - 2])
           /\ \A h \in HeadersOf(t) : h > i /\ h + 2 \in HeadersOf(n) /\ n[h + 2] = t[h]
           /\ \A j : j \in TableAt(n, 0) <=> j \in TableAt(t, 0) /\ j # i
           /\ \A j : j \in TableAt(n, i) <=> j = i + 1 \/ j = i + 2
           /\ \A h \in HeadersOf(t) : Alike(n, h + 2, t, h)
<1>1. /\ i \in DOMAIN t /\ i \in Nat \ {0}
      /\ DOMAIN t = 1 .. Len(t) /\ Len(t) \in Nat /\ DOMAIN n = 1 .. Len(n) /\ Len(n) \in Nat
      /\ IsKey(t[i]) /\ i \in InlineAt(t)
    BY DEF Unfolded
<1>2. /\ \A k \in DOMAIN t : k < i => k \in DOMAIN n /\ n[k] = t[k]
      /\ \A k \in DOMAIN t : k > i => k + 2 \in DOMAIN n /\ n[k + 2] = t[k]
      /\ \A k \in DOMAIN n : k < i => k \in DOMAIN t /\ n[k] = t[k]
      /\ \A k \in DOMAIN n : k > i + 2 => k - 2 \in DOMAIN t /\ k - 2 > i /\ n[k] = t[k - 2]
    BY DEF Unfolded
<1>3. /\ i \in DOMAIN n /\ i + 1 \in DOMAIN n /\ i + 2 \in DOMAIN n
      /\ IsHeader(n[i]) /\ IsKey(n[i + 1]) /\ IsKey(n[i + 2])
    <2>1. n[i].kind = "hooks" /\ n[i + 1].kind = "otherEvent" /\ n[i + 2].kind = "command"
        BY LineKind DEF Unfolded
    <2> QED
        BY <2>1 DEF Unfolded, IsHeader, IsKey, Headers, Keys
<1>4. \A g \in HeadersOf(t) : i < g /\ g \in DOMAIN t /\ g \in Nat /\ IsHeader(t[g])
    BY <1>1 DEF Unfolded, HeadersOf
<1>5. \A h \in HeadersOf(t) : h > i /\ h + 2 \in HeadersOf(n) /\ n[h + 2] = t[h]
    BY <1>2, <1>4 DEF HeadersOf
<1>6. \A h \in HeadersOf(n) : h = i \/ (h > i + 2 /\ h - 2 \in HeadersOf(t) /\ n[h] = t[h - 2])
    <2>. SUFFICES ASSUME NEW h \in HeadersOf(n), h # i
                  PROVE  h > i + 2 /\ h - 2 \in HeadersOf(t) /\ n[h] = t[h - 2]
        OBVIOUS
    <2>1. h \in DOMAIN n /\ h \in Nat /\ IsHeader(n[h])
        BY <1>1 DEF HeadersOf
    <2>2. ~(h < i)
        <3>. SUFFICES ASSUME h < i PROVE FALSE
            OBVIOUS
        <3>1. h \in HeadersOf(t)
            BY <1>2, <2>1 DEF HeadersOf
        <3> QED
            BY <1>1, <1>4, <2>1, <3>1
    <2>3. h # i + 1 /\ h # i + 2
        BY <1>3, <2>1, HeaderIsNoKey
    <2>4. h > i + 2
        BY <1>1, <2>1, <2>2, <2>3
    <2> QED
        BY <1>2, <2>1, <2>4 DEF HeadersOf
<1>13. \A h \in HeadersOf(n) : h \in Nat /\ (h = i \/ h > i + 2)
    BY <1>1, <1>6 DEF HeadersOf
<1>7. i \in HeadersOf(n)
    BY <1>3 DEF HeadersOf
<1>8. {h \in HeadersOf(n) : h <= i} = {i}
    <2>1. \A h \in HeadersOf(n) : h <= i => h = i
        BY <1>1, <1>13
    <2> QED
        BY <1>1, <1>7, <2>1
<1>9. \A j \in TableAt(t, 0) : j <= i
    BY <1>1 DEF InlineLast
<1>10. ASSUME NEW j PROVE j \in TableAt(n, 0) <=> j \in TableAt(t, 0) /\ j # i
    <2>1. ASSUME j \in TableAt(n, 0) PROVE j \in TableAt(t, 0) /\ j # i
        <3>1. j \in DOMAIN n /\ IsKey(n[j]) /\ j \in Nat /\ j > 0 /\ j < i
            BY <1>1, <1>7, <2>1, InTable
        <3>2. j \in DOMAIN t /\ t[j] = n[j]
            BY <1>2, <3>1
        <3>3. \A g \in HeadersOf(t) : j < g
            BY <1>1, <1>4, <3>1
        <3> QED
            BY <1>1, <3>1, <3>2, <3>3, InTable
    <2>2. ASSUME j \in TableAt(t, 0), j # i PROVE j \in TableAt(n, 0)
        <3>1. j \in DOMAIN t /\ IsKey(t[j]) /\ j > 0 /\ j \in Nat
            BY <1>1, <2>2, InTable
        <3>2. j < i
            BY <1>1, <1>9, <2>2, <3>1
        <3>3. j \in DOMAIN n /\ n[j] = t[j]
            BY <1>2, <3>1, <3>2
        <3>4. \A g \in HeadersOf(n) : j < g
            BY <1>1, <1>13, <3>1, <3>2
        <3> QED
            BY <3>1, <3>3, <3>4, InTable
    <2> QED
        BY <2>1, <2>2
<1>11. ASSUME NEW j PROVE j \in TableAt(n, i) <=> j = i + 1 \/ j = i + 2
    <2>1. ASSUME j \in TableAt(n, i) PROVE j = i + 1 \/ j = i + 2
        <3>1. j \in DOMAIN n /\ IsKey(n[j]) /\ j \in Nat /\ j > i /\ \A g \in HeadersOf(n) : g > i => j < g
            BY <1>1, <2>1, InTable
        <3>. SUFFICES ASSUME j > i + 2 PROVE FALSE
            BY <1>1, <3>1
        <3>2. j - 2 \in DOMAIN t /\ j - 2 > i /\ n[j] = t[j - 2]
            BY <1>2, <3>1
        <3>3. \A g \in HeadersOf(t) : j - 2 < g
            <4>. SUFFICES ASSUME NEW g \in HeadersOf(t) PROVE j - 2 < g
                OBVIOUS
            <4>1. g + 2 \in HeadersOf(n) /\ g + 2 > i /\ g \in Nat
                BY <1>1, <1>4, <1>5
            <4>2. j < g + 2
                BY <3>1, <4>1
            <4> QED
                BY <3>1, <4>1, <4>2
        <3>4. j - 2 \in TableAt(t, 0)
            <4>1. j - 2 > 0
                BY <1>1, <3>1, <3>2
            <4> QED
                BY <3>1, <3>2, <3>3, <4>1, InTable
        <3>5. j - 2 <= i
            BY <1>9, <3>4
        <3> QED
            BY <1>1, <3>1, <3>2, <3>5
    <2>2. ASSUME j = i + 1 \/ j = i + 2 PROVE j \in TableAt(n, i)
        <3>1. j \in DOMAIN n /\ IsKey(n[j]) /\ j > i /\ j \in Nat /\ j <= i + 2
            BY <1>1, <1>3, <2>2
        <3>2. \A g \in HeadersOf(n) : g > i => j < g
            BY <1>1, <1>13, <3>1
        <3> QED
            BY <3>1, <3>2, InTable
    <2> QED
        BY <2>1, <2>2
<1>12. ASSUME NEW h \in HeadersOf(t) PROVE Alike(n, h + 2, t, h)
    <2>0. h \in Nat /\ h > i /\ h + 2 > i
        BY <1>1, <1>4
    <2>1. ASSUME NEW j \in TableAt(n, h + 2) PROVE j - 2 \in TableAt(t, h) /\ n[j] = t[j - 2]
        <3>1. /\ j \in DOMAIN n /\ IsKey(n[j]) /\ j \in Nat /\ j > h + 2
              /\ \A g \in HeadersOf(n) : g > h + 2 => j < g
            BY <1>1, InTable
        <3>2. j - 2 \in DOMAIN t /\ n[j] = t[j - 2] /\ j - 2 > h
            BY <1>1, <1>2, <2>0, <3>1
        <3>3. ASSUME NEW g \in HeadersOf(t), g > h PROVE j - 2 < g
            <4>1. g \in Nat /\ g + 2 > h + 2 /\ g + 2 \in HeadersOf(n)
                BY <1>4, <1>5, <2>0, <3>3
            <4>2. j < g + 2
                BY <3>1, <4>1
            <4> QED
                BY <3>1, <4>1, <4>2
        <3> QED
            BY <3>1, <3>2, <3>3, InTable
    <2>2. ASSUME NEW j \in TableAt(t, h) PROVE j + 2 \in TableAt(n, h + 2) /\ n[j + 2] = t[j]
        <3>1. /\ j \in DOMAIN t /\ IsKey(t[j]) /\ j \in Nat /\ j > h
              /\ \A g \in HeadersOf(t) : g > h => j < g
            BY <1>1, InTable
        <3>2. j + 2 \in DOMAIN n /\ n[j + 2] = t[j] /\ j + 2 > h + 2
            BY <1>1, <1>2, <2>0, <3>1
        <3>3. ASSUME NEW g \in HeadersOf(n), g > h + 2 PROVE j + 2 < g
            <4>1. g - 2 \in HeadersOf(t) /\ g > i
                BY <1>1, <1>6, <2>0, <3>3
            <4>2. g \in Nat
                BY <1>1 DEF HeadersOf
            <4>3. j < g - 2
                BY <2>0, <3>1, <3>3, <4>1, <4>2
            <4> QED
                BY <3>1, <4>2, <4>3
        <3> QED
            BY <3>1, <3>2, <3>3, InTable
    <2> QED
        BY <2>1, <2>2 DEF Alike
<1> QED
    BY <1>5, <1>6, <1>8, <1>10, <1>11, <1>12

\* The table takes the place of the assignment as the one entry of the hooks.
LEMMA UnfoldedHooks ==
    ASSUME NEW Lines, NEW t \in Seq(Lines), NEW n \in Seq(Lines), NEW i,
           Unfolded(n, t, i), Parses(t), InlineLast(t)
    PROVE  Foreign(HookEntries(n)) = Foreign(HookEntries(t))
<1>. DEFINE inline == {l \in Entry(t, 0) : IsInline(l)}
            e == InlineEntry(t[i])
<1>1. /\ i \in TableAt(t, 0) /\ IsInline(t[i]) /\ i \in Nat /\ i \in HeadersOf(n)
      /\ n[i].kind = "hooks"
    <2>1. n[i].kind = "hooks"
        BY LineKind DEF Unfolded
    <2>2. i \in HeadersOf(n)
        BY <2>1 DEF Unfolded, HeadersOf, IsHeader, Headers
    <2> QED
        BY <2>1, <2>2 DEF Unfolded, InlineAt
<1>2. inline = {t[i]}
    <2>1. \A l : l \in Entry(t, 0) <=> \E j \in TableAt(t, 0) : l = t[j]
        BY DEF Entry, EntryAmong, TableAt
    <2>2. \A j \in TableAt(t, 0) : IsInline(t[j]) => j = i
        <3>1. \A j \in TableAt(t, 0) : Keys[t[j].kind] = Keys[t[i].kind] => j = i
            BY <1>1, ParsesMeans
        <3> QED
            BY <1>1, <3>1 DEF IsInline
    <2> QED
        BY <1>1, <2>1, <2>2
<1>3. HookEntries(t) = <<e>>
    <2>1. (CHOOSE l \in inline : TRUE) = t[i]
        BY <1>2
    <2>2. inline # {}
        BY <1>2
    <2> QED
        BY <2>1, <2>2 DEF HookEntries
<1>4. {l \in Entry(n, 0) : IsInline(l)} = {}
    <2>1. \A l : l \in Entry(n, 0) <=> \E j \in TableAt(n, 0) : l = n[j]
        BY DEF Entry, EntryAmong, TableAt
    <2>2. ASSUME NEW j \in TableAt(n, 0) PROVE ~IsInline(n[j])
        <3>1. j \in TableAt(t, 0) /\ j # i
            BY UnfoldedTables
        <3>2. j \in DOMAIN t /\ j \in Nat /\ j < i
            <4>1. j <= i
                BY <1>1, <3>1 DEF InlineLast, Unfolded
            <4>2. j \in DOMAIN t /\ j \in Nat
                BY <3>1, InTable
            <4> QED
                BY <1>1, <3>1, <4>1, <4>2
        <3>3. n[j] = t[j]
            BY <3>2 DEF Unfolded
        <3>4. Keys[t[j].kind] = Keys[t[i].kind] => j = i
            BY <1>1, <3>1, ParsesMeans
        <3> QED
            BY <1>1, <3>1, <3>3, <3>4 DEF IsInline
    <2> QED
        BY <2>1, <2>2
<1>5. HooksHeaders(n) = {i}
    <2>1. \A h \in HeadersOf(t) : t[h].kind # "hooks"
        BY <1>1, ParsesMeans
    <2>2. \A h \in HeadersOf(n) : h = i \/ (h - 2 \in HeadersOf(t) /\ n[h] = t[h - 2])
        BY UnfoldedTables
    <2> QED
        BY <1>1, <2>1, <2>2 DEF HooksHeaders
<1>6. Entry(n, i) = e
    <2>1. \A l : l \in Entry(n, i) <=> \E j \in TableAt(n, i) : l = n[j]
        BY DEF Entry, EntryAmong, TableAt
    <2>2. \A j : j \in TableAt(n, i) <=> j = i + 1 \/ j = i + 2
        BY UnfoldedTables
    <2>3. n[i + 1] = Line("otherEvent") /\ n[i + 2] = CommandLine(t[i].cmd)
        BY DEF Unfolded
    <2>4. \A l : l \in Entry(n, i) <=> l = Line("otherEvent") \/ l = CommandLine(t[i].cmd)
        BY <2>1, <2>2, <2>3
    <2> QED
        BY <2>4 DEF InlineEntry
<1>. HIDE DEF e, inline
<1>7. HookEntries(n) = <<e>>
    <2>. DEFINE g == InOrder(HooksHeaders(n))
                m == Cardinality(HooksHeaders(n))
                one == [k \in 1 .. 1 |-> i]
    <2>1. Listed(g, m, HooksHeaders(n))
        BY PositionsAre, InOrderListed
    <2>2. Listed(one, 1, HooksHeaders(n))
        <3>1. one \in [1 .. 1 -> {i}]
            OBVIOUS
        <3>2. \A x \in {i} : \E k \in 1 .. 1 : one[k] = x
            OBVIOUS
        <3>3. \A j, k \in 1 .. 1 : j < k => one[j] < one[k]
            OBVIOUS
        <3>. HIDE DEF one
        <3> QED
            BY <1>5, <3>1, <3>2, <3>3 DEF Listed
    <2>3. HooksHeaders(n) \in SUBSET Nat
        BY <1>1, <1>5
    <2>4. m = 1 /\ g = one
        <3>. HIDE DEF g, m, one
        <3> QED
            BY <2>1, <2>2, <2>3, ListedOnce
    <2>5. Ordered(n, LAMBDA l : l.kind = "hooks") = g
        BY PositionsAre
    <2>. HIDE DEF g, m
    <2>6. DOMAIN g = 1 .. 1 /\ g[1] = i
        BY <2>4
    <2>7. HookEntries(n) = [k \in DOMAIN g |-> Entry(n, g[k])]
        BY <1>4, <2>5 DEF HookEntries
    <2>8. \A k \in 1 .. 1 : g[k] = i
        BY <2>6
    <2>9. HookEntries(n) = [k \in 1 .. 1 |-> e]
        BY <1>6, <2>6, <2>7, <2>8
    <2> QED
        BY <2>9
<1> QED
    BY <1>3, <1>7

\* The other keys and tables stay,
LEMMA UnfoldedOthers ==
    ASSUME NEW Lines, NEW t \in Seq(Lines), NEW n \in Seq(Lines), NEW i,
           Unfolded(n, t, i), Parses(t), InlineLast(t)
    PROVE  OtherData(n) = OtherData(t)
<1>1. /\ \A h \in HeadersOf(n) : h = i \/ (h > i + 2 /\ h - 2 \in HeadersOf(t) /\ n[h] = t[h - 2])
      /\ \A h \in HeadersOf(t) : h > i /\ h + 2 \in HeadersOf(n) /\ n[h + 2] = t[h]
      /\ \A j : j \in TableAt(n, 0) <=> j \in TableAt(t, 0) /\ j # i
      /\ \A h \in HeadersOf(t) : Alike(n, h + 2, t, h)
    BY UnfoldedTables
<1>2. /\ \A h \in HeadersOf(n) : h \in Nat
      /\ \A h \in HeadersOf(t) : h \in Nat
    BY HeadersAreNumbers
<1>3. i \in Nat /\ IsInline(t[i]) /\ n[i].kind = "hooks"
    BY LineKind DEF Unfolded, InlineAt
<1>4. Alikes(n, TableHeaders(n), t, TableHeaders(t))
    <2>. DEFINE R == TableHeaders(n)
                f == [h \in R |-> h - 2]
    <2>1. \A h \in R : h \in Nat /\ h - 2 \in TableHeaders(t)
        BY <1>1, <1>2, <1>3 DEF TableHeaders
    <2>2. f \in [R -> TableHeaders(t)]
        BY <2>1
    <2>3. ASSUME NEW x \in TableHeaders(t) PROVE \E h \in R : f[h] = x
        <3>1. x \in Nat /\ x + 2 \in R
            BY <1>1, <1>2 DEF TableHeaders
        <3>2. (x + 2) - 2 = x
            BY <3>1
        <3> QED
            BY <3>1, <3>2
    <2>4. \A g, h \in R : g < h => f[g] < f[h]
        <3>. SUFFICES ASSUME NEW g \in R, NEW h \in R, g < h PROVE f[g] < f[h]
            OBVIOUS
        <3>1. g - 2 < h - 2
            BY <2>1
        <3> QED
            BY <3>1
    <2>5. ASSUME NEW h \in R PROVE Entry(n, h) = Entry(t, f[h])
        <3>. DEFINE g == h - 2
        <3>1. g \in HeadersOf(t) /\ h \in Nat
            BY <2>1 DEF TableHeaders
        <3>2. g + 2 = h
            BY <3>1
        <3>. HIDE DEF g
        <3>3. Alike(n, g + 2, t, g)
            BY <1>1, <3>1
        <3>4. Entry(n, h) = Entry(t, g)
            BY <3>2, <3>3, AlikeMeans
        <3> QED
            BY <3>4 DEF g
    <2>. HIDE DEF f
    <2> QED
        BY <2>2, <2>3, <2>4, <2>5 DEF Alikes
<1>5. {l \in Entry(n, 0) : ~IsInline(l)} = {l \in Entry(t, 0) : ~IsInline(l)}
    <2>1. \A l : l \in Entry(n, 0) <=> \E j \in TableAt(n, 0) : l = n[j]
        BY DEF Entry, EntryAmong, TableAt
    <2>2. \A l : l \in Entry(t, 0) <=> \E j \in TableAt(t, 0) : l = t[j]
        BY DEF Entry, EntryAmong, TableAt
    <2>3. \A j \in TableAt(t, 0) : j # i => n[j] = t[j]
        <3>. SUFFICES ASSUME NEW j \in TableAt(t, 0), j # i PROVE n[j] = t[j]
            OBVIOUS
        <3>1. j <= i
            BY DEF InlineLast, Unfolded
        <3>2. j \in DOMAIN t /\ j \in Nat
            BY InTable
        <3> QED
            BY <1>3, <3>1, <3>2 DEF Unfolded
    <2>4. \A l : ~IsInline(l) => (l \in Entry(n, 0) <=> l \in Entry(t, 0))
        BY <1>1, <1>3, <2>1, <2>2, <2>3
    <2> QED
        BY <2>4
<1>6. PICK g, m : /\ Listed(g, m, TableHeaders(n))
                  /\ OtherData(n) = <<{l \in Entry(n, 0) : ~IsInline(l)}, Listing(n, g, m)>>
    BY OtherList
<1>7. PICK h, k : /\ Listed(h, k, TableHeaders(t))
                  /\ OtherData(t) = <<{l \in Entry(t, 0) : ~IsInline(l)}, Listing(t, h, k)>>
    BY OtherList
<1>8. Listing(n, g, m) = Listing(t, h, k)
    <2>1. TableHeaders(n) \in SUBSET Nat /\ TableHeaders(t) \in SUBSET Nat
        BY HeadersAreNumbers
    <2> QED
        BY <1>4, <1>6, <1>7, <2>1, SameLists
<1> QED
    BY <1>5, <1>6, <1>7, <1>8

\* and nothing comes to stand between markers.
LEMMA UnfoldedOnlyOurs ==
    ASSUME NEW t, NEW n, NEW Lines, n \in Seq(Lines), t \in Seq(Lines), NEW i,
           Unfolded(n, t, i), Parses(t), InlineLast(t), Tied(t), OnlyOurs(t)
    PROVE  OnlyOurs(n)
<1>1. /\ \A h \in HeadersOf(n) : h = i \/ (h > i + 2 /\ h - 2 \in HeadersOf(t) /\ n[h] = t[h - 2])
      /\ \A h \in HeadersOf(t) : h > i
      /\ \A h \in HeadersOf(t) : Alike(n, h + 2, t, h)
    BY UnfoldedTables
<1>2. /\ i \in DOMAIN t /\ i \in Nat \ {0} /\ IsKey(t[i])
      /\ DOMAIN t = 1 .. Len(t) /\ Len(t) \in Nat /\ DOMAIN n = 1 .. Len(n) /\ Len(n) \in Nat
    BY DEF Unfolded
<1>3. /\ \A k \in DOMAIN t : k > i => k + 2 \in DOMAIN n /\ n[k + 2] = t[k]
      /\ \A k \in DOMAIN n : k < i => k \in DOMAIN t /\ n[k] = t[k]
      /\ \A k \in DOMAIN n : k > i + 2 => k - 2 \in DOMAIN t /\ k - 2 > i /\ n[k] = t[k - 2]
    BY DEF Unfolded
<1>4. \A k \in DOMAIN n : IsMarker(n[k]) => k > i + 2
    <2>. SUFFICES ASSUME NEW k \in DOMAIN n, IsMarker(n[k]), ~(k > i + 2) PROVE FALSE
        OBVIOUS
    <2>1. k \in Nat
        BY <1>2
    <2>2. k # i /\ k # i + 1 /\ k # i + 2
        <3>1. n[i].kind = "hooks" /\ n[i + 1].kind = "otherEvent" /\ n[i + 2].kind = "command"
            BY LineKind DEF Unfolded
        <3> QED
            BY <3>1 DEF IsMarker
    <2>3. k < i
        BY <1>2, <2>1, <2>2
    <2>4. k \in DOMAIN t /\ Parts(t[k])
        BY <1>3, <2>3 DEF Parts
    <2>5. \E g \in HeadersOf(t) : k < g /\ g < i
        BY <1>2, <2>3, <2>4 DEF Tied
    <2>6. \A g \in HeadersOf(t) : g \in Nat
        BY <1>2 DEF HeadersOf
    <2> QED
        BY <1>1, <1>2, <2>5, <2>6
<1>. SUFFICES ASSUME NEW p, NEW e, NEW h \in HeadersOf(n), IsPair(n, p, e), p < h, h < e
              PROVE  OursTableAt(n, h)
    BY DEF OnlyOurs
<1>5. /\ p \in DOMAIN n /\ e \in DOMAIN n /\ p < e /\ n[p].kind = "begin" /\ n[e].kind = "end"
      /\ \A j \in DOMAIN n : p < j /\ j < e => ~IsMarker(n[j])
    BY DEF IsPair
<1>6. p > i + 2 /\ e > i + 2 /\ p \in Nat /\ e \in Nat /\ h \in Nat
    <2>1. IsMarker(n[p]) /\ IsMarker(n[e])
        BY <1>5 DEF IsMarker
    <2>2. p \in Nat /\ e \in Nat /\ h \in Nat
        BY <1>2, <1>5 DEF HeadersOf
    <2> QED
        BY <1>4, <1>5, <2>1, <2>2
<1>7. IsPair(t, p - 2, e - 2)
    <2>1. /\ p - 2 \in DOMAIN t /\ e - 2 \in DOMAIN t /\ p - 2 < e - 2 /\ p - 2 > i
          /\ t[p - 2].kind = "begin" /\ t[e - 2].kind = "end"
        BY <1>3, <1>5, <1>6
    <2>2. ASSUME NEW j \in DOMAIN t, p - 2 < j, j < e - 2 PROVE ~IsMarker(t[j])
        <3>1. j \in Nat /\ p < j + 2 /\ j + 2 < e /\ j > i
            BY <1>2, <1>6, <2>1, <2>2
        <3>2. j + 2 \in DOMAIN n /\ n[j + 2] = t[j]
            BY <1>3, <3>1
        <3> QED
            BY <1>5, <3>1, <3>2
    <2> QED
        BY <2>1, <2>2 DEF IsPair
<1>8. h - 2 \in HeadersOf(t) /\ n[h] = t[h - 2]
    BY <1>1, <1>2, <1>6
<1>9. p - 2 < h - 2 /\ h - 2 < e - 2
    BY <1>6
<1>10. OursTableAt(t, h - 2)
    BY <1>7, <1>8, <1>9 DEF OnlyOurs
<1>11. Entry(n, h) = Entry(t, h - 2)
    <2>. DEFINE g == h - 2
    <2>1. g + 2 = h /\ g \in HeadersOf(t)
        BY <1>6, <1>8
    <2>. HIDE DEF g
    <2>2. Alike(n, g + 2, t, g)
        BY <1>1, <2>1
    <2>3. Entry(n, h) = Entry(t, g)
        BY <2>1, <2>2, AlikeMeans
    <2> QED
        BY <2>3 DEF g
<1> QED
    BY <1>8, <1>10, <1>11 DEF OursTableAt

\* normalizeTopLevelInlineHooks keeps every hook and every other key.
LEMMA NormalizedData ==
    ASSUME NEW t \in Texts, Tied(t), OnlyOurs(t), InlineLast(t)
    PROVE  SameData(Normalized(t), t) /\ OnlyOurs(Normalized(t))
<1>1. CASE Parses(t) /\ InlineAt(t) # {}
    <2>. DEFINE n == Normalized(t)
    <2>1. PICK i : Unfolded(n, t, i)
        BY <1>1, NormalizedUnfolds
    <2>2. n \in Seq(TextLine) /\ t \in Seq(TextLine)
        BY NormalizedType DEF Texts
    <2>. HIDE DEF n
    <2>3. SameData(n, t)
        BY <1>1, <2>1, <2>2, UnfoldedHooks, UnfoldedOthers DEF SameData
    <2>4. OnlyOurs(n)
        BY <1>1, <2>1, <2>2, UnfoldedOnlyOurs
    <2> QED
        BY <2>3, <2>4 DEF n
<1>2. CASE ~Parses(t) \/ InlineAt(t) = {}
    BY <1>2 DEF Normalized, SameData
<1> QED
    BY <1>1, <1>2

\* What the run writes has the same foreign hooks and other data.
LEMMA ForeignStep ==
    TypeOK /\ RunOK =>
        (OnlyOurs(Base) /\ (run.mode = "install" => InlineLast(Base)) => ForeignKept)
<1>. SUFFICES ASSUME TypeOK, RunOK, OnlyOurs(Base), run.mode = "install" => InlineLast(Base),
                     Computed, Parses(Base), ~KeyAdrift(Base)
              PROVE  /\ Parses(run.next)
                     /\ Foreign(HookEntries(run.next)) = Foreign(HookEntries(Base))
                     /\ OtherData(run.next) = OtherData(Base)
    BY DEF ForeignKept
<1>. DEFINE t == run.base
            me == run.host
            c == run.cmd
            r == run.next
<1>1. /\ run.mode \in Modes /\ me \in Hosts /\ c \in Commands /\ c.tree = "k3"
      /\ r = Planned(run) /\ r # Refused
    BY DEF RunOK, Computed
<1>2. t \in Texts /\ t \in Seq(TextLine)
    BY DEF TypeOK, Texts
<1>3. Tied(t)
    BY <1>2, NotAdriftIsTied DEF Base
<1>4. OursByPath(c)
    BY <1>1, HostsAssumption DEF OursByPath
<1>5. OnlyOurs(t) /\ Parses(t)
    BY DEF Base
<1>6. SameData(r, t) /\ Parses(r)
    <2>1. CASE run.mode = "install"
        <3>1. r = Installed(t, c, me, run.knows)
            BY <1>1, <2>1 DEF Planned
        <3>2. InlineLast(t)
            BY <2>1 DEF Base
        <3>. HIDE DEF t, me, c, r
        <3>3. SameData(Normalized(t), t) /\ OnlyOurs(Normalized(t))
            BY <1>2, <1>3, <1>5, <3>2, NormalizedData
        <3>4. Installed(t, c, me, run.knows) # Refused
            BY <1>1, <3>1
        <3> QED
            BY <1>1, <1>2, <1>3, <1>4, <3>1, <3>3, <3>4, InstallKeepsData
    <2>2. ASSUME NEW all \in BOOLEAN, r = Uninstalled(t, c, me, all)
          PROVE  SameData(r, t) /\ Parses(r)
        <3>. HIDE DEF t, me, c, r
        <3>1. Uninstalled(t, c, me, all) # Refused
            BY <1>1, <2>2
        <3> QED
            BY <1>2, <1>3, <1>4, <1>5, <2>2, <3>1, UninstallKeepsData
    <2>3. CASE run.mode = "uninstall"
        <3>1. r = Uninstalled(t, c, me, FALSE)
            BY <1>1, <2>3 DEF Planned
        <3> QED
            BY <2>2, <3>1
    <2>4. CASE run.mode = "uninstall all"
        <3>1. r = Uninstalled(t, c, me, TRUE)
            BY <1>1, <2>4 DEF Planned
        <3> QED
            BY <2>2, <3>1
    <2> QED
        BY <1>1, <2>1, <2>3, <2>4 DEF Modes
<1> QED
    BY <1>6 DEF SameData, Base

\* Setup keeps what is not its own, the user's and other plugins' hooks in their
\* order and every other key and table, as long as only tables of this plugin
\* stand between its markers (what is there goes with them) and no top-level key
\* stands below an inline hooks key that an install makes a table of.
THEOREM SetupForeignKept ==
    Spec => [](OnlyOurs(Base) /\ (run.mode = "install" => InlineLast(Base)) => ForeignKept)
<1>1. TypeOK /\ RunOK =>
        (OnlyOurs(Base) /\ (run.mode = "install" => InlineLast(Base)) => ForeignKept)
    BY ForeignStep
<1> QED
    BY <1>1, RunInvariant, PTL
=============================================================================
