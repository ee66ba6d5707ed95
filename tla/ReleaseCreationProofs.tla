------------------------ MODULE ReleaseCreationProofs ------------------------
(***************************************************************************)
(* Proofs about ReleaseCreation, for every release, host and list of       *)
(* formats. The loop of select_artifact is a recursive function: that it   *)
(* satisfies its own equation, and what it has found after n turns, are    *)
(* proved by induction over the natural numbers, as a fact about the set   *)
(* of the numbers for which a formula holds.                               *)
(***************************************************************************)
EXTENDS ReleaseCreation, FiniteSetTheorems, WellFoundedInduction, TLAPS

\* A set with 0 that has the successor of each of its members has every
\* natural number: else the least one outside would be no successor.
LEMMA EveryNatural ==
  ASSUME NEW S, 0 \in S, \A n \in Nat : n \in S => n + 1 \in S
  PROVE  \A n \in Nat : n \in S
<1> DEFINE T == {n \in Nat : n \notin S}
           R == OpToRel(<, Nat)
<1>1. SUFFICES ASSUME T # {} PROVE FALSE
  OBVIOUS
<1>2. PICK n \in T : \A m \in T : ~(<<m, n>> \in R)
  <2>1. T \subseteq Nat
    OBVIOUS
  <2>2. QED
    BY <1>1, <2>1, NatLessThanWellFounded, WFMin, Zenon
<1>3. n \in Nat /\ n # 0 /\ n \notin S /\ n - 1 \in Nat
  OBVIOUS
<1>4. n - 1 \notin S
  BY <1>3
<1>5. <<n - 1, n>> \in R
  BY <1>3 DEF OpToRel
<1>6. QED
  BY <1>2, <1>3, <1>4, <1>5

-----------------------------------------------------------------------------
(* The loop of select_artifact.                                            *)

\* The turns of the loop: what is found after none, and after one more.
LEMMA SelectTakesTurns ==
  ASSUME NEW artifacts, NEW h, NEW v, NEW formats, Len(artifacts) \in Nat
  PROVE  \E scan : /\ scan[0] = NothingFound
                   /\ \A n \in 1..Len(artifacts) :
                        scan[n] = Weigh(scan[n - 1], artifacts[n], h, v, formats)
                   /\ SelectArtifact(artifacts, h, v, formats) = scan[Len(artifacts)]
<1> DEFINE W(x, n) == Weigh(x, artifacts[n], h, v, formats)
           P(f, k) == f = [n \in 0..k |-> IF n = 0 THEN NothingFound ELSE W(f[n - 1], n)]
           S == {k \in Nat : \E f : P(f, k)}
           scan == CHOOSE f : P(f, Len(artifacts))
<1>1. 0 \in S
  <2> DEFINE f == [n \in 0..0 |-> NothingFound]
  <2>1. P(f, 0)
    OBVIOUS
  <2>2. QED
    BY <2>1
<1>2. ASSUME NEW k \in Nat, k \in S PROVE k + 1 \in S
  <2>1. PICK g : P(g, k)
    BY <1>2
  <2> DEFINE f == [n \in 0..(k + 1) |-> IF n = 0 THEN NothingFound ELSE W(g[n - 1], n)]
  <2>2. ASSUME NEW m \in 0..k PROVE f[m] = g[m]
    <3>1. g[m] = IF m = 0 THEN NothingFound ELSE W(g[m - 1], m)
      BY <2>1
    <3>2. m \in 0..(k + 1)
      OBVIOUS
    <3> HIDE DEF W
    <3>3. QED
      BY <3>1, <3>2
  <2>3. ASSUME NEW n \in 0..(k + 1) PROVE f[n] = IF n = 0 THEN NothingFound ELSE W(f[n - 1], n)
    <3>1. CASE n = 0
      BY <3>1
    <3>2. CASE n # 0
      <4>1. n - 1 \in 0..k
        BY <3>2
      <4>2. f[n - 1] = g[n - 1]
        BY <4>1, <2>2
      <4> HIDE DEF W
      <4>3. f[n] = W(g[n - 1], n)
        BY <3>2
      <4>4. QED
        BY <3>2, <4>2, <4>3
    <3>3. QED
      BY <3>1, <3>2
  <2>4. P(f, k + 1)
    <3>1. f = [n \in 0..(k + 1) |-> f[n]]
      BY Zenon
    <3> HIDE DEF f, W
    <3>2. QED
      BY <3>1, <2>3
  <2> HIDE DEF P, f
  <2>5. QED
    BY <2>4
<1>3. \E f : P(f, Len(artifacts))
  <2> HIDE DEF P
  <2>1. \A n \in Nat : n \in S
    BY <1>1, <1>2, EveryNatural
  <2>2. QED
    BY <2>1
<1>4. P(scan, Len(artifacts))
  BY <1>3, Zenon
<1>5. SelectArtifact(artifacts, h, v, formats) = scan[Len(artifacts)]
  BY DEF SelectArtifact
<1> HIDE DEF scan, W
<1>6. /\ scan[0] = NothingFound
      /\ \A n \in 1..Len(artifacts) : scan[n] = W(scan[n - 1], n)
  BY <1>4
<1>7. QED
  BY <1>5, <1>6 DEF W

-----------------------------------------------------------------------------
(* The order of the artifacts.                                             *)

\* A list of formats, each of them once.
Ranking(formats) ==
    /\ Len(formats) \in Nat /\ DOMAIN formats = 1..Len(formats)
    /\ \A i, j \in DOMAIN formats : formats[i] = formats[j] => i = j

LEMMA FormatsAreARanking == Ranking(Formats)
BY FormatsRanked DEF Ranking

LEMMA ScopeIsFinite ==
  ASSUME NEW a
  PROVE  IsFiniteSet(Scope(a)) /\ Cardinality(Scope(a)) \in Nat
<1>1. Scope(a) \in SUBSET ({} \cup {"os"} \cup {"arch"} \cup {"libc"})
  BY DEF Scope
<1>2. IsFiniteSet({} \cup {"os"} \cup {"arch"} \cup {"libc"})
  BY FS_EmptySet, FS_AddElement
<1>3. QED
  BY <1>1, <1>2, FS_Subset, FS_CardinalityType

\* The rank of a format, by its place in the list.
LEMMA RankOfPlace ==
  ASSUME NEW a, NEW formats, Ranking(formats)
  PROVE  /\ FormatRank(a, formats) \in Nat
         /\ FormatRank(a, formats) # 0 <=> a.format \in Elements(formats)
         /\ \A i \in DOMAIN formats :
              formats[i] = a.format => FormatRank(a, formats) = Len(formats) + 1 - i
<1> DEFINE at == {i \in DOMAIN formats : formats[i] = a.format}
           L == Len(formats)
<1>1. FormatRank(a, formats) = IF at = {} THEN 0 ELSE L + 1 - CHOOSE i \in at : TRUE
  BY DEF FormatRank
<1>2. CASE at = {}
  BY <1>1, <1>2 DEF Elements
<1>3. CASE at # {}
  <2>1. PICK i : i \in at /\ i = CHOOSE j \in at : TRUE
    BY <1>3
  <2>2. i \in 1..L /\ L \in Nat /\ formats[i] = a.format
    BY <2>1 DEF Ranking
  <2>3. FormatRank(a, formats) = L + 1 - i
    BY <1>1, <1>3, <2>1
  <2>4. \A j \in DOMAIN formats : formats[j] = a.format => j = i
    BY <2>1, <2>2 DEF Ranking
  <2>5. a.format \in Elements(formats)
    BY <2>1, <2>2 DEF Elements
  <2> HIDE DEF L
  <2>6. QED
    BY <2>2, <2>3, <2>4, <2>5 DEF L
<1>4. QED
  BY <1>2, <1>3

\* A greater rank is an earlier place, and an equal one the same format.
LEMMA RankOrders ==
  ASSUME NEW a, NEW b, NEW formats, Ranking(formats),
         FormatRank(a, formats) # 0, FormatRank(b, formats) # 0
  PROVE  /\ FormatRank(a, formats) > FormatRank(b, formats)
              <=> \E m, n \in DOMAIN formats :
                    m < n /\ formats[m] = a.format /\ formats[n] = b.format
         /\ FormatRank(a, formats) = FormatRank(b, formats) => a.format = b.format
<1>1. PICK i \in DOMAIN formats : formats[i] = a.format
  BY RankOfPlace DEF Elements
<1>2. PICK j \in DOMAIN formats : formats[j] = b.format
  BY RankOfPlace DEF Elements
<1>3. /\ FormatRank(a, formats) = Len(formats) + 1 - i
      /\ FormatRank(b, formats) = Len(formats) + 1 - j
  BY <1>1, <1>2, RankOfPlace
<1>4. i \in 1..Len(formats) /\ j \in 1..Len(formats) /\ Len(formats) \in Nat
  BY <1>1, <1>2 DEF Ranking
<1>5. \A m, n \in DOMAIN formats :
        formats[m] = a.format /\ formats[n] = b.format => m = i /\ n = j
  BY <1>1, <1>2 DEF Ranking
<1>6. FormatRank(a, formats) > FormatRank(b, formats) <=> i < j
  BY <1>3, <1>4
<1>7. FormatRank(a, formats) = FormatRank(b, formats) => i = j
  BY <1>3, <1>4
<1>8. QED
  BY <1>1, <1>2, <1>5, <1>6, <1>7

\* What is compared is a pair of natural numbers, in their dictionary order.
LEMMA PreferenceIs ==
  ASSUME NEW a, NEW formats, Ranking(formats)
  PROVE  /\ Preference(a, formats) = <<Cardinality(Scope(a)), FormatRank(a, formats)>>
         /\ Preference(a, formats) \in Nat \X Nat
         /\ Preference(a, formats)[2] # 0 <=> a.format \in Elements(formats)
BY ScopeIsFinite, RankOfPlace DEF Preference

LEMMA BelowIsLinear ==
  ASSUME NEW p \in Nat \X Nat, NEW q \in Nat \X Nat, NEW r \in Nat \X Nat
  PROVE  /\ Below(p, q) \/ p = q \/ Below(q, p)
         /\ ~Below(p, p)
         /\ Below(p, q) => ~Below(q, p)
         /\ ~Below(q, r) /\ Below(q, p) => Below(r, p)
<1>1. p = <<p[1], p[2]>> /\ q = <<q[1], q[2]>> /\ r = <<r[1], r[2]>>
  OBVIOUS
<1>2. /\ p[1] \in Nat /\ p[2] \in Nat /\ q[1] \in Nat /\ q[2] \in Nat
      /\ r[1] \in Nat /\ r[2] \in Nat
  OBVIOUS
<1>3. QED
  BY <1>1, <1>2 DEF Below

-----------------------------------------------------------------------------
(* What the loop has found.                                                *)

\* The positions up to n of what the host could take.
UsableTo(artifacts, n, h, v, formats) ==
    {i \in 1..n : Fits(artifacts[i], h, v) /\ FormatRank(artifacts[i], formats) # 0}

\* A usable artifact that is below no other, and whether it has an equal.
FoundAt(found, i, artifacts, n, h, v, formats) ==
    /\ i \in UsableTo(artifacts, n, h, v, formats)
    /\ found = [best |-> artifacts[i], tied |-> found.tied]
    /\ \A j \in UsableTo(artifacts, n, h, v, formats) :
         ~Below(Preference(artifacts[i], formats), Preference(artifacts[j], formats))
    /\ found.tied # Absent <=>
         \E j \in UsableTo(artifacts, n, h, v, formats) :
           j # i /\ Preference(artifacts[j], formats) = Preference(artifacts[i], formats)

FoundTo(found, artifacts, n, h, v, formats) ==
    \/ UsableTo(artifacts, n, h, v, formats) = {} /\ found = NothingFound
    \/ \E i : FoundAt(found, i, artifacts, n, h, v, formats)

\* One turn of the loop.
LEMMA WeighFinds ==
  ASSUME NEW artifacts, NEW h, NEW v, NEW formats, Ranking(formats), NEW found,
         NEW n \in Nat, n # 0, \A i \in 1..n : artifacts[i] # Absent,
         FoundTo(found, artifacts, n - 1, h, v, formats)
  PROVE  FoundTo(Weigh(found, artifacts[n], h, v, formats), artifacts, n, h, v, formats)
<1> DEFINE U == UsableTo(artifacts, n - 1, h, v, formats)
           V == UsableTo(artifacts, n, h, v, formats)
           Fit == Fits(artifacts[n], h, v) /\ FormatRank(artifacts[n], formats) # 0
           Pref(i) == Preference(artifacts[i], formats)
           weighed == Weigh(found, artifacts[n], h, v, formats)
<1>1. /\ U \subseteq 1..n /\ n \notin U /\ n \in 1..n
      /\ V = IF Fit THEN U \cup {n} ELSE U
  BY DEF UsableTo
<1>2. \A i \in 1..n : Pref(i) \in Nat \X Nat
  BY PreferenceIs
<1>3. CASE ~Fit
  <2>1. weighed = found
    BY <1>3 DEF Weigh
  <2>2. V = U
    BY <1>1, <1>3
  <2>3. QED
    BY <2>1, <2>2 DEF FoundTo, FoundAt
<1>4. CASE Fit /\ found = NothingFound /\ U = {}
  <2>1. weighed = [best |-> artifacts[n], tied |-> Absent]
    BY <1>4 DEF Weigh, NothingFound
  <2>2. V = {n}
    BY <1>1, <1>4
  <2>3. ~Below(Pref(n), Pref(n))
    BY <1>1, <1>2, BelowIsLinear
  <2> HIDE DEF U, V, Fit, weighed
  <2>4. weighed.tied = Absent /\ weighed = [best |-> artifacts[n], tied |-> weighed.tied]
    BY <2>1
  <2>5. FoundAt(weighed, n, artifacts, n, h, v, formats)
    BY <2>2, <2>3, <2>4 DEF FoundAt, V
  <2>6. QED
    BY <2>5 DEF FoundTo, weighed
<1>5. ASSUME Fit, NEW i, FoundAt(found, i, artifacts, n - 1, h, v, formats)
      PROVE  FoundTo(weighed, artifacts, n, h, v, formats)
  <2>1. /\ i \in U /\ i \in 1..n /\ i # n /\ V = U \cup {n}
        /\ found = [best |-> artifacts[i], tied |-> found.tied]
        /\ found.best = artifacts[i] /\ found.best # Absent
        /\ \A j \in U : ~Below(Pref(i), Pref(j))
        /\ found.tied # Absent <=> \E j \in U : j # i /\ Pref(j) = Pref(i)
    BY <1>1, <1>5 DEF FoundAt
  <2>2. Pref(i) \in Nat \X Nat /\ Pref(n) \in Nat \X Nat
    BY <1>1, <1>2, <2>1
  <2>3. CASE Below(Pref(n), Pref(i))
    <3>1. weighed = found
      BY <1>5, <2>1, <2>3 DEF Weigh
    <3>2. ~Below(Pref(i), Pref(n)) /\ Pref(n) # Pref(i)
      BY <2>2, <2>3, BelowIsLinear
    <3> HIDE DEF U, V, weighed, Pref
    <3>3. FoundAt(weighed, i, artifacts, n, h, v, formats)
      BY <2>1, <3>1, <3>2 DEF FoundAt, V, Pref
    <3>4. QED
      BY <3>3 DEF FoundTo, weighed
  <2>4. CASE Pref(n) = Pref(i)
    <3>1. ~Below(Pref(i), Pref(n))
      BY <2>2, <2>4, BelowIsLinear
    <3>2. weighed = [found EXCEPT !.tied = artifacts[n]]
      BY <1>5, <2>1, <2>4, <3>1 DEF Weigh
    <3>3. weighed.tied # Absent /\ weighed = [best |-> artifacts[i], tied |-> weighed.tied]
      BY <1>1, <2>1, <3>2
    <3> HIDE DEF U, V, weighed, Pref
    <3>4. FoundAt(weighed, i, artifacts, n, h, v, formats)
      BY <2>1, <2>4, <3>1, <3>3 DEF FoundAt, V, Pref
    <3>5. QED
      BY <3>4 DEF FoundTo, weighed
  <2>5. CASE ~Below(Pref(n), Pref(i)) /\ Pref(n) # Pref(i)
    <3>1. weighed = [best |-> artifacts[n], tied |-> Absent]
      BY <1>5, <2>1, <2>5 DEF Weigh
    <3>2. Below(Pref(i), Pref(n)) /\ ~Below(Pref(n), Pref(n))
      BY <2>2, <2>5, BelowIsLinear
    <3>3. ASSUME NEW j \in U PROVE ~Below(Pref(n), Pref(j)) /\ Pref(j) # Pref(n)
      <4>1. Pref(j) \in Nat \X Nat /\ ~Below(Pref(i), Pref(j))
        BY <1>1, <1>2, <2>1
      <4>2. Below(Pref(j), Pref(n))
        <5>1. CASE Pref(i) = Pref(j)
          BY <3>2, <5>1
        <5>2. CASE Pref(i) # Pref(j)
          BY <2>2, <3>2, <4>1, <5>2, BelowIsLinear DEF Below
        <5>3. QED
          BY <5>1, <5>2
      <4>3. QED
        BY <2>2, <4>1, <4>2, BelowIsLinear
    <3> HIDE DEF U, V, weighed, Pref
    <3>4. weighed.tied = Absent /\ weighed = [best |-> artifacts[n], tied |-> weighed.tied]
      BY <3>1
    <3>5. FoundAt(weighed, n, artifacts, n, h, v, formats)
      BY <2>1, <3>2, <3>3, <3>4 DEF FoundAt, V, Pref
    <3>6. QED
      BY <3>5 DEF FoundTo, weighed
  <2>6. QED
    BY <2>3, <2>4, <2>5
<1>6. QED
  BY <1>3, <1>4, <1>5 DEF FoundTo

LEMMA SelectFinds ==
  ASSUME NEW artifacts, NEW h, NEW v, NEW formats, Ranking(formats),
         Len(artifacts) \in Nat, \A i \in 1..Len(artifacts) : artifacts[i] # Absent
  PROVE  FoundTo(SelectArtifact(artifacts, h, v, formats),
                 artifacts, Len(artifacts), h, v, formats)
<1>1. PICK scan : /\ scan[0] = NothingFound
                  /\ \A n \in 1..Len(artifacts) :
                       scan[n] = Weigh(scan[n - 1], artifacts[n], h, v, formats)
                  /\ SelectArtifact(artifacts, h, v, formats) = scan[Len(artifacts)]
  BY SelectTakesTurns
<1> DEFINE S == {n \in Nat : n <= Len(artifacts) => FoundTo(scan[n], artifacts, n, h, v, formats)}
<1>2. 0 \in S
  <2>1. UsableTo(artifacts, 0, h, v, formats) = {}
    BY DEF UsableTo
  <2>2. QED
    BY <1>1, <2>1 DEF FoundTo
<1>3. ASSUME NEW n \in Nat, n \in S PROVE n + 1 \in S
  <2>1. SUFFICES ASSUME n + 1 <= Len(artifacts)
                 PROVE  FoundTo(scan[n + 1], artifacts, n + 1, h, v, formats)
    OBVIOUS
  <2> DEFINE m == n + 1
  <2>2. /\ m \in Nat /\ m # 0 /\ m - 1 = n /\ m \in 1..Len(artifacts)
        /\ 1..m \subseteq 1..Len(artifacts)
    BY <2>1
  <2> HIDE DEF m
  <2>3. FoundTo(scan[m - 1], artifacts, m - 1, h, v, formats)
    BY <1>3, <2>1, <2>2
  <2>4. scan[m] = Weigh(scan[m - 1], artifacts[m], h, v, formats)
    BY <1>1, <2>2
  <2>5. \A i \in 1..m : artifacts[i] # Absent
    BY <2>2
  <2>6. FoundTo(scan[m], artifacts, m, h, v, formats)
    BY <2>2, <2>3, <2>4, <2>5, WeighFinds
  <2>7. QED
    BY <2>6 DEF m
<1>4. \A n \in Nat : n \in S
  BY <1>2, <1>3, EveryNatural
<1>5. QED
  BY <1>1, <1>4

-----------------------------------------------------------------------------
(* What select_artifact returns, for the artifacts of a valid document.    *)

\* The artifacts of a document, none of them Absent.
Listed(d) ==
    /\ Len(d.artifacts) \in Nat /\ DOMAIN d.artifacts = 1..Len(d.artifacts)
    /\ \A i \in DOMAIN d.artifacts : d.artifacts[i] # Absent

LEMMA UsableAreUsableTo ==
  ASSUME NEW d, Listed(d), NEW h, NEW v
  PROVE  Usable(d.artifacts, h, v) = UsableTo(d.artifacts, Len(d.artifacts), h, v, Formats)
<1>1. \A i \in DOMAIN d.artifacts :
        FormatRank(d.artifacts[i], Formats) # 0 <=> d.artifacts[i].format \in Elements(Formats)
  BY FormatsAreARanking, RankOfPlace
<1>2. QED
  BY <1>1 DEF Listed, Usable, UsableTo

LEMMA BetterIsAbove ==
  ASSUME NEW a, NEW b, a.format \in Elements(Formats), b.format \in Elements(Formats)
  PROVE  Better(a, b) <=> Below(Preference(b, Formats), Preference(a, Formats))
<1> DEFINE p == Preference(a, Formats)
           q == Preference(b, Formats)
<1>1. FormatRank(a, Formats) # 0 /\ FormatRank(b, Formats) # 0
      /\ FormatRank(a, Formats) \in Nat /\ FormatRank(b, Formats) \in Nat
      /\ Cardinality(Scope(a)) \in Nat /\ Cardinality(Scope(b)) \in Nat
  BY FormatsAreARanking, RankOfPlace, ScopeIsFinite
<1>2. /\ p[1] = Cardinality(Scope(a)) /\ p[2] = FormatRank(a, Formats)
      /\ q[1] = Cardinality(Scope(b)) /\ q[2] = FormatRank(b, Formats)
  BY DEF Preference
<1>3. FormatRank(a, Formats) > FormatRank(b, Formats)
        <=> \E m, n \in DOMAIN Formats :
              m < n /\ Formats[m] = a.format /\ Formats[n] = b.format
  BY <1>1, FormatsAreARanking, RankOrders
<1> HIDE DEF p, q
<1>4. QED
  BY <1>1, <1>2, <1>3 DEF Better, Below, p, q

\* The artifact found in a document, by its position.
FoundIn(found, i, d, h, v) ==
    FoundAt(found, i, d.artifacts, Len(d.artifacts), h, v, Formats)

\* The artifacts that no other beats are the equals of the one found.
LEMMA TopIsFound ==
  ASSUME NEW d, Listed(d), NEW h, NEW v, NEW found, NEW i,
         FoundIn(found, i, d, h, v)
  PROVE  \A j : j \in Top(d.artifacts, h, v) <=>
           /\ j \in Usable(d.artifacts, h, v)
           /\ Preference(d.artifacts[j], Formats) = Preference(d.artifacts[i], Formats)
<1> DEFINE U == Usable(d.artifacts, h, v)
           Pref(j) == Preference(d.artifacts[j], Formats)
<1>1. i \in U /\ \A j \in U : ~Below(Pref(i), Pref(j))
  BY UsableAreUsableTo DEF FoundIn, FoundAt
<1>2. \A j \in U : d.artifacts[j].format \in Elements(Formats)
  BY DEF Usable
<1>3. \A j, k \in U : Better(d.artifacts[j], d.artifacts[k]) <=> Below(Pref(k), Pref(j))
  BY <1>2, BetterIsAbove
<1>4. \A j \in U : Pref(j) \in Nat \X Nat
  BY PreferenceIs, FormatsAreARanking
<1>5. Top(d.artifacts, h, v) = {j \in U : \A k \in U : ~Below(Pref(j), Pref(k))}
  BY <1>3 DEF Top
<1> HIDE DEF U, Pref
<1>6. ASSUME NEW j \in U
      PROVE  (\A k \in U : ~Below(Pref(j), Pref(k))) <=> Pref(j) = Pref(i)
  <2>1. Pref(i) \in Nat \X Nat /\ Pref(j) \in Nat \X Nat
    BY <1>1, <1>4
  <2>2. QED
    BY <1>1, <2>1, BelowIsLinear
<1>7. QED
  BY <1>5, <1>6 DEF U, Pref

\* Two usable artifacts that are equally good name different fields.
LEMMA EqualsDiffer ==
  ASSUME NEW d, Listed(d), ArtifactsOk(d), NEW h, NEW v,
         NEW i \in Usable(d.artifacts, h, v), NEW j \in Usable(d.artifacts, h, v), i # j,
         Preference(d.artifacts[i], Formats) = Preference(d.artifacts[j], Formats)
  PROVE  Scope(d.artifacts[i]) # Scope(d.artifacts[j])
<1> DEFINE a == d.artifacts[i]
           b == d.artifacts[j]
<1>1. /\ i \in DOMAIN d.artifacts /\ j \in DOMAIN d.artifacts
      /\ Fits(a, h, v) /\ Fits(b, h, v)
      /\ a.format \in Elements(Formats) /\ b.format \in Elements(Formats)
  BY DEF Usable
<1>2. a.format = b.format
  <2>1. FormatRank(a, Formats) # 0 /\ FormatRank(b, Formats) # 0
    BY <1>1, FormatsAreARanking, RankOfPlace
  <2>2. FormatRank(a, Formats) = FormatRank(b, Formats)
    BY DEF Preference
  <2>3. QED
    BY <2>1, <2>2, FormatsAreARanking, RankOrders
<1>3. ~SamePlatform(a, b)
  <2>1. i \in 1..Len(d.artifacts) /\ j \in 1..Len(d.artifacts) /\ Len(d.artifacts) \in Nat
    BY <1>1 DEF Listed
  <2>2. CASE i < j
    <3>1. i \in 1..(j - 1)
      BY <2>1, <2>2
    <3>2. QED
      BY <1>1, <3>1 DEF ArtifactsOk
  <2>3. CASE j < i
    <3>1. j \in 1..(i - 1)
      BY <2>1, <2>3
    <3>2. ~SamePlatform(b, a)
      BY <1>1, <3>1 DEF ArtifactsOk
    <3>3. QED
      BY <3>2 DEF SamePlatform
  <2>4. QED
    BY <2>1, <2>2, <2>3
<1> HIDE DEF a, b
<1>4. ASSUME Scope(a) = Scope(b) PROVE SamePlatform(a, b)
  <2>1. \A f \in {"os", "arch", "libc"} : a[f] # Absent <=> b[f] # Absent
    BY <1>4 DEF Scope
  <2>2. a.os = b.os /\ a.arch = b.arch /\ a.libc = b.libc
    BY <1>1, <2>1 DEF Fits
  <2>3. a.variant = b.variant
    BY <1>1 DEF Fits
  <2>4. QED
    BY <1>2, <2>2, <2>3 DEF SamePlatform
<1>5. QED
  BY <1>3, <1>4 DEF a, b

LEMMA TwoMembers ==
  ASSUME NEW S, IsFiniteSet(S), NEW x \in S, NEW y \in S, x # y
  PROVE  Cardinality(S) > 1
<1>1. IsFiniteSet({x}) /\ Cardinality({x}) = 1
  BY FS_Singleton
<1>2. IsFiniteSet({x} \cup {y}) /\ Cardinality({x} \cup {y}) = 2
  BY <1>1, FS_AddElement
<1>3. Cardinality({x} \cup {y}) <= Cardinality(S) /\ Cardinality(S) \in Nat
  BY <1>2, FS_Subset, FS_CardinalityType
<1>4. QED
  BY <1>2, <1>3

PositionOf(d, a) == CHOOSE i \in DOMAIN d.artifacts : d.artifacts[i] = a

LEMMA SelectIsBest ==
  ASSUME NEW d, Listed(d), ArtifactsOk(d), EnvelopeOk(d), NEW h, NEW v,
         NEW found, found = SelectArtifact(d.artifacts, h, v, Formats)
  PROVE  /\ found.best = Absent => Usable(d.artifacts, h, v) = {}
         /\ found.best # Absent /\ found.tied # Absent =>
              /\ Cardinality(Top(d.artifacts, h, v)) > 1
              /\ \A i, j \in Top(d.artifacts, h, v) :
                   i # j => Scope(d.artifacts[i]) # Scope(d.artifacts[j])
         /\ found.best # Absent /\ found.tied = Absent =>
              Top(d.artifacts, h, v) = {PositionOf(d, found.best)}
<1> DEFINE U == Usable(d.artifacts, h, v)
           T == Top(d.artifacts, h, v)
           Pref(j) == Preference(d.artifacts[j], Formats)
<1>1. FoundTo(found, d.artifacts, Len(d.artifacts), h, v, Formats)
  BY FormatsAreARanking, SelectFinds DEF Listed
<1>2. U = UsableTo(d.artifacts, Len(d.artifacts), h, v, Formats)
      /\ U \subseteq DOMAIN d.artifacts /\ T \subseteq U
  BY UsableAreUsableTo DEF Usable, Top
<1>3. CASE U = {} /\ found = NothingFound
  BY <1>3 DEF NothingFound
<1>4. ASSUME NEW i, FoundIn(found, i, d, h, v)
      PROVE  /\ found.best # Absent
             /\ found.tied # Absent =>
                  /\ Cardinality(T) > 1
                  /\ \A j, k \in T : j # k => Scope(d.artifacts[j]) # Scope(d.artifacts[k])
             /\ found.tied = Absent =>
                  T = {PositionOf(d, found.best)}
  <2>1. \A j : j \in T <=> j \in U /\ Pref(j) = Pref(i)
    BY <1>4, TopIsFound
  <2>2. /\ i \in U /\ found.best = d.artifacts[i]
        /\ found.tied # Absent <=> \E j \in U : j # i /\ Pref(j) = Pref(i)
    <3>1. found = [best |-> d.artifacts[i], tied |-> found.tied]
      BY <1>4 DEF FoundIn, FoundAt
    <3>2. found.best = d.artifacts[i]
      BY <3>1
    <3> HIDE DEF U
    <3>3. QED
      BY <1>2, <1>4, <3>2 DEF FoundIn, FoundAt
  <2>3. found.best # Absent /\ i \in DOMAIN d.artifacts /\ i \in T
    BY <1>2, <2>1, <2>2 DEF Listed
  <2>4. ASSUME found.tied # Absent PROVE Cardinality(T) > 1
    <3>1. PICK j \in U : j # i /\ Pref(j) = Pref(i)
      BY <2>2, <2>4
    <3>2. IsFiniteSet(DOMAIN d.artifacts)
      BY FS_Interval DEF Listed
    <3>3. IsFiniteSet(T)
      BY <1>2, <3>2, FS_Subset
    <3>4. QED
      BY <2>1, <2>3, <3>1, <3>3, TwoMembers
  <2>5. ASSUME NEW j \in T, NEW k \in T, j # k
        PROVE  Scope(d.artifacts[j]) # Scope(d.artifacts[k])
    <3>1. j \in U /\ k \in U /\ Pref(j) = Pref(k)
      BY <2>1
    <3>2. QED
      BY <2>5, <3>1, EqualsDiffer
  <2>6. ASSUME found.tied = Absent
        PROVE  T = {PositionOf(d, found.best)}
    <3>1. T = {i}
      BY <2>1, <2>2, <2>6
    <3>2. \A j \in DOMAIN d.artifacts : d.artifacts[j] = found.best <=> j = i
      BY <2>2, <2>3 DEF EnvelopeOk
    <3>3. PositionOf(d, found.best) = i
      BY <2>3, <3>2 DEF PositionOf
    <3>4. QED
      BY <3>1, <3>3
  <2>7. QED
    BY <2>3, <2>4, <2>5, <2>6
<1>5. QED
  BY <1>1, <1>2, <1>3, <1>4 DEF FoundTo, FoundIn

-----------------------------------------------------------------------------
(* Which resources go with an artifact.                                    *)

\* What a valid document is, as far as its resources ask: positions, entries
\* that follow the rules of their kind, and finitely many commands.
Provided(d) ==
    /\ DOMAIN d.resources = 1..Len(d.resources) /\ Len(d.resources) \in Nat
    /\ \A i \in DOMAIN d.resources : KindOk(d, d.resources[i])
    /\ IsFiniteSet(BinNames(d))

LEMMA SpecificityIs ==
  ASSUME NEW r
  PROVE  Specificity(r) \in 0..7
<1>1. Scope(r) \in SUBSET ({} \cup {"os"} \cup {"arch"} \cup {"libc"})
  BY DEF Scope
<1>2. IsFiniteSet({}) /\ Cardinality({}) = 0
  BY FS_EmptySet
<1>3. IsFiniteSet({} \cup {"os"}) /\ Cardinality({} \cup {"os"}) = 1
  BY <1>2, FS_AddElement
<1>4. IsFiniteSet({} \cup {"os"} \cup {"arch"})
      /\ Cardinality({} \cup {"os"} \cup {"arch"}) = 2
  BY <1>3, FS_AddElement
<1>5. IsFiniteSet({} \cup {"os"} \cup {"arch"} \cup {"libc"})
      /\ Cardinality({} \cup {"os"} \cup {"arch"} \cup {"libc"}) = 3
  BY <1>4, FS_AddElement
<1>6. Cardinality(Scope(r)) <= 3
  BY <1>1, <1>5, FS_Subset
<1>7. QED
  BY <1>6, ScopeIsFinite DEF Specificity

\* Some of the positions in a set hold an entry that none there is more
\* specific than.
LEMMA SomeIsMostSpecific ==
  ASSUME NEW rs, NEW F, F # {}
  PROVE  \E k \in F : \A j \in F : Specificity(rs[j]) <= Specificity(rs[k])
<1> DEFINE T == {7 - Specificity(rs[j]) : j \in F}
           R == OpToRel(<, Nat)
<1>1. T \subseteq Nat /\ T # {}
  BY SpecificityIs
<1>2. PICK x \in T : \A y \in T : ~(<<y, x>> \in R)
  BY <1>1, NatLessThanWellFounded, WFMin, Zenon
<1>3. PICK k \in F : x = 7 - Specificity(rs[k])
  OBVIOUS
<1>4. ASSUME NEW j \in F PROVE Specificity(rs[j]) <= Specificity(rs[k])
  <2> DEFINE y == 7 - Specificity(rs[j])
  <2>1. y \in T /\ y \in Nat /\ x \in Nat
    BY <1>1
  <2>2. ~(y < x)
    BY <1>2, <2>1 DEF OpToRel
  <2>3. Specificity(rs[j]) \in 0..7 /\ Specificity(rs[k]) \in 0..7
    BY SpecificityIs
  <2>4. QED
    BY <1>3, <2>2, <2>3
<1>5. QED
  BY <1>4

\* A completion is for one command, which the release provides.
LEMMA OneCommand ==
  ASSUME NEW d, Provided(d), NEW r, KindOk(d, r), r.kind = "completion"
  PROVE  /\ Cardinality(CommandOf(d, r)) <= 1
         /\ CommandOf(d, r) \subseteq BinNames(d)
         /\ \A b, c \in CommandOf(d, r) : b = c
<1>1. CASE Present(r, "bin")
  <2>1. CommandOf(d, r) = {r.bin} /\ r.bin \in BinNames(d)
    BY <1>1 DEF CommandOf, KindOk
  <2>2. Cardinality({r.bin}) = 1
    BY FS_Singleton
  <2>3. QED
    BY <2>1, <2>2
<1>2. CASE ~Present(r, "bin")
  <2>1. CommandOf(d, r) = BinNames(d) /\ Cardinality(BinNames(d)) <= 1
    BY <1>2 DEF CommandOf, KindOk
  <2>2. IsFiniteSet(BinNames(d)) /\ Cardinality(BinNames(d)) \in Nat
    BY FS_CardinalityType DEF Provided
  <2>3. \A b, c \in BinNames(d) : b = c
    BY <2>1, <2>2, TwoMembers
  <2>4. QED
    BY <2>1, <2>3
<1>3. QED
  BY <1>1, <1>2

\* What a completion is an entry for: its command in each of its shells.
LEMMA CompletionIdentities ==
  ASSUME NEW d, Provided(d), NEW r, KindOk(d, r), r.kind = "completion",
         NEW c \in CommandOf(d, r), NEW s \in ShellsOf(r)
  PROVE  IdentitiesFor(r, SoleBin(d)) = {<<"completion", c, t>> : t \in ShellsOf(r)}
<1>1. c = IF Present(r, "bin") THEN r.bin ELSE SoleBin(d)
  <2>1. CASE Present(r, "bin")
    BY <2>1 DEF CommandOf
  <2>2. CASE ~Present(r, "bin")
    <3>1. BinNames(d) = {c}
      <4>1. CommandOf(d, r) = BinNames(d)
        BY <2>2 DEF CommandOf
      <4>2. \A b \in CommandOf(d, r) : b = c
        BY OneCommand
      <4>3. QED
        BY <4>1, <4>2
    <3>2. Cardinality(BinNames(d)) = 1
      BY <3>1, FS_Singleton
    <3>3. SoleBin(d) = c
      BY <3>1, <3>2 DEF SoleBin
    <3>4. QED
      BY <2>2, <3>3
  <2>3. QED
    BY <2>1, <2>2
<1>2. ShellsOf(r) # {}
  OBVIOUS
<1>3. QED
  BY <1>1, <1>2 DEF IdentitiesFor, ShellsOf

LEMMA TopicIsIdentity ==
  ASSUME NEW d, Provided(d), NEW r, KindOk(d, r), r.kind = "completion",
         NEW c \in CommandOf(d, r), NEW s \in ShellsOf(r)
  PROVE  <<"completion", c, s>> \in IdentitiesFor(r, SoleBin(d))
BY CompletionIdentities

\* No entry of another kind is for a command in a shell, and a completion is
\* for its own.
LEMMA IdentityIsTopic ==
  ASSUME NEW d, NEW r, NEW c \in BinNames(d), NEW s,
         <<"completion", c, s>> \in IdentitiesFor(r, SoleBin(d))
  PROVE  r.kind = "completion" /\ c \in CommandOf(d, r) /\ s \in ShellsOf(r)
<1> DEFINE bin == IF Present(r, "bin") THEN r.bin ELSE SoleBin(d)
           id == <<"completion", c, s>>
<1>1. \A x, y : id # <<x, y>>
  OBVIOUS
<1>2. \A x, y, z : id = <<x, y, z>> => x = "completion" /\ y = c /\ z = s
  OBVIOUS
<1>3. CASE r.kind = "completion"
  <2>1. ShellsOf(r) # {} /\ id \in {<<r.kind, bin, t>> : t \in ShellsOf(r)}
    BY <1>1, <1>3 DEF IdentitiesFor, ShellsOf
  <2>2. bin = c /\ s \in ShellsOf(r)
    BY <1>2, <2>1
  <2>3. QED
    BY <1>3, <2>2 DEF CommandOf
<1>4. CASE r.kind # "completion"
  <2>1. \/ r.kind = "cli-spec" /\ id = <<r.kind, r.format, r.bin>>
        \/ id = <<r.kind, r.name>>
        \/ id = <<r.kind, r.format>>
        \/ \E x : id = <<r.kind, bin, x>>
    BY <1>4 DEF IdentitiesFor
  <2>2. QED
    BY <1>1, <1>2, <1>4, <2>1
<1>5. QED
  BY <1>3, <1>4

\* The entries for a thing that fit an artifact, and the best of them.
FittingFor(d, a, id) ==
    {i \in DOMAIN d.resources : /\ id \in IdentitiesFor(d.resources[i], SoleBin(d))
                                /\ ResourceFits(d.resources[i], a)}

MostSpecific(d, a, k, id) ==
    /\ k \in FittingFor(d, a, id)
    /\ \A j \in FittingFor(d, a, id) :
         Specificity(d.resources[j]) <= Specificity(d.resources[k])

LEMMA SelectedAre ==
  ASSUME NEW d, NEW a
  PROVE  \A k : k \in SelectResources(d, a) <=> \E id : MostSpecific(d, a, k, id)
<1> DEFINE Of(i) == IdentitiesFor(d.resources[i], SoleBin(d))
           Best(id) == {i \in FittingFor(d, a, id) :
                          \A j \in FittingFor(d, a, id) :
                            Specificity(d.resources[j]) <= Specificity(d.resources[i])}
<1>1. SelectResources(d, a) = UNION {Best(id) : id \in UNION {Of(i) : i \in DOMAIN d.resources}}
  BY DEF SelectResources, FittingFor
<1>2. \A k, id : k \in Best(id) <=> MostSpecific(d, a, k, id)
  BY DEF MostSpecific
<1>3. \A k, id : MostSpecific(d, a, k, id) => id \in UNION {Of(i) : i \in DOMAIN d.resources}
  BY DEF MostSpecific, FittingFor
<1> HIDE DEF Of, Best
<1>4. QED
  BY <1>1, <1>2, <1>3

\* For each topic of an entry that fits, one as specific is selected.
LEMMA TopicsAreKept ==
  ASSUME NEW d, Provided(d), NEW a, NEW i \in Completions(d),
         ResourceFits(d.resources[i], a), NEW t \in Topic(d, d.resources[i])
  PROVE  \E k \in SelectResources(d, a) :
           /\ t \in Topic(d, d.resources[k])
           /\ Specificity(d.resources[k]) >= Specificity(d.resources[i])
<1>1. /\ i \in DOMAIN d.resources /\ d.resources[i].kind = "completion"
      /\ KindOk(d, d.resources[i])
  BY DEF Completions, Provided
<1>2. PICK c \in CommandOf(d, d.resources[i]), s \in ShellsOf(d.resources[i]) :
        t = <<"completion", c, s>>
  BY <1>1 DEF Topic
<1>3. i \in FittingFor(d, a, t)
  BY <1>1, <1>2, TopicIsIdentity DEF FittingFor
<1>4. PICK k \in FittingFor(d, a, t) :
        \A j \in FittingFor(d, a, t) :
          Specificity(d.resources[j]) <= Specificity(d.resources[k])
  BY <1>3, SomeIsMostSpecific
<1>5. k \in SelectResources(d, a)
  BY <1>4, SelectedAre DEF MostSpecific
<1>6. t \in IdentitiesFor(d.resources[k], SoleBin(d)) /\ c \in BinNames(d)
  BY <1>1, <1>4, OneCommand DEF FittingFor
<1>7. /\ d.resources[k].kind = "completion"
      /\ c \in CommandOf(d, d.resources[k]) /\ s \in ShellsOf(d.resources[k])
  BY <1>2, <1>6, IdentityIsTopic
<1>8. t \in Topic(d, d.resources[k])
  BY <1>2, <1>7 DEF Topic
<1>9. Specificity(d.resources[k]) >= Specificity(d.resources[i])
  <2>1. Specificity(d.resources[i]) <= Specificity(d.resources[k])
    BY <1>3, <1>4
  <2>2. Specificity(d.resources[i]) \in 0..7 /\ Specificity(d.resources[k]) \in 0..7
    BY SpecificityIs
  <2>3. QED
    BY <2>1, <2>2
<1>10. QED
  BY <1>5, <1>8, <1>9

\* A selected completion is no more specific than one for the same topics.
LEMMA RivalsAreEqual ==
  ASSUME NEW d, Provided(d), NEW a,
         NEW k \in SelectResources(d, a) \cap Completions(d),
         NEW l \in SelectResources(d, a) \cap Completions(d),
         Topic(d, d.resources[k]) = Topic(d, d.resources[l]),
         Topic(d, d.resources[k]) # {}
  PROVE  Specificity(d.resources[l]) <= Specificity(d.resources[k])
<1>1. /\ k \in DOMAIN d.resources /\ d.resources[k].kind = "completion"
      /\ l \in DOMAIN d.resources /\ d.resources[l].kind = "completion"
      /\ KindOk(d, d.resources[k]) /\ KindOk(d, d.resources[l])
  BY DEF Completions, Provided
<1>2. PICK id : MostSpecific(d, a, k, id)
  BY SelectedAre
<1>3. ResourceFits(d.resources[l], a)
  <2>1. PICK id2 : MostSpecific(d, a, l, id2)
    BY SelectedAre
  <2>2. QED
    BY <2>1 DEF MostSpecific, FittingFor
<1>4. id \in Topic(d, d.resources[k])
  <2>1. PICK c \in CommandOf(d, d.resources[k]), s \in ShellsOf(d.resources[k]) : TRUE
    BY DEF Topic
  <2>2. IdentitiesFor(d.resources[k], SoleBin(d))
          = {<<"completion", c, t>> : t \in ShellsOf(d.resources[k])}
    BY <1>1, <2>1, CompletionIdentities
  <2>3. id \in IdentitiesFor(d.resources[k], SoleBin(d))
    BY <1>2 DEF MostSpecific, FittingFor
  <2>4. QED
    BY <1>1, <2>1, <2>2, <2>3 DEF Topic
<1>5. PICK c \in CommandOf(d, d.resources[l]), s \in ShellsOf(d.resources[l]) :
        id = <<"completion", c, s>>
  BY <1>1, <1>4 DEF Topic
<1>6. l \in FittingFor(d, a, id)
  BY <1>1, <1>3, <1>5, TopicIsIdentity DEF FittingFor
<1>7. QED
  BY <1>2, <1>6 DEF MostSpecific

-----------------------------------------------------------------------------
(* The inductive invariant.                                                *)

Described == {Describe(input) : input \in Inputs}
Supplied == {[r EXCEPT !.url = u] : r \in Extras, u \in BOOLEAN}
FileNames == {f.file : f \in AssetFiles \cup Inputs}

Creating == {"request", "artifacts", "resources", "created", "refused"}
Taken == {"chosen", "incompatible", "installed", "installed anyway"}

TypeOK ==
    /\ phase \in Creating \cup Taken \cup {"no match", "ambiguous"}
    /\ doc \in [artifacts : Seq(Described), resources : Seq(Supplied),
                subject : SUBSET FileNames, commit : BOOLEAN]
    /\ origin \in Seq(Inputs) /\ Len(origin) = Len(doc.artifacts)
    /\ \A i \in DOMAIN origin : doc.artifacts[i] = Describe(origin[i])

\* A host looks at a release only when it is created, and then takes one of
\* its artifacts.
InOrder ==
    /\ phase \in Creating => host = Absent
    /\ phase \notin Creating => host \in Hosts
    /\ phase \in Taken \cup {"created", "no match", "ambiguous"} => Validate(doc)
    /\ phase \in Taken => chosen \in DOMAIN doc.artifacts

IInv ==
    /\ TypeOK /\ InOrder
    /\ SelectionIsBest /\ LibrariesPresent /\ ReportedIsMissing

-----------------------------------------------------------------------------
(* What the invariant says of the document.                                *)

LEMMA DocumentIsListed ==
  ASSUME TypeOK
  PROVE  Listed(doc)
<1>1. doc.artifacts \in Seq(Described)
  BY DEF TypeOK
<1>2. Absent \notin Described
  BY DescriptionsAreGiven DEF Described
<1>3. QED
  BY <1>1, <1>2 DEF Listed

LEMMA DocumentIsProvided ==
  ASSUME TypeOK, Validate(doc)
  PROVE  Provided(doc)
<1>1. /\ DOMAIN doc.resources = 1..Len(doc.resources) /\ Len(doc.resources) \in Nat
      /\ DOMAIN doc.artifacts = 1..Len(doc.artifacts) /\ Len(doc.artifacts) \in Nat
      /\ \A i \in DOMAIN doc.artifacts : doc.artifacts[i] \in Described
  <2>1. doc.artifacts \in Seq(Described) /\ doc.resources \in Seq(Supplied)
    BY DEF TypeOK
  <2>2. QED
    BY <2>1
<1>2. \A i \in DOMAIN doc.resources : KindOk(doc, doc.resources[i])
  BY DEF Validate
<1>3. IsFiniteSet(BinNames(doc))
  <2> DEFINE B == {doc.artifacts[i].bin : i \in DOMAIN doc.artifacts}
             bins == [i \in DOMAIN doc.artifacts |-> doc.artifacts[i].bin]
  <2>1. IsFiniteSet(B)
    <3>1. IsFiniteSet(DOMAIN doc.artifacts)
      BY <1>1, FS_Interval
    <3>2. bins \in Surjection(DOMAIN doc.artifacts, B)
      BY DEF Surjection
    <3>3. QED
      BY <3>1, <3>2, FS_Surjection
  <2>2. \A S \in B : IsFiniteSet(S)
    <3>1. SUFFICES ASSUME NEW i \in DOMAIN doc.artifacts
                   PROVE  IsFiniteSet(doc.artifacts[i].bin)
      OBVIOUS
    <3>2. PICK input \in Inputs : doc.artifacts[i] = Describe(input)
      BY <1>1 DEF Described
    <3>3. doc.artifacts[i].bin = Bins(input)
      BY <3>2 DEF Describe
    <3>4. QED
      BY <3>3, InputsComplete DEF Bins
  <2> HIDE DEF B
  <2>3. IsFiniteSet(UNION B)
    BY <2>1, <2>2, FS_UNION
  <2>4. QED
    BY <2>3 DEF BinNames, B
<1>4. QED
  BY <1>1, <1>2, <1>3 DEF Provided

\* Among the resources for an artifact every completion has the best entry.
LEMMA CreatedHasOneEntry ==
  ASSUME TypeOK, InOrder
  PROVE  OneEntryPerThing
<1>1. SUFFICES ASSUME phase = "created" PROVE OneEntryPerThing
  BY DEF OneEntryPerThing
<1>2. Provided(doc)
  BY <1>1, DocumentIsProvided DEF InOrder
<1> DEFINE rs == doc.resources
<1>3. \A i \in Completions(doc) : Cardinality(CommandOf(doc, rs[i])) <= 1
  BY <1>2, OneCommand DEF Completions, Provided
<1>4. ASSUME NEW a, NEW i \in Completions(doc), ResourceFits(rs[i], a),
             NEW t \in Topic(doc, rs[i])
      PROVE  \E k \in SelectResources(doc, a) :
               t \in Topic(doc, rs[k]) /\ Specificity(rs[k]) >= Specificity(rs[i])
  BY <1>2, <1>4, TopicsAreKept
<1>5. ASSUME NEW a, NEW k \in SelectResources(doc, a) \cap Completions(doc),
             NEW l \in SelectResources(doc, a) \cap Completions(doc),
             Topic(doc, rs[k]) = Topic(doc, rs[l]), Topic(doc, rs[k]) # {}
      PROVE  Specificity(rs[k]) = Specificity(rs[l])
  <2>1. /\ Specificity(rs[l]) <= Specificity(rs[k])
        /\ Specificity(rs[k]) <= Specificity(rs[l])
    BY <1>2, <1>5, RivalsAreEqual
  <2>2. Specificity(rs[k]) \in 0..7 /\ Specificity(rs[l]) \in 0..7
    BY SpecificityIs
  <2>3. QED
    BY <2>1, <2>2
<1> HIDE DEF rs
<1>6. QED
  BY <1>3, <1>4, <1>5 DEF OneEntryPerThing, rs

-----------------------------------------------------------------------------
(* The steps.                                                              *)

\* While a release is created no host has looked at it.
LEMMA CreatingIsQuiet ==
  ASSUME phase' \in Creating, host' = Absent, phase' = "created" => Validate(doc)'
  PROVE  (InOrder /\ SelectionIsBest /\ LibrariesPresent /\ ReportedIsMissing)'
BY DEF Creating, Taken, InOrder, SelectionIsBest, LibrariesPresent, ReportedIsMissing

LEMMA InitInv == Init => IInv
<1>1. SUFFICES ASSUME Init PROVE IInv
  OBVIOUS
<1>2. TypeOK
  <2>1. doc \in [artifacts : Seq(Described), resources : Seq(Supplied),
                 subject : SUBSET FileNames, commit : BOOLEAN]
    BY <1>1 DEF Init
  <2>2. phase \in Creating /\ Len(doc.artifacts) = 0
    BY <1>1 DEF Init, Creating
  <2>3. origin \in Seq(Inputs) /\ Len(origin) = 0 /\ DOMAIN origin = {}
    BY <1>1 DEF Init
  <2>4. QED
    BY <2>1, <2>2, <2>3 DEF TypeOK
<1>3. InOrder /\ SelectionIsBest /\ LibrariesPresent /\ ReportedIsMissing
  BY <1>1 DEF Init, Creating, Taken, InOrder, SelectionIsBest, LibrariesPresent,
              ReportedIsMissing
<1>4. QED
  BY <1>2, <1>3 DEF IInv

LEMMA RefuseKeeps ==
  ASSUME IInv, phase \in Creating, Refuse
  PROVE  IInv'
<1>1. phase' = "refused" /\ doc' = doc /\ origin' = origin /\ host' = host
  BY DEF Refuse
<1>2. host' = Absent
  BY <1>1 DEF IInv, InOrder
<1>3. TypeOK'
  BY <1>1 DEF IInv, TypeOK, Creating
<1>4. QED
  BY <1>1, <1>2, <1>3, CreatingIsQuiet DEF IInv, Creating

LEMMA RequestKeeps ==
  ASSUME IInv, NEW files \in SUBSET AssetFiles, NEW commit \in BOOLEAN,
         Request(files, commit)
  PROVE  IInv'
<1>1. phase \in Creating
  BY DEF Request, Creating
<1>2. CASE Refuse
  BY <1>1, <1>2, RefuseKeeps
<1>3. CASE ~Refuse
  <2>1. /\ phase' = "artifacts" /\ host' = host /\ origin' = origin
        /\ doc' = [doc EXCEPT !.subject = {f.file : f \in files}, !.commit = commit]
    BY <1>3 DEF Request
  <2>2. {f.file : f \in files} \in SUBSET FileNames
    BY DEF FileNames
  <2> HIDE DEF FileNames
  <2>3. /\ doc' \in [artifacts : Seq(Described), resources : Seq(Supplied),
                     subject : SUBSET FileNames, commit : BOOLEAN]
        /\ doc'.artifacts = doc.artifacts
    BY <2>1, <2>2 DEF IInv, TypeOK
  <2>4. TypeOK'
    BY <2>1, <2>3 DEF IInv, TypeOK, Creating
  <2>5. QED
    BY <1>1, <2>1, <2>4, CreatingIsQuiet DEF IInv, InOrder, Creating
<1>4. QED
  BY <1>2, <1>3

LEMMA AddArtifactKeeps ==
  ASSUME IInv, NEW input \in Inputs, AddArtifact(input)
  PROVE  IInv'
<1>1. phase \in Creating /\ phase = "artifacts"
  BY DEF AddArtifact, Creating
<1>2. CASE Refuse
  BY <1>1, <1>2, RefuseKeeps
<1>3. CASE ~Refuse
  <2>1. /\ phase' = phase /\ host' = host /\ origin' = Append(origin, input)
        /\ doc' = [doc EXCEPT !.artifacts = Append(@, Describe(input)),
                              !.subject = @ \cup {input.file}]
    BY <1>3 DEF AddArtifact
  <2>2. /\ doc \in [artifacts : Seq(Described), resources : Seq(Supplied),
                    subject : SUBSET FileNames, commit : BOOLEAN]
        /\ origin \in Seq(Inputs) /\ Len(origin) = Len(doc.artifacts)
        /\ \A i \in DOMAIN origin : doc.artifacts[i] = Describe(origin[i])
    BY DEF IInv, TypeOK
  <2>3. Describe(input) \in Described /\ input.file \in FileNames
    BY DEF Described, FileNames
  <2>4. /\ Append(doc.artifacts, Describe(input)) \in Seq(Described)
        /\ doc.subject \cup {input.file} \in SUBSET FileNames
    BY <2>2, <2>3
  <2>5. /\ doc' \in [artifacts : Seq(Described), resources : Seq(Supplied),
                     subject : SUBSET FileNames, commit : BOOLEAN]
        /\ doc'.artifacts = Append(doc.artifacts, Describe(input))
    BY <2>1, <2>2, <2>4
  <2>6. origin' \in Seq(Inputs) /\ Len(origin') = Len(doc'.artifacts)
    BY <2>1, <2>2, <2>3, <2>5
  <2>7. ASSUME NEW i \in DOMAIN origin' PROVE doc'.artifacts[i] = Describe(origin'[i])
    <3>1. doc.artifacts \in Seq(Described) /\ i \in 1..(Len(origin) + 1)
      BY <2>1, <2>2
    <3>2. CASE i = Len(origin) + 1
      BY <2>1, <2>2, <2>5, <3>1, <3>2
    <3>3. CASE i \in 1..Len(origin)
      BY <2>1, <2>2, <2>5, <3>1, <3>3
    <3>4. QED
      BY <2>2, <3>1, <3>2, <3>3
  <2>8. TypeOK'
    BY <1>1, <2>1, <2>5, <2>6, <2>7 DEF TypeOK
  <2>9. QED
    BY <1>1, <2>1, <2>8, CreatingIsQuiet DEF IInv, InOrder, Creating
<1>4. QED
  BY <1>2, <1>3

LEMMA AddResourceKeeps ==
  ASSUME IInv, NEW r \in Extras, AddResource(r)
  PROVE  IInv'
<1>1. /\ phase \in Creating /\ phase' = "resources" /\ host' = host /\ origin' = origin
      /\ doc' = [doc EXCEPT !.resources =
                   Append(@, [r EXCEPT !.url = @ \/ r.asset \in assets])]
  BY DEF AddResource, Creating
<1>2. [r EXCEPT !.url = @ \/ r.asset \in assets] \in Supplied
  <2> DEFINE u == r.url \/ r.asset \in assets
  <2>1. u \in BOOLEAN /\ [r EXCEPT !.url = @ \/ r.asset \in assets] = [r EXCEPT !.url = u]
    OBVIOUS
  <2> HIDE DEF u
  <2>2. QED
    BY <2>1 DEF Supplied
<1>3. /\ doc' \in [artifacts : Seq(Described), resources : Seq(Supplied),
                   subject : SUBSET FileNames, commit : BOOLEAN]
      /\ doc'.artifacts = doc.artifacts
  <2> DEFINE e == [r EXCEPT !.url = @ \/ r.asset \in assets]
  <2>1. doc \in [artifacts : Seq(Described), resources : Seq(Supplied),
                 subject : SUBSET FileNames, commit : BOOLEAN]
    BY DEF IInv, TypeOK
  <2>2. e \in Supplied /\ doc' = [doc EXCEPT !.resources = Append(@, e)]
    BY <1>1, <1>2
  <2> HIDE DEF e
  <2>3. Append(doc.resources, e) \in Seq(Supplied)
    BY <2>1, <2>2
  <2>4. QED
    BY <2>1, <2>2, <2>3
<1>4. TypeOK'
  BY <1>1, <1>3 DEF IInv, TypeOK, Creating
<1>5. QED
  BY <1>1, <1>4, CreatingIsQuiet DEF IInv, InOrder, Creating

LEMMA CreateKeeps ==
  ASSUME IInv, Create
  PROVE  IInv'
<1>1. phase \in Creating
  BY DEF Create, Creating
<1>2. CASE Refuse
  BY <1>1, <1>2, RefuseKeeps
<1>3. CASE ~Refuse
  <2>1. Validate(doc) /\ phase' = "created" /\ doc' = doc /\ origin' = origin /\ host' = host
    BY <1>3 DEF Create
  <2>2. TypeOK'
    BY <2>1 DEF IInv, TypeOK, Creating
  <2>3. Validate(doc)'
    BY <2>1
  <2>4. QED
    BY <1>1, <2>1, <2>2, <2>3, CreatingIsQuiet DEF IInv, InOrder, Creating
<1>4. QED
  BY <1>2, <1>3

\* The host takes what no other artifact beats or equals.
LEMMA SelectKeeps ==
  ASSUME IInv, NEW h \in Hosts, NEW v \in Variants, Select(h, v)
  PROVE  IInv'
<1> DEFINE found == SelectArtifact(doc.artifacts, Detect(h), v, Formats)
           top == Top(doc.artifacts, Detect(h), v)
           usable == Usable(doc.artifacts, Detect(h), v)
<1>1. /\ phase = "created" /\ doc' = doc /\ origin' = origin /\ host' = h /\ variant' = v
      /\ phase' = IF found.best = Absent THEN "no match"
                  ELSE IF found.tied # Absent THEN "ambiguous" ELSE "chosen"
      /\ chosen' = IF found.best = Absent THEN 0
                   ELSE PositionOf(doc, found.best)
  BY DEF Select, PositionOf
<1>2. TypeOK /\ Validate(doc)
  BY <1>1 DEF IInv, InOrder
<1>3. Listed(doc) /\ ArtifactsOk(doc) /\ EnvelopeOk(doc)
  BY <1>2, DocumentIsListed DEF Validate
<1>4. /\ found.best = Absent => usable = {}
      /\ found.best # Absent /\ found.tied # Absent =>
           /\ Cardinality(top) > 1
           /\ \A i, j \in top : i # j => Scope(doc.artifacts[i]) # Scope(doc.artifacts[j])
      /\ found.best # Absent /\ found.tied = Absent =>
           top = {PositionOf(doc, found.best)}
  BY <1>3, SelectIsBest
<1>5. top \subseteq DOMAIN doc.artifacts
  BY DEF Top, Usable
<1>6. /\ Usable(doc.artifacts, Detect(host), variant)' = usable
      /\ Top(doc.artifacts, Detect(host), variant)' = top
  BY <1>1
<1> HIDE DEF found, top, usable
<1>7. TypeOK'
  BY <1>1, <1>2 DEF TypeOK, Taken
<1>8. /\ phase' = "no match" => usable = {}
      /\ phase' = "ambiguous" =>
           /\ Cardinality(top) > 1
           /\ \A i, j \in top : i # j => Scope(doc.artifacts[i]) # Scope(doc.artifacts[j])
      /\ phase' \notin {"no match", "ambiguous"} => phase' = "chosen" /\ top = {chosen'}
  BY <1>1, <1>4
<1>9. phase' = "chosen" => chosen' \in DOMAIN doc.artifacts
  BY <1>5, <1>8
<1>10. InOrder'
  BY <1>1, <1>2, <1>9 DEF InOrder, Creating, Taken
<1>11. SelectionIsBest'
  <2>1. CASE phase' = "no match"
    BY <1>1, <1>6, <1>8, <2>1 DEF SelectionIsBest
  <2>2. CASE phase' = "ambiguous"
    BY <1>1, <1>6, <1>8, <2>2 DEF SelectionIsBest
  <2>3. CASE phase' \notin {"no match", "ambiguous"}
    BY <1>1, <1>6, <1>8, <2>3 DEF SelectionIsBest
  <2>4. QED
    BY <2>1, <2>2, <2>3
<1>12. (LibrariesPresent /\ ReportedIsMissing)'
  BY <1>1 DEF LibrariesPresent, ReportedIsMissing
<1>13. QED
  BY <1>7, <1>10, <1>11, <1>12 DEF IInv

\* What is required of the host names the libraries that the executables load.
LEMMA LibrariesAreRequired ==
  ASSUME NEW input \in Inputs, ReadExecutables(input, Bins(input)) # Absent,
         ~(input.seen.kinds \subseteq {"script"})
  PROVE  /\ RequiresOf(input) # Absent
         /\ RequiresOf(input).libs = HostLibraries(input.seen)
         /\ RequiresOf(input).libs # Absent
<1> DEFINE seen == input.seen
           base == IF Requirements(input) = Absent THEN NoRequirements
                   ELSE Requirements(input)
           bin == IF Bins(input) = {} THEN base.bin ELSE base.bin \cup Defaults.commands
           full == [base EXCEPT !.libs = HostLibraries(seen), !.bin = bin]
<1>1. ReadExecutables(input, Bins(input)) = seen /\ seen # Absent
  BY DEF ReadExecutables
<1>2. HostLibraries(seen) # Absent
  BY <1>1, DescriptionsAreGiven
<1>3. FullRequires(input) = full
  BY <1>1, <1>2 DEF FullRequires
<1>4. DOMAIN base = RequiresFields
  BY InputsComplete DEF Requirements, NoRequirements, RequiresFields
<1>5. full.libs = HostLibraries(seen)
  BY <1>4 DEF RequiresFields
<1>6. full # NoRequirements
  BY <1>2, <1>5 DEF NoRequirements
<1> HIDE DEF full
<1>7. RequiresOf(input) = full /\ full # Absent
  BY <1>3, <1>6, DescriptionsAreGiven DEF RequiresOf
<1>8. QED
  BY <1>2, <1>5, <1>7

\* A library is missing only where the host could see all its libraries.
LEMMA LibraryIs ==
  ASSUME NEW lib
  PROVE  /\ Library(lib) = "no" => lib \notin Available
         /\ Library(lib) = "yes" => lib \in Available
         /\ LoaderCache # Absent => Library(lib) \in {"yes", "no"}
<1> DEFINE seen == \E f \in host.dirs : LibraryMatches(f, lib)
           cached == \E f \in host.cache : LibraryMatches(f, lib)
<1>1. LoaderCache # Absent => LoaderCache = host.cache
  BY DEF LoaderCache
<1>2. Library(lib) = IF seen THEN "yes" ELSE IF LoaderCache = Absent THEN "unknown"
                     ELSE IF \E f \in LoaderCache : LibraryMatches(f, lib) THEN "yes" ELSE "no"
  BY DEF Library
<1>3. lib \in Available <=> seen \/ cached
  BY DEF Available, LibraryMatches
<1> HIDE DEF seen, cached
<1>4. CASE LoaderCache = Absent
  BY <1>2, <1>3, <1>4
<1>5. CASE LoaderCache # Absent
  <2>1. (\E f \in LoaderCache : LibraryMatches(f, lib)) <=> cached
    BY <1>1, <1>5 DEF cached
  <2>2. QED
    BY <1>2, <1>3, <1>5, <2>1
<1>6. QED
  BY <1>4, <1>5

\* What a check of requirements says of the libraries.
LEMMA CheckSays ==
  ASSUME NEW requires, requires # Absent, host \in Hosts
  PROVE  /\ Check(requires).incompatible \cap Available = {}
         /\ requires.libs # Absent /\ LoaderCache # Absent
              /\ Check(requires).incompatible = {} => requires.libs \subseteq Available
<1> DEFINE libs == IF requires.libs = Absent THEN {<<"libs", "unknown">>}
                   ELSE {<<lib, Library(lib)>> : lib \in requires.libs}
           facts == libs \cup {Baseline("os", host.version, requires.os_min),
                               Baseline("glibc", host.glibc, requires.glibc_min)}
           missing == Check(requires).incompatible
<1>1. missing = {f[1] : f \in {g \in facts : g[2] = "no"}}
  BY DEF Check
<1>2. /\ Baseline("os", host.version, requires.os_min)[1] = "os"
      /\ Baseline("glibc", host.glibc, requires.glibc_min)[1] = "glibc"
  BY DEF Baseline
<1>3. "os" \notin Available /\ "glibc" \notin Available
  BY LibrariesAreNamed DEF Available
<1>4. ASSUME NEW x \in missing PROVE x \notin Available
  <2>1. PICK g \in facts : g[2] = "no" /\ g[1] = x
    BY <1>1
  <2>2. CASE g \in libs
    <3>1. PICK lib \in requires.libs : g = <<lib, Library(lib)>>
      BY <2>1, <2>2
    <3>2. QED
      BY <2>1, <3>1, LibraryIs
  <2>3. CASE g \notin libs
    <3>1. x \in {"os", "glibc"}
      BY <1>2, <2>1, <2>3
    <3>2. QED
      BY <1>3, <3>1
  <2>4. QED
    BY <2>2, <2>3
<1>5. ASSUME requires.libs # Absent, LoaderCache # Absent, missing = {},
             NEW lib \in requires.libs
      PROVE  lib \in Available
  <2>1. <<lib, Library(lib)>> \in facts
    BY <1>5
  <2> DEFINE fact == <<lib, Library(lib)>>
  <2>2. fact[2] # "no"
    <3>1. fact \in facts
      BY <2>1
    <3> HIDE DEF fact, facts
    <3>2. QED
      BY <1>1, <1>5, <3>1
  <2>3. Library(lib) # "no"
    BY <2>2
  <2>4. QED
    BY <1>5, <2>3, LibraryIs
<1> HIDE DEF missing
<1>6. QED
  BY <1>4, <1>5 DEF missing

LEMMA PreflightKeeps ==
  ASSUME IInv, NEW allow \in BOOLEAN, Preflight(allow)
  PROVE  IInv'
<1> DEFINE requires == doc.artifacts[chosen].requires
           input == origin[chosen]
<1>1. /\ phase = "chosen" /\ report' = Check(requires)
      /\ phase' = IF report'.incompatible # {} /\ ~allow THEN "incompatible"
                  ELSE IF allow THEN "installed anyway" ELSE "installed"
      /\ doc' = doc /\ origin' = origin /\ host' = host /\ variant' = variant
      /\ chosen' = chosen
  BY DEF Preflight
<1>2. phase' \in {"incompatible", "installed", "installed anyway"}
  BY <1>1
<1>3. TypeOK /\ InOrder /\ SelectionIsBest
  BY DEF IInv
<1>4. TypeOK'
  BY <1>1, <1>2, <1>3 DEF TypeOK, Taken
<1>5. InOrder'
  BY <1>1, <1>2, <1>3 DEF InOrder, Creating, Taken
<1>6. SelectionIsBest'
  BY <1>1, <1>2, <1>3 DEF SelectionIsBest
<1>7. host \in Hosts /\ chosen \in DOMAIN origin
  <2>1. host \in Hosts /\ chosen \in DOMAIN doc.artifacts
    BY <1>1, <1>3 DEF InOrder, Creating, Taken
  <2>2. doc.artifacts \in Seq(Described) /\ origin \in Seq(Inputs)
        /\ Len(origin) = Len(doc.artifacts)
    BY <1>3 DEF TypeOK
  <2>3. QED
    BY <2>1, <2>2
<1>8. input \in Inputs /\ doc.artifacts[chosen] = Describe(input)
  <2>1. origin \in Seq(Inputs)
    BY <1>3 DEF TypeOK
  <2>2. input \in Inputs
    BY <1>7, <2>1
  <2>3. \A i \in DOMAIN origin : doc.artifacts[i] = Describe(origin[i])
    BY <1>3 DEF TypeOK
  <2>4. QED
    BY <1>7, <2>2, <2>3
<1>9. requires = RequiresOf(input)
  BY <1>8 DEF Describe
<1>10. LoaderCache' = LoaderCache /\ Available' = Available
  BY <1>1 DEF LoaderCache, Available
<1> HIDE DEF requires
<1>11. ReportedIsMissing'
  <2>1. Check(Absent).incompatible = {}
    BY DEF Check
  <2>2. Check(requires).incompatible \cap Available = {}
    BY <1>7, <2>1, CheckSays
  <2>3. QED
    BY <1>1, <1>10, <2>2 DEF ReportedIsMissing
<1>12. LibrariesPresent'
  <2>1. SUFFICES ASSUME phase' = "installed", LoaderCache # Absent,
                        ReadExecutables(input, Bins(input)) # Absent,
                        ~(input.seen.kinds \subseteq {"script"})
                 PROVE  input.build.libs \subseteq Available
    BY <1>1, <1>10 DEF LibrariesPresent
  <2>2. Check(requires).incompatible = {}
    BY <1>1, <2>1
  <2>3. /\ requires # Absent /\ requires.libs = HostLibraries(input.seen)
        /\ requires.libs # Absent
    BY <1>8, <1>9, <2>1, LibrariesAreRequired
  <2>4. requires.libs \subseteq Available
    BY <1>7, <2>1, <2>2, <2>3, CheckSays
  <2>5. input.seen # Absent
    BY <2>1 DEF ReadExecutables
  <2>6. input.build.libs \subseteq HostLibraries(input.seen)
    BY <1>8, <2>1, <2>5, DescriptionsAreGiven
  <2>7. QED
    BY <2>3, <2>4, <2>6
<1>13. QED
  BY <1>4, <1>5, <1>6, <1>11, <1>12 DEF IInv

LEMMA NextKeeps == IInv /\ [Next]_vars => IInv'
<1>1. SUFFICES ASSUME IInv, [Next]_vars PROVE IInv'
  OBVIOUS
<1>2. CASE UNCHANGED vars
  <2>1. TypeOK' /\ InOrder'
    BY <1>1, <1>2 DEF vars, IInv, TypeOK, InOrder
  <2>2. SelectionIsBest'
    <3>1. SelectionIsBest
      BY <1>1 DEF IInv
    <3>2. /\ phase' = phase /\ doc' = doc /\ host' = host /\ variant' = variant
          /\ chosen' = chosen
      BY <1>2 DEF vars
    <3> DEFINE top == Top(doc.artifacts, Detect(host), variant)
               usable == Usable(doc.artifacts, Detect(host), variant)
    <3>3. top' = top /\ usable' = usable
      BY <3>2
    <3> HIDE DEF top, usable
    <3>4. CASE phase = "no match"
      BY <3>1, <3>2, <3>3, <3>4 DEF SelectionIsBest, top, usable
    <3>5. CASE phase = "ambiguous"
      BY <3>1, <3>2, <3>3, <3>5 DEF SelectionIsBest, top, usable
    <3>6. CASE phase \notin {"no match", "ambiguous"}
      BY <3>1, <3>2, <3>3, <3>6 DEF SelectionIsBest, top, usable
    <3>7. QED
      BY <3>4, <3>5, <3>6
  <2>3. LoaderCache' = LoaderCache /\ Available' = Available
    BY <1>2 DEF vars, LoaderCache, Available
  <2>4. LibrariesPresent' /\ ReportedIsMissing'
    BY <1>1, <1>2, <2>3 DEF vars, IInv, LibrariesPresent, ReportedIsMissing
  <2>5. QED
    BY <2>1, <2>2, <2>4 DEF IInv
<1>3. CASE Next
  BY <1>1, <1>3, RequestKeeps, AddArtifactKeeps, AddResourceKeeps, CreateKeeps,
     SelectKeeps, PreflightKeeps DEF Next
<1>4. QED
  BY <1>1, <1>2, <1>3

-----------------------------------------------------------------------------
(* The theorems.                                                           *)

LEMMA Invariance == Spec => []IInv
BY InitInv, NextKeeps, PTL DEF Spec

\* What a host takes of a release is the one artifact that no other usable one
\* beats or equals, and it takes none only where none is usable or two of them
\* are equally good and name different fields: what the loop of select_artifact
\* finds, whatever the artifacts, the host and the order of the formats.
THEOREM TheBestIsSelected == Spec => []SelectionIsBest
BY Invariance, PTL DEF IInv

\* In every created release each completion is for one command, and with each
\* artifact go the most specific of the entries for a command and shell.
THEOREM EveryThingHasOneEntry == Spec => []OneEntryPerThing
<1>1. IInv => OneEntryPerThing
  BY CreatedHasOneEntry DEF IInv
<1>2. QED
  BY <1>1, Invariance, PTL

\* Nothing is installed without --allow-incompatible-host whose executables
\* load a library that the host lacks, where the host sees all its libraries;
\* and what preflight reports as missing is missing.
THEOREM LibrariesAreThere == Spec => [](LibrariesPresent /\ ReportedIsMissing)
BY Invariance, PTL DEF IInv
=============================================================================
