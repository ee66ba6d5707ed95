--------------------------- MODULE DiscoveryProofs ---------------------------
(***************************************************************************)
(* Proofs about Discovery, for any forge, list, request and budget. What   *)
(* candidates_with_latest answers is computed by loops over the forge's    *)
(* releases, the list's entries and the versions: each loop is a recursive *)
(* function, and an invariant of its turns says what it computes. Every    *)
(* candidate stands, they are in order, the recommended one is first, and  *)
(* nothing that was asked for is missing. On top of that the search is     *)
(* proved: it stays within its budget, passes over no release that it      *)
(* should not, and installs the right one.                                 *)
(***************************************************************************)
EXTENDS Discovery, SequenceTheorems, FiniteSetTheorems, WellFoundedInduction, TLAPS

\* Three numbers, a prerelease and a build.
IsFull(v) == IsText(v) /\ Len(v.n) = 3

\* An entry says what a bundle does.
IsListed(e) ==
    \E x \in Listed : e.version = x.slip.version /\ e.tag = x.slip.tag /\ e.packslip = x.url

\* A list was made by `packslip releases`, which validates it.
ListIsValid ==
    list # None =>
        /\ Validate(list)
        /\ list.releases \in Seq(ToSet(list.releases))
        /\ \A e \in ToSet(list.releases) : IsFull(e.version) /\ IsListed(e) /\ e \in AnyEntry

\* What is offered of a version: releases with bundles, that stand.
Offer(v, r) == r.version = v /\ r.bundles \in Seq(ToSet(r.bundles)) /\ Stands(v, r.bundles)
Offered(r) == Offer(r.version, r)

\* An answer that the search can be asked to go through.
Standing(answer) == AreSequences(answer) /\ \A r \in ToSet(answer.releases) : Offered(r)

\* In descending order, but that a latest request has the recommended release
\* first, and no prerelease.
Sorted(asked, answer) ==
    LET rs == answer.releases
    IN  IF asked # None THEN InOrder(rs)
        ELSE /\ rs # <<>> => InOrder(Tail(rs))
             /\ \A r \in ToSet(rs) : r.version.rc = 0

\* Nothing is offered before the question is asked, and afterwards what stands.
OffersStand ==
    /\ pc \in {"publish", "ask"} => offers.releases = <<>>
    /\ Standing(offers) /\ Sorted(request, offers)

FirstOf(answer) ==
    IF answer.releases = <<>> THEN 0 ELSE Len(answer.releases[1].bundles)
First == FirstOf(offers)

\* Where the search is, and what it has fetched.
Progress ==
    /\ pc \in {"publish", "ask", "next", "bundle", "done"}
    /\ outcome \in {"none", "refused", "nothing", "stopped", "failed", "installed"}
    /\ pc # "done" => outcome = "none"
    /\ pc \in {"publish", "ask"} => index = 0
    /\ index \in Nat /\ index <= Len(offers.releases)
    /\ fetched \in Nat /\ (index = 0 => fetched = 0)
    /\ fetched <= First \/ fetched <= MaxBundles
    /\ pc = "bundle" => index > 0 /\ at \in 1..(Len(Selected.bundles) + 1)
    /\ outcome = "stopped" =>
         fetched + Len(offers.releases[index + 1].bundles) > MaxBundles
    /\ outcome = "installed" => index > 0

\* What is known of the candidate at hand: nothing is accepted that is not one
\* of its bundles and genuine, and without doubt nothing else was the project's.
Examined ==
    pc = "bundle" =>
        LET slip(j) == site.bundle[Selected.bundles[j]]
        IN  /\ accepted # None =>
                 Verifies(accepted) /\ \E j \in 1..(at - 1) : slip(j) = accepted
            /\ accepted = None /\ ~unknown =>
                 \A j \in 1..(at - 1) : slip(j) # None /\ Peek(slip(j)) # "requested"

\* The candidates before the one at hand were rightly passed over.
Behind == IF pc = "bundle" \/ outcome \in {"installed", "failed"} THEN index - 1 ELSE index
Passed == \A i \in 1..Behind : PassedOver(offers.releases[i])

\* What is installed is what was selected.
Installed ==
    outcome = "installed" =>
        /\ Verifies(accepted) /\ accepted.host = "fits"
        /\ CheckRelease(accepted)

IInv ==
    /\ site \in Sites
    /\ ListIsValid /\ OffersStand /\ Progress /\ Examined /\ Passed /\ Installed

-----------------------------------------------------------------------------
(* Loops, turn by turn.                                                    *)

\* A set with 0 that has the successor of each of its members has every
\* natural number: else the least one outside would be no successor.
LEMMA EveryNatural ==
  ASSUME NEW S, 0 \in S, \A n \in Nat : n \in S => n + 1 \in S
  PROVE  \A n \in Nat : n \in S
<1> DEFINE T == {n \in Nat : n \notin S}
           R == OpToRel(<, Nat)
<1>1. SUFFICES ASSUME T # {} PROVE FALSE
  OBVIOUS
<1>2. PICK n \in T : \A m \in T : ~(<<m, n>> \in R)
  <2>1. T \subseteq Nat
    OBVIOUS
  <2>2. QED
    BY <1>1, <2>1, NatLessThanWellFounded, WFMin, Zenon
<1>3. n \in Nat /\ n # 0 /\ n \notin S /\ n - 1 \in Nat
  OBVIOUS
<1>4. n - 1 \notin S
  BY <1>3
<1>5. <<n - 1, n>> \in R
  BY <1>3 DEF OpToRel
<1>6. QED
  BY <1>2, <1>3, <1>4, <1>5

\* The same up to a bound.
LEMMA EveryNaturalUpTo ==
  ASSUME NEW N \in Nat, NEW S, 0 \in S, \A n \in 0..(N - 1) : n \in S => n + 1 \in S
  PROVE  \A n \in 0..N : n \in S
<1> DEFINE T == {n \in Nat : n \in 0..N => n \in S}
<1>1. 0 \in T
  OBVIOUS
<1>2. \A n \in Nat : n \in T => n + 1 \in T
  OBVIOUS
<1>3. \A n \in Nat : n \in T
  <2> HIDE DEF T
  <2> QED BY <1>1, <1>2, EveryNatural
<1> QED BY <1>3

LEMMA Least ==
  ASSUME NEW S \in SUBSET Nat, S # {}
  PROVE  \E n \in S : \A m \in S : n <= m
<1> DEFINE T == {k \in Nat : \A m \in S : k <= m}
<1> SUFFICES ASSUME \A n \in S : \E m \in S : ~(n <= m) PROVE FALSE
  OBVIOUS
<1>1. 0 \in T
  OBVIOUS
<1>2. \A k \in Nat : k \in T => k + 1 \in T
  <2> SUFFICES ASSUME NEW k \in Nat, k \in T, NEW m \in S PROVE k + 1 <= m
    OBVIOUS
  <2>1. k <= m
    OBVIOUS
  <2>2. k # m
    OBVIOUS
  <2> QED BY <2>1, <2>2
<1>3. \A k \in Nat : k \in T
  <2> HIDE DEF T
  <2> QED BY <1>1, <1>2, EveryNatural
<1>4. PICK m : m \in S
  OBVIOUS
<1>5. m + 1 \in T
  <2> HIDE DEF T
  <2> QED BY <1>3, <1>4
<1> QED BY <1>4, <1>5

LEMMA OnlyTurns ==
  ASSUME NEW s, NEW good, Len(s) \in Nat
  PROVE  \E f : /\ f[0] = <<>>
                /\ \A n \in 1..Len(s) : f[n] = IF s[n] \in good THEN Append(f[n - 1], s[n]) ELSE f[n - 1]
                /\ Only(s, good) = f[Len(s)]
<1> DEFINE N == Len(s)
           W(x, n) == IF s[n] \in good THEN Append(x, s[n]) ELSE x
           P(f, k) == f[0] = <<>> /\ \A n \in 1..k : f[n] = W(f[n - 1], n)
           S == {k \in Nat : \E f : P(f, k)}
           L == CHOOSE f : f = [n \in 0..N |-> IF n = 0 THEN <<>> ELSE W(f[n - 1], n)]
<1>1. 0 \in S
  <2>1. P([n \in {0} |-> <<>>], 0)
    OBVIOUS
  <2> QED BY <2>1
<1>2. \A k \in Nat : k \in S => k + 1 \in S
  <2> TAKE k \in Nat
  <2> HAVE k \in S
  <2>1. PICK g : P(g, k)
    OBVIOUS
  <2> HIDE DEF W
  <2> DEFINE f == [n \in 0..(k + 1) |-> IF n = k + 1 THEN W(g[k], k + 1) ELSE g[n]]
  <2>2. P(f, k + 1)
    <3>1. f[0] = <<>>
      BY <2>1
    <3>2. \A n \in 1..k : f[n] = g[n] /\ f[n - 1] = g[n - 1]
      OBVIOUS
    <3>3. f[k + 1] = W(f[k], k + 1)
      OBVIOUS
    <3> HIDE DEF f
    <3> QED BY <2>1, <3>1, <3>2, <3>3
  <2> HIDE DEF P, f
  <2> QED BY <2>2
<1>3. PICK g : P(g, N)
  <2>1. \A k \in Nat : k \in S
    <3> HIDE DEF S
    <3> QED BY <1>1, <1>2, EveryNatural
  <2> QED BY <2>1
<1> DEFINE h == [n \in 0..N |-> g[n]]
<1>4. h = [n \in 0..N |-> IF n = 0 THEN <<>> ELSE W(h[n - 1], n)]
  <2> HIDE DEF W, N
  <2> QED BY <1>3 DEF N
<1>5. L = [n \in 0..N |-> IF n = 0 THEN <<>> ELSE W(L[n - 1], n)]
  <2> HIDE DEF W, h
  <2> QED BY <1>4
<1>6. Only(s, good) = L[N]
  BY DEF Only
<1> HIDE DEF W, L
<1>7. P(L, N)
  BY <1>5
<1> QED BY <1>6, <1>7 DEF W

LEMMA MergeTurns ==
  ASSUME NEW live, NEW signed, Len(live) \in Nat
  PROVE  \E f : /\ f[0] = NoChoices(VersionsOf(live, signed))
                /\ \A n \in 1..Len(live) : f[n] = AddLive(f[n - 1], live[n])
                /\ MergeLive(live, signed) = f[Len(live)]
<1> DEFINE N == Len(live)
           W(x, n) == AddLive(x, live[n])
           P(f, k) == f[0] = NoChoices(VersionsOf(live, signed)) /\ \A n \in 1..k : f[n] = W(f[n - 1], n)
           S == {k \in Nat : \E f : P(f, k)}
           L == CHOOSE f : f = [n \in 0..N |-> IF n = 0 THEN NoChoices(VersionsOf(live, signed)) ELSE W(f[n - 1], n)]
<1>1. 0 \in S
  <2>1. P([n \in {0} |-> NoChoices(VersionsOf(live, signed))], 0)
    OBVIOUS
  <2> QED BY <2>1
<1>2. \A k \in Nat : k \in S => k + 1 \in S
  <2> TAKE k \in Nat
  <2> HAVE k \in S
  <2>1. PICK g : P(g, k)
    OBVIOUS
  <2> HIDE DEF W
  <2> DEFINE f == [n \in 0..(k + 1) |-> IF n = k + 1 THEN W(g[k], k + 1) ELSE g[n]]
  <2>2. P(f, k + 1)
    <3>1. f[0] = NoChoices(VersionsOf(live, signed))
      BY <2>1
    <3>2. \A n \in 1..k : f[n] = g[n] /\ f[n - 1] = g[n - 1]
      OBVIOUS
    <3>3. f[k + 1] = W(f[k], k + 1)
      OBVIOUS
    <3> HIDE DEF f
    <3> QED BY <2>1, <3>1, <3>2, <3>3
  <2> HIDE DEF P, f
  <2> QED BY <2>2
<1>3. PICK g : P(g, N)
  <2>1. \A k \in Nat : k \in S
    <3> HIDE DEF S
    <3> QED BY <1>1, <1>2, EveryNatural
  <2> QED BY <2>1
<1> DEFINE h == [n \in 0..N |-> g[n]]
<1>4. h = [n \in 0..N |-> IF n = 0 THEN NoChoices(VersionsOf(live, signed)) ELSE W(h[n - 1], n)]
  <2> HIDE DEF W, N
  <2> QED BY <1>3 DEF N
<1>5. L = [n \in 0..N |-> IF n = 0 THEN NoChoices(VersionsOf(live, signed)) ELSE W(L[n - 1], n)]
  <2> HIDE DEF W, h
  <2> QED BY <1>4
<1>6. MergeLive(live, signed) = L[N]
  BY DEF MergeLive
<1> HIDE DEF W, L
<1>7. P(L, N)
  BY <1>5
<1> QED BY <1>6, <1>7 DEF W

LEMMA EntryTurns ==
  ASSUME NEW live, NEW signed, NEW latest, NEW forge, Len(Entries(signed)) \in Nat
  PROVE  \E f : /\ f[0] = forge
                /\ \A n \in 1..Len(Entries(signed)) : f[n] = AddEntry(live, signed, latest, f[n - 1], Entries(signed)[n])
                /\ AddEntries(live, signed, latest, forge) = f[Len(Entries(signed))]
<1> DEFINE N == Len(Entries(signed))
           W(x, n) == AddEntry(live, signed, latest, x, Entries(signed)[n])
           P(f, k) == f[0] = forge /\ \A n \in 1..k : f[n] = W(f[n - 1], n)
           S == {k \in Nat : \E f : P(f, k)}
           L == CHOOSE f : f = [n \in 0..N |-> IF n = 0 THEN forge ELSE W(f[n - 1], n)]
<1>1. 0 \in S
  <2>1. P([n \in {0} |-> forge], 0)
    OBVIOUS
  <2> QED BY <2>1
<1>2. \A k \in Nat : k \in S => k + 1 \in S
  <2> TAKE k \in Nat
  <2> HAVE k \in S
  <2>1. PICK g : P(g, k)
    OBVIOUS
  <2> HIDE DEF W
  <2> DEFINE f == [n \in 0..(k + 1) |-> IF n = k + 1 THEN W(g[k], k + 1) ELSE g[n]]
  <2>2. P(f, k + 1)
    <3>1. f[0] = forge
      BY <2>1
    <3>2. \A n \in 1..k : f[n] = g[n] /\ f[n - 1] = g[n - 1]
      OBVIOUS
    <3>3. f[k + 1] = W(f[k], k + 1)
      OBVIOUS
    <3> HIDE DEF f
    <3> QED BY <2>1, <3>1, <3>2, <3>3
  <2> HIDE DEF P, f
  <2> QED BY <2>2
<1>3. PICK g : P(g, N)
  <2>1. \A k \in Nat : k \in S
    <3> HIDE DEF S
    <3> QED BY <1>1, <1>2, EveryNatural
  <2> QED BY <2>1
<1> DEFINE h == [n \in 0..N |-> g[n]]
<1>4. h = [n \in 0..N |-> IF n = 0 THEN forge ELSE W(h[n - 1], n)]
  <2> HIDE DEF W, N
  <2> QED BY <1>3 DEF N
<1>5. L = [n \in 0..N |-> IF n = 0 THEN forge ELSE W(L[n - 1], n)]
  <2> HIDE DEF W, h
  <2> QED BY <1>4
<1>6. AddEntries(live, signed, latest, forge) = L[N]
  BY DEF AddEntries
<1> HIDE DEF W, L
<1>7. P(L, N)
  BY <1>5
<1> QED BY <1>6, <1>7 DEF W

LEMMA LeftTurns ==
  ASSUME NEW versions, Cardinality(versions) \in Nat
  PROVE  \E f : /\ f[0] = versions
                /\ \A n \in 1..Cardinality(versions) : f[n] = f[n - 1] \ {Highest(f[n - 1])}
                /\ Descending(versions) = [n \in 1..Cardinality(versions) |-> Highest(f[n - 1])]
<1> DEFINE N == Cardinality(versions)
           W(x, n) == x \ {Highest(x)}
           P(f, k) == f[0] = versions /\ \A n \in 1..k : f[n] = W(f[n - 1], n)
           S == {k \in Nat : \E f : P(f, k)}
           L == CHOOSE f : f = [n \in 0..N |-> IF n = 0 THEN versions ELSE W(f[n - 1], n)]
<1>1. 0 \in S
  <2>1. P([n \in {0} |-> versions], 0)
    OBVIOUS
  <2> QED BY <2>1
<1>2. \A k \in Nat : k \in S => k + 1 \in S
  <2> TAKE k \in Nat
  <2> HAVE k \in S
  <2>1. PICK g : P(g, k)
    OBVIOUS
  <2> HIDE DEF W
  <2> DEFINE f == [n \in 0..(k + 1) |-> IF n = k + 1 THEN W(g[k], k + 1) ELSE g[n]]
  <2>2. P(f, k + 1)
    <3>1. f[0] = versions
      BY <2>1
    <3>2. \A n \in 1..k : f[n] = g[n] /\ f[n - 1] = g[n - 1]
      OBVIOUS
    <3>3. f[k + 1] = W(f[k], k + 1)
      OBVIOUS
    <3> HIDE DEF f
    <3> QED BY <2>1, <3>1, <3>2, <3>3
  <2> HIDE DEF P, f
  <2> QED BY <2>2
<1>3. PICK g : P(g, N)
  <2>1. \A k \in Nat : k \in S
    <3> HIDE DEF S
    <3> QED BY <1>1, <1>2, EveryNatural
  <2> QED BY <2>1
<1> DEFINE h == [n \in 0..N |-> g[n]]
<1>4. h = [n \in 0..N |-> IF n = 0 THEN versions ELSE W(h[n - 1], n)]
  <2> HIDE DEF W, N
  <2> QED BY <1>3 DEF N
<1>5. L = [n \in 0..N |-> IF n = 0 THEN versions ELSE W(L[n - 1], n)]
  <2> HIDE DEF W, h
  <2> QED BY <1>4
<1>6. Descending(versions) = [n \in 1..N |-> Highest(L[n - 1])]
  BY DEF Descending
<1> HIDE DEF W, L
<1>7. P(L, N)
  BY <1>5
<1> QED BY <1>6, <1>7 DEF W

LEMMA OrderTurns ==
  ASSUME NEW merged, NEW versions, Len(Descending(versions)) \in Nat
  PROVE  \E f : /\ f[0] = <<>>
                /\ \A n \in 1..Len(Descending(versions)) : f[n] = f[n - 1] \o Block(merged, Descending(versions)[n])
                /\ Ordered(merged, versions) = f[Len(Descending(versions))]
<1> DEFINE N == Len(Descending(versions))
           W(x, n) == x \o Block(merged, Descending(versions)[n])
           P(f, k) == f[0] = <<>> /\ \A n \in 1..k : f[n] = W(f[n - 1], n)
           S == {k \in Nat : \E f : P(f, k)}
           L == CHOOSE f : f = [n \in 0..N |-> IF n = 0 THEN <<>> ELSE W(f[n - 1], n)]
<1>1. 0 \in S
  <2>1. P([n \in {0} |-> <<>>], 0)
    OBVIOUS
  <2> QED BY <2>1
<1>2. \A k \in Nat : k \in S => k + 1 \in S
  <2> TAKE k \in Nat
  <2> HAVE k \in S
  <2>1. PICK g : P(g, k)
    OBVIOUS
  <2> HIDE DEF W
  <2> DEFINE f == [n \in 0..(k + 1) |-> IF n = k + 1 THEN W(g[k], k + 1) ELSE g[n]]
  <2>2. P(f, k + 1)
    <3>1. f[0] = <<>>
      BY <2>1
    <3>2. \A n \in 1..k : f[n] = g[n] /\ f[n - 1] = g[n - 1]
      OBVIOUS
    <3>3. f[k + 1] = W(f[k], k + 1)
      OBVIOUS
    <3> HIDE DEF f
    <3>4. \A n \in 1..(k + 1) : f[n] = W(f[n - 1], n)
      BY <2>1, <3>2, <3>3
    <3> QED BY <3>1, <3>4
  <2> HIDE DEF P, f
  <2> QED BY <2>2
<1>3. PICK g : P(g, N)
  <2>1. \A k \in Nat : k \in S
    <3> HIDE DEF S
    <3> QED BY <1>1, <1>2, EveryNatural
  <2> QED BY <2>1
<1> DEFINE h == [n \in 0..N |-> g[n]]
<1>4. h = [n \in 0..N |-> IF n = 0 THEN <<>> ELSE W(h[n - 1], n)]
  <2> HIDE DEF W, N
  <2> QED BY <1>3 DEF N
<1>5. L = [n \in 0..N |-> IF n = 0 THEN <<>> ELSE W(L[n - 1], n)]
  <2> HIDE DEF W, h
  <2> QED BY <1>4
<1>6. Ordered(merged, versions) = L[N]
  BY DEF Ordered
<1> HIDE DEF W, L
<1>7. P(L, N)
  BY <1>5
<1> QED BY <1>6, <1>7 DEF W

\* The members of a sequence that are in a set are a sequence of them, and an
\* empty one only if there are none.
LEMMA OnlyIs ==
  ASSUME NEW T, NEW s \in Seq(T), NEW good
  PROVE  /\ Only(s, good) \in Seq(ToSet(s) \cap good)
         /\ Only(s, good) = <<>> => ToSet(s) \cap good = {}
<1>1. Len(s) \in Nat /\ DOMAIN s = 1..Len(s)
  BY LenProperties
<1>2. PICK f : /\ f[0] = <<>>
               /\ \A n \in 1..Len(s) :
                    f[n] = IF s[n] \in good THEN Append(f[n - 1], s[n]) ELSE f[n - 1]
               /\ Only(s, good) = f[Len(s)]
  BY <1>1, OnlyTurns
<1> DEFINE R == ToSet(s) \cap good
           Right(n) == f[n] \in Seq(R) /\ (f[n] = <<>> => \A i \in 1..n : s[i] \notin good)
           S == {n \in 0..Len(s) : Right(n)}
<1>3. 0 \in S
  <2>1. <<>> \in Seq(R)
    <3> HIDE DEF R
    <3> QED BY EmptySeq
  <2>2. \A i \in 1..0 : s[i] \notin good
    OBVIOUS
  <2>3. 0 \in 0..Len(s)
    BY <1>1
  <2> QED BY <1>2, <2>1, <2>2, <2>3
<1>4. ASSUME NEW n \in 0..(Len(s) - 1), n \in S PROVE n + 1 \in S
  <2>1. n + 1 \in 1..Len(s) /\ (n + 1) - 1 = n /\ n + 1 \in 0..Len(s)
    BY <1>1
  <2>2. f[n + 1] = IF s[n + 1] \in good THEN Append(f[n], s[n + 1]) ELSE f[n]
    BY <1>2, <2>1
  <2>3. s[n + 1] \in ToSet(s)
    BY <1>1, <2>1 DEF ToSet
  <2>4. CASE s[n + 1] \in good
    <3>1. f[n] \in Seq(R) /\ s[n + 1] \in R
      BY <1>4, <2>3, <2>4
    <3> HIDE DEF R
    <3>2. Append(f[n], s[n + 1]) \in Seq(R) /\ Append(f[n], s[n + 1]) # <<>>
      BY <3>1, AppendProperties
    <3> QED BY <2>1, <2>2, <2>4, <3>2 DEF R
  <2>5. CASE s[n + 1] \notin good
    <3>1. f[n + 1] = f[n]
      BY <2>2, <2>5
    <3>2. \A i \in 1..(n + 1) : i \in 1..n \/ i = n + 1
      BY <1>1
    <3> QED BY <1>4, <2>1, <2>5, <3>1, <3>2
  <2> QED BY <2>4, <2>5
<1>5. Right(Len(s))
  <2>1. \A n \in 0..Len(s) : n \in S
    <3> HIDE DEF S
    <3> QED BY <1>1, <1>3, <1>4, EveryNaturalUpTo
  <2> QED BY <1>1, <2>1
<1>6. Only(s, good) = <<>> => R = {}
  BY <1>1, <1>2, <1>5 DEF ToSet
<1> QED BY <1>2, <1>5, <1>6

-----------------------------------------------------------------------------
(* Versions and their order.                                               *)

LEMMA RankIs ==
  ASSUME NEW v, IsFull(v)
  PROVE  \A i \in 1..5 : Rank(v)[i] \in Nat
<1> DEFINE last == <<IF v.rc = 0 THEN 99 ELSE v.rc, v.b>>
<1>1. v.n \in Seq(Nat) /\ Len(v.n) = 3
  BY DEF IsFull, IsText
<1>2. last \in Seq(Nat) /\ Len(last) = 2
  BY DEF IsFull, IsText
<1> HIDE DEF last
<1>3. v.n \o last \in Seq(Nat) /\ Len(v.n \o last) = 5
  <2>1. v.n \o last \in Seq(Nat) /\ Len(v.n \o last) = Len(v.n) + Len(last)
    BY <1>1, <1>2, ConcatProperties
  <2> QED BY <1>1, <1>2, <2>1
<1>4. \A i \in 1..5 : (v.n \o last)[i] \in Nat
  BY <1>3, ElementOfSeq
<1> QED BY <1>4 DEF Rank, last

LEMMA AboveIsStrict ==
  ASSUME NEW u, NEW v, NEW w, IsFull(u), IsFull(v), IsFull(w)
  PROVE  ~Above(v, v) /\ (Above(u, v) /\ Above(v, w) => Above(u, w))
<1>1. \A i \in 1..5 : Rank(u)[i] \in Nat /\ Rank(v)[i] \in Nat /\ Rank(w)[i] \in Nat
  BY RankIs
<1>2. ~Above(v, v)
  BY <1>1 DEF Above
<1>3. ASSUME Above(u, v), Above(v, w) PROVE Above(u, w)
  <2>1. PICK i \in 1..5 : /\ Rank(u)[i] > Rank(v)[i]
                          /\ \A k \in 1..(i - 1) : Rank(u)[k] = Rank(v)[k]
    BY <1>3 DEF Above
  <2>2. PICK j \in 1..5 : /\ Rank(v)[j] > Rank(w)[j]
                          /\ \A k \in 1..(j - 1) : Rank(v)[k] = Rank(w)[k]
    BY <1>3 DEF Above
  <2>3. CASE i <= j
    <3>1. Rank(u)[i] > Rank(w)[i]
      BY <1>1, <2>1, <2>2, <2>3
    <3>2. \A k \in 1..(i - 1) : Rank(u)[k] = Rank(w)[k]
      BY <2>1, <2>2, <2>3
    <3> QED BY <3>1, <3>2 DEF Above
  <2>4. CASE j < i
    <3>1. Rank(u)[j] > Rank(w)[j]
      BY <1>1, <2>1, <2>2, <2>4
    <3>2. \A k \in 1..(j - 1) : Rank(u)[k] = Rank(w)[k]
      BY <2>1, <2>2, <2>4
    <3> QED BY <3>1, <3>2 DEF Above
  <2> QED BY <2>3, <2>4
<1> QED BY <1>2, <1>3

LEMMA HighestIs ==
  ASSUME NEW S, IsFiniteSet(S), S # {}, \A v \in S : IsFull(v)
  PROVE  Highest(S) \in S /\ \A w \in S : ~Above(w, Highest(S))
<1> DEFINE Has(s) == \E v \in s : \A w \in s : ~Above(w, v)
           T == {n \in Nat : \A s \in SUBSET S : Cardinality(s) = n + 1 => Has(s)}
<1>0. \A s \in SUBSET S : IsFiniteSet(s) /\ Cardinality(s) \in Nat
  BY FS_Subset, FS_CardinalityType
<1>1. 0 \in T
  <2> SUFFICES ASSUME NEW s \in SUBSET S, Cardinality(s) = 1 PROVE Has(s)
    BY DEF T
  <2>1. PICK v : s = {v}
    BY <1>0, FS_Singleton
  <2>2. ~Above(v, v)
    BY <2>1, AboveIsStrict
  <2> QED BY <2>1, <2>2
<1>2. ASSUME NEW n \in Nat, n \in T PROVE n + 1 \in T
  <2> SUFFICES ASSUME NEW s \in SUBSET S, Cardinality(s) = n + 2 PROVE Has(s)
    BY DEF T
  <2>1. s # {}
    BY FS_EmptySet
  <2>2. PICK x : x \in s
    BY <2>1
  <2>3. s \ {x} \in SUBSET S /\ Cardinality(s \ {x}) = n + 1
    BY <1>0, <2>2, FS_RemoveElement
  <2>4. PICK v \in s \ {x} : \A w \in s \ {x} : ~Above(w, v)
    BY <1>2, <2>3
  <2>5. IsFull(x) /\ IsFull(v) /\ \A w \in s : IsFull(w)
    BY <2>2, <2>4
  <2>6. CASE Above(x, v)
    <3>1. \A w \in s \ {x} : ~Above(w, x)
      BY <2>4, <2>5, <2>6, AboveIsStrict
    <3>2. ~Above(x, x)
      BY <2>5, AboveIsStrict
    <3> QED BY <2>2, <3>1, <3>2
  <2>7. CASE ~Above(x, v)
    BY <2>4, <2>7
  <2> QED BY <2>6, <2>7
<1>3. Has(S)
  <2>1. Cardinality(S) \in Nat /\ Cardinality(S) # 0
    BY <1>0, FS_EmptySet
  <2>2. Cardinality(S) - 1 \in Nat /\ (Cardinality(S) - 1) + 1 = Cardinality(S)
    BY <2>1
  <2>3. \A n \in Nat : n \in T
    <3> HIDE DEF T
    <3> QED BY <1>1, <1>2, EveryNatural
  <2>4. Cardinality(S) - 1 \in T
    BY <2>2, <2>3
  <2> QED BY <2>2, <2>4
<1> QED BY <1>3 DEF Highest

\* Each version once, none above an earlier one.
LEMMA DescendingIs ==
  ASSUME NEW S, IsFiniteSet(S), \A v \in S : IsFull(v)
  PROVE  /\ Descending(S) \in Seq(S)
         /\ \A i, j \in 1..Len(Descending(S)) :
              i < j => /\ ~Above(Descending(S)[j], Descending(S)[i])
                       /\ Descending(S)[j] # Descending(S)[i]
<1> DEFINE N == Cardinality(S)
<1>1. N \in Nat
  BY FS_CardinalityType
<1>2. PICK f : /\ f[0] = S
               /\ \A n \in 1..N : f[n] = f[n - 1] \ {Highest(f[n - 1])}
               /\ Descending(S) = [n \in 1..N |-> Highest(f[n - 1])]
  BY <1>1, LeftTurns
<1> DEFINE T == {n \in 0..N : f[n] \in SUBSET S /\ Cardinality(f[n]) = N - n}
<1>3. 0 \in T
  BY <1>1, <1>2
<1>4. \A s \in SUBSET S : s # {} => Highest(s) \in s /\ \A w \in s : ~Above(w, Highest(s))
  BY FS_Subset, HighestIs
<1>5. ASSUME NEW n \in 0..(N - 1), n \in T PROVE n + 1 \in T /\ f[n] # {}
  <2>1. n + 1 \in 1..N /\ (n + 1) - 1 = n /\ n + 1 \in 0..N
    BY <1>1
  <2>2. f[n + 1] = f[n] \ {Highest(f[n])}
    BY <1>2, <2>1
  <2>3. f[n] \in SUBSET S /\ Cardinality(f[n]) = N - n /\ IsFiniteSet(f[n])
    BY <1>5, FS_Subset
  <2>4. f[n] # {}
    BY <1>1, <2>3, FS_EmptySet
  <2>5. Highest(f[n]) \in f[n]
    BY <1>4, <2>3, <2>4
  <2>6. Cardinality(f[n + 1]) = Cardinality(f[n]) - 1
    BY <2>2, <2>3, <2>5, FS_RemoveElement
  <2>7. Cardinality(f[n + 1]) = N - (n + 1)
    BY <1>1, <2>3, <2>6
  <2> QED BY <2>1, <2>2, <2>3, <2>4, <2>7
<1>6. \A n \in 0..N : n \in T
  <2> HIDE DEF T, N
  <2> QED BY <1>1, <1>3, <1>5, EveryNaturalUpTo
<1>7. \A n \in 1..N : f[n - 1] \in SUBSET S /\ f[n - 1] # {}
  <2> SUFFICES ASSUME NEW n \in 1..N PROVE f[n - 1] \in SUBSET S /\ f[n - 1] # {}
    OBVIOUS
  <2>1. n - 1 \in 0..(N - 1) /\ n - 1 \in 0..N
    BY <1>1
  <2>2. n - 1 \in T
    BY <1>6, <2>1
  <2> QED BY <1>5, <2>1, <2>2
<1>8. \A n \in 1..N : Highest(f[n - 1]) \in S
  BY <1>4, <1>7
<1>9. Descending(S) \in Seq(S) /\ Len(Descending(S)) = N
  <2> HIDE DEF N
  <2> QED BY <1>1, <1>2, <1>8
<1>10. ASSUME NEW i \in 1..N
       PROVE  \A j \in 1..N : i < j => Highest(f[j - 1]) \in f[i - 1] \ {Highest(f[i - 1])}
  <2> DEFINE U == {j \in 0..N : j >= i => f[j] \subseteq f[i]}
  <2>1. 0 \in U
    BY <1>1
  <2>2. ASSUME NEW j \in 0..(N - 1), j \in U PROVE j + 1 \in U
    <3>1. f[j + 1] = f[j] \ {Highest(f[j])} /\ j + 1 \in 0..N
      BY <1>1, <1>2
    <3>2. j >= i \/ j + 1 = i \/ j + 1 < i
      BY <1>1
    <3> QED BY <1>1, <2>2, <3>1, <3>2
  <2>3. \A j \in 0..N : j \in U
    <3> HIDE DEF U, N
    <3> QED BY <1>1, <2>1, <2>2, EveryNaturalUpTo
  <2> SUFFICES ASSUME NEW j \in 1..N, i < j
               PROVE  Highest(f[j - 1]) \in f[i - 1] \ {Highest(f[i - 1])}
    OBVIOUS
  <2>4. j - 1 \in 0..N /\ j - 1 >= i
    BY <1>1
  <2>5. f[j - 1] \subseteq f[i]
    BY <2>3, <2>4
  <2>6. f[i] = f[i - 1] \ {Highest(f[i - 1])}
    BY <1>2
  <2> QED BY <1>4, <1>7, <2>5, <2>6
<1>11. \A i, j \in 1..N : i < j => /\ ~Above(Highest(f[j - 1]), Highest(f[i - 1]))
                                   /\ Highest(f[j - 1]) # Highest(f[i - 1])
  BY <1>4, <1>7, <1>10
<1>12. \A n \in 1..N : Descending(S)[n] = Highest(f[n - 1])
  <2> HIDE DEF N
  <2> QED BY <1>2
<1>13. \A i, j \in 1..N : i < j => /\ ~Above(Descending(S)[j], Descending(S)[i])
                                   /\ Descending(S)[j] # Descending(S)[i]
  <2> HIDE DEF N
  <2> QED BY <1>11, <1>12
<1> QED BY <1>9, <1>13

\* No two releases have one tag.
Distinct(s) == \A i, j \in DOMAIN s : s[i].tag = s[j].tag => i = j

\* When some is left out, what is left stays in its order,
Thinned(o, s) ==
    /\ DOMAIN o = 1..Len(o)
    /\ \A i, j \in 1..Len(o) :
         i < j => \E k, l \in 1..Len(s) : k < l /\ o[i] = s[k] /\ o[j] = s[l]

LEMMA OnlyIsInTurn ==
  ASSUME NEW T, NEW s \in Seq(T), NEW good
  PROVE  Thinned(Only(s, good), s)
<1>1. Len(s) \in Nat
  BY LenProperties
<1>2. PICK f : /\ f[0] = <<>>
               /\ \A n \in 1..Len(s) :
                    f[n] = IF s[n] \in good THEN Append(f[n - 1], s[n]) ELSE f[n - 1]
               /\ Only(s, good) = f[Len(s)]
  BY <1>1, OnlyTurns
<1> DEFINE InTurn(n, o) ==
             /\ \A i \in 1..Len(o) : \E k \in 1..n : o[i] = s[k]
             /\ \A i, j \in 1..Len(o) :
                  i < j => \E k, l \in 1..n : k < l /\ o[i] = s[k] /\ o[j] = s[l]
           Right(n) == f[n] \in Seq(T) /\ InTurn(n, f[n])
           S == {n \in 0..Len(s) : Right(n)}
<1>3. 0 \in S
  <2>1. f[0] \in Seq(T) /\ Len(f[0]) = 0
    BY <1>2, EmptySeq
  <2>2. 0 \in 0..Len(s) /\ 1..0 = {}
    BY <1>1
  <2> QED BY <2>1, <2>2
<1>4. ASSUME NEW n \in 0..(Len(s) - 1), n \in S PROVE n + 1 \in S
  <2> DEFINE x == s[n + 1]
             o == f[n]
             longer == Append(o, x)
  <2>1. n + 1 \in 1..Len(s) /\ (n + 1) - 1 = n /\ n + 1 \in 0..Len(s)
    BY <1>1
  <2>2. f[n + 1] = IF x \in good THEN longer ELSE o
    BY <1>2, <2>1
  <2>3. o \in Seq(T) /\ InTurn(n, o)
    BY <1>4
  <2>4. \A k \in 1..n : k \in 1..(n + 1) /\ k < n + 1
    OBVIOUS
  <2>5. x \in T
    BY <2>1, ElementOfSeq
  <2> HIDE DEF o
  <2>6. /\ longer \in Seq(T) /\ Len(longer) = Len(o) + 1 /\ Len(o) \in Nat
        /\ \A i \in 1..Len(o) : longer[i] = o[i]
        /\ longer[Len(o) + 1] = x
    BY <2>3, <2>5, AppendProperties, LenProperties
  <2> HIDE DEF longer
  <2>7. InTurn(n + 1, longer)
    <3>1. ASSUME NEW i \in 1..Len(o) PROVE \E k \in 1..n : longer[i] = s[k]
      BY <2>3, <2>6
    <3>2. n + 1 \in 1..(n + 1) /\ longer[Len(o) + 1] = s[n + 1]
      BY <2>1, <2>6
    <3> HIDE DEF x
    <3>3. \A i \in 1..Len(longer) : i \in 1..Len(o) \/ i = Len(o) + 1
      BY <2>6
    <3>4. \A i \in 1..Len(longer) : \E k \in 1..(n + 1) : longer[i] = s[k]
      BY <2>4, <3>1, <3>2, <3>3
    <3>5. ASSUME NEW i \in 1..Len(longer), NEW j \in 1..Len(longer), i < j
          PROVE  \E k, l \in 1..(n + 1) : k < l /\ longer[i] = s[k] /\ longer[j] = s[l]
      <4>1. i \in 1..Len(o)
        BY <2>6, <3>5
      <4>2. CASE j \in 1..Len(o)
        <5>1. PICK k \in 1..n, l \in 1..n : k < l /\ o[i] = s[k] /\ o[j] = s[l]
          BY <2>3, <3>5, <4>1, <4>2
        <5> QED BY <2>4, <2>6, <4>1, <4>2, <5>1
      <4>3. CASE j = Len(o) + 1
        <5>1. PICK k \in 1..n : longer[i] = s[k]
          BY <3>1, <4>1
        <5> QED BY <2>4, <3>2, <4>3, <5>1
      <4> QED BY <3>3, <4>2, <4>3
    <3> QED BY <3>4, <3>5
  <2>8. InTurn(n + 1, o)
    BY <2>3, <2>4
  <2> HIDE DEF InTurn, x
  <2> QED BY <2>1, <2>2, <2>3, <2>6, <2>7, <2>8
<1>5. Right(Len(s))
  <2>1. \A n \in 0..Len(s) : n \in S
    <3> HIDE DEF S
    <3> QED BY <1>1, <1>3, <1>4, EveryNaturalUpTo
  <2> HIDE DEF Right
  <2> QED BY <1>1, <2>1
<1>6. DOMAIN f[Len(s)] = 1..Len(f[Len(s)])
  <2> HIDE DEF InTurn
  <2> QED BY <1>5, LenProperties
<1> DEFINE o == Only(s, good)
<1>7. DOMAIN o = 1..Len(o) /\ InTurn(Len(s), o)
  BY <1>2, <1>5, <1>6
<1> HIDE DEF o
<1>8. Thinned(o, s)
  BY <1>7 DEF Thinned
<1> QED BY <1>8 DEF o

LEMMA OnlyKeepsOrder ==
  ASSUME NEW T, NEW s \in Seq(T), NEW good, InOrder(s)
  PROVE  InOrder(Only(s, good))
<1> DEFINE o == Only(s, good)
<1>1. DOMAIN s = 1..Len(s)
  BY LenProperties
<1>0. Thinned(o, s)
  BY OnlyIsInTurn
<1> HIDE DEF o
<1>2. /\ DOMAIN o = 1..Len(o)
      /\ \A i, j \in 1..Len(o) :
           i < j => \E k, l \in 1..Len(s) : k < l /\ o[i] = s[k] /\ o[j] = s[l]
  BY <1>0 DEF Thinned
<1>3. ASSUME NEW i \in 1..Len(o), NEW j \in 1..Len(o), i < j
      PROVE  ~Above(o[j].version, o[i].version)
  <2>1. PICK k \in 1..Len(s), l \in 1..Len(s) : k < l /\ o[i] = s[k] /\ o[j] = s[l]
    BY <1>2, <1>3
  <2> QED BY <1>1, <2>1 DEF InOrder
<1> QED BY <1>2, <1>3 DEF InOrder, o

\* and no tag comes to be there twice.
LEMMA OnlyIsDistinct ==
  ASSUME NEW T, NEW s \in Seq(T), NEW good, Distinct(s)
  PROVE  Distinct(Only(s, good))
<1> DEFINE o == Only(s, good)
<1>1. Len(o) \in Nat
  <2> HIDE DEF o
  <2>1. o \in Seq(ToSet(s) \cap good)
    BY OnlyIs DEF o
  <2> QED BY <2>1, LenProperties
<1>2. DOMAIN s = 1..Len(s) /\ Len(s) \in Nat
  BY LenProperties
<1>0. Thinned(o, s)
  BY OnlyIsInTurn
<1> HIDE DEF o
<1>3. /\ DOMAIN o = 1..Len(o)
      /\ \A i, j \in 1..Len(o) :
           i < j => \E k, l \in 1..Len(s) : k < l /\ o[i] = s[k] /\ o[j] = s[l]
  BY <1>0 DEF Thinned
<1>4. ASSUME NEW i \in 1..Len(o), NEW j \in 1..Len(o), i < j PROVE o[i].tag # o[j].tag
  <2>1. PICK k \in 1..Len(s), l \in 1..Len(s) : k < l /\ o[i] = s[k] /\ o[j] = s[l]
    BY <1>3, <1>4
  <2> QED BY <1>2, <2>1 DEF Distinct
<1>5. \A i, j \in 1..Len(o) : i < j \/ j < i \/ i = j
  BY <1>1
<1>6. Distinct(o)
  BY <1>3, <1>4, <1>5 DEF Distinct
<1> QED BY <1>6 DEF o

\* What is in order stays in order when something follows that is in order and
\* not above it.
LEMMA ConcatInOrder ==
  ASSUME NEW T, NEW s \in Seq(T), NEW t \in Seq(T), InOrder(s), InOrder(t),
         \A i \in 1..Len(s), j \in 1..Len(t) : ~Above(t[j].version, s[i].version)
  PROVE  InOrder(s \o t)
<1> DEFINE both == s \o t
<1>1. /\ Len(s) \in Nat /\ DOMAIN s = 1..Len(s)
      /\ Len(t) \in Nat /\ DOMAIN t = 1..Len(t)
  BY LenProperties
<1>2. /\ both \in Seq(T) /\ Len(both) = Len(s) + Len(t)
      /\ \A i \in 1..(Len(s) + Len(t)) :
           both[i] = IF i <= Len(s) THEN s[i] ELSE t[i - Len(s)]
  BY ConcatProperties
<1> HIDE DEF both
<1>3. DOMAIN both = 1..Len(both)
  BY <1>2, LenProperties
<1> SUFFICES ASSUME NEW i \in 1..(Len(s) + Len(t)), NEW j \in 1..(Len(s) + Len(t)), i < j
             PROVE  ~Above(both[j].version, both[i].version)
  BY <1>2, <1>3 DEF InOrder, both
<1>4. CASE j <= Len(s)
  <2>1. i \in 1..Len(s) /\ j \in 1..Len(s) /\ both[i] = s[i] /\ both[j] = s[j]
    BY <1>1, <1>2, <1>4
  <2> QED BY <1>1, <2>1 DEF InOrder
<1>5. CASE i <= Len(s) /\ ~(j <= Len(s))
  <2>1. i \in 1..Len(s) /\ j - Len(s) \in 1..Len(t)
        /\ both[i] = s[i] /\ both[j] = t[j - Len(s)]
    BY <1>1, <1>2, <1>5
  <2> QED BY <2>1
<1>6. CASE ~(i <= Len(s)) /\ ~(j <= Len(s))
  <2>1. /\ i - Len(s) \in 1..Len(t) /\ j - Len(s) \in 1..Len(t)
        /\ i - Len(s) < j - Len(s)
        /\ both[i] = t[i - Len(s)] /\ both[j] = t[j - Len(s)]
    BY <1>1, <1>2, <1>6
  <2> QED BY <1>1, <2>1 DEF InOrder
<1> QED BY <1>1, <1>4, <1>5, <1>6

\* What stands before and after a place.
LEMMA SubSeqIs ==
  ASSUME NEW T, NEW s \in Seq(T), NEW i \in 1..Len(s)
  PROVE  LET a == SubSeq(s, 1, i - 1)
             b == SubSeq(s, i + 1, Len(s))
         IN  /\ a \in Seq(T) /\ DOMAIN a = 1..(i - 1) /\ Len(a) = i - 1
             /\ \A k \in 1..(i - 1) : a[k] = s[k]
             /\ b \in Seq(T) /\ DOMAIN b = 1..(Len(s) - i) /\ Len(b) = Len(s) - i
             /\ \A k \in 1..(Len(s) - i) : b[k] = s[i + k]
<1> DEFINE a == SubSeq(s, 1, i - 1)
           b == SubSeq(s, i + 1, Len(s))
<1>1. Len(s) \in Nat /\ DOMAIN s = 1..Len(s) /\ \A k \in 1..Len(s) : s[k] \in T
  BY LenProperties, ElementOfSeq
<1>2. /\ a \in Seq(T) /\ Len(a) = i - 1
      /\ \A k \in 1..(i - 1) : a[k] = s[k]
  <2>1. \A k \in 1..(i - 1) : s[k] \in T
    BY <1>1
  <2>2. 1 \in Int /\ i - 1 \in Int
    BY <1>1
  <2>3. /\ a \in Seq(T) /\ Len(a) = IF 1 <= i - 1 THEN (i - 1) - 1 + 1 ELSE 0
        /\ \A k \in 1..((i - 1) - 1 + 1) : a[k] = s[1 + k - 1]
    BY <2>1, <2>2, SubSeqProperties
  <2> HIDE DEF a
  <2> QED BY <1>1, <2>3
<1>3. /\ b \in Seq(T) /\ Len(b) = Len(s) - i
      /\ \A k \in 1..(Len(s) - i) : b[k] = s[i + k]
  <2>1. \A k \in (i + 1)..Len(s) : s[k] \in T
    BY <1>1
  <2>2. i + 1 \in Int /\ Len(s) \in Int
    BY <1>1
  <2>3. /\ b \in Seq(T)
        /\ Len(b) = IF i + 1 <= Len(s) THEN Len(s) - (i + 1) + 1 ELSE 0
        /\ \A k \in 1..(Len(s) - (i + 1) + 1) : b[k] = s[(i + 1) + k - 1]
    BY <2>1, <2>2, SubSeqProperties
  <2> HIDE DEF b
  <2>4. Len(b) = Len(s) - i
    <3> DEFINE N == Len(s)
    <3>1. Len(b) = IF i + 1 <= N THEN N - (i + 1) + 1 ELSE 0
      BY <2>3
    <3>2. N \in Nat /\ i \in 1..N
      BY <1>1
    <3> HIDE DEF N
    <3>3. Len(b) = N - i
      BY <3>1, <3>2
    <3> QED BY <3>3 DEF N
  <2>5. ASSUME NEW k \in 1..(Len(s) - i) PROVE b[k] = s[i + k]
    <3>1. k \in 1..(Len(s) - (i + 1) + 1) /\ (i + 1) + k - 1 = i + k
      BY <1>1
    <3> QED BY <2>3, <3>1
  <2> QED BY <2>3, <2>4, <2>5
<1> HIDE DEF a, b
<1>4. /\ DOMAIN a = 1..(i - 1) /\ DOMAIN b = 1..(Len(s) - i)
  BY <1>2, <1>3, LenProperties
<1> QED BY <1>2, <1>3, <1>4 DEF a, b

LEMMA RemoveKeepsOrder ==
  ASSUME NEW T, NEW s \in Seq(T), InOrder(s), NEW i \in 1..Len(s)
  PROVE  RemoveAt(s, i) \in Seq(T) /\ InOrder(RemoveAt(s, i))
<1> DEFINE a == SubSeq(s, 1, i - 1)
           b == SubSeq(s, i + 1, Len(s))
<1>1. Len(s) \in Nat /\ DOMAIN s = 1..Len(s)
  BY LenProperties
<1>2. /\ a \in Seq(T) /\ Len(a) = i - 1
      /\ \A k \in 1..(i - 1) : a[k] = s[k]
  BY SubSeqIs
<1>3. /\ b \in Seq(T) /\ Len(b) = Len(s) - i
      /\ \A k \in 1..(Len(s) - i) : b[k] = s[i + k]
  BY SubSeqIs
<1> HIDE DEF a, b
<1>4. /\ DOMAIN a = 1..(i - 1) /\ DOMAIN b = 1..(Len(s) - i)
  BY SubSeqIs DEF a, b
<1>5. InOrder(a)
  BY <1>1, <1>2, <1>4 DEF InOrder
<1>6. InOrder(b)
  <2> SUFFICES ASSUME NEW k \in 1..(Len(s) - i), NEW l \in 1..(Len(s) - i), k < l
               PROVE  ~Above(b[l].version, b[k].version)
    BY <1>4 DEF InOrder
  <2>1. i + k \in 1..Len(s) /\ i + l \in 1..Len(s) /\ i + k < i + l
    BY <1>1
  <2> QED BY <1>1, <1>3, <2>1 DEF InOrder
<1>7. \A k \in 1..Len(a), l \in 1..Len(b) : ~Above(b[l].version, a[k].version)
  <2> SUFFICES ASSUME NEW k \in 1..(i - 1), NEW l \in 1..(Len(s) - i)
               PROVE  ~Above(b[l].version, a[k].version)
    BY <1>2, <1>3
  <2>1. k \in 1..Len(s) /\ i + l \in 1..Len(s) /\ k < i + l
    BY <1>1
  <2> QED BY <1>1, <1>2, <1>3, <2>1 DEF InOrder
<1>8. a \o b \in Seq(T) /\ InOrder(a \o b)
  BY <1>2, <1>3, <1>5, <1>6, <1>7, ConcatProperties, ConcatInOrder
<1> QED BY <1>8 DEF RemoveAt, a, b

LEMMA TailIsInOrder ==
  ASSUME NEW T, NEW s \in Seq(T), InOrder(s), s # <<>>
  PROVE  InOrder(Tail(s))
<1>1. /\ Tail(s) \in Seq(T) /\ Len(Tail(s)) = Len(s) - 1
      /\ \A i \in 1..Len(Tail(s)) : Tail(s)[i] = s[i + 1]
  BY HeadTailProperties
<1>2. Len(s) \in Nat /\ DOMAIN s = 1..Len(s) /\ DOMAIN Tail(s) = 1..Len(Tail(s))
  BY <1>1, LenProperties
<1> DEFINE t == Tail(s)
<1> HIDE DEF t
<1> SUFFICES ASSUME NEW i \in 1..Len(t), NEW j \in 1..Len(t), i < j
             PROVE  ~Above(t[j].version, t[i].version)
  BY <1>2 DEF InOrder, t
<1>3. i + 1 \in 1..Len(s) /\ j + 1 \in 1..Len(s) /\ i + 1 < j + 1
  BY <1>1, <1>2 DEF t
<1>4. ~Above(s[j + 1].version, s[i + 1].version)
  BY <1>2, <1>3 DEF InOrder
<1> QED BY <1>1, <1>4 DEF t

LEMMA TailOfOne ==
  ASSUME NEW T, NEW x \in T, NEW s \in Seq(T)
  PROVE  Tail(<<x>> \o s) = s
<1> DEFINE both == <<x>> \o s
<1>1. <<x>> \in Seq(T) /\ Len(<<x>>) = 1
  OBVIOUS
<1>2. Len(s) \in Nat
  BY LenProperties
<1>3. /\ both \in Seq(T) /\ Len(both) = 1 + Len(s)
      /\ \A i \in 1..Len(s) : both[i + 1] = s[i]
  <2> DEFINE one == <<x>>
  <2> HIDE DEF one
  <2>1. one \in Seq(T) /\ Len(one) = 1
    BY <1>1 DEF one
  <2>2. /\ one \o s \in Seq(T) /\ Len(one \o s) = Len(one) + Len(s)
        /\ \A i \in 1..(Len(one) + Len(s)) :
             (one \o s)[i] = IF i <= Len(one) THEN one[i] ELSE s[i - Len(one)]
    BY <2>1, ConcatProperties
  <2>3. ASSUME NEW i \in 1..Len(s) PROVE (one \o s)[i + 1] = s[i]
    <3>1. i + 1 \in 1..(Len(one) + Len(s)) /\ ~(i + 1 <= Len(one)) /\ (i + 1) - Len(one) = i
      BY <1>2, <2>1
    <3> QED BY <2>2, <3>1
  <2>4. /\ one \o s \in Seq(T) /\ Len(one \o s) = 1 + Len(s)
    BY <2>1, <2>2
  <2> QED BY <2>3, <2>4 DEF one
<1> HIDE DEF both
<1>4. both # <<>>
  BY <1>2, <1>3
<1>5. /\ Tail(both) \in Seq(T) /\ Len(Tail(both)) = Len(both) - 1
      /\ \A i \in 1..Len(Tail(both)) : Tail(both)[i] = both[i + 1]
  BY <1>3, <1>4, HeadTailProperties
<1>6. Len(Tail(both)) = Len(s) /\ \A i \in 1..Len(Tail(both)) : Tail(both)[i] = s[i]
  BY <1>2, <1>3, <1>5
<1>7. Tail(both) = s
  BY <1>5, <1>6, SeqEqual
<1> QED BY <1>7 DEF both

-----------------------------------------------------------------------------
(* What the forge and the list have.                                       *)

LEMMA MembersAre ==
  ASSUME NEW T, NEW s \in Seq(T)
  PROVE  /\ Len(s) \in Nat /\ DOMAIN s = 1..Len(s)
         /\ ToSet(s) \subseteq T /\ s \in Seq(ToSet(s))
         /\ IsFiniteSet(ToSet(s))
<1>1. Len(s) \in Nat /\ DOMAIN s = 1..Len(s) /\ s \in [1..Len(s) -> T]
  BY LenProperties
<1>2. ToSet(s) \subseteq T
  BY <1>1 DEF ToSet
<1>3. s \in [1..Len(s) -> ToSet(s)] /\ \A x \in ToSet(s) : \E i \in 1..Len(s) : s[i] = x
  BY <1>1 DEF ToSet
<1>4. s \in Seq(ToSet(s))
  <2> DEFINE R == ToSet(s)
  <2>1. s \in [1..Len(s) -> R]
    BY <1>3
  <2> HIDE DEF R
  <2>2. s \in Seq(R)
    BY <1>1, <2>1
  <2> QED BY <2>2 DEF R
<1>5. IsFiniteSet(ToSet(s))
  <2>1. s \in Surjection(1..Len(s), ToSet(s))
    BY <1>3 DEF Surjection
  <2>2. IsFiniteSet(1..Len(s))
    BY <1>1, FS_Interval
  <2> QED BY <2>1, <2>2, FS_Surjection
<1> QED BY <1>1, <1>2, <1>4, <1>5

LEMMA EntriesAre ==
  ASSUME ListIsValid
  PROVE  /\ Entries(list) \in Seq(ToSet(Entries(list)))
         /\ \A e \in ToSet(Entries(list)) : IsFull(e.version)
<1>1. CASE list = None
  <2>1. ToSet(<<>>) = {}
    BY DEF ToSet
  <2>2. <<>> \in Seq({})
    BY EmptySeq
  <2> QED BY <1>1, <2>1, <2>2 DEF Entries
<1>2. CASE list # None
  BY <1>2 DEF ListIsValid, Entries
<1> QED BY <1>1, <1>2

LEMMA TagIs ==
  ASSUME NEW tag, IsText(tag), TagVersion(tag) # None
  PROVE  IsFull(TagVersion(tag))
<1> DEFINE v == Text("", Padded(tag.n), tag.rc, tag.b)
<1>1. TagVersion(tag) = v /\ Len(tag.n) \in 2..3 /\ tag.n \in Seq(Nat)
  BY DEF TagVersion, IsText
<1>2. Padded(tag.n) \in Seq(Nat) /\ Len(Padded(tag.n)) = 3
  <2> DEFINE n == tag.n
  <2> HIDE DEF n, v
  <2>1. n \in Seq(Nat) /\ Len(n) \in 2..3
    BY <1>1 DEF n
  <2>2. Append(n, 0) \in Seq(Nat) /\ Len(Append(n, 0)) = Len(n) + 1
    BY <2>1, AppendProperties
  <2>3. CASE Len(n) = 2
    <3>1. Padded(n) = Append(n, 0)
      BY <2>3 DEF Padded
    <3> QED BY <2>2, <2>3, <3>1 DEF n
  <2>4. CASE Len(n) # 2
    <3>1. Padded(n) = n
      BY <2>4 DEF Padded
    <3> QED BY <2>1, <2>4, <3>1 DEF n
  <2> QED BY <2>3, <2>4
<1>3. v = [lead |-> "", n |-> Padded(tag.n), rc |-> tag.rc, b |-> tag.b]
  BY DEF Text
<1> HIDE DEF v
<1>4. v.lead = "" /\ v.n = Padded(tag.n) /\ v.rc = tag.rc /\ v.b = tag.b
  BY <1>3
<1>5. tag.rc \in Nat /\ tag.b \in Nat
  BY DEF IsText
<1>6. v = Text(v.lead, v.n, v.rc, v.b)
  BY <1>3, <1>4 DEF Text
<1> QED BY <1>1, <1>2, <1>4, <1>5, <1>6 DEF IsFull, IsText

LEMMA LiveIs ==
  ASSUME site \in Sites
  PROVE  /\ Live(site) \in Seq(ToSet(Live(site)))
         /\ \A r \in ToSet(Live(site)) :
              /\ DOMAIN r = {"version", "tag", "bundles", "recommended"}
              /\ IsFull(r.version) /\ r.bundles \in Seq(ToSet(r.bundles))
<1> DEFINE public == {r \in ToSet(site.releases) : ~r.draft /\ TagVersion(r.tag) # None}
           shown == Only(site.releases, public)
           Packslips(r) == {url \in ToSet(r.assets) : url.name \in BundleNames}
           L(i) == [version |-> TagVersion(shown[i].tag), tag |-> shown[i].tag,
                    bundles |-> Only(shown[i].assets, Packslips(shown[i])),
                    recommended |-> site.latest = shown[i].tag]
<1>1. /\ site.releases \in Seq(ToSet(site.releases))
      /\ \A r \in ToSet(site.releases) : IsText(r.tag) /\ r.assets \in Seq(ToSet(r.assets))
  BY SitesComplete
<1>2. shown \in Seq(ToSet(site.releases) \cap public)
  <2> HIDE DEF public
  <2> QED BY <1>1, OnlyIs
<1>3. Len(shown) \in Nat /\ DOMAIN shown = 1..Len(shown) /\ ToSet(shown) \subseteq public
  <2> HIDE DEF public, shown
  <2> QED BY <1>2, MembersAre
<1>4. Live(site) = [i \in 1..Len(shown) |-> L(i)]
  BY <1>3, Zenon DEF Live
<1>5. ASSUME NEW i \in 1..Len(shown)
      PROVE  /\ DOMAIN L(i) = {"version", "tag", "bundles", "recommended"}
             /\ IsFull(L(i).version) /\ L(i).bundles \in Seq(ToSet(L(i).bundles))
  <2>1. shown[i] \in public
    <3> HIDE DEF public, shown
    <3> QED BY <1>3 DEF ToSet
  <2>2. IsText(shown[i].tag) /\ TagVersion(shown[i].tag) # None
    <3> HIDE DEF shown
    <3> QED BY <1>1, <2>1
  <2>3. shown[i].assets \in Seq(ToSet(shown[i].assets))
    <3> HIDE DEF shown
    <3> QED BY <1>1, <2>1
  <2> HIDE DEF shown, Packslips
  <2>4. IsFull(TagVersion(shown[i].tag))
    BY <2>2, TagIs
  <2>5. Only(shown[i].assets, Packslips(shown[i])) \in Seq(ToSet(shown[i].assets) \cap Packslips(shown[i]))
    BY <2>3, OnlyIs
  <2>6. LET only == Only(shown[i].assets, Packslips(shown[i])) IN only \in Seq(ToSet(only))
    BY <2>5, MembersAre
  <2> QED BY <2>4, <2>6
<1> HIDE DEF L, shown
<1>6. Live(site) \in Seq({L(i) : i \in 1..Len(shown)})
  BY <1>3, <1>4
<1>7. \A r \in ToSet(Live(site)) : \E i \in 1..Len(shown) : r = L(i)
  BY <1>4 DEF ToSet
<1> QED BY <1>5, <1>6, <1>7, MembersAre

\* What a forge shows is something, and so is what an entry says.
LEMMA LiveIsPublic ==
  ASSUME site \in Sites, NEW r \in ToSet(Live(site))
  PROVE  r \in Releases /\ r # None
<1>1. r \in Public
  BY DEF Public
<1>2. \E v, tag, bundles : \E x \in BOOLEAN :
         r = [version |-> v, tag |-> tag, bundles |-> bundles, recommended |-> x]
  <2> DEFINE public == {x \in ToSet(site.releases) : ~x.draft /\ TagVersion(x.tag) # None}
             shown == Only(site.releases, public)
             Packslips(x) == {url \in ToSet(x.assets) : url.name \in BundleNames}
             L(i) == [version |-> TagVersion(shown[i].tag), tag |-> shown[i].tag,
                      bundles |-> Only(shown[i].assets, Packslips(shown[i])),
                      recommended |-> site.latest = shown[i].tag]
  <2>1. Live(site) = [i \in DOMAIN shown |-> L(i)]
    BY Zenon DEF Live
  <2>2. \E i : r = L(i)
    <3> HIDE DEF L, shown
    <3> QED BY <2>1 DEF ToSet
  <2>3. PICK i : r = L(i)
    BY <2>2
  <2> DEFINE tag == shown[i].tag
             x == site.latest = tag
  <2>4. x \in BOOLEAN
    BY Zenon
  <2>5. r = [version |-> TagVersion(tag), tag |-> tag,
             bundles |-> Only(shown[i].assets, Packslips(shown[i])), recommended |-> x]
    BY <2>3
  <2> HIDE DEF tag, x, shown, Packslips
  <2> QED BY <2>4, <2>5
<1>3. r.version \in AnyVersion /\ r.tag \in {x.tag : x \in Public}
  BY <1>1 DEF AnyVersion
<1>4. r \in Releases
  BY <1>1, <1>2, <1>3 DEF Releases
<1> QED BY <1>3, <1>4, NoneAssumption

LEMMA EntryReleaseIs ==
  ASSUME ListIsValid, site \in Sites, NEW latest, NEW choice \in Releases \cup {None},
         NEW e \in ToSet(Entries(list))
  PROVE  EntryRelease(Live(site), list, latest, choice, e) \in Releases
<1> DEFINE live == Live(site)
           PublicTag == {r.tag : r \in Public}
           tag == EntryTag(live, list, latest, choice, e)
           AnyTag == AnyVersion \cup PublicTag \cup {x.slip.tag : x \in Listed}
           good == {r \in ToSet(live) : r.version = e.version /\ (r.recommended \/ r.tag = latest)}
           mine == Only(live, good)
           marked == IF list.latest # None THEN list.latest = e.version
                     ELSE tag = latest \/ \E r \in ToSet(live) : r.tag = tag /\ r.recommended
<1>1. IsListed(e)
  BY DEF ListIsValid, Entries, ToSet
<1>2. /\ e.version \in AnyVersion /\ e.tag \in AnyTag
      /\ <<e.packslip>> \in {<<x.url>> : x \in Listed}
  BY <1>1 DEF IsListed, AnyVersion
<1>3. mine # <<>> => mine[1].tag \in PublicTag
  <2> SUFFICES ASSUME mine # <<>> PROVE mine[1].tag \in PublicTag
    OBVIOUS
  <2>1. mine \in Seq(ToSet(live) \cap good)
    <3> HIDE DEF good
    <3> QED BY LiveIs, OnlyIs
  <2>2. mine[1] \in ToSet(live)
    <3> HIDE DEF mine, good, live
    <3>1. Len(mine) \in Nat \ {0}
      BY <2>1, EmptySeq
    <3> QED BY <2>1, <3>1, ElementOfSeq
  <2> HIDE DEF mine
  <2> QED BY <2>2 DEF Public
<1>4. choice # None => choice.tag \in AnyTag
  BY DEF Releases
<1>5. tag \in AnyTag
  <2> HIDE DEF AnyTag, PublicTag
  <2>1. PublicTag \subseteq AnyTag /\ AnyVersion \subseteq AnyTag
    BY DEF AnyTag
  <2> HIDE DEF good
  <2> QED BY <1>2, <1>3, <1>4, <2>1 DEF EntryTag, good
<1>6. marked \in BOOLEAN
  <2> HIDE DEF tag
  <2> QED BY Zenon
<1>7. EntryRelease(live, list, latest, choice, e)
        = [version |-> e.version, tag |-> tag, bundles |-> <<e.packslip>>, recommended |-> marked]
  BY DEF EntryRelease
<1> HIDE DEF tag, marked, AnyTag, PublicTag
<1> QED BY <1>2, <1>5, <1>6, <1>7 DEF Releases, AnyTag, PublicTag

-----------------------------------------------------------------------------
(* What sequences have after a step.                                       *)

LEMMA MembersOfAppend ==
  ASSUME NEW T, NEW s \in Seq(T), NEW x
  PROVE  ToSet(Append(s, x)) = ToSet(s) \cup {x}
<1> DEFINE U == T \cup {x}
           t == Append(s, x)
<1>1. s \in Seq(U) /\ x \in U
  BY SeqMonotonic
<1> HIDE DEF U
<1>2. /\ t \in Seq(U) /\ Len(t) = Len(s) + 1
      /\ \A i \in 1..Len(s) : t[i] = s[i]
      /\ t[Len(s) + 1] = x
  BY <1>1, AppendProperties
<1>3. Len(s) \in Nat /\ DOMAIN s = 1..Len(s)
  BY LenProperties
<1>4. DOMAIN t = 1..Len(t)
  BY <1>2, LenProperties
<1> HIDE DEF t
<1>5. 1..Len(t) = (1..Len(s)) \cup {Len(s) + 1}
  BY <1>2, <1>3
<1> QED BY <1>2, <1>3, <1>4, <1>5 DEF ToSet, t

LEMMA MembersOfConcat ==
  ASSUME NEW T, NEW s \in Seq(T), NEW t \in Seq(T)
  PROVE  ToSet(s \o t) = ToSet(s) \cup ToSet(t)
<1> DEFINE u == s \o t
<1>1. /\ u \in Seq(T) /\ Len(u) = Len(s) + Len(t)
      /\ \A i \in 1..(Len(s) + Len(t)) : u[i] = IF i <= Len(s) THEN s[i] ELSE t[i - Len(s)]
  BY ConcatProperties
<1>2. /\ Len(s) \in Nat /\ DOMAIN s = 1..Len(s)
      /\ Len(t) \in Nat /\ DOMAIN t = 1..Len(t)
  BY LenProperties
<1>3. DOMAIN u = 1..(Len(s) + Len(t))
  BY <1>1, LenProperties
<1> HIDE DEF u
<1>4. ToSet(u) \subseteq ToSet(s) \cup ToSet(t)
  <2> SUFFICES ASSUME NEW i \in 1..(Len(s) + Len(t)) PROVE u[i] \in ToSet(s) \cup ToSet(t)
    BY <1>3 DEF ToSet
  <2>1. CASE i <= Len(s)
    <3>1. i \in 1..Len(s) /\ u[i] = s[i]
      BY <1>1, <1>2, <2>1
    <3> QED BY <1>2, <3>1 DEF ToSet
  <2>2. CASE ~(i <= Len(s))
    <3>1. i - Len(s) \in 1..Len(t) /\ u[i] = t[i - Len(s)]
      BY <1>1, <1>2, <2>2
    <3> QED BY <1>2, <3>1 DEF ToSet
  <2> QED BY <2>1, <2>2
<1>5. ASSUME NEW i \in 1..Len(s) PROVE s[i] \in ToSet(u)
  <2>1. i \in 1..(Len(s) + Len(t)) /\ u[i] = s[i]
    BY <1>1, <1>2
  <2> QED BY <1>3, <2>1 DEF ToSet
<1>6. ASSUME NEW i \in 1..Len(t) PROVE t[i] \in ToSet(u)
  <2>1. /\ i + Len(s) \in 1..(Len(s) + Len(t)) /\ ~(i + Len(s) <= Len(s))
        /\ (i + Len(s)) - Len(s) = i
    BY <1>2
  <2>2. u[i + Len(s)] = t[i]
    BY <1>1, <2>1
  <2> QED BY <1>3, <2>1, <2>2 DEF ToSet
<1>7. ToSet(s) \subseteq ToSet(u) /\ ToSet(t) \subseteq ToSet(u)
  BY <1>2, <1>5, <1>6 DEF ToSet
<1> QED BY <1>4, <1>7 DEF u

LEMMA MembersOfTail ==
  ASSUME NEW T, NEW s \in Seq(T), s # <<>>
  PROVE  ToSet(s) = {Head(s)} \cup ToSet(Tail(s))
<1>1. /\ Tail(s) \in Seq(T) /\ Len(Tail(s)) = Len(s) - 1 /\ Head(s) = s[1]
      /\ \A i \in 1..Len(Tail(s)) : Tail(s)[i] = s[i + 1]
  BY HeadTailProperties
<1> DEFINE t == Tail(s)
<1> HIDE DEF t
<1>2. Len(s) \in Nat \ {0} /\ DOMAIN s = 1..Len(s) /\ DOMAIN t = 1..(Len(s) - 1)
  BY <1>1, LenProperties, EmptySeq DEF t
<1>3. \A i \in 1..(Len(s) - 1) : t[i] = s[i + 1] /\ i + 1 \in 1..Len(s)
  BY <1>1, <1>2 DEF t
<1>4. ToSet(t) \subseteq ToSet(s) /\ s[1] \in ToSet(s)
  BY <1>2, <1>3 DEF ToSet
<1>5. ASSUME NEW i \in 1..Len(s) PROVE s[i] \in {s[1]} \cup ToSet(t)
  <2>1. CASE i = 1
    BY <2>1
  <2>2. CASE i # 1
    <3>1. i - 1 \in 1..(Len(s) - 1) /\ (i - 1) + 1 = i
      BY <1>2, <2>2
    <3> QED BY <1>2, <1>3, <3>1 DEF ToSet
  <2> QED BY <2>1, <2>2
<1>6. ToSet(s) \subseteq {s[1]} \cup ToSet(t)
  BY <1>2, <1>5 DEF ToSet
<1> QED BY <1>1, <1>4, <1>6 DEF t

LEMMA MembersOfRemoved ==
  ASSUME NEW T, NEW s \in Seq(T), NEW i \in 1..Len(s)
  PROVE  ToSet(s) = {s[i]} \cup ToSet(RemoveAt(s, i))
<1> DEFINE a == SubSeq(s, 1, i - 1)
           b == SubSeq(s, i + 1, Len(s))
<1>1. Len(s) \in Nat /\ DOMAIN s = 1..Len(s)
  BY LenProperties
<1> DEFINE N == Len(s)
<1>2. /\ DOMAIN a = 1..(i - 1) /\ a \in Seq(T)
      /\ \A k \in 1..(i - 1) : a[k] = s[k]
  BY SubSeqIs
<1>3. /\ DOMAIN b = 1..(N - i) /\ b \in Seq(T)
      /\ \A k \in 1..(N - i) : b[k] = s[i + k]
  BY SubSeqIs
<1> HIDE DEF N
<1> HIDE DEF a, b
<1>4. N \in Nat /\ i \in 1..N /\ DOMAIN s = 1..N
  BY <1>1 DEF N
<1>5. ToSet(a) \subseteq ToSet(s) /\ ToSet(b) \subseteq ToSet(s) /\ s[i] \in ToSet(s)
  <2>1. /\ \A k \in 1..(i - 1) : k \in 1..N
        /\ \A k \in 1..(N - i) : i + k \in 1..N
    BY <1>4
  <2>2. \A k \in 1..N : s[k] \in ToSet(s)
    BY <1>4 DEF ToSet
  <2>3. \A k \in DOMAIN a : a[k] \in ToSet(s)
    BY <1>2, <2>1, <2>2
  <2>4. \A k \in DOMAIN b : b[k] \in ToSet(s)
    BY <1>3, <2>1, <2>2
  <2> QED BY <1>4, <2>2, <2>3, <2>4 DEF ToSet
<1>6. ASSUME NEW k \in 1..N PROVE s[k] \in {s[i]} \cup ToSet(a) \cup ToSet(b)
  <2>1. CASE k = i
    BY <2>1
  <2>2. CASE k < i
    <3>1. k \in 1..(i - 1)
      BY <1>4, <2>2
    <3> QED BY <1>2, <3>1 DEF ToSet
  <2>3. CASE k > i
    <3>1. k - i \in 1..(N - i) /\ i + (k - i) = k
      BY <1>4, <2>3
    <3> QED BY <1>3, <3>1 DEF ToSet
  <2> QED BY <1>4, <2>1, <2>2, <2>3
<1>7. ToSet(s) = {s[i]} \cup ToSet(a) \cup ToSet(b)
  BY <1>4, <1>5, <1>6 DEF ToSet
<1>8. ToSet(a \o b) = ToSet(a) \cup ToSet(b)
  BY <1>2, <1>3, MembersOfConcat
<1> QED BY <1>7, <1>8 DEF RemoveAt, a, b

\* Only leaves out nothing that is in the set.
LEMMA OnlyHasAll ==
  ASSUME NEW T, NEW s \in Seq(T), NEW good
  PROVE  ToSet(Only(s, good)) = ToSet(s) \cap good
<1>1. Len(s) \in Nat /\ DOMAIN s = 1..Len(s)
  BY LenProperties
<1>2. PICK f : /\ f[0] = <<>>
               /\ \A n \in 1..Len(s) :
                    f[n] = IF s[n] \in good THEN Append(f[n - 1], s[n]) ELSE f[n - 1]
               /\ Only(s, good) = f[Len(s)]
  BY <1>1, OnlyTurns
<1> DEFINE R == ToSet(s) \cap good
           Right(n) == f[n] \in Seq(R) /\ \A i \in 1..n : s[i] \in good => s[i] \in ToSet(f[n])
           S == {n \in 0..Len(s) : Right(n)}
<1>3. 0 \in S
  <2>1. <<>> \in Seq(R)
    <3> HIDE DEF R
    <3> QED BY EmptySeq
  <2>2. 0 \in 0..Len(s) /\ \A i \in 1..0 : FALSE
    BY <1>1
  <2> QED BY <1>2, <2>1, <2>2
<1>4. ASSUME NEW n \in 0..(Len(s) - 1), n \in S PROVE n + 1 \in S
  <2>1. n + 1 \in 1..Len(s) /\ (n + 1) - 1 = n /\ n + 1 \in 0..Len(s)
    BY <1>1
  <2>2. f[n + 1] = IF s[n + 1] \in good THEN Append(f[n], s[n + 1]) ELSE f[n]
    BY <1>2, <2>1
  <2>3. s[n + 1] \in ToSet(s) /\ \A i \in 1..(n + 1) : i \in 1..n \/ i = n + 1
    BY <1>1, <2>1 DEF ToSet
  <2>4. CASE s[n + 1] \in good
    <3>1. f[n] \in Seq(R) /\ s[n + 1] \in R
      BY <1>4, <2>3, <2>4
    <3> HIDE DEF R
    <3>2. /\ Append(f[n], s[n + 1]) \in Seq(R)
          /\ ToSet(Append(f[n], s[n + 1])) = ToSet(f[n]) \cup {s[n + 1]}
      BY <3>1, AppendProperties, MembersOfAppend
    <3> QED BY <1>4, <2>1, <2>2, <2>3, <2>4, <3>2
  <2>5. CASE s[n + 1] \notin good
    BY <1>4, <2>1, <2>2, <2>3, <2>5
  <2> QED BY <2>4, <2>5
<1>5. Right(Len(s))
  <2>1. \A n \in 0..Len(s) : n \in S
    <3> HIDE DEF S
    <3> QED BY <1>1, <1>3, <1>4, EveryNaturalUpTo
  <2> QED BY <1>1, <2>1
<1>6. ToSet(Only(s, good)) \subseteq R
  BY <1>2, <1>5, MembersAre
<1> QED BY <1>1, <1>2, <1>5, <1>6 DEF ToSet

-----------------------------------------------------------------------------
(* Merging: the forge's releases, then the list's entries in their turn.   *)

Versions == VersionsOf(Live(site), list)

Shape(merged) ==
    /\ DOMAIN merged = {"choices", "alternates"}
    /\ DOMAIN merged.choices = Versions /\ DOMAIN merged.alternates = Versions

\* The forge's releases of a version, and those that have bundles.
ForgeOf(v) == {r \in ToSet(Live(site)) : r.version = v}
OthersOf(v) == {r \in ForgeOf(v) : r.bundles # <<>>}

\* One of the first n entries decides on a version.
Decided(v, n) == \E i \in 1..n : Entries(list)[i].version = v

IsEntry(v, r) ==
    /\ r \in Releases /\ r.version = v /\ r.bundles \in Seq(ToSet(r.bundles))
    /\ \E e \in ToSet(Entries(list)) :
         ~e.yanked /\ e.version = v /\ r.bundles = <<e.packslip>>

\* After n entries: a choice is an entry's, or the forge's if none of them
\* decides on its version; and then only are there others.
Signed(merged, n) ==
    /\ Shape(merged)
    /\ \A v \in Versions :
         /\ merged.choices[v] # None =>
              \/ IsEntry(v, merged.choices[v])
              \/ ~Decided(v, n) /\ merged.choices[v] \in ForgeOf(v)
         /\ merged.alternates[v] \in Seq(OthersOf(v))
         /\ Decided(v, n) => merged.alternates[v] = <<>>

LEMMA AddLiveKeeps ==
  ASSUME NEW m, Signed(m, 0), NEW r \in ToSet(Live(site))
  PROVE  Signed(AddLive(m, r), 0)
<1> DEFINE v == r.version
           V == Versions
           new == AddLive(m, r)
<1>1. Shape(m) /\ v \in V /\ r \in ForgeOf(v) /\ \A w \in V : ~Decided(w, 0)
  BY DEF Signed, Versions, VersionsOf, ForgeOf, Decided
<1>2. \A w \in V :
         /\ m.choices[w] # None => (IsEntry(w, m.choices[w]) \/ m.choices[w] \in ForgeOf(w))
         /\ m.alternates[w] \in Seq(OthersOf(w))
  BY DEF Signed
<1>3. CASE new = [m EXCEPT !.choices[v] = r]
  <2>1. /\ DOMAIN new = {"choices", "alternates"}
        /\ new.choices = [m.choices EXCEPT ![v] = r] /\ new.alternates = m.alternates
    <3> HIDE DEF new, v
    <3> QED BY <1>1, <1>3 DEF Shape
  <2> HIDE DEF new, v, V
  <2>2. Shape(new)
    BY <1>1, <2>1 DEF Shape, V
  <2>3. \A w \in V : new.choices[w] = IF w = v THEN r ELSE m.choices[w]
    BY <1>1, <2>1 DEF Shape, V
  <2>4. \A w \in V :
           new.choices[w] # None => (IsEntry(w, new.choices[w]) \/ new.choices[w] \in ForgeOf(w))
    BY <1>1, <1>2, <2>3
  <2> QED BY <1>1, <1>2, <2>1, <2>2, <2>4 DEF Signed, V, new
<1>4. CASE new = [m EXCEPT !.alternates[v] = Append(@, r)] /\ r.bundles # <<>>
  <2>1. /\ DOMAIN new = {"choices", "alternates"}
        /\ new.alternates = [m.alternates EXCEPT ![v] = Append(@, r)] /\ new.choices = m.choices
    <3> HIDE DEF new, v
    <3> QED BY <1>1, <1>4 DEF Shape
  <2>2. r \in OthersOf(v)
    BY <1>1, <1>4 DEF OthersOf
  <2> HIDE DEF new, v, V
  <2>3. Shape(new)
    BY <1>1, <2>1 DEF Shape, V
  <2> DEFINE longer == Append(m.alternates[v], r)
  <2>4. longer \in Seq(OthersOf(v))
    <3>1. m.alternates[v] \in Seq(OthersOf(v))
      BY <1>1, <1>2
    <3> QED BY <2>2, <3>1, AppendProperties
  <2>5. new.alternates = [m.alternates EXCEPT ![v] = longer]
    BY <2>1
  <2> HIDE DEF longer
  <2>6. \A w \in V : new.alternates[w] \in Seq(OthersOf(w))
    <3> SUFFICES ASSUME NEW w \in V PROVE new.alternates[w] \in Seq(OthersOf(w))
      OBVIOUS
    <3>1. CASE w = v
      <4>1. new.alternates[w] = longer
        BY <1>1, <2>5, <3>1 DEF Shape, V
      <4> QED BY <2>4, <3>1, <4>1
    <3>2. CASE w # v
      <4>1. new.alternates[w] = m.alternates[w]
        BY <1>1, <2>5, <3>2 DEF Shape, V
      <4> QED BY <1>2, <4>1
    <3> QED BY <3>1, <3>2
  <2> QED BY <1>1, <1>2, <2>1, <2>3, <2>6 DEF Signed, V, new
<1>5. CASE new = m
  BY <1>5
<1> QED BY <1>3, <1>4, <1>5 DEF AddLive

LEMMA AddEntryKeeps ==
  ASSUME ListIsValid, site \in Sites, NEW m, NEW n \in Nat, n + 1 \in 1..Len(Entries(list)),
         Signed(m, n), NEW latest
  PROVE  Signed(AddEntry(Live(site), list, latest, m, Entries(list)[n + 1]), n + 1)
<1> DEFINE e == Entries(list)[n + 1]
           v == e.version
           V == Versions
           c == IF e.yanked THEN None
                ELSE EntryRelease(Live(site), list, latest, m.choices[v], e)
           new == AddEntry(Live(site), list, latest, m, e)
           blank == <<>>
<1>1. e \in ToSet(Entries(list))
  BY EntriesAre, LenProperties DEF ToSet
<1>2. v \in V
  <2> HIDE DEF e
  <2> QED BY <1>1 DEF Versions, VersionsOf
<1>3. Shape(m)
  BY DEF Signed
<1>4. c # None => IsEntry(v, c)
  <2> SUFFICES ASSUME c # None PROVE IsEntry(v, c)
    OBVIOUS
  <2> HIDE DEF e
  <2>1. /\ ~e.yanked /\ c.version = v /\ c.bundles = <<e.packslip>>
        /\ c = EntryRelease(Live(site), list, latest, m.choices[v], e)
    BY DEF EntryRelease
  <2> HIDE DEF v
  <2>4. m.choices[v] \in Releases \cup {None}
    BY <1>2, LiveIsPublic DEF Signed, IsEntry, ForgeOf
  <2>5. c \in Releases
    BY <1>1, <2>1, <2>4, EntryReleaseIs DEF v
  <2>2. <<e.packslip>> \in Seq({e.packslip})
    OBVIOUS
  <2> HIDE DEF c
  <2>3. c.bundles \in Seq(ToSet(c.bundles))
    BY <2>1, <2>2, MembersAre
  <2> QED BY <1>1, <2>1, <2>3, <2>5 DEF IsEntry, v
<1>5. /\ DOMAIN new = {"choices", "alternates"}
      /\ new.choices = [m.choices EXCEPT ![v] = c]
      /\ new.alternates = [m.alternates EXCEPT ![v] = blank]
  BY DEF AddEntry
<1>6. \A w \in V : Decided(w, n + 1) <=> (w = v \/ Decided(w, n))
  <2>1. 1..(n + 1) = (1..n) \cup {n + 1}
    OBVIOUS
  <2> QED BY <2>1 DEF Decided
<1> HIDE DEF c, new, v, V, e, blank
<1>7. Shape(new)
  BY <1>3, <1>5 DEF Shape
<1>8. /\ new.choices[v] = c /\ new.alternates[v] = blank
      /\ \A w \in V \ {v} : /\ new.choices[w] = m.choices[w]
                             /\ new.alternates[w] = m.alternates[w]
  BY <1>2, <1>3, <1>5 DEF Shape, V
<1>9. ASSUME NEW w \in V
      PROVE  /\ new.choices[w] # None =>
                   \/ IsEntry(w, new.choices[w])
                   \/ ~Decided(w, n + 1) /\ new.choices[w] \in ForgeOf(w)
             /\ new.alternates[w] \in Seq(OthersOf(w))
             /\ Decided(w, n + 1) => new.alternates[w] = <<>>
  <2>1. CASE w = v
    <3>1. new.choices[w] = c /\ new.alternates[w] = blank
      BY <1>8, <2>1
    <3>2. blank \in Seq(OthersOf(w)) /\ blank = <<>>
      BY EmptySeq DEF blank
    <3> QED BY <1>4, <2>1, <3>1, <3>2
  <2>2. CASE w # v
    <3>1. new.choices[w] = m.choices[w] /\ new.alternates[w] = m.alternates[w]
      BY <1>8, <2>2
    <3>2. Decided(w, n + 1) <=> Decided(w, n)
      BY <1>6, <2>2
    <3> QED BY <3>1, <3>2 DEF Signed, V
  <2> QED BY <2>1, <2>2
<1> QED BY <1>7, <1>9 DEF Signed, V, new, e

LEMMA MergedIs ==
  ASSUME ListIsValid, site \in Sites, NEW latest
  PROVE  /\ Signed(MergeLive(Live(site), list), 0)
         /\ Signed(AddEntries(Live(site), list, latest, MergeLive(Live(site), list)),
                   Len(Entries(list)))
<1> DEFINE live == Live(site)
           N == Len(live)
           K == Len(Entries(list))
           forge == MergeLive(live, list)
<1>1. /\ N \in Nat /\ \A n \in 1..N : live[n] \in ToSet(live)
      /\ K \in Nat
  <2>1. live \in Seq(ToSet(live)) /\ Entries(list) \in Seq(ToSet(Entries(list)))
    BY LiveIs, EntriesAre
  <2> HIDE DEF live
  <2> QED BY <2>1, MembersAre, ElementOfSeq
<1>2. PICK f : /\ f[0] = NoChoices(VersionsOf(live, list))
               /\ \A n \in 1..N : f[n] = AddLive(f[n - 1], live[n])
               /\ forge = f[N]
  BY <1>1, MergeTurns
<1>3. Signed(forge, 0)
  <2> DEFINE S == {n \in 0..N : Signed(f[n], 0)}
  <2>1. 0 \in S
    <3> DEFINE m == NoChoices(VersionsOf(live, list))
    <3>1. Shape(m) /\ \A v \in Versions : m.choices[v] = None /\ m.alternates[v] = <<>>
      BY DEF NoChoices, Shape, Versions
    <3> HIDE DEF m
    <3>2. Signed(m, 0)
      BY <3>1, EmptySeq DEF Signed
    <3> HIDE DEF N
    <3> QED BY <1>1, <1>2, <3>2 DEF m
  <2>2. ASSUME NEW n \in 0..(N - 1), n \in S PROVE n + 1 \in S
    <3>1. n + 1 \in 1..N /\ (n + 1) - 1 = n /\ n + 1 \in 0..N
      BY <1>1
    <3>2. f[n + 1] = AddLive(f[n], live[n + 1])
      BY <1>2, <3>1
    <3>3. Signed(f[n + 1], 0)
      BY <1>1, <2>2, <3>1, <3>2, AddLiveKeeps
    <3> QED BY <3>1, <3>3
  <2>3. \A n \in 0..N : n \in S
    <3> HIDE DEF S, N
    <3> QED BY <1>1, <2>1, <2>2, EveryNaturalUpTo
  <2> HIDE DEF N, forge
  <2> QED BY <1>1, <1>2, <2>3
<1>4. PICK g : /\ g[0] = forge
               /\ \A n \in 1..K : g[n] = AddEntry(live, list, latest, g[n - 1], Entries(list)[n])
               /\ AddEntries(live, list, latest, forge) = g[K]
  BY <1>1, EntryTurns
<1>5. Signed(g[K], K)
  <2> DEFINE S == {n \in 0..K : Signed(g[n], n)}
  <2>1. 0 \in S
    <3> HIDE DEF K, forge
    <3> QED BY <1>1, <1>3, <1>4
  <2>2. ASSUME NEW n \in 0..(K - 1), n \in S PROVE n + 1 \in S
    <3>1. n + 1 \in 1..K /\ (n + 1) - 1 = n /\ n + 1 \in 0..K /\ n \in Nat
      BY <1>1
    <3>2. g[n + 1] = AddEntry(live, list, latest, g[n], Entries(list)[n + 1])
      BY <1>4, <3>1
    <3>3. Signed(g[n + 1], n + 1)
      BY <2>2, <3>1, <3>2, AddEntryKeeps
    <3> QED BY <3>1, <3>3
  <2>3. \A n \in 0..K : n \in S
    <3> HIDE DEF S, K
    <3> QED BY <1>1, <2>1, <2>2, EveryNaturalUpTo
  <2> HIDE DEF K
  <2> QED BY <1>1, <2>3
<1> QED BY <1>3, <1>4, <1>5

\* What is kept of a version: a release that stands, if it has bundles.
Fit(v, r) ==
    /\ r \in Releases /\ r.version = v /\ r.bundles \in Seq(ToSet(r.bundles))
    /\ r.bundles # <<>> => Stands(v, r.bundles)

\* Other releases of a version have bundles.
AreOthers(v, rs) ==
    rs \in Seq(ToSet(rs)) /\ \A r \in ToSet(rs) : Fit(v, r) /\ r.bundles # <<>>

Kept(merged) ==
    /\ Shape(merged)
    /\ \A v \in Versions :
         /\ merged.choices[v] # None => Fit(v, merged.choices[v])
         /\ AreOthers(v, merged.alternates[v])

\* No entry has the version or the tag of a release whose version none decides
\* on, if the last entry with its tag has its version too: then there is none.
LEMMA UnmappedIsFree ==
  ASSUME ListIsValid, NEW v, NEW r, ~Decided(v, Len(Entries(list))), Unmapped(list, v, r)
  PROVE  \A e \in ToSet(Entries(list)) : e.version # v /\ e.tag # r.tag
<1> DEFINE E == Entries(list)
           mine == {e \in ToSet(E) : e.tag = r.tag}
           named == Only(E, mine)
<1>1. E \in Seq(ToSet(E)) /\ Len(E) \in Nat /\ DOMAIN E = 1..Len(E)
  <2>1. E \in Seq(ToSet(E))
    BY EntriesAre
  <2> HIDE DEF E
  <2> QED BY <2>1, MembersAre
<1>2. \A e \in ToSet(E) : e.version # v
  <2> HIDE DEF E
  <2>1. \A e \in ToSet(E) : \E i \in 1..Len(E) : e = E[i]
    BY <1>1 DEF ToSet
  <2> QED BY <2>1 DEF Decided, E
<1>3. named \in Seq(ToSet(E) \cap mine) /\ (named = <<>> => ToSet(E) \cap mine = {})
  <2> HIDE DEF E, mine
  <2> QED BY <1>1, OnlyIs
<1>4. named = <<>>
  <2> SUFFICES ASSUME named # <<>> PROVE FALSE
    OBVIOUS
  <2>1. Last(named).version \in {v}
    BY DEF Unmapped, Mapped
  <2>2. Last(named) \in ToSet(E)
    <3> HIDE DEF named, E, mine
    <3>1. Len(named) \in Nat \ {0}
      BY <1>3, EmptySeq
    <3>2. named[Len(named)] \in ToSet(E) \cap mine
      BY <1>3, <3>1, ElementOfSeq
    <3> QED BY <3>2 DEF Last
  <2> HIDE DEF named, E
  <2> QED BY <1>2, <2>1, <2>2
<1> QED
  <2> HIDE DEF E, named
  <2>1. \A e \in ToSet(E) : e.version # v /\ e.tag # r.tag
    BY <1>2, <1>3, <1>4
  <2> QED BY <2>1 DEF E

\* Such a release of the forge is fit.
LEMMA UnmappedIsFit ==
  ASSUME ListIsValid, site \in Sites, NEW v, NEW r \in ForgeOf(v),
         ~Decided(v, Len(Entries(list))), Unmapped(list, v, r)
  PROVE  Fit(v, r)
<1>1. \A e \in ToSet(Entries(list)) : e.version # v /\ e.tag # r.tag
  BY UnmappedIsFree
<1>2. r \in ToSet(Live(site)) /\ r.version = v
  BY DEF ForgeOf
<1>3. r \in Releases /\ r.bundles \in Seq(ToSet(r.bundles))
  BY <1>2, LiveIs, LiveIsPublic
<1>4. r.bundles # <<>> => Stands(v, r.bundles)
  BY <1>1, <1>2 DEF Stands
<1> QED BY <1>2, <1>3, <1>4 DEF Fit

LEMMA EntryIsFit ==
  ASSUME NEW v, NEW r, IsEntry(v, r)
  PROVE  Fit(v, r)
BY DEF IsEntry, Fit, Stands

\* Others that are fit, and the first of them for the choice.
LEMMA DropMappedKeeps ==
  ASSUME ListIsValid, site \in Sites, NEW m, Signed(m, Len(Entries(list)))
  PROVE  Kept(DropMapped(list, m))
<1> DEFINE K == Len(Entries(list))
           kept(v) == m.choices[v] # None /\ Unmapped(list, v, m.choices[v])
           free(v) == {r \in ToSet(m.alternates[v]) : Unmapped(list, v, r)}
           others(v) == Only(m.alternates[v], free(v))
           new == DropMapped(list, m)
<1>1. Shape(m)
  BY DEF Signed
<1>2. /\ DOMAIN new = {"choices", "alternates"}
      /\ new.choices = [v \in Versions |-> IF kept(v) THEN m.choices[v] ELSE FirstOr(others(v), None)]
      /\ new.alternates = [v \in Versions |->
                             IF kept(v) \/ others(v) = <<>> THEN others(v) ELSE Tail(others(v))]
  BY <1>1, Zenon DEF DropMapped, Shape
<1> HIDE DEF new
<1>3. Shape(new)
  BY <1>2 DEF Shape
<1>4. ASSUME NEW v \in Versions
      PROVE  /\ new.choices[v] # None => Fit(v, new.choices[v])
             /\ AreOthers(v, new.alternates[v])
  <2>1. m.alternates[v] \in Seq(OthersOf(v)) /\ (Decided(v, K) => m.alternates[v] = <<>>)
    BY DEF Signed
  <2>2. others(v) \in Seq(ToSet(m.alternates[v]) \cap free(v))
    <3> HIDE DEF free
    <3> QED BY <2>1, OnlyIs
  <2> DEFINE R == ToSet(m.alternates[v]) \cap free(v)
             o == others(v)
  <2>3. \A r \in R : Fit(v, r) /\ r.bundles # <<>>
    <3> SUFFICES ASSUME NEW r \in R PROVE Fit(v, r) /\ r.bundles # <<>>
      OBVIOUS
    <3>1. r \in OthersOf(v) /\ Unmapped(list, v, r)
      BY <2>1, MembersAre
    <3>2. ~Decided(v, K)
      <4> SUFFICES ASSUME m.alternates[v] = <<>> PROVE FALSE
        BY <2>1
      <4> QED BY DEF ToSet
    <3> QED BY <3>1, <3>2, UnmappedIsFit DEF OthersOf
  <2> HIDE DEF kept
  <2>4. /\ kept(v) => new.choices[v] = m.choices[v]
        /\ ~kept(v) => new.choices[v] = FirstOr(o, None)
        /\ kept(v) \/ o = <<>> => new.alternates[v] = o
        /\ ~(kept(v) \/ o = <<>>) => new.alternates[v] = Tail(o)
    BY <1>2
  <2>5. o \in Seq(R)
    BY <2>2
  <2> HIDE DEF R, o, others, free
  <2>6. new.choices[v] # None => Fit(v, new.choices[v])
    <3>1. CASE kept(v)
      <4>1. \/ IsEntry(v, m.choices[v])
            \/ ~Decided(v, K) /\ m.choices[v] \in ForgeOf(v)
        BY <3>1 DEF Signed, kept
      <4>2. Unmapped(list, v, m.choices[v])
        BY <3>1 DEF kept
      <4>3. Fit(v, m.choices[v])
        BY <4>1, <4>2, UnmappedIsFit, EntryIsFit
      <4> QED BY <2>4, <3>1, <4>3
    <3>2. CASE ~kept(v) /\ o # <<>>
      <4>1. Head(o) \in R
        BY <2>5, <3>2, HeadTailProperties
      <4>2. new.choices[v] = Head(o)
        BY <2>4, <3>2 DEF FirstOr
      <4> QED BY <2>3, <4>1, <4>2
    <3>3. CASE ~kept(v) /\ o = <<>>
      BY <2>4, <3>3 DEF FirstOr
    <3> QED BY <3>1, <3>2, <3>3
  <2>7. new.alternates[v] \in Seq(R)
    <3>1. o # <<>> => Tail(o) \in Seq(R)
      BY <2>5, HeadTailProperties
    <3> QED BY <2>4, <2>5, <3>1
  <2>8. AreOthers(v, new.alternates[v])
    BY <2>3, <2>7, MembersAre DEF AreOthers
  <2> QED BY <2>6, <2>8
<1> QED BY <1>3, <1>4 DEF Kept, new

\* The same without a list.
LEMMA ForgeIsKept ==
  ASSUME ListIsValid, site \in Sites, list = None, NEW m, Signed(m, 0)
  PROVE  Kept(m)
<1>1. Entries(list) = <<>> /\ ToSet(Entries(list)) = {}
  BY DEF Entries, ToSet
<1>2. \A v \in Versions : \A r \in ForgeOf(v) : Fit(v, r)
  <2> SUFFICES ASSUME NEW v \in Versions, NEW r \in ForgeOf(v) PROVE Fit(v, r)
    OBVIOUS
  <2>1. r \in ToSet(Live(site)) /\ r.version = v
    BY DEF ForgeOf
  <2>2. r \in Releases /\ r.bundles \in Seq(ToSet(r.bundles))
    BY <2>1, LiveIs, LiveIsPublic
  <2> QED BY <1>1, <2>1, <2>2 DEF Fit, Stands
<1>3. ASSUME NEW v \in Versions
      PROVE  /\ m.choices[v] # None => Fit(v, m.choices[v])
             /\ AreOthers(v, m.alternates[v])
  <2>1. /\ m.choices[v] # None => (IsEntry(v, m.choices[v]) \/ m.choices[v] \in ForgeOf(v))
        /\ m.alternates[v] \in Seq(OthersOf(v))
    BY DEF Signed
  <2>2. \A r \in OthersOf(v) : Fit(v, r) /\ r.bundles # <<>>
    BY <1>2 DEF OthersOf
  <2>3. AreOthers(v, m.alternates[v])
    BY <2>1, <2>2, MembersAre DEF AreOthers
  <2>4. m.choices[v] # None => Fit(v, m.choices[v])
    BY <1>2, <2>1, EntryIsFit
  <2> QED BY <2>3, <2>4
<1> QED BY <1>3 DEF Kept, Signed

LEMMA RecommendedIsFit ==
  ASSUME NEW v, NEW r, Fit(v, r), NEW x \in BOOLEAN
  PROVE  /\ Fit(v, [r EXCEPT !.recommended = x])
         /\ [r EXCEPT !.recommended = x].bundles = r.bundles
<1> DEFINE q == [r EXCEPT !.recommended = x]
<1>1. q \in Releases /\ q.version = r.version /\ q.bundles = r.bundles
  BY DEF Fit, Releases
<1> HIDE DEF q
<1>2. Fit(v, q)
  BY <1>1 DEF Fit
<1> QED BY <1>1, <1>2 DEF q

LEMMA RecommendKeeps ==
  ASSUME NEW m, Kept(m)
  PROVE  Kept(Recommend(list, m))
<1> DEFINE new == Recommend(list, m)
           C(v) == [m.choices[v] EXCEPT !.recommended = (v = list.latest)]
           A(v) == [i \in DOMAIN m.alternates[v] |->
                      [m.alternates[v][i] EXCEPT !.recommended = FALSE]]
<1>1. CASE list = None \/ list.latest = None
  BY <1>1 DEF Recommend
<1>2. CASE ~(list = None \/ list.latest = None)
  <2>1. Shape(m)
    BY DEF Kept
  <2>2. /\ DOMAIN new = {"choices", "alternates"}
        /\ new.choices = [v \in Versions |-> IF m.choices[v] = None THEN None ELSE C(v)]
        /\ new.alternates = [v \in Versions |-> A(v)]
    BY <1>2, <2>1, Zenon DEF Recommend, Shape
  <2> HIDE DEF new
  <2>3. Shape(new)
    BY <2>2 DEF Shape
  <2>4. ASSUME NEW v \in Versions
        PROVE  /\ new.choices[v] # None => Fit(v, new.choices[v])
               /\ AreOthers(v, new.alternates[v])
    <3> DEFINE rs == m.alternates[v]
               qs == A(v)
    <3>1. rs \in Seq(ToSet(rs)) /\ \A r \in ToSet(rs) : Fit(v, r) /\ r.bundles # <<>>
      BY DEF Kept, AreOthers
    <3>2. Len(rs) \in Nat /\ DOMAIN rs = 1..Len(rs)
      <4> HIDE DEF rs
      <4> QED BY <3>1, MembersAre
    <3>3. m.choices[v] # None => Fit(v, C(v))
      BY RecommendedIsFit DEF Kept
    <3>4. ASSUME NEW i \in 1..Len(rs) PROVE Fit(v, qs[i]) /\ qs[i].bundles # <<>>
      <4>1. qs[i] = [rs[i] EXCEPT !.recommended = FALSE]
        BY <3>2
      <4>2. rs[i] \in ToSet(rs)
        <5> HIDE DEF rs
        <5> QED BY <3>2 DEF ToSet
      <4>3. Fit(v, rs[i]) /\ rs[i].bundles # <<>>
        BY <3>1, <4>2
      <4> DEFINE r == rs[i]
      <4> HIDE DEF qs, rs, r
      <4>4. Fit(v, r) /\ r.bundles # <<>> /\ qs[i] = [r EXCEPT !.recommended = FALSE]
        BY <4>1, <4>3 DEF r
      <4> QED BY <4>4, RecommendedIsFit
    <3>5. qs \in Seq({qs[i] : i \in 1..Len(rs)}) /\ DOMAIN qs = 1..Len(rs)
      <4>1. qs = [i \in 1..Len(rs) |-> [rs[i] EXCEPT !.recommended = FALSE]]
        BY <3>2
      <4> HIDE DEF qs, rs
      <4>2. DOMAIN qs = 1..Len(rs)
        BY <4>1
      <4>3. qs = [i \in 1..Len(rs) |-> qs[i]]
        BY <4>1, <4>2
      <4> QED BY <3>2, <4>2, <4>3
    <3>6. new.alternates[v] = qs
      BY <2>2
    <3> HIDE DEF qs, rs, C
    <3>7. AreOthers(v, qs)
      <4>1. \A r \in ToSet(qs) : Fit(v, r) /\ r.bundles # <<>>
        BY <3>4, <3>5 DEF ToSet
      <4>2. qs \in Seq(ToSet(qs))
        BY <3>5, MembersAre
      <4> QED BY <4>1, <4>2 DEF AreOthers
    <3>8. new.choices[v] # None => Fit(v, new.choices[v])
      BY <2>2, <3>3
    <3> QED BY <3>6, <3>7, <3>8
  <2> QED BY <2>3, <2>4 DEF Kept, new
<1> QED BY <1>1, <1>2

\* What is merged of a version is what stands of it.
Offering(merged) ==
    /\ Shape(merged)
    /\ \A v \in Versions :
         /\ merged.choices[v] # None => Offer(v, merged.choices[v])
         /\ merged.alternates[v] \in Seq(ToSet(merged.alternates[v]))
         /\ \A r \in ToSet(merged.alternates[v]) : Offer(v, r)

LEMMA MergeIs ==
  ASSUME ListIsValid, site \in Sites, NEW latest
  PROVE  Offering(Merge(Live(site), list, latest))
<1> DEFINE forge == MergeLive(Live(site), list)
           signed == AddEntries(Live(site), list, latest, forge)
           kept == IF list = None THEN forge ELSE Recommend(list, DropMapped(list, signed))
           new == WithBundles(kept)
<1>1. Merge(Live(site), list, latest) = new
  BY Zenon DEF Merge
<1>2. Kept(kept)
  <2>1. Signed(forge, 0) /\ Signed(signed, Len(Entries(list)))
    BY MergedIs
  <2> HIDE DEF forge, signed
  <2>2. CASE list = None
    BY <2>1, <2>2, ForgeIsKept
  <2>3. CASE list # None
    BY <2>1, <2>3, DropMappedKeeps, RecommendKeeps
  <2> QED BY <2>2, <2>3
<1> HIDE DEF kept
<1>3. /\ DOMAIN new = {"choices", "alternates"}
      /\ new.choices = [v \in Versions |->
           IF kept.choices[v] # None /\ kept.choices[v].bundles = <<>> THEN None ELSE kept.choices[v]]
      /\ new.alternates = kept.alternates
  BY <1>2 DEF WithBundles, Kept, Shape
<1> HIDE DEF new
<1>4. Shape(new)
  BY <1>2, <1>3 DEF Shape, Kept
<1>5. ASSUME NEW v \in Versions
      PROVE  /\ new.choices[v] # None => Offer(v, new.choices[v])
             /\ new.alternates[v] \in Seq(ToSet(new.alternates[v]))
             /\ \A r \in ToSet(new.alternates[v]) : Offer(v, r)
  <2>1. /\ kept.choices[v] # None => Fit(v, kept.choices[v])
        /\ AreOthers(v, kept.alternates[v])
    BY <1>2 DEF Kept
  <2>2. new.choices[v] # None =>
          new.choices[v] = kept.choices[v] /\ kept.choices[v].bundles # <<>>
    BY <1>3
  <2>3. new.choices[v] # None => Offer(v, new.choices[v])
    BY <2>1, <2>2 DEF Fit, Offer
  <2> QED BY <1>3, <2>1, <2>3 DEF AreOthers, Fit, Offer
<1> QED BY <1>1, <1>4, <1>5 DEF Offering

-----------------------------------------------------------------------------
(* Nothing is lost: what stands is in the merge.                           *)

\* What a merge has of a version.
ReleasesOf(m, v) == {m.choices[v]} \cup ToSet(m.alternates[v])

\* There are others only beside a choice with bundles.
Beside(m) ==
    \A v \in Versions :
        m.alternates[v] # <<>> => m.choices[v] # None /\ m.choices[v].bundles # <<>>

\* The first n of the forge's releases are there, those with bundles.
Whole(m, n) ==
    /\ Beside(m)
    /\ \A v \in Versions : m.choices[v] \in ForgeOf(v) \cup {None}
    /\ \A i \in 1..n :
         LET r == Live(site)[i] IN r.bundles # <<>> => r \in ReleasesOf(m, r.version)

LEMMA AddLiveIsWhole ==
  ASSUME site \in Sites, NEW m, Signed(m, 0), NEW n \in Nat, n + 1 \in 1..Len(Live(site)),
         Whole(m, n)
  PROVE  Whole(AddLive(m, Live(site)[n + 1]), n + 1)
<1> DEFINE live == Live(site)
           r == live[n + 1]
           v == r.version
           new == AddLive(m, r)
<1>1. /\ \A i \in 1..(n + 1) : /\ live[i] \in ToSet(live) /\ live[i] # None
                               /\ live[i].version \in Versions
      /\ \A i \in 1..(n + 1) : i \in 1..n \/ i = n + 1
  <2>1. Len(live) \in Nat /\ DOMAIN live = 1..Len(live) /\ n + 1 \in 1..Len(live)
    BY LiveIs, MembersAre
  <2>2. \A i \in 1..(n + 1) : i \in 1..Len(live) /\ (i \in 1..n \/ i = n + 1)
    <3> HIDE DEF live
    <3> QED BY <2>1
  <2>3. \A x \in ToSet(live) : x # None /\ x.version \in Versions
    BY LiveIsPublic DEF Versions, VersionsOf
  <2> HIDE DEF live
  <2> QED BY <2>1, <2>2, <2>3 DEF ToSet
<1>2. r # None /\ v \in Versions /\ r \in ForgeOf(v)
  <2>1. n + 1 \in 1..(n + 1)
    OBVIOUS
  <2> HIDE DEF live
  <2> QED BY <1>1, <2>1 DEF ForgeOf, live
<1>3. Shape(m) /\ \A w \in Versions : m.alternates[w] \in Seq(OthersOf(w))
  BY DEF Signed
<1>4. /\ Beside(m)
      /\ \A w \in Versions : m.choices[w] \in ForgeOf(w) \cup {None}
      /\ \A i \in 1..n : live[i].bundles # <<>> => live[i] \in ReleasesOf(m, live[i].version)
  BY DEF Whole
<1>5. new = IF m.choices[v] = None \/ (m.choices[v].bundles = <<>> /\ r.bundles # <<>>)
              THEN [m EXCEPT !.choices[v] = r]
            ELSE IF r.bundles # <<>> THEN [m EXCEPT !.alternates[v] = Append(@, r)]
            ELSE m
  BY DEF AddLive
<1> HIDE DEF live, r, v, new
<1>6. CASE m.choices[v] = None \/ (m.choices[v].bundles = <<>> /\ r.bundles # <<>>)
  <2>1. new.choices = [m.choices EXCEPT ![v] = r] /\ new.alternates = m.alternates
    BY <1>3, <1>5, <1>6 DEF Shape
  <2>2. \A w \in Versions : new.choices[w] = IF w = v THEN r ELSE m.choices[w]
    BY <1>2, <1>3, <2>1 DEF Shape
  <2>3. m.alternates[v] = <<>>
    BY <1>2, <1>4, <1>6 DEF Beside
  <2>4. Beside(new)
    BY <1>4, <2>1, <2>2, <2>3 DEF Beside
  <2>5. ASSUME NEW i \in 1..n, live[i].bundles # <<>> PROVE live[i] \in ReleasesOf(new, live[i].version)
    <3>1. live[i] \in ReleasesOf(m, live[i].version) /\ live[i] # None /\ live[i].version \in Versions
      BY <1>1, <1>4, <2>5
    <3>2. CASE live[i].version = v
      <4>1. ToSet(m.alternates[v]) = {}
        BY <2>3 DEF ToSet
      <4>2. live[i] = m.choices[v]
        BY <3>1, <3>2, <4>1 DEF ReleasesOf
      <4> QED BY <1>6, <2>5, <3>1, <4>2
    <3>3. CASE live[i].version # v
      BY <2>1, <2>2, <3>1, <3>3 DEF ReleasesOf
    <3> QED BY <3>2, <3>3
  <2>6. r \in ReleasesOf(new, v)
    BY <1>2, <2>2 DEF ReleasesOf
  <2>7. \A w \in Versions : new.choices[w] \in ForgeOf(w) \cup {None}
    BY <1>2, <1>4, <2>2
  <2> QED BY <1>1, <2>4, <2>5, <2>6, <2>7 DEF Whole, new, r, v, live
<1>7. CASE ~(m.choices[v] = None \/ (m.choices[v].bundles = <<>> /\ r.bundles # <<>>))
           /\ r.bundles # <<>>
  <2>1. new.alternates = [m.alternates EXCEPT ![v] = Append(@, r)] /\ new.choices = m.choices
    BY <1>3, <1>5, <1>7 DEF Shape
  <2>2. \A w \in Versions : new.alternates[w] = IF w = v THEN Append(m.alternates[v], r)
                                                ELSE m.alternates[w]
    BY <1>2, <1>3, <2>1 DEF Shape
  <2>3. ToSet(Append(m.alternates[v], r)) = ToSet(m.alternates[v]) \cup {r}
    BY <1>2, <1>3, MembersOfAppend
  <2>4. Beside(new)
    BY <1>4, <1>7, <2>1, <2>2 DEF Beside
  <2>5. \A w \in Versions : ReleasesOf(m, w) \subseteq ReleasesOf(new, w)
    BY <2>1, <2>2, <2>3 DEF ReleasesOf
  <2>6. r \in ReleasesOf(new, v)
    BY <1>2, <2>2, <2>3 DEF ReleasesOf
  <2>7. ASSUME NEW i \in 1..n, live[i].bundles # <<>> PROVE live[i] \in ReleasesOf(new, live[i].version)
    <3>1. i \in 1..(n + 1)
      BY <1>1
    <3> QED BY <1>1, <1>4, <2>5, <2>7, <3>1
  <2> QED BY <1>1, <1>4, <2>1, <2>4, <2>6, <2>7 DEF Whole, new, r, v, live
<1>8. CASE ~(m.choices[v] = None \/ (m.choices[v].bundles = <<>> /\ r.bundles # <<>>))
           /\ r.bundles = <<>>
  <2>1. new = m
    BY <1>5, <1>8
  <2> QED BY <1>1, <1>4, <1>8, <2>1 DEF Whole, new, r, live
<1> QED BY <1>6, <1>7, <1>8

LEMMA ForgeIsWhole ==
  ASSUME ListIsValid, site \in Sites
  PROVE  Whole(MergeLive(Live(site), list), Len(Live(site)))
<1> DEFINE live == Live(site)
           N == Len(live)
<1>1. N \in Nat /\ \A n \in 1..N : live[n] \in ToSet(live)
  <2>1. live \in Seq(ToSet(live))
    BY LiveIs
  <2> HIDE DEF live
  <2> QED BY <2>1, MembersAre, ElementOfSeq
<1>2. PICK f : /\ f[0] = NoChoices(VersionsOf(live, list))
               /\ \A n \in 1..N : f[n] = AddLive(f[n - 1], live[n])
               /\ MergeLive(live, list) = f[N]
  BY <1>1, MergeTurns
<1> DEFINE S == {n \in 0..N : Signed(f[n], 0) /\ Whole(f[n], n)}
<1>3. 0 \in S
  <2> DEFINE m == NoChoices(VersionsOf(live, list))
  <2>1. Shape(m) /\ \A v \in Versions : m.choices[v] = None /\ m.alternates[v] = <<>>
    BY DEF NoChoices, Shape, Versions
  <2> HIDE DEF m
  <2>2. Signed(m, 0)
    BY <2>1, EmptySeq DEF Signed
  <2>3. Whole(m, 0)
    BY <2>1 DEF Whole, Beside
  <2> HIDE DEF N
  <2> QED BY <1>1, <1>2, <2>2, <2>3 DEF m
<1>4. ASSUME NEW n \in 0..(N - 1), n \in S PROVE n + 1 \in S
  <2>1. n \in Nat /\ n + 1 \in 1..N /\ (n + 1) - 1 = n /\ n + 1 \in 0..N
    BY <1>1
  <2>2. f[n + 1] = AddLive(f[n], live[n + 1])
    BY <1>2, <2>1
  <2>3. Signed(f[n + 1], 0)
    BY <1>1, <1>4, <2>1, <2>2, AddLiveKeeps
  <2>4. Whole(f[n + 1], n + 1)
    BY <1>4, <2>1, <2>2, AddLiveIsWhole
  <2> QED BY <2>1, <2>3, <2>4
<1>5. \A n \in 0..N : n \in S
  <2> HIDE DEF S, N
  <2> QED BY <1>1, <1>3, <1>4, EveryNaturalUpTo
<1> HIDE DEF N
<1> QED BY <1>1, <1>2, <1>5 DEF N

\* Entries leave the other versions alone, and each gives its own a choice.
LEMMA EntriesDecide ==
  ASSUME ListIsValid, site \in Sites, NEW latest
  PROVE  LET forge == MergeLive(Live(site), list)
             signed == AddEntries(Live(site), list, latest, forge)
         IN  /\ \A v \in Versions :
                  ~Decided(v, Len(Entries(list))) =>
                     signed.choices[v] = forge.choices[v] /\ signed.alternates[v] = forge.alternates[v]
             /\ \A e \in ToSet(Entries(list)) :
                  /\ signed.alternates[e.version] = <<>>
                  /\ signed.choices[e.version] =
                       IF e.yanked THEN None
                       ELSE EntryRelease(Live(site), list, latest, forge.choices[e.version], e)
<1> DEFINE live == Live(site)
           E == Entries(list)
           K == Len(E)
           forge == MergeLive(live, list)
           Choice(e) == IF e.yanked THEN None
                        ELSE EntryRelease(live, list, latest, forge.choices[e.version], e)
<1>1. /\ K \in Nat /\ DOMAIN E = 1..K /\ \A n \in 1..K : E[n] \in ToSet(E)
  <2>1. E \in Seq(ToSet(E))
    BY EntriesAre
  <2> HIDE DEF E
  <2> QED BY <2>1, MembersAre, ElementOfSeq
<1>2. PICK g : /\ g[0] = forge
               /\ \A n \in 1..K : g[n] = AddEntry(live, list, latest, g[n - 1], E[n])
               /\ AddEntries(live, list, latest, forge) = g[K]
  BY <1>1, EntryTurns
<1>3. \A i, j \in 1..K : E[i].version = E[j].version => i = j
  <2>1. CASE list = None
    BY <1>1, <2>1 DEF Entries
  <2>2. CASE list # None
    BY <1>1, <2>2 DEF ListIsValid, Validate, Entries
  <2> QED BY <2>1, <2>2
<1>4. Shape(forge)
  BY MergedIs DEF Signed
<1> DEFINE Right(n) ==
             /\ Shape(g[n])
             /\ \A v \in Versions :
                  ~Decided(v, n) =>
                    g[n].choices[v] = forge.choices[v] /\ g[n].alternates[v] = forge.alternates[v]
             /\ \A i \in 1..n : /\ g[n].alternates[E[i].version] = <<>>
                                /\ g[n].choices[E[i].version] = Choice(E[i])
           S == {n \in 0..K : Right(n)}
<1>5. 0 \in S
  <2>1. Right(0)
    <3> HIDE DEF forge, Choice, K, E
    <3> QED BY <1>2, <1>4
  <2> HIDE DEF Right
  <2> QED BY <1>1, <2>1
<1>6. ASSUME NEW n \in 0..(K - 1), n \in S PROVE n + 1 \in S
  <2> DEFINE e == E[n + 1]
             v == e.version
             m == g[n]
             new == g[n + 1]
             blank == <<>>
             c == IF e.yanked THEN None ELSE EntryRelease(live, list, latest, m.choices[v], e)
  <2>1. /\ n + 1 \in 1..K /\ (n + 1) - 1 = n /\ n + 1 \in 0..K
        /\ \A i \in 1..(n + 1) : i \in 1..n \/ i = n + 1
        /\ \A i \in 1..n : i \in 1..K /\ i # n + 1
    BY <1>1
  <2>2. new = AddEntry(live, list, latest, m, e)
    BY <1>2, <2>1
  <2>3. v \in Versions
    <3>1. e \in ToSet(E)
      BY <1>1, <2>1
    <3> HIDE DEF e
    <3> QED BY <3>1 DEF Versions, VersionsOf
  <2>4. ~Decided(v, n) /\ \A w \in Versions : Decided(w, n + 1) <=> (w = v \/ Decided(w, n))
    <3>1. \A i \in 1..n : E[i].version # v
      BY <1>3, <2>1
    <3> QED BY <2>1, <3>1 DEF Decided
  <2>5. Right(n)
    BY <1>6
  <2>6. m.choices[v] = forge.choices[v]
    BY <2>3, <2>4, <2>5
  <2>7. /\ DOMAIN new = {"choices", "alternates"}
        /\ new.choices = [m.choices EXCEPT ![v] = c]
        /\ new.alternates = [m.alternates EXCEPT ![v] = blank]
    <3> HIDE DEF new, e, v, m
    <3> QED BY <2>2 DEF AddEntry, v
  <2>8. c = Choice(e)
    BY <2>6
  <2>9. Shape(m)
    BY <2>5
  <2>10. /\ new.choices[v] = c /\ new.alternates[v] = blank
         /\ \A w \in Versions \ {v} : /\ new.choices[w] = m.choices[w]
                                      /\ new.alternates[w] = m.alternates[w]
    <3> HIDE DEF c, new, m, v
    <3> QED BY <2>3, <2>7, <2>9 DEF Shape
  <2>11. Shape(new)
    <3> HIDE DEF c, new, m, v
    <3> QED BY <2>7, <2>9 DEF Shape
  <2>12. \A i \in 1..n : E[i].version \in Versions \ {v}
    <3>1. \A i \in 1..n : E[i] \in ToSet(E) /\ E[i].version # v
      BY <1>1, <1>3, <2>1
    <3> HIDE DEF v, e
    <3> QED BY <3>1 DEF Versions, VersionsOf
  <2>13. /\ \A w \in Versions :
              ~Decided(w, n) =>
                m.choices[w] = forge.choices[w] /\ m.alternates[w] = forge.alternates[w]
         /\ \A i \in 1..n : /\ m.alternates[E[i].version] = <<>>
                            /\ m.choices[E[i].version] = Choice(E[i])
    BY <2>5
  <2> HIDE DEF c, m, v, Choice, forge, E, live, K, new
  <2>14. \A w \in Versions :
           ~Decided(w, n + 1) =>
             new.choices[w] = forge.choices[w] /\ new.alternates[w] = forge.alternates[w]
    BY <2>4, <2>10, <2>13
  <2>15. \A i \in 1..n : /\ new.alternates[E[i].version] = <<>>
                         /\ new.choices[E[i].version] = Choice(E[i])
    BY <2>10, <2>12, <2>13
  <2>16. new.alternates[E[n + 1].version] = <<>> /\ new.choices[E[n + 1].version] = Choice(E[n + 1])
    BY <2>8, <2>10 DEF v
  <2>17. Right(n + 1)
    BY <2>1, <2>11, <2>14, <2>15, <2>16 DEF new
  <2> HIDE DEF Right
  <2> QED BY <2>1, <2>17
<1>7. Right(K)
  <2>1. \A n \in 0..K : n \in S
    <3> HIDE DEF S, K
    <3> QED BY <1>1, <1>5, <1>6, EveryNaturalUpTo
  <2> HIDE DEF K, Right
  <2> QED BY <1>1, <2>1
<1>8. \A e \in ToSet(E) : /\ g[K].alternates[e.version] = <<>> /\ g[K].choices[e.version] = Choice(e)
  <2> SUFFICES ASSUME NEW i \in 1..K
               PROVE  /\ g[K].alternates[E[i].version] = <<>>
                      /\ g[K].choices[E[i].version] = Choice(E[i])
    BY <1>1 DEF ToSet
  <2> QED BY <1>7
<1> HIDE DEF K
<1> QED BY <1>2, <1>7, <1>8 DEF K

\* The tags that an entry may have: its own, or what the forge has for its version.
TagsOf(e) ==
    IF e.tag # None THEN {e.tag} ELSE {e.version} \cup {r.tag : r \in ForgeOf(e.version)}

\* No other entry names one of them.
OwnTag(e) == \A d \in ToSet(Entries(list)) \ {e} : d.tag \notin TagsOf(e)
OwnTags == \A e \in ToSet(Entries(list)) : OwnTag(e)

LEMMA EntryTagIs ==
  ASSUME site \in Sites, NEW latest, NEW e \in ToSet(Entries(list)),
         NEW choice \in ForgeOf(e.version) \cup {None}
  PROVE  EntryTag(Live(site), list, latest, choice, e) \in TagsOf(e)
<1> DEFINE live == Live(site)
           tag == EntryTag(live, list, latest, choice, e)
           good == {r \in ToSet(live) : r.version = e.version /\ (r.recommended \/ r.tag = latest)}
           mine == Only(live, good)
<1>1. mine # <<>> => mine[1] \in ForgeOf(e.version)
  <2> SUFFICES ASSUME mine # <<>> PROVE mine[1] \in ForgeOf(e.version)
    OBVIOUS
  <2>1. mine \in Seq(ToSet(live) \cap good)
    <3> HIDE DEF good
    <3> QED BY LiveIs, OnlyIs
  <2>2. mine[1] \in ToSet(live) \cap good
    <3> HIDE DEF mine, good, live
    <3>1. Len(mine) \in Nat \ {0}
      BY <2>1, EmptySeq
    <3> QED BY <2>1, <3>1, ElementOfSeq
  <2> HIDE DEF mine
  <2> QED BY <2>2 DEF ForgeOf
<1> HIDE DEF good
<1>2. \/ e.tag # None /\ tag = e.tag
      \/ e.tag = None /\ (\/ mine # <<>> /\ tag = mine[1].tag
                          \/ choice # None /\ tag = choice.tag
                          \/ tag = e.version)
  BY DEF EntryTag, good
<1> HIDE DEF tag, mine
<1> QED BY <1>1, <1>2 DEF TagsOf, tag

\* An entry with a tag of its own is not dropped for another's.
LEMMA EntryIsUnmapped ==
  ASSUME ListIsValid, site \in Sites, NEW latest, NEW e \in ToSet(Entries(list)), OwnTag(e),
         NEW choice \in ForgeOf(e.version) \cup {None}
  PROVE  Unmapped(list, e.version, EntryRelease(Live(site), list, latest, choice, e))
<1> DEFINE live == Live(site)
           E == Entries(list)
           tag == EntryTag(live, list, latest, choice, e)
           alike == {d \in ToSet(E) : d.tag = tag}
           named == Only(E, alike)
<1>1. tag \in TagsOf(e)
  BY EntryTagIs
<1> HIDE DEF tag
<1>2. named # <<>> => Last(named) \in ToSet(E) \cap alike
  <2> SUFFICES ASSUME named # <<>> PROVE Last(named) \in ToSet(E) \cap alike
    OBVIOUS
  <2>1. named \in Seq(ToSet(E) \cap alike)
    <3>1. E \in Seq(ToSet(E))
      BY EntriesAre
    <3> HIDE DEF E, alike
    <3> QED BY <3>1, OnlyIs
  <2> HIDE DEF named, E, alike
  <2>2. Len(named) \in Nat \ {0}
    BY <2>1, EmptySeq
  <2> QED BY <2>1, <2>2, ElementOfSeq DEF Last
<1>3. named # <<>> => Last(named).version = e.version
  <2> HIDE DEF named
  <2> QED BY <1>1, <1>2 DEF OwnTag
<1>4. EntryRelease(live, list, latest, choice, e).tag = tag
  BY DEF EntryRelease, tag
<1>5. Mapped(list, tag) \subseteq {e.version}
  <2>1. Mapped(list, tag) = IF named = <<>> THEN {} ELSE {Last(named).version}
    BY DEF Mapped
  <2> HIDE DEF named
  <2> QED BY <1>3, <2>1
<1> QED BY <1>4, <1>5 DEF Unmapped

\* What keeps its tag is still there when mapped tags are dropped.
LEMMA NothingIsDropped ==
  ASSUME ListIsValid, site \in Sites, NEW m, Signed(m, Len(Entries(list))), Beside(m)
  PROVE  LET new == DropMapped(list, m)
         IN  /\ Beside(new)
             /\ \A v \in Versions : \A r \in ReleasesOf(m, v) :
                  r # None /\ Unmapped(list, v, r) => r \in ReleasesOf(new, v)
<1> DEFINE kept(v) == m.choices[v] # None /\ Unmapped(list, v, m.choices[v])
           free(v) == {r \in ToSet(m.alternates[v]) : Unmapped(list, v, r)}
           others(v) == Only(m.alternates[v], free(v))
           new == DropMapped(list, m)
<1>1. Shape(m)
  BY DEF Signed
<1>2. /\ DOMAIN new = {"choices", "alternates"}
      /\ new.choices = [v \in Versions |-> IF kept(v) THEN m.choices[v] ELSE FirstOr(others(v), None)]
      /\ new.alternates = [v \in Versions |->
                             IF kept(v) \/ others(v) = <<>> THEN others(v) ELSE Tail(others(v))]
  BY <1>1, Zenon DEF DropMapped, Shape
<1> HIDE DEF new
<1>3. ASSUME NEW v \in Versions
      PROVE  /\ new.alternates[v] # <<>> => new.choices[v] # None /\ new.choices[v].bundles # <<>>
             /\ \A r \in ReleasesOf(m, v) :
                  r # None /\ Unmapped(list, v, r) => r \in ReleasesOf(new, v)
  <2> DEFINE alt == m.alternates[v]
             o == others(v)
  <2>1. alt \in Seq(OthersOf(v))
    BY DEF Signed
  <2>2. o \in Seq(ToSet(alt) \cap free(v)) /\ ToSet(o) = ToSet(alt) \cap free(v)
    <3> HIDE DEF free
    <3> QED BY <2>1, OnlyIs, OnlyHasAll
  <2>3. \A r \in ToSet(alt) : r # None /\ r.bundles # <<>>
    <3>1. ToSet(alt) \subseteq OthersOf(v)
      BY <2>1, MembersAre
    <3> QED BY <3>1, LiveIsPublic DEF OthersOf, ForgeOf
  <2>4. alt # <<>> => m.choices[v] # None /\ m.choices[v].bundles # <<>>
    BY DEF Beside
  <2>5. o # <<>> => alt # <<>>
    <3> SUFFICES ASSUME alt = <<>> PROVE o = <<>>
      OBVIOUS
    <3>1. ToSet(alt) = {}
      BY DEF ToSet
    <3>2. ToSet(o) = {}
      BY <2>2, <3>1
    <3> HIDE DEF o, alt, free
    <3>3. Len(o) \in Nat /\ DOMAIN o = 1..Len(o)
      BY <2>2, MembersAre
    <3>4. \A i \in 1..Len(o) : o[i] \in ToSet(o)
      BY <3>3 DEF ToSet
    <3>5. Len(o) = 0
      BY <3>2, <3>3, <3>4
    <3> QED BY <2>2, <3>5, EmptySeq
  <2>6. o # <<>> => /\ Head(o) \in ToSet(alt) /\ ToSet(o) = {Head(o)} \cup ToSet(Tail(o))
    <3> HIDE DEF o, alt, free
    <3> QED BY <2>2, MembersOfTail
  <2> HIDE DEF kept
  <2>7. /\ kept(v) => new.choices[v] = m.choices[v]
        /\ ~kept(v) => new.choices[v] = FirstOr(o, None)
        /\ kept(v) \/ o = <<>> => new.alternates[v] = o
        /\ ~(kept(v) \/ o = <<>>) => new.alternates[v] = Tail(o)
    BY <1>2
  <2>8. \A r \in ReleasesOf(m, v) :
          r # None /\ Unmapped(list, v, r) =>
            \/ kept(v) /\ r = m.choices[v]
            \/ r \in ToSet(o)
    BY <2>2 DEF ReleasesOf, kept
  <2> HIDE DEF o, alt, free, others
  <2>9. CASE kept(v)
    BY <2>4, <2>5, <2>7, <2>8, <2>9 DEF ReleasesOf, kept
  <2>10. CASE ~kept(v) /\ o = <<>>
    <3>1. ToSet(o) = {}
      BY <2>10 DEF ToSet
    <3> QED BY <2>7, <2>8, <2>10, <3>1
  <2>11. CASE ~kept(v) /\ o # <<>>
    <3>1. new.choices[v] = Head(o) /\ new.alternates[v] = Tail(o)
      BY <2>7, <2>11 DEF FirstOr
    <3> QED BY <2>3, <2>6, <2>8, <2>11, <3>1 DEF ReleasesOf
  <2> QED BY <2>9, <2>10, <2>11
<1> QED BY <1>3 DEF Beside, new

\* Marking releases leaves them what they are.
LEMMA NothingIsUnmarked ==
  ASSUME NEW m, Kept(m), Beside(m)
  PROVE  LET new == Recommend(list, m)
         IN  /\ Beside(new)
             /\ \A v \in Versions : \A r \in ReleasesOf(m, v) :
                  r # None => \E q \in ReleasesOf(new, v) : q # None /\ q.bundles = r.bundles
<1> DEFINE new == Recommend(list, m)
           C(v) == [m.choices[v] EXCEPT !.recommended = (v = list.latest)]
           A(v) == [i \in DOMAIN m.alternates[v] |->
                      [m.alternates[v][i] EXCEPT !.recommended = FALSE]]
<1>1. CASE list = None \/ list.latest = None
  BY <1>1 DEF Recommend
<1>2. CASE ~(list = None \/ list.latest = None)
  <2>1. Shape(m)
    BY DEF Kept
  <2>2. /\ DOMAIN new = {"choices", "alternates"}
        /\ new.choices = [v \in Versions |-> IF m.choices[v] = None THEN None ELSE C(v)]
        /\ new.alternates = [v \in Versions |-> A(v)]
    BY <1>2, <2>1, Zenon DEF Recommend, Shape
  <2> HIDE DEF new
  <2>3. ASSUME NEW v \in Versions
        PROVE  /\ new.alternates[v] # <<>> => new.choices[v] # None /\ new.choices[v].bundles # <<>>
               /\ \A r \in ReleasesOf(m, v) :
                    r # None => \E q \in ReleasesOf(new, v) : q # None /\ q.bundles = r.bundles
    <3> DEFINE rs == m.alternates[v]
               qs == A(v)
    <3>1. m.choices[v] # None =>
            C(v) # None /\ C(v).bundles = m.choices[v].bundles
      <4> SUFFICES ASSUME m.choices[v] # None
                   PROVE  C(v) # None /\ C(v).bundles = m.choices[v].bundles
        OBVIOUS
      <4>1. Fit(v, m.choices[v]) /\ (v = list.latest) \in BOOLEAN
        BY DEF Kept
      <4>2. Fit(v, C(v)) /\ C(v).bundles = m.choices[v].bundles
        BY <4>1, RecommendedIsFit
      <4> HIDE DEF C
      <4> QED BY <4>2, NoneAssumption DEF Fit
    <3>2. /\ rs \in Seq(ToSet(rs)) /\ Len(rs) \in Nat /\ DOMAIN rs = 1..Len(rs)
          /\ \A r \in ToSet(rs) : Fit(v, r)
      <4>1. rs \in Seq(ToSet(rs)) /\ \A r \in ToSet(rs) : Fit(v, r)
        BY DEF Kept, AreOthers
      <4> HIDE DEF rs
      <4> QED BY <4>1, MembersAre
    <3>3. ASSUME NEW i \in 1..Len(rs)
          PROVE  i \in DOMAIN qs /\ qs[i] # None /\ qs[i].bundles = rs[i].bundles
      <4>1. qs[i] = [rs[i] EXCEPT !.recommended = FALSE] /\ i \in DOMAIN qs
        BY <3>2
      <4>2. Fit(v, rs[i])
        <5> HIDE DEF rs
        <5> QED BY <3>2 DEF ToSet
      <4> DEFINE r == rs[i]
      <4> HIDE DEF qs, rs, r
      <4>3. /\ Fit(v, [r EXCEPT !.recommended = FALSE])
            /\ [r EXCEPT !.recommended = FALSE].bundles = r.bundles
        BY <4>2, RecommendedIsFit DEF r
      <4>4. Fit(v, qs[i]) /\ qs[i].bundles = rs[i].bundles
        BY <4>1, <4>3 DEF r
      <4> QED BY <4>1, <4>4, NoneAssumption DEF Fit
    <3>4. qs # <<>> => rs # <<>>
      <4> SUFFICES ASSUME rs = <<>> PROVE qs = <<>>
        OBVIOUS
      <4>1. DOMAIN rs = {}
        OBVIOUS
      <4>2. qs = [i \in {} |-> [rs[i] EXCEPT !.recommended = FALSE]]
        BY <4>1
      <4> HIDE DEF rs
      <4> QED BY <4>2
    <3>5. new.alternates[v] = qs /\ new.choices[v] = IF m.choices[v] = None THEN None ELSE C(v)
      BY <2>2
    <3> HIDE DEF qs, C
    <3>6. new.alternates[v] # <<>> => new.choices[v] # None /\ new.choices[v].bundles # <<>>
      BY <3>1, <3>4, <3>5 DEF Beside
    <3> HIDE DEF rs
    <3>7. \A r \in ToSet(rs) : \E q \in ToSet(qs) : q # None /\ q.bundles = r.bundles
      BY <3>2, <3>3 DEF ToSet
    <3>8. \A r \in ReleasesOf(m, v) :
            r # None => \E q \in ReleasesOf(new, v) : q # None /\ q.bundles = r.bundles
      <4>1. \A r \in ReleasesOf(m, v) : r = m.choices[v] \/ r \in ToSet(rs)
        BY DEF ReleasesOf, rs
      <4> QED BY <3>1, <3>5, <3>7, <4>1 DEF ReleasesOf
    <3> QED BY <3>6, <3>8
  <2> QED BY <2>3 DEF Beside, new
<1> QED BY <1>1, <1>2

\* What is to be offered: what an entry with a tag of its own gives, and what
\* the forge has where no entry decides.
Due(v, bundles) ==
    \/ \E e \in ToSet(Entries(list)) :
         ~e.yanked /\ e.version = v /\ bundles = <<e.packslip>> /\ OwnTag(e)
    \/ \E r \in ForgeOf(v) :
         /\ r.bundles = bundles /\ bundles # <<>>
         /\ \A e \in ToSet(Entries(list)) : e.version # v /\ e.tag # r.tag

LEMMA DueIsKept ==
  ASSUME ListIsValid, site \in Sites, list # None, NEW latest, NEW v, NEW bundles, Due(v, bundles)
  PROVE  LET signed == AddEntries(Live(site), list, latest, MergeLive(Live(site), list))
         IN  \E r \in ReleasesOf(signed, v) :
               r # None /\ r.bundles = bundles /\ Unmapped(list, v, r)
<1> DEFINE live == Live(site)
           E == Entries(list)
           forge == MergeLive(live, list)
           signed == AddEntries(live, list, latest, forge)
<1>1. /\ \A w \in Versions :
           ~Decided(w, Len(E)) =>
              signed.choices[w] = forge.choices[w] /\ signed.alternates[w] = forge.alternates[w]
      /\ \A e \in ToSet(E) :
           signed.choices[e.version] =
             IF e.yanked THEN None ELSE EntryRelease(live, list, latest, forge.choices[e.version], e)
  BY EntriesDecide
<1>2. Signed(forge, 0)
  BY MergedIs
<1>3. E \in Seq(ToSet(E)) /\ Len(E) \in Nat /\ DOMAIN E = 1..Len(E)
  <2>1. E \in Seq(ToSet(E))
    BY EntriesAre
  <2> HIDE DEF E
  <2> QED BY <2>1, MembersAre
<1> HIDE DEF signed, forge
<1>4. ASSUME NEW e \in ToSet(E), ~e.yanked, e.version = v, bundles = <<e.packslip>>, OwnTag(e)
      PROVE  \E r \in ReleasesOf(signed, v) : r # None /\ r.bundles = bundles /\ Unmapped(list, v, r)
  <2> DEFINE r == EntryRelease(live, list, latest, forge.choices[v], e)
  <2>1. v \in Versions
    BY <1>4 DEF Versions, VersionsOf
  <2>2. forge.choices[v] \in ForgeOf(v) \cup {None} /\ forge.choices[v] \in Releases \cup {None}
    <3>1. Whole(forge, Len(live))
      BY ForgeIsWhole DEF forge
    <3> QED BY <2>1, <3>1, LiveIsPublic DEF Whole, ForgeOf
  <2>3. signed.choices[v] = r
    BY <1>1, <1>4
  <2>4. r.bundles = bundles
    BY <1>4 DEF EntryRelease
  <2>5. Unmapped(list, v, r)
    BY <1>4, <2>2, EntryIsUnmapped
  <2>6. r # None
    BY <2>2, EntryReleaseIs, NoneAssumption
  <2> HIDE DEF r
  <2> QED BY <2>3, <2>4, <2>5, <2>6 DEF ReleasesOf
<1>5. ASSUME NEW r \in ForgeOf(v), r.bundles = bundles, bundles # <<>>,
             \A e \in ToSet(E) : e.version # v /\ e.tag # r.tag
      PROVE  r \in ReleasesOf(signed, v) /\ r # None /\ Unmapped(list, v, r)
  <2>1. r \in ToSet(live) /\ r.version = v /\ v \in Versions
    BY DEF ForgeOf, Versions, VersionsOf
  <2>2. ~Decided(v, Len(E))
    <3> HIDE DEF E
    <3>1. \A i \in 1..Len(E) : E[i] \in ToSet(E)
      BY <1>3 DEF ToSet
    <3> QED BY <1>5, <3>1 DEF Decided, E
  <2>3. r \in ReleasesOf(forge, v)
    <3>1. Whole(forge, Len(live))
      BY ForgeIsWhole DEF forge
    <3>2. \E i \in 1..Len(live) : r = live[i]
      <4>1. live \in Seq(ToSet(live))
        BY LiveIs
      <4> HIDE DEF live
      <4> QED BY <2>1, <4>1, MembersAre DEF ToSet
    <3> QED BY <1>5, <2>1, <3>1, <3>2 DEF Whole
  <2>4. r \in ReleasesOf(signed, v)
    BY <1>1, <2>1, <2>2, <2>3 DEF ReleasesOf
  <2>5. Mapped(list, r.tag) = {}
    <3> DEFINE mine == {e \in ToSet(E) : e.tag = r.tag}
    <3>1. mine = {}
      BY <1>5
    <3>2. Only(E, mine) \in Seq(ToSet(E) \cap mine)
      <4> HIDE DEF E, mine
      <4> QED BY <1>3, OnlyIs
    <3>3. Only(E, mine) = <<>>
      <4>1. Only(E, mine) \in Seq({})
        BY <3>1, <3>2
      <4> HIDE DEF mine, E
      <4>2. Only(E, mine) # <<>> => Head(Only(E, mine)) \in {}
        BY <4>1, HeadTailProperties
      <4> QED BY <4>2
    <3> QED BY <3>3 DEF Mapped
  <2>6. Unmapped(list, v, r)
    BY <2>5 DEF Unmapped
  <2> QED BY <2>1, <2>4, <2>6, LiveIsPublic
<1> QED BY <1>4, <1>5 DEF Due, signed, forge

LEMMA MergeHasAll ==
  ASSUME ListIsValid, site \in Sites, NEW latest, NEW v, NEW bundles, Due(v, bundles)
  PROVE  LET m == Merge(Live(site), list, latest)
         IN  v \in Chosen(m) /\ \E r \in ReleasesOf(m, v) : r.bundles = bundles
<1> DEFINE live == Live(site)
           forge == MergeLive(live, list)
           signed == AddEntries(live, list, latest, forge)
           dropped == DropMapped(list, signed)
           kept == IF list = None THEN forge ELSE Recommend(list, dropped)
           new == WithBundles(kept)
<1>1. Merge(live, list, latest) = new
  BY Zenon DEF Merge
<1>2. v \in Versions /\ bundles # <<>>
  <2>1. /\ bundles # <<>>
        /\ \/ \E e \in ToSet(Entries(list)) : e.version = v
           \/ \E r \in ToSet(Live(site)) : r.version = v
    <3>1. \A x : <<x>> # <<>>
      OBVIOUS
    <3> QED BY <3>1, Zenon DEF Due, ForgeOf
  <2> QED BY <2>1, Zenon DEF Versions, VersionsOf
<1>3. Signed(forge, 0) /\ Signed(signed, Len(Entries(list))) /\ Whole(forge, Len(live))
  BY MergedIs, ForgeIsWhole
<1>4. /\ Kept(kept) /\ Beside(kept)
      /\ \E r \in ReleasesOf(kept, v) : r # None /\ r.bundles = bundles
  <2>1. CASE list = None
    <3>1. Entries(list) = <<>> /\ ToSet(Entries(list)) = {}
      BY <2>1 DEF Entries, ToSet
    <3>2. PICK r \in ForgeOf(v) : r.bundles = bundles
      BY <3>1 DEF Due
    <3>3. r \in ToSet(live) /\ r.version = v
      BY DEF ForgeOf
    <3>4. \E i \in 1..Len(live) : r = live[i]
      <4>1. live \in Seq(ToSet(live))
        BY LiveIs
      <4> HIDE DEF live
      <4> QED BY <3>3, <4>1, MembersAre DEF ToSet
    <3> HIDE DEF forge
    <3>5. r \in ReleasesOf(forge, v) /\ r # None
      BY <1>2, <1>3, <3>2, <3>3, <3>4, LiveIsPublic DEF Whole
    <3>6. Kept(forge)
      BY <1>3, <2>1, ForgeIsKept
    <3> QED BY <1>3, <2>1, <3>2, <3>5, <3>6 DEF Whole
  <2>2. CASE list # None
    <3>1. PICK r \in ReleasesOf(signed, v) : r # None /\ r.bundles = bundles /\ Unmapped(list, v, r)
      BY <2>2, DueIsKept
    <3>2. Beside(signed)
      <4>1. /\ \A w \in Versions :
                 ~Decided(w, Len(Entries(list))) =>
                   signed.choices[w] = forge.choices[w] /\ signed.alternates[w] = forge.alternates[w]
        BY EntriesDecide
      <4>2. \A w \in Versions : Decided(w, Len(Entries(list))) => signed.alternates[w] = <<>>
        <5> HIDE DEF signed
        <5> QED BY <1>3 DEF Signed
      <4> HIDE DEF signed, forge
      <4> QED BY <1>3, <4>1, <4>2 DEF Beside, Whole
    <3> HIDE DEF signed, forge
    <3>3. Kept(dropped) /\ Beside(dropped) /\ r \in ReleasesOf(dropped, v)
      BY <1>2, <1>3, <3>1, <3>2, DropMappedKeeps, NothingIsDropped
    <3> HIDE DEF dropped
    <3>4. Kept(Recommend(list, dropped))
      BY <3>3, RecommendKeeps
    <3>5. /\ Beside(Recommend(list, dropped))
          /\ \E q \in ReleasesOf(Recommend(list, dropped), v) : q # None /\ q.bundles = r.bundles
      BY <1>2, <3>1, <3>3, NothingIsUnmarked
    <3> QED BY <2>2, <3>1, <3>4, <3>5
  <2> QED BY <2>1, <2>2
<1> HIDE DEF kept
<1>5. PICK r \in ReleasesOf(kept, v) : r # None /\ r.bundles = bundles
  BY <1>4
<1>6. /\ DOMAIN new.choices = Versions /\ new.alternates = kept.alternates
      /\ new.choices[v] = IF kept.choices[v] # None /\ kept.choices[v].bundles = <<>> THEN None
                          ELSE kept.choices[v]
  BY <1>2, <1>4 DEF WithBundles, Kept, Shape
<1> HIDE DEF new
<1>7. CASE r = kept.choices[v]
  <2>1. new.choices[v] = r
    BY <1>2, <1>5, <1>6, <1>7
  <2> QED BY <1>1, <1>2, <1>5, <1>6, <2>1 DEF Chosen, ReleasesOf
<1>8. CASE r \in ToSet(kept.alternates[v])
  <2>1. kept.alternates[v] # <<>>
    BY <1>8 DEF ToSet
  <2>2. kept.choices[v] # None /\ kept.choices[v].bundles # <<>>
    BY <1>2, <1>4, <2>1 DEF Beside
  <2> QED BY <1>1, <1>2, <1>5, <1>6, <1>8, <2>2 DEF Chosen, ReleasesOf
<1> QED BY <1>5, <1>7, <1>8 DEF ReleasesOf

-----------------------------------------------------------------------------
(* Answers.                                                                *)

LEMMA VersionsOfMembers ==
  ASSUME NEW T, NEW s \in Seq(T)
  PROVE  IsFiniteSet({x.version : x \in ToSet(s)})
<1> DEFINE f == [i \in 1..Len(s) |-> s[i].version]
           V == {x.version : x \in ToSet(s)}
<1>1. Len(s) \in Nat /\ DOMAIN s = 1..Len(s)
  BY MembersAre
<1>2. f \in Surjection(1..Len(s), V)
  <2>1. f \in [1..Len(s) -> V]
    BY <1>1 DEF ToSet
  <2>2. \A v \in V : \E i \in 1..Len(s) : f[i] = v
    BY <1>1 DEF ToSet
  <2> QED BY <2>1, <2>2 DEF Surjection
<1>3. IsFiniteSet(1..Len(s))
  BY <1>1, FS_Interval
<1> HIDE DEF f, V
<1>4. IsFiniteSet(V)
  BY <1>2, <1>3, FS_Surjection
<1> QED BY <1>4 DEF V

LEMMA VersionsAre ==
  ASSUME ListIsValid, site \in Sites
  PROVE  IsFiniteSet(Versions) /\ \A v \in Versions : IsFull(v)
<1>1. IsFiniteSet({r.version : r \in ToSet(Live(site))})
  BY LiveIs, VersionsOfMembers
<1>2. IsFiniteSet({e.version : e \in ToSet(Entries(list))})
  BY EntriesAre, VersionsOfMembers
<1>3. IsFiniteSet(Versions)
  BY <1>1, <1>2, FS_Union DEF Versions, VersionsOf
<1>4. \A v \in Versions : IsFull(v)
  BY LiveIs, EntriesAre DEF Versions, VersionsOf
<1> QED BY <1>3, <1>4

\* The choices of some versions and their others: a sequence of what is offered,
\* in descending order.
LEMMA OrderedIs ==
  ASSUME ListIsValid, site \in Sites, NEW m, Offering(m), NEW versions \in SUBSET Chosen(m)
  PROVE  /\ Ordered(m, versions) \in Seq(ToSet(Ordered(m, versions)))
         /\ InOrder(Ordered(m, versions))
         /\ \A r \in ToSet(Ordered(m, versions)) : Offered(r) /\ r.version \in versions
<1> DEFINE Of(v) == {m.choices[v]} \cup ToSet(m.alternates[v])
           R == UNION {Of(v) : v \in versions}
           order == Descending(versions)
           N == Len(order)
<1>1. versions \subseteq Versions /\ \A v \in versions : m.choices[v] # None /\ IsFull(v)
  BY VersionsAre DEF Chosen, Offering, Shape
<1>2. /\ order \in Seq(versions) /\ N \in Nat
      /\ \A i, j \in 1..N : i < j => ~Above(order[j], order[i])
  <2>1. IsFiniteSet(versions)
    BY <1>1, VersionsAre, FS_Subset
  <2>2. /\ order \in Seq(versions)
        /\ \A i, j \in 1..N : i < j => ~Above(order[j], order[i])
    BY <1>1, <2>1, DescendingIs
  <2> HIDE DEF order
  <2> QED BY <2>2, MembersAre
<1>3. \A v \in versions : \A r \in Of(v) : Offer(v, r)
  BY <1>1 DEF Offering
<1>4. ASSUME NEW v \in versions
      PROVE  Block(m, v) \in Seq(Of(v)) /\ Of(v) \subseteq R
  <2>1. /\ m.choices[v] \in Of(v) /\ ToSet(m.alternates[v]) \subseteq Of(v)
        /\ Of(v) \subseteq R
    OBVIOUS
  <2>2. m.alternates[v] \in Seq(ToSet(m.alternates[v]))
    BY <1>1 DEF Offering
  <2> HIDE DEF R, Of
  <2>3. m.alternates[v] \in Seq(Of(v))
    BY <2>1, <2>2, SeqMonotonic
  <2>4. <<m.choices[v]>> \in Seq(Of(v))
    BY <2>1
  <2> QED BY <2>1, <2>3, <2>4, ConcatProperties DEF Block
<1>5. PICK f : /\ f[0] = <<>>
               /\ \A n \in 1..N : f[n] = f[n - 1] \o Block(m, order[n])
               /\ Ordered(m, versions) = f[N]
  BY <1>2, OrderTurns
<1> DEFINE Right(n) ==
             /\ f[n] \in Seq(R) /\ InOrder(f[n])
             /\ \A i \in 1..Len(f[n]) : \E k \in 1..n : f[n][i].version = order[k]
           S == {n \in 0..N : Right(n)}
<1> HIDE DEF R, Of, order
<1>6. 0 \in S
  <2>1. f[0] = <<>> /\ f[0] \in Seq(R) /\ Len(f[0]) = 0
    BY <1>5, EmptySeq
  <2>2. InOrder(f[0])
    BY <2>1 DEF InOrder
  <2>3. 0 \in 0..N
    BY <1>2
  <2>4. \A i \in 1..Len(f[0]) : FALSE
    BY <2>1
  <2> QED BY <2>1, <2>2, <2>3, <2>4
<1>7. ASSUME NEW n \in 0..(N - 1), n \in S PROVE n + 1 \in S
  <2> DEFINE v == order[n + 1]
             b == Block(m, v)
             both == f[n] \o b
  <2>1. n + 1 \in 1..N /\ (n + 1) - 1 = n /\ n + 1 \in 0..N
    BY <1>2
  <2>2. f[n + 1] = both
    BY <1>5, <2>1
  <2>3. v \in versions
    BY <1>2, <2>1, ElementOfSeq
  <2>4. /\ f[n] \in Seq(R) /\ InOrder(f[n])
        /\ \A i \in 1..Len(f[n]) : \E k \in 1..n : f[n][i].version = order[k]
    BY <1>7
  <2>5. \A k \in 1..n : ~Above(v, order[k])
    BY <1>2, <2>1
  <2> HIDE DEF v
  <2>6. b \in Seq(Of(v)) /\ b \in Seq(R)
    BY <1>4, <2>3, SeqMonotonic
  <2> HIDE DEF b
  <2>7. Len(b) \in Nat /\ DOMAIN b = 1..Len(b) /\ Len(f[n]) \in Nat
    BY <2>4, <2>6, LenProperties
  <2>8. \A i \in 1..Len(b) : b[i].version = v
    <3>1. \A i \in 1..Len(b) : b[i] \in Of(v)
      BY <2>6, ElementOfSeq
    <3> QED BY <1>3, <2>3, <3>1 DEF Offer
  <2>9. InOrder(b)
    <3>1. ~Above(v, v)
      BY <1>1, <2>3, AboveIsStrict
    <3> QED BY <2>7, <2>8, <3>1 DEF InOrder
  <2>10. \A i \in 1..Len(f[n]), j \in 1..Len(b) : ~Above(b[j].version, f[n][i].version)
    BY <2>4, <2>5, <2>8
  <2>11. both \in Seq(R) /\ InOrder(both)
    BY <2>4, <2>6, <2>9, <2>10, ConcatProperties, ConcatInOrder
  <2>12. ASSUME NEW i \in 1..Len(both) PROVE \E k \in 1..(n + 1) : both[i].version = order[k]
    <3>1. /\ Len(both) = Len(f[n]) + Len(b)
          /\ \A j \in 1..(Len(f[n]) + Len(b)) :
               both[j] = IF j <= Len(f[n]) THEN f[n][j] ELSE b[j - Len(f[n])]
      BY <2>4, <2>6, ConcatProperties
    <3>2. CASE i <= Len(f[n])
      <4>1. both[i] = f[n][i] /\ i \in 1..Len(f[n])
        BY <2>7, <3>1, <3>2
      <4>2. PICK k \in 1..n : f[n][i].version = order[k]
        BY <2>4, <4>1
      <4> QED BY <4>1, <4>2
    <3>3. CASE ~(i <= Len(f[n]))
      <4>1. both[i] = b[i - Len(f[n])] /\ i - Len(f[n]) \in 1..Len(b)
        BY <2>7, <3>1, <3>3
      <4>2. both[i].version = order[n + 1]
        BY <2>8, <4>1 DEF v
      <4> QED BY <4>2
    <3> QED BY <3>2, <3>3
  <2> HIDE DEF both
  <2> QED BY <2>1, <2>2, <2>11, <2>12
<1>8. Right(N)
  <2>1. \A n \in 0..N : n \in S
    <3> HIDE DEF S, N
    <3> QED BY <1>2, <1>6, <1>7, EveryNaturalUpTo
  <2> HIDE DEF N
  <2> QED BY <1>2, <2>1
<1>9. \A r \in R : Offered(r) /\ r.version \in versions
  <2> SUFFICES ASSUME NEW v \in versions, NEW r \in Of(v) PROVE Offered(r) /\ r.version \in versions
    BY DEF R
  <2>1. Offer(v, r)
    BY <1>3
  <2> QED BY <2>1 DEF Offer, Offered
<1>10. Ordered(m, versions) \in Seq(R) /\ InOrder(Ordered(m, versions))
  BY <1>5, <1>8
<1> QED BY <1>9, <1>10, MembersAre

\* Every version is sorted,
LEMMA DescendingHasAll ==
  ASSUME NEW S, IsFiniteSet(S), \A v \in S : IsFull(v)
  PROVE  \A v \in S : \E i \in 1..Len(Descending(S)) : Descending(S)[i] = v
<1> DEFINE N == Cardinality(S)
<1>1. N \in Nat
  BY FS_CardinalityType
<1>2. PICK f : /\ f[0] = S
               /\ \A n \in 1..N : f[n] = f[n - 1] \ {Highest(f[n - 1])}
               /\ Descending(S) = [n \in 1..N |-> Highest(f[n - 1])]
  BY <1>1, LeftTurns
<1> DEFINE Right(n) == /\ f[n] \in SUBSET S /\ Cardinality(f[n]) = N - n
                       /\ \A v \in S \ f[n] : \E i \in 1..n : Highest(f[i - 1]) = v
           T == {n \in 0..N : Right(n)}
<1>3. 0 \in T
  BY <1>1, <1>2
<1>4. ASSUME NEW n \in 0..(N - 1), n \in T PROVE n + 1 \in T
  <2>1. /\ n + 1 \in 1..N /\ (n + 1) - 1 = n /\ n + 1 \in 0..N
        /\ \A i \in 1..n : i \in 1..(n + 1)
    BY <1>1
  <2>2. f[n + 1] = f[n] \ {Highest(f[n])}
    BY <1>2, <2>1
  <2>3. f[n] \in SUBSET S /\ Cardinality(f[n]) = N - n /\ IsFiniteSet(f[n])
    BY <1>4, FS_Subset
  <2>4. f[n] # {}
    BY <1>1, <2>3, FS_EmptySet
  <2>5. Highest(f[n]) \in f[n]
    BY <2>3, <2>4, HighestIs
  <2>6. Cardinality(f[n + 1]) = Cardinality(f[n]) - 1
    BY <2>2, <2>3, <2>5, FS_RemoveElement
  <2>7. Cardinality(f[n + 1]) = N - (n + 1)
    BY <1>1, <2>3, <2>6
  <2>8. ASSUME NEW v \in S \ f[n + 1] PROVE \E i \in 1..(n + 1) : Highest(f[i - 1]) = v
    <3>1. CASE v = Highest(f[n])
      <4>1. n + 1 \in 1..(n + 1)
        BY <1>1
      <4> QED BY <2>1, <3>1, <4>1
    <3>2. CASE v # Highest(f[n])
      <4>1. v \in S \ f[n]
        BY <2>2, <3>2
      <4>2. PICK i \in 1..n : Highest(f[i - 1]) = v
        BY <1>4, <4>1
      <4> QED BY <2>1, <4>2
    <3> QED BY <3>1, <3>2
  <2> QED BY <2>1, <2>2, <2>3, <2>7, <2>8
<1>5. Right(N)
  <2>1. \A n \in 0..N : n \in T
    <3> HIDE DEF T, N
    <3> QED BY <1>1, <1>3, <1>4, EveryNaturalUpTo
  <2> HIDE DEF N
  <2> QED BY <1>1, <2>1
<1>6. f[N] = {}
  <2>1. IsFiniteSet(f[N]) /\ Cardinality(f[N]) = 0
    BY <1>1, <1>5, FS_Subset
  <2> QED BY <2>1, FS_EmptySet
<1>7. Len(Descending(S)) = N /\ \A n \in 1..N : Descending(S)[n] = Highest(f[n - 1])
  <2> HIDE DEF N
  <2> QED BY <1>1, <1>2
<1> QED BY <1>5, <1>6, <1>7

\* with all the merge has of it.
LEMMA OrderedHasAll ==
  ASSUME ListIsValid, site \in Sites, NEW m, Offering(m), NEW versions \in SUBSET Chosen(m)
  PROVE  \A v \in versions : ReleasesOf(m, v) \subseteq ToSet(Ordered(m, versions))
<1> DEFINE order == Descending(versions)
           N == Len(order)
           R == UNION {ReleasesOf(m, v) : v \in versions}
<1>1. versions \subseteq Versions /\ \A v \in versions : m.choices[v] # None /\ IsFull(v)
  BY VersionsAre DEF Chosen, Offering, Shape
<1>2. /\ order \in Seq(versions) /\ N \in Nat
      /\ \A v \in versions : \E i \in 1..N : order[i] = v
  <2>1. IsFiniteSet(versions)
    BY <1>1, VersionsAre, FS_Subset
  <2>2. /\ order \in Seq(versions)
        /\ \A v \in versions : \E i \in 1..N : order[i] = v
    BY <1>1, <2>1, DescendingIs, DescendingHasAll
  <2> HIDE DEF order
  <2> QED BY <2>2, MembersAre
<1>3. ASSUME NEW v \in versions
      PROVE  Block(m, v) \in Seq(R) /\ ToSet(Block(m, v)) = ReleasesOf(m, v)
  <2>1. m.choices[v] \in R /\ ToSet(m.alternates[v]) \subseteq R
    BY DEF ReleasesOf
  <2>2. m.alternates[v] \in Seq(ToSet(m.alternates[v]))
    BY <1>1 DEF Offering
  <2> HIDE DEF R
  <2>3. m.alternates[v] \in Seq(R)
    BY <2>1, <2>2, SeqMonotonic
  <2> DEFINE one == <<m.choices[v]>>
             rest == m.alternates[v]
  <2>4. one \in Seq(R) /\ ToSet(one) = {m.choices[v]} /\ rest \in Seq(R)
    BY <2>1, <2>3 DEF ToSet
  <2> HIDE DEF one, rest
  <2>5. one \o rest \in Seq(R) /\ ToSet(one \o rest) = ToSet(one) \cup ToSet(rest)
    BY <2>4, ConcatProperties, MembersOfConcat
  <2> QED BY <2>4, <2>5 DEF Block, ReleasesOf, one, rest
<1>4. PICK f : /\ f[0] = <<>>
               /\ \A n \in 1..N : f[n] = f[n - 1] \o Block(m, order[n])
               /\ Ordered(m, versions) = f[N]
  BY <1>2, OrderTurns
<1> DEFINE Right(n) == /\ f[n] \in Seq(R)
                       /\ \A i \in 1..n : ReleasesOf(m, order[i]) \subseteq ToSet(f[n])
           S == {n \in 0..N : Right(n)}
<1> HIDE DEF R, order
<1>5. 0 \in S
  <2>1. f[0] \in Seq(R)
    BY <1>4, EmptySeq
  <2>2. 0 \in 0..N /\ \A i \in 1..0 : FALSE
    BY <1>2
  <2> QED BY <2>1, <2>2
<1>6. ASSUME NEW n \in 0..(N - 1), n \in S PROVE n + 1 \in S
  <2>1. /\ n + 1 \in 1..N /\ (n + 1) - 1 = n /\ n + 1 \in 0..N
        /\ \A i \in 1..(n + 1) : i \in 1..n \/ i = n + 1
    BY <1>2
  <2>2. f[n + 1] = f[n] \o Block(m, order[n + 1])
    BY <1>4, <2>1
  <2>3. order[n + 1] \in versions
    BY <1>2, <2>1, ElementOfSeq
  <2> DEFINE b == Block(m, order[n + 1])
  <2>4. b \in Seq(R) /\ ToSet(b) = ReleasesOf(m, order[n + 1])
    BY <1>3, <2>3
  <2>5. f[n] \in Seq(R) /\ \A i \in 1..n : ReleasesOf(m, order[i]) \subseteq ToSet(f[n])
    BY <1>6
  <2> HIDE DEF b
  <2>6. f[n] \o b \in Seq(R) /\ ToSet(f[n] \o b) = ToSet(f[n]) \cup ToSet(b)
    BY <2>4, <2>5, ConcatProperties, MembersOfConcat
  <2>7. f[n + 1] = f[n] \o b
    BY <2>2 DEF b
  <2>8. Right(n + 1)
    BY <2>1, <2>4, <2>5, <2>6, <2>7
  <2> QED BY <2>1, <2>8
<1>7. Right(N)
  <2>1. \A n \in 0..N : n \in S
    <3> HIDE DEF S, N
    <3> QED BY <1>2, <1>5, <1>6, EveryNaturalUpTo
  <2> HIDE DEF N, Right
  <2> QED BY <1>2, <2>1
<1> QED BY <1>2, <1>4, <1>7

LEMMA ErrorIs ==
  ASSUME NEW why
  PROVE  Standing(Error(why)) /\ \A asked : Sorted(asked, Error(why))
<1>1. Error(why).releases = <<>>
  BY DEF Error
<1>2. ToSet(<<>>) = {} /\ <<>> \in Seq({})
  BY EmptySeq DEF ToSet
<1>3. InOrder(<<>>)
  BY DEF InOrder
<1> QED BY <1>1, <1>2, <1>3 DEF Standing, AreSequences, Sorted

LEMMA AnswerIs ==
  ASSUME NEW T, NEW rs \in Seq(T), \A r \in T : Offered(r), NEW latest, NEW skips
  PROVE  Standing(Answer(rs, latest, skips))
<1>1. Answer(rs, latest, skips).releases = rs
  BY DEF Answer
<1>2. rs \in Seq(ToSet(rs)) /\ ToSet(rs) \subseteq T /\ DOMAIN rs = 1..Len(rs)
  BY MembersAre
<1>3. \A r \in ToSet(rs) : Offered(r)
  BY <1>2
<1>4. \A i \in DOMAIN rs : rs[i].bundles \in Seq(ToSet(rs[i].bundles))
  BY <1>3 DEF ToSet, Offered, Offer
<1> QED BY <1>1, <1>2, <1>3, <1>4 DEF Standing, AreSequences

LEMMA SingleIs ==
  ASSUME NEW r, Offered(r)
  PROVE  /\ Standing(Answer(<<r>>, FALSE, <<>>))
         /\ \A asked : asked # None => Sorted(asked, Answer(<<r>>, FALSE, <<>>))
<1> DEFINE T == {r}
           rs == <<r>>
<1>1. rs \in Seq(T) /\ \A x \in T : Offered(x)
  OBVIOUS
<1>2. InOrder(rs)
  BY DEF InOrder
<1> HIDE DEF T, rs
<1>3. Standing(Answer(rs, FALSE, <<>>))
  BY <1>1, AnswerIs
<1>4. \A asked : asked # None => Sorted(asked, Answer(rs, FALSE, <<>>))
  BY <1>2 DEF Sorted, Answer
<1> QED BY <1>3, <1>4 DEF rs

LEMMA MatchingIs ==
  ASSUME ListIsValid, site \in Sites, NEW m, Offering(m), NEW asked, asked # None
  PROVE  Standing(Matching(list, m, asked)) /\ Sorted(asked, Matching(list, m, asked))
<1> DEFINE matches == Ordered(m, {v \in Chosen(m) : MatchesRequest(m.choices[v], asked)})
           good == {r \in ToSet(matches) : MatchesRequest(r, asked)}
           found == Only(matches, good)
<1>1. Matching(list, m, asked) \in {Error("yanked"), Error("none"), Answer(found, FALSE, <<>>)}
  BY DEF Matching
<1>2. /\ matches \in Seq(ToSet(matches)) /\ \A r \in ToSet(matches) : Offered(r)
      /\ InOrder(matches)
  <2>1. {v \in Chosen(m) : MatchesRequest(m.choices[v], asked)} \in SUBSET Chosen(m)
    OBVIOUS
  <2> QED BY <2>1, OrderedIs
<1>3. found \in Seq(ToSet(matches) \cap good) /\ InOrder(found)
  <2> HIDE DEF matches, good
  <2> QED BY <1>2, OnlyIs, OnlyKeepsOrder
<1>4. \A r \in ToSet(matches) \cap good : Offered(r)
  <2> HIDE DEF matches, good
  <2> QED BY <1>2
<1> HIDE DEF found, matches, good
<1>5. Standing(Answer(found, FALSE, <<>>))
  BY <1>3, <1>4, AnswerIs
<1>6. Sorted(asked, Answer(found, FALSE, <<>>))
  BY <1>3 DEF Sorted, Answer
<1> QED BY <1>1, <1>5, <1>6, ErrorIs

LEMMA ForLatestIs ==
  ASSUME ListIsValid, site \in Sites, NEW m, Offering(m), NEW latest
  PROVE  /\ Standing(ForLatest(Live(site), list, latest, m))
         /\ Sorted(None, ForLatest(Live(site), list, latest, m))
<1> DEFINE eligible == Ordered(m, {v \in Chosen(m) : m.choices[v].version.rc = 0})
           marked == {i \in DOMAIN eligible : eligible[i].recommended}
           i == CHOOSE i \in marked : \A j \in marked : i <= j
           moved == <<eligible[i]>> \o RemoveAt(eligible, i)
           T == ToSet(eligible)
           new == ForLatest(Live(site), list, latest, m)
<1>1. \/ new = Error("none")
      \/ marked # {} /\ new = Answer(moved, TRUE, <<>>)
      \/ \E skips : new = Answer(eligible, TRUE, skips)
  BY DEF ForLatest
<1>2. eligible \in Seq(T) /\ InOrder(eligible) /\ \A r \in T : Offered(r) /\ r.version.rc = 0
  <2>1. {v \in Chosen(m) : m.choices[v].version.rc = 0} \in SUBSET Chosen(m)
    OBVIOUS
  <2>2. \A v \in Chosen(m) : m.choices[v].version = v
    BY DEF Chosen, Offering, Shape, Offer
  <2> QED BY <2>1, <2>2, OrderedIs
<1>3. Len(eligible) \in Nat /\ DOMAIN eligible = 1..Len(eligible)
  <2> HIDE DEF eligible
  <2> QED BY <1>2, MembersAre
<1> HIDE DEF eligible, T
<1>4. marked # {} => moved \in Seq(T) /\ InOrder(Tail(moved))
  <2> SUFFICES ASSUME marked # {} PROVE moved \in Seq(T) /\ InOrder(Tail(moved))
    OBVIOUS
  <2>1. marked \in SUBSET Nat
    BY <1>3
  <2>2. i \in marked
    <3> HIDE DEF marked
    <3> QED BY <2>1, Least
  <2> HIDE DEF i
  <2>3. i \in 1..Len(eligible)
    BY <1>3, <2>2
  <2>4. eligible[i] \in T
    BY <1>2, <2>3, ElementOfSeq
  <2> DEFINE rest == RemoveAt(eligible, i)
  <2>5. rest \in Seq(T) /\ InOrder(rest)
    BY <1>2, <2>3, RemoveKeepsOrder
  <2> HIDE DEF rest, marked
  <2>6. <<eligible[i]>> \in Seq(T)
    BY <2>4
  <2>7. <<eligible[i]>> \o rest \in Seq(T)
    BY <2>5, <2>6, ConcatProperties
  <2>8. Tail(<<eligible[i]>> \o rest) = rest
    BY <2>4, <2>5, TailOfOne
  <2> QED BY <2>5, <2>7, <2>8 DEF rest
<1>5. CASE marked # {} /\ new = Answer(moved, TRUE, <<>>)
  <2> HIDE DEF moved, marked, new
  <2>1. Standing(Answer(moved, TRUE, <<>>))
    BY <1>2, <1>4, <1>5, AnswerIs
  <2>2. ToSet(moved) \subseteq T
    BY <1>4, <1>5, MembersAre
  <2>3. Sorted(None, Answer(moved, TRUE, <<>>))
    BY <1>2, <1>4, <1>5, <2>2 DEF Sorted, Answer
  <2> QED BY <1>5, <2>1, <2>3 DEF new
<1>6. CASE \E skips : new = Answer(eligible, TRUE, skips)
  <2> HIDE DEF new
  <2>1. Standing(new)
    BY <1>2, <1>6, AnswerIs
  <2>2. ToSet(eligible) \subseteq T /\ (eligible # <<>> => InOrder(Tail(eligible)))
    BY <1>2, MembersAre, TailIsInOrder
  <2>3. new.releases = eligible
    BY <1>6 DEF Answer
  <2>4. Sorted(None, new)
    BY <1>2, <2>2, <2>3 DEF Sorted
  <2> QED BY <2>1, <2>4 DEF new
<1>7. CASE new = Error("none")
  BY <1>7, ErrorIs
<1> QED BY <1>1, <1>5, <1>6, <1>7

\* A release of the forge that a request names by its tag stands by itself if
\* no entry has its version or its tag.
LEMMA ForRequestIs ==
  ASSUME ListIsValid, site \in Sites, NEW m, Offering(m), NEW asked, asked # None
  PROVE  /\ Standing(ForRequest(Live(site), list, m, asked))
         /\ Sorted(asked, ForRequest(Live(site), list, m, asked))
<1> DEFINE live == Live(site)
           E == Entries(list)
           exact == ExactTag(live, asked)
           same == {e \in ToSet(E) : e.version = exact.version}
           tagged == {e \in ToSet(E) : e.tag = exact.tag}
           listed == ListedFor(list, exact)
           choice == m.choices[Head(listed).version]
           new == ForRequest(live, list, m, asked)
<1>1. \/ new = Error("none") \/ new = Matching(list, m, asked)
      \/ listed # <<>> /\ choice # None /\ new = Answer(<<choice>>, FALSE, <<>>)
      \/ /\ exact # None /\ listed = <<>> /\ exact.bundles # <<>>
         /\ new = Answer(<<exact>>, FALSE, <<>>)
  BY DEF ForRequest
<1>2. E \in Seq(ToSet(E)) /\ live \in Seq(ToSet(live))
  BY EntriesAre, LiveIs
<1>3. /\ listed \in Seq(ToSet(E))
      /\ listed = <<>> => ToSet(E) \cap same = {} /\ ToSet(E) \cap tagged = {}
  <2>1. listed = IF Only(E, same) # <<>> THEN Only(E, same) ELSE Only(E, tagged)
    BY DEF ListedFor
  <2> HIDE DEF same, tagged, E, listed
  <2>2. /\ Only(E, same) \in Seq(ToSet(E) \cap same)
        /\ Only(E, same) = <<>> => ToSet(E) \cap same = {}
        /\ Only(E, tagged) \in Seq(ToSet(E) \cap tagged)
        /\ Only(E, tagged) = <<>> => ToSet(E) \cap tagged = {}
    BY <1>2, OnlyIs
  <2>3. Only(E, same) \in Seq(ToSet(E)) /\ Only(E, tagged) \in Seq(ToSet(E))
    BY <2>2, SeqMonotonic
  <2>4. CASE Only(E, same) # <<>>
    BY <2>1, <2>3, <2>4
  <2>5. CASE Only(E, same) = <<>>
    <3>1. listed = Only(E, tagged)
      BY <2>1, <2>5
    <3> QED BY <2>2, <2>3, <2>5, <3>1
  <2> QED BY <2>4, <2>5
<1>4. exact # None => exact \in ToSet(live)
  <2> DEFINE named == {r \in ToSet(live) : r.tag = asked}
             first == Only(live, named)
  <2>1. exact # None => first # <<>> /\ exact = Head(first)
    BY DEF ExactTag, FirstOr
  <2>2. first \in Seq(ToSet(live) \cap named)
    <3> HIDE DEF live, named
    <3> QED BY <1>2, OnlyIs
  <2> HIDE DEF first, live, named, exact
  <2> QED BY <2>1, <2>2, HeadTailProperties
<1>5. CASE new = Error("none")
  BY <1>5, ErrorIs
<1>6. CASE new = Matching(list, m, asked)
  BY <1>6, MatchingIs
<1>7. CASE listed # <<>> /\ choice # None /\ new = Answer(<<choice>>, FALSE, <<>>)
  <2>1. Head(listed) \in ToSet(E)
    <3> HIDE DEF listed, E
    <3> QED BY <1>3, <1>7, HeadTailProperties
  <2>2. Head(listed).version \in Versions
    <3> HIDE DEF listed
    <3> QED BY <2>1 DEF Versions, VersionsOf
  <2>3. Offered(choice)
    <3> DEFINE v == Head(listed).version
    <3> HIDE DEF v
    <3>1. v \in Versions /\ m.choices[v] # None
      BY <1>7, <2>2 DEF v
    <3>2. Offer(v, m.choices[v])
      BY <3>1 DEF Offering
    <3>3. Offered(m.choices[v])
      BY <3>2 DEF Offered, Offer
    <3> QED BY <3>3 DEF v
  <2> HIDE DEF choice, new
  <2>4. /\ Standing(Answer(<<choice>>, FALSE, <<>>))
        /\ Sorted(asked, Answer(<<choice>>, FALSE, <<>>))
    BY <2>3, SingleIs
  <2> QED BY <1>7, <2>4 DEF new
<1>8. CASE /\ exact # None /\ listed = <<>> /\ exact.bundles # <<>>
           /\ new = Answer(<<exact>>, FALSE, <<>>)
  <2> HIDE DEF exact, new, listed
  <2>1. exact \in ToSet(Live(site))
    BY <1>4, <1>8
  <2>2. exact.bundles \in Seq(ToSet(exact.bundles))
    BY <2>1, LiveIs
  <2>3. \A e \in ToSet(Entries(list)) : e.version # exact.version /\ e.tag # exact.tag
    BY <1>3, <1>8
  <2>4. Offered(exact)
    BY <1>8, <2>1, <2>2, <2>3 DEF Offered, Offer, Stands
  <2>5. /\ Standing(Answer(<<exact>>, FALSE, <<>>))
        /\ Sorted(asked, Answer(<<exact>>, FALSE, <<>>))
    BY <2>4, SingleIs
  <2> QED BY <1>8, <2>5 DEF new
<1> QED BY <1>1, <1>5, <1>6, <1>7, <1>8

\* Whatever the forge, the list and the request: what candidates_with_latest
\* answers stands, and is in order.
LEMMA CandidatesStand ==
  ASSUME ListIsValid, site \in Sites, NEW asked, NEW latest
  PROVE  /\ Standing(CandidatesFor(Live(site), list, asked, latest))
         /\ Sorted(asked, CandidatesFor(Live(site), list, asked, latest))
<1> DEFINE merged == Merge(Live(site), list, latest)
           new == CandidatesFor(Live(site), list, asked, latest)
<1>1. Offering(merged)
  BY MergeIs
<1> HIDE DEF merged
<1>2. \/ new = Error("yanked")
      \/ asked = None /\ new = ForLatest(Live(site), list, latest, merged)
      \/ asked # None /\ new = ForRequest(Live(site), list, merged, asked)
  BY DEF CandidatesFor, merged
<1> HIDE DEF new
<1>3. Standing(new) /\ Sorted(asked, new)
  BY <1>1, <1>2, ErrorIs, ForLatestIs, ForRequestIs
<1> QED BY <1>3 DEF new

\* A latest request is offered all that is due, but prereleases.
LEMMA LatestHasAll ==
  ASSUME ListIsValid, site \in Sites, NEW latest, NEW v, NEW bundles, Due(v, bundles), v.rc = 0
  PROVE  LET answer == CandidatesFor(Live(site), list, None, latest)
         IN  answer.error = None
             /\ \E r \in ToSet(answer.releases) : r.version = v /\ r.bundles = bundles
<1> DEFINE m == Merge(Live(site), list, latest)
           versions == {w \in Chosen(m) : m.choices[w].version.rc = 0}
           eligible == Ordered(m, versions)
           marked == {i \in DOMAIN eligible : eligible[i].recommended}
           i == CHOOSE i \in marked : \A j \in marked : i <= j
           moved == <<eligible[i]>> \o RemoveAt(eligible, i)
           T == ToSet(eligible)
           new == ForLatest(Live(site), list, latest, m)
<1>1. CandidatesFor(Live(site), list, None, latest) = new
  BY DEF CandidatesFor
<1>2. Offering(m)
  BY MergeIs
<1>3. v \in Chosen(m) /\ \E r \in ReleasesOf(m, v) : r.bundles = bundles
  BY MergeHasAll
<1> HIDE DEF m
<1>4. PICK r \in ReleasesOf(m, v) : r.bundles = bundles
  BY <1>3
<1>5. r.version = v /\ v \in versions
  BY <1>2, <1>3 DEF Chosen, Offering, Shape, Offer, ReleasesOf
<1>6. r \in T
  BY <1>2, <1>5, OrderedHasAll
<1>7. eligible \in Seq(T)
  BY <1>2, OrderedIs
<1>8. eligible # <<>>
  <2> HIDE DEF eligible
  <2> QED BY <1>6 DEF T, ToSet
<1>9. \/ marked # {} /\ new = Answer(moved, TRUE, <<>>)
      \/ \E skips : new = Answer(eligible, TRUE, skips)
  BY <1>8 DEF ForLatest
<1>10. Len(eligible) \in Nat /\ DOMAIN eligible = 1..Len(eligible)
  <2> HIDE DEF eligible, T
  <2> QED BY <1>7, MembersAre
<1> HIDE DEF eligible, T, versions
<1>11. marked # {} => T = ToSet(moved)
  <2> SUFFICES ASSUME marked # {} PROVE T = ToSet(moved)
    OBVIOUS
  <2>1. marked \in SUBSET Nat
    BY <1>10
  <2>2. i \in marked
    <3> HIDE DEF marked
    <3> QED BY <2>1, Least
  <2> HIDE DEF i
  <2>3. i \in 1..Len(eligible)
    BY <1>10, <2>2
  <2> DEFINE rest == RemoveAt(eligible, i)
             x == eligible[i]
  <2>4. x \in T
    BY <1>7, <2>3, ElementOfSeq
  <2>5. rest \in Seq(T)
    <3>1. InOrder(eligible)
      BY <1>2, OrderedIs DEF eligible, versions
    <3> QED BY <1>7, <2>3, <3>1, RemoveKeepsOrder
  <2>6. T = {x} \cup ToSet(rest)
    <3>1. ToSet(eligible) = {x} \cup ToSet(rest)
      BY <1>7, <2>3, MembersOfRemoved
    <3> QED BY <3>1 DEF T
  <2> HIDE DEF rest, x
  <2> DEFINE first == <<x>>
  <2>7. first \in Seq(T) /\ ToSet(first) = {x}
    BY <2>4 DEF ToSet
  <2> HIDE DEF first
  <2>8. ToSet(first \o rest) = ToSet(first) \cup ToSet(rest)
    <3> HIDE DEF T
    <3> QED BY ONLY <2>5, <2>7, MembersOfConcat
  <2> QED BY <2>6, <2>7, <2>8 DEF first, rest, x
<1> HIDE DEF moved, marked, new
<1>12. new.error = None /\ ToSet(new.releases) = T
  BY <1>9, <1>11 DEF Answer, T
<1> QED BY <1>1, <1>4, <1>5, <1>6, <1>12

-----------------------------------------------------------------------------
(* Tags: no two releases that are offered have one.                        *)

\* What the forge shows of a tag: the version that it names, and whether it is
\* the latest.
LEMMA LiveTags ==
  ASSUME site \in Sites
  PROVE  /\ \A r \in ToSet(Live(site)) :
              /\ r.version = TagVersion(r.tag) /\ r.version # None /\ r.version.lead = ""
              /\ r.recommended <=> r.tag = site.latest
         /\ Distinct(Live(site))
<1> DEFINE public == {x \in ToSet(site.releases) : ~x.draft /\ TagVersion(x.tag) # None}
           shown == Only(site.releases, public)
           Packslips(x) == {url \in ToSet(x.assets) : url.name \in BundleNames}
           L(i) == [version |-> TagVersion(shown[i].tag), tag |-> shown[i].tag,
                    bundles |-> Only(shown[i].assets, Packslips(shown[i])),
                    recommended |-> site.latest = shown[i].tag]
<1>1. /\ site.releases \in Seq(ToSet(site.releases))
      /\ \A r \in ToSet(site.releases) : IsText(r.tag)
  BY SitesComplete
<1>2. shown \in Seq(ToSet(site.releases) \cap public)
  <2> HIDE DEF public
  <2> QED BY <1>1, OnlyIs
<1>3. \A i \in DOMAIN shown : IsText(shown[i].tag) /\ TagVersion(shown[i].tag) # None
  <2> SUFFICES ASSUME NEW i \in DOMAIN shown
               PROVE  IsText(shown[i].tag) /\ TagVersion(shown[i].tag) # None
    OBVIOUS
  <2>1. shown[i] \in ToSet(site.releases) \cap public
    <3> HIDE DEF shown, public
    <3> QED BY <1>2, MembersAre, ElementOfSeq
  <2> HIDE DEF shown
  <2> QED BY <1>1, <2>1
<1>4. Live(site) = [i \in DOMAIN shown |-> L(i)]
  BY Zenon DEF Live
<1>5. ASSUME NEW i \in DOMAIN shown
      PROVE  /\ L(i).version = TagVersion(L(i).tag) /\ L(i).version # None
             /\ L(i).version.lead = ""
             /\ L(i).recommended <=> L(i).tag = site.latest
  <2> DEFINE tag == shown[i].tag
  <2>1. IsText(tag) /\ TagVersion(tag) # None
    BY <1>3
  <2>2. L(i).version = TagVersion(tag) /\ L(i).tag = tag /\ (L(i).recommended <=> site.latest = tag)
    OBVIOUS
  <2> HIDE DEF L, tag
  <2>4. TagVersion(tag).lead = ""
    BY <2>1 DEF TagVersion, Text
  <2> QED BY <2>1, <2>2, <2>4
<1> HIDE DEF L, shown
<1>6. \A r \in ToSet(Live(site)) : \E i \in DOMAIN shown : r = L(i)
  BY <1>4 DEF ToSet
<1>7. Distinct(Live(site))
  BY SitesComplete DEF Distinct
<1> QED BY <1>5, <1>6, <1>7

\* A version is the version of the tag that is like it.
LEMMA WholeIsPadded ==
  ASSUME NEW n \in Seq(Nat), Len(n) = 3
  PROVE  Padded(n) = n
BY DEF Padded

LEMMA VersionOfItself ==
  ASSUME NEW v, IsFull(v), v.lead = "", TagVersion(v) # None
  PROVE  TagVersion(v) = v
<1>1. Padded(v.n) = v.n
  <2>1. v.n \in Seq(Nat) /\ Len(v.n) = 3
    BY Zenon DEF IsFull, IsText
  <2> QED BY <2>1, WholeIsPadded, Zenon
<1>2. TagVersion(v) = Text("", Padded(v.n), v.rc, v.b)
  BY DEF TagVersion
<1>3. v = Text(v.lead, v.n, v.rc, v.b)
  BY DEF IsFull, IsText
<1> QED BY <1>1, <1>2, <1>3

\* Where a release that is offered has its tag from: from the forge, if no entry
\* has anything to say about it, or from the entry of its version.
FromForge(v, r) ==
    /\ v # None /\ TagVersion(r.tag) = v
    /\ \A e \in ToSet(Entries(list)) : e.version # v /\ e.tag # r.tag
FromEntry(v, r) == \E e \in ToSet(Entries(list)) : e.version = v /\ r.tag \in TagsOf(e)
Traced(v, r) == FromForge(v, r) \/ FromEntry(v, r)

\* So releases of different versions have different tags, if no entry names
\* another's.
LEMMA TracedApart ==
  ASSUME ListIsValid, site \in Sites, OwnTags, NEW v, NEW w, v # w,
         NEW r, NEW q, Traced(v, r), Traced(w, q)
  PROVE  r.tag # q.tag
<1>1. \A e \in ToSet(Entries(list)) : IsFull(e.version) /\ e.version.lead = ""
  <2>1. CASE list = None
    <3>1. ToSet(Entries(list)) = {<<>>[i] : i \in DOMAIN <<>>}
      BY <2>1 DEF Entries, ToSet
    <3>2. ToSet(Entries(list)) = {}
      BY <3>1
    <3> QED BY <3>2
  <2>2. CASE list # None
    BY <2>2 DEF ListIsValid, Validate, IsVersion, Entries
  <2> QED BY <2>1, <2>2
<1>2. ASSUME NEW e \in ToSet(Entries(list)), NEW tag \in TagsOf(e), TagVersion(tag) # None,
             e.tag = None
      PROVE  TagVersion(tag) = e.version
  <2>1. CASE tag = e.version
    BY <1>1, <1>2, <2>1, VersionOfItself
  <2>2. CASE tag \in {x.tag : x \in ForgeOf(e.version)}
    <3>1. PICK x \in ForgeOf(e.version) : tag = x.tag
      BY <2>2
    <3> QED BY <3>1, LiveTags DEF ForgeOf
  <2> QED BY <1>2, <2>1, <2>2 DEF TagsOf
<1>3. ASSUME NEW x, NEW y, NEW a, NEW b, a # b, FromForge(a, x), FromEntry(b, y), x.tag = y.tag
      PROVE  FALSE
  <2>1. PICK e \in ToSet(Entries(list)) : e.version = b /\ y.tag \in TagsOf(e)
    BY <1>3 DEF FromEntry
  <2>2. CASE e.tag # None
    <3>1. y.tag = e.tag
      BY <2>1, <2>2 DEF TagsOf
    <3> QED BY <1>3, <3>1 DEF FromForge
  <2>3. CASE e.tag = None
    <3>1. TagVersion(x.tag) = a /\ a # None
      BY <1>3 DEF FromForge
    <3>2. x.tag \in TagsOf(e) /\ TagVersion(x.tag) # None
      BY <1>3, <2>1, <3>1
    <3>3. TagVersion(x.tag) = e.version
      BY <1>2, <2>3, <3>2
    <3> QED BY <1>3, <2>1, <3>1, <3>3
  <2> QED BY <2>2, <2>3
<1> SUFFICES ASSUME r.tag = q.tag PROVE FALSE
  OBVIOUS
<1>4. CASE FromForge(v, r) /\ FromForge(w, q)
  BY <1>4 DEF FromForge
<1>5. CASE FromForge(v, r) /\ FromEntry(w, q)
  BY <1>3, <1>5
<1>6. CASE FromEntry(v, r) /\ FromForge(w, q)
  BY <1>3, <1>6
<1>7. CASE FromEntry(v, r) /\ FromEntry(w, q)
  <2>1. PICK e \in ToSet(Entries(list)) : e.version = v /\ r.tag \in TagsOf(e)
    BY <1>7 DEF FromEntry
  <2>2. PICK f \in ToSet(Entries(list)) : f.version = w /\ q.tag \in TagsOf(f)
    BY <1>7 DEF FromEntry
  <2>3. e # f /\ OwnTag(e) /\ OwnTag(f)
    BY <2>1, <2>2 DEF OwnTags
  <2>4. CASE f.tag # None
    <3>1. q.tag = f.tag
      BY <2>2, <2>4 DEF TagsOf
    <3> QED BY <2>1, <2>3, <3>1 DEF OwnTag
  <2>5. CASE e.tag # None
    <3>1. r.tag = e.tag
      BY <2>1, <2>5 DEF TagsOf
    <3> QED BY <2>2, <2>3, <3>1 DEF OwnTag
  <2>6. CASE e.tag = None /\ f.tag = None
    <3>1. CASE TagVersion(r.tag) = None
      <4>1. r.tag = e.version
        <5> SUFFICES ASSUME r.tag \in {x.tag : x \in ForgeOf(e.version)} PROVE FALSE
          BY <2>1, <2>6 DEF TagsOf
        <5>1. PICK x \in ForgeOf(e.version) : r.tag = x.tag
          OBVIOUS
        <5> QED BY <3>1, <5>1, LiveTags DEF ForgeOf
      <4>2. q.tag = f.version
        <5> SUFFICES ASSUME q.tag \in {x.tag : x \in ForgeOf(f.version)} PROVE FALSE
          BY <2>2, <2>6 DEF TagsOf
        <5>1. PICK x \in ForgeOf(f.version) : q.tag = x.tag
          OBVIOUS
        <5> QED BY <3>1, <5>1, LiveTags DEF ForgeOf
      <4> QED BY <2>1, <2>2, <4>1, <4>2
    <3>2. CASE TagVersion(r.tag) # None
      BY <1>2, <2>1, <2>2, <2>6, <3>2
    <3> QED BY <3>1, <3>2
  <2> QED BY <2>4, <2>5, <2>6
<1> QED BY <1>4, <1>5, <1>6, <1>7 DEF Traced

-----------------------------------------------------------------------------
(* The releases of a version have different tags.                          *)

LEMMA AppendIsDistinct ==
  ASSUME NEW T, NEW s \in Seq(T), NEW x, Distinct(s), \A q \in ToSet(s) : q.tag # x.tag
  PROVE  Distinct(Append(s, x))
<1> DEFINE all == Append(s, x)
<1>1. Len(s) \in Nat /\ DOMAIN s = 1..Len(s)
  BY MembersAre
<1>2. /\ DOMAIN all = 1..(Len(s) + 1) /\ all[Len(s) + 1] = x
      /\ \A i \in 1..Len(s) : all[i] = s[i] /\ s[i] \in ToSet(s)
  <2>1. s \in Seq(T \cup {x}) /\ x \in T \cup {x}
    BY <1>1
  <2>2. \A i \in 1..Len(s) : s[i] \in ToSet(s)
    BY <1>1 DEF ToSet
  <2> QED BY <1>1, <2>1, <2>2, AppendProperties
<1> HIDE DEF all
<1>3. \A i \in DOMAIN all : i \in 1..Len(s) \/ i = Len(s) + 1
  BY <1>1, <1>2
<1>4. \A i, j \in 1..Len(s) : s[i].tag = s[j].tag => i = j
  BY <1>1 DEF Distinct
<1>5. ASSUME NEW i \in DOMAIN all, NEW j \in DOMAIN all, all[i].tag = all[j].tag PROVE i = j
  <2>1. CASE i \in 1..Len(s) /\ j \in 1..Len(s)
    BY <1>2, <1>4, <1>5, <2>1
  <2>2. CASE i \in 1..Len(s) /\ j = Len(s) + 1
    BY <1>2, <1>5, <2>2
  <2>3. CASE i = Len(s) + 1 /\ j \in 1..Len(s)
    BY <1>2, <1>5, <2>3
  <2>4. CASE i = Len(s) + 1 /\ j = Len(s) + 1
    BY <2>4
  <2> QED BY <1>3, <2>1, <2>2, <2>3, <2>4
<1> QED BY <1>5 DEF Distinct, all

LEMMA TailIsDistinct ==
  ASSUME NEW T, NEW s \in Seq(T), s # <<>>, Distinct(s)
  PROVE  Distinct(Tail(s)) /\ \A q \in ToSet(Tail(s)) : q.tag # Head(s).tag
<1> DEFINE t == Tail(s)
<1>1. Len(s) \in Nat \ {0} /\ DOMAIN s = 1..Len(s) /\ Head(s) = s[1]
  BY EmptySeq, MembersAre
<1>2. DOMAIN t = 1..(Len(s) - 1) /\ \A i \in 1..(Len(s) - 1) : t[i] = s[i + 1]
  BY <1>1, HeadTailProperties, MembersAre
<1>3. \A i, j \in 1..Len(s) : s[i].tag = s[j].tag => i = j
  BY <1>1 DEF Distinct
<1>4. 1 \in 1..Len(s) /\ \A i \in 1..(Len(s) - 1) : i + 1 \in 1..Len(s) /\ i + 1 # 1
  BY <1>1
<1> HIDE DEF t
<1>5. \A i, j \in 1..(Len(s) - 1) : i + 1 = j + 1 => i = j
  BY <1>1
<1>6. Distinct(t)
  BY <1>2, <1>3, <1>4, <1>5 DEF Distinct
<1>7. \A q \in ToSet(t) : q.tag # Head(s).tag
  <2> SUFFICES ASSUME NEW i \in 1..(Len(s) - 1) PROVE t[i].tag # Head(s).tag
    BY <1>2 DEF ToSet
  <2> QED BY <1>1, <1>2, <1>3, <1>4
<1> QED BY <1>6, <1>7 DEF t

\* The tags of a version's releases, in a merge.
Alone(m, v) ==
    /\ Distinct(m.alternates[v])
    /\ m.choices[v] # None => \A r \in ToSet(m.alternates[v]) : r.tag # m.choices[v].tag

\* The first n of the forge's releases, and no others.
Early(m, n) ==
    \A v \in Versions : /\ Alone(m, v)
                        /\ \A r \in ReleasesOf(m, v) \ {None} : \E i \in 1..n : r = Live(site)[i]

LEMMA AddLiveIsEarly ==
  ASSUME site \in Sites, NEW m, Signed(m, 0), Beside(m), NEW n \in Nat,
         n + 1 \in 1..Len(Live(site)), Early(m, n)
  PROVE  Early(AddLive(m, Live(site)[n + 1]), n + 1)
<1> DEFINE live == Live(site)
           r == live[n + 1]
           v == r.version
           new == AddLive(m, r)
           InTime(w) == \A x \in ReleasesOf(m, w) \ {None} : x.tag # r.tag /\ \E i \in 1..(n + 1) : x = live[i]
<1>1. /\ Len(live) \in Nat /\ DOMAIN live = 1..Len(live)
      /\ \A i \in 1..n : i \in 1..Len(live) /\ i \in 1..(n + 1) /\ i # n + 1
      /\ n + 1 \in 1..(n + 1) /\ n + 1 \in 1..Len(live)
  BY LiveIs, MembersAre
<1>2. /\ r # None /\ v \in Versions
      /\ \A i \in 1..n : live[i].tag # r.tag
  <2>1. r \in ToSet(live)
    <3> HIDE DEF live
    <3> QED BY <1>1 DEF ToSet
  <2>2. Distinct(live)
    BY LiveTags
  <2> HIDE DEF live
  <2>3. \A i \in 1..n : live[i].tag # r.tag
    BY <1>1, <2>2 DEF Distinct
  <2>4. r # None /\ v \in Versions
    BY <2>1, LiveIsPublic DEF Versions, VersionsOf, live
  <2> QED BY <2>3, <2>4
<1>3. Shape(m) /\ \A w \in Versions : m.alternates[w] \in Seq(OthersOf(w))
  BY DEF Signed
<1>4. \A w \in Versions : Alone(m, w) /\ InTime(w)
  <2> SUFFICES ASSUME NEW w \in Versions, NEW x \in ReleasesOf(m, w) \ {None}
               PROVE  Alone(m, w) /\ x.tag # r.tag /\ \E i \in 1..(n + 1) : x = live[i]
    BY DEF Early
  <2>1. Alone(m, w) /\ \E i \in 1..n : x = live[i]
    BY DEF Early
  <2> HIDE DEF live
  <2> QED BY <1>1, <1>2, <2>1
<1>5. new = IF m.choices[v] = None \/ (m.choices[v].bundles = <<>> /\ r.bundles # <<>>)
              THEN [m EXCEPT !.choices[v] = r]
            ELSE IF r.bundles # <<>> THEN [m EXCEPT !.alternates[v] = Append(@, r)]
            ELSE m
  BY DEF AddLive
<1> SUFFICES ASSUME NEW w \in Versions
             PROVE  Alone(new, w) /\ \A x \in ReleasesOf(new, w) \ {None} : \E i \in 1..(n + 1) : x = live[i]
  BY DEF Early
<1>10. \E i \in 1..(n + 1) : r = live[i]
  BY <1>1
<1> HIDE DEF live, r, v, new
<1>6. CASE m.choices[v] = None \/ (m.choices[v].bundles = <<>> /\ r.bundles # <<>>)
  <2>1. new.choices = [m.choices EXCEPT ![v] = r] /\ new.alternates = m.alternates
    BY <1>3, <1>5, <1>6 DEF Shape
  <2>2. new.choices[w] = IF w = v THEN r ELSE m.choices[w]
    BY <1>2, <1>3, <2>1 DEF Shape
  <2>3. w = v => m.alternates[w] = <<>>
    BY <1>2, <1>6 DEF Beside
  <2>4. CASE w = v
    <3>1. ToSet(m.alternates[w]) = {}
      BY <2>3, <2>4 DEF ToSet
    <3>2. Alone(new, w)
      BY <1>4, <2>1, <3>1 DEF Alone
    <3> QED BY <1>10, <2>1, <2>2, <2>4, <3>1, <3>2 DEF ReleasesOf
  <2>5. CASE w # v
    <3>1. ReleasesOf(new, w) = ReleasesOf(m, w) /\ Alone(new, w)
      BY <1>4, <2>1, <2>2, <2>5 DEF ReleasesOf, Alone
    <3> QED BY <1>4, <3>1
  <2> QED BY <2>4, <2>5
<1>7. CASE ~(m.choices[v] = None \/ (m.choices[v].bundles = <<>> /\ r.bundles # <<>>))
           /\ r.bundles # <<>>
  <2>1. new.alternates = [m.alternates EXCEPT ![v] = Append(@, r)] /\ new.choices = m.choices
    BY <1>3, <1>5, <1>7 DEF Shape
  <2>2. new.alternates[w] = IF w = v THEN Append(m.alternates[v], r) ELSE m.alternates[w]
    BY <1>2, <1>3, <2>1 DEF Shape
  <2>3. ToSet(Append(m.alternates[v], r)) = ToSet(m.alternates[v]) \cup {r}
    BY <1>2, <1>3, MembersOfAppend
  <2>4. CASE w = v
    <3>1. \A x \in ToSet(m.alternates[v]) : x # None
      <4>1. ToSet(m.alternates[v]) \subseteq OthersOf(v)
        BY <1>2, <1>3, MembersAre
      <4> QED BY <4>1, LiveIsPublic DEF OthersOf, ForgeOf
    <3>2. \A x \in ToSet(m.alternates[v]) : x.tag # r.tag
      BY <1>4, <2>4, <3>1 DEF ReleasesOf
    <3>3. Distinct(Append(m.alternates[v], r))
      BY <1>2, <1>3, <1>4, <3>2, AppendIsDistinct DEF Alone
    <3>4. m.choices[v] # None /\ m.choices[v].tag # r.tag
      BY <1>2, <1>4, <1>7 DEF ReleasesOf
    <3>5. Alone(new, w)
      BY <1>2, <1>4, <2>1, <2>2, <2>3, <2>4, <3>3, <3>4 DEF Alone
    <3>6. ReleasesOf(new, w) = ReleasesOf(m, w) \cup {r}
      BY <2>1, <2>2, <2>3, <2>4 DEF ReleasesOf
    <3> QED BY <1>4, <1>10, <3>5, <3>6
  <2>5. CASE w # v
    <3>1. ReleasesOf(new, w) = ReleasesOf(m, w) /\ Alone(new, w)
      BY <1>4, <2>1, <2>2, <2>5 DEF ReleasesOf, Alone
    <3> QED BY <1>4, <3>1
  <2> QED BY <2>4, <2>5
<1>8. CASE ~(m.choices[v] = None \/ (m.choices[v].bundles = <<>> /\ r.bundles # <<>>))
           /\ r.bundles = <<>>
  <2>1. new = m
    BY <1>5, <1>8
  <2> QED BY <1>4, <2>1
<1> QED BY <1>6, <1>7, <1>8

LEMMA ForgeIsAlone ==
  ASSUME ListIsValid, site \in Sites
  PROVE  \A v \in Versions : Alone(MergeLive(Live(site), list), v)
<1> DEFINE live == Live(site)
           N == Len(live)
<1>1. N \in Nat /\ \A n \in 1..N : live[n] \in ToSet(live)
  <2>1. live \in Seq(ToSet(live))
    BY LiveIs
  <2> HIDE DEF live
  <2> QED BY <2>1, MembersAre, ElementOfSeq
<1>2. PICK f : /\ f[0] = NoChoices(VersionsOf(live, list))
               /\ \A n \in 1..N : f[n] = AddLive(f[n - 1], live[n])
               /\ MergeLive(live, list) = f[N]
  BY <1>1, MergeTurns
<1> DEFINE S == {n \in 0..N : Signed(f[n], 0) /\ Whole(f[n], n) /\ Early(f[n], n)}
<1>3. 0 \in S
  <2> DEFINE m == NoChoices(VersionsOf(live, list))
  <2>1. Shape(m) /\ \A v \in Versions : m.choices[v] = None /\ m.alternates[v] = <<>>
    BY DEF NoChoices, Shape, Versions
  <2> HIDE DEF m
  <2>2. Signed(m, 0)
    BY <2>1, EmptySeq DEF Signed
  <2>3. Whole(m, 0)
    BY <2>1 DEF Whole, Beside
  <2>4. Early(m, 0)
    <3>1. Distinct(<<>>) /\ ToSet(<<>>) = {}
      BY DEF Distinct, ToSet
    <3> QED BY <2>1, <3>1 DEF Early, Alone, ReleasesOf
  <2> HIDE DEF N
  <2> QED BY <1>1, <1>2, <2>2, <2>3, <2>4 DEF m
<1>4. ASSUME NEW n \in 0..(N - 1), n \in S PROVE n + 1 \in S
  <2>1. n \in Nat /\ n + 1 \in 1..N /\ (n + 1) - 1 = n /\ n + 1 \in 0..N
    BY <1>1
  <2>2. f[n + 1] = AddLive(f[n], live[n + 1])
    BY <1>2, <2>1
  <2>3. Signed(f[n + 1], 0)
    BY <1>1, <1>4, <2>1, <2>2, AddLiveKeeps
  <2>4. Whole(f[n + 1], n + 1)
    BY <1>4, <2>1, <2>2, AddLiveIsWhole
  <2>5. Early(f[n + 1], n + 1)
    BY <1>4, <2>1, <2>2, AddLiveIsEarly DEF Whole
  <2> QED BY <2>1, <2>3, <2>4, <2>5
<1>5. \A n \in 0..N : n \in S
  <2> HIDE DEF S, N
  <2> QED BY <1>1, <1>3, <1>4, EveryNaturalUpTo
<1> HIDE DEF N
<1> QED BY <1>1, <1>2, <1>5 DEF N, Early

-----------------------------------------------------------------------------
(* Where tags and recommendations are from, through the merge.             *)

Pinned == list # None /\ list.latest # None

\* Unless the list recommends a version, the forge's latest is recommended.
Marked(r) == Pinned \/ (r.recommended <=> r.tag = site.latest)

\* Before tags that entries give other versions are dropped.
Sourced(v, r) ==
    \/ ~Decided(v, Len(Entries(list))) /\ v # None /\ TagVersion(r.tag) = v
    \/ FromEntry(v, r)

LEMMA ForgeIsSourced ==
  ASSUME ListIsValid, site \in Sites, NEW v \in Versions, ~Decided(v, Len(Entries(list)))
  PROVE  LET forge == MergeLive(Live(site), list)
         IN  /\ Alone(forge, v)
             /\ \A r \in ReleasesOf(forge, v) \ {None} : Sourced(v, r) /\ Marked(r)
<1> DEFINE forge == MergeLive(Live(site), list)
<1>1. Alone(forge, v)
  BY ForgeIsAlone
<1>2. Signed(forge, 0) /\ Whole(forge, Len(Live(site)))
  BY MergedIs, ForgeIsWhole
<1>3. \A r \in ForgeOf(v) : Sourced(v, r) /\ Marked(r)
  BY LiveTags DEF ForgeOf, Sourced, Marked
<1> HIDE DEF forge
<1>4. ToSet(forge.alternates[v]) \subseteq ForgeOf(v)
  <2>1. forge.alternates[v] \in Seq(OthersOf(v))
    BY <1>2 DEF Signed
  <2> QED BY <2>1, MembersAre DEF OthersOf
<1>5. ReleasesOf(forge, v) \ {None} \subseteq ForgeOf(v)
  BY <1>2, <1>4 DEF ReleasesOf, Whole
<1> QED BY <1>1, <1>3, <1>5 DEF forge

LEMMA EntryIsSourced ==
  ASSUME ListIsValid, site \in Sites, NEW e \in ToSet(Entries(list)),
         NEW choice \in ForgeOf(e.version) \cup {None}
  PROVE  LET r == EntryRelease(Live(site), list, site.latest, choice, e)
         IN  Sourced(e.version, r) /\ Marked(r)
<1> DEFINE live == Live(site)
           tag == EntryTag(live, list, site.latest, choice, e)
           r == EntryRelease(live, list, site.latest, choice, e)
<1>1. tag \in TagsOf(e)
  BY EntryTagIs
<1>2. /\ r.tag = tag
      /\ list.latest = None =>
           (r.recommended <=> tag = site.latest \/ \E x \in ToSet(live) : x.tag = tag /\ x.recommended)
  BY DEF EntryRelease
<1>3. \A x \in ToSet(live) : x.recommended <=> x.tag = site.latest
  BY LiveTags
<1>4. list # None
  <2> SUFFICES ASSUME list = None PROVE FALSE
    OBVIOUS
  <2>1. ToSet(Entries(list)) = {}
    BY DEF Entries, ToSet
  <2> QED BY <2>1
<1> HIDE DEF tag, r, live
<1>5. Sourced(e.version, r)
  BY <1>1, <1>2 DEF Sourced, FromEntry
<1>6. Marked(r)
  BY <1>2, <1>3, <1>4 DEF Marked, Pinned
<1> QED BY <1>5, <1>6 DEF r, live

LEMMA SignedIsSourced ==
  ASSUME ListIsValid, site \in Sites, NEW v \in Versions
  PROVE  LET signed == AddEntries(Live(site), list, site.latest, MergeLive(Live(site), list))
         IN  /\ Alone(signed, v)
             /\ \A r \in ReleasesOf(signed, v) \ {None} : Sourced(v, r) /\ Marked(r)
<1> DEFINE forge == MergeLive(Live(site), list)
           signed == AddEntries(Live(site), list, site.latest, forge)
           K == Len(Entries(list))
<1>1. CASE ~Decided(v, K)
  <2>1. signed.choices[v] = forge.choices[v] /\ signed.alternates[v] = forge.alternates[v]
    BY <1>1, EntriesDecide
  <2>2. Alone(forge, v) /\ \A r \in ReleasesOf(forge, v) \ {None} : Sourced(v, r) /\ Marked(r)
    BY <1>1, ForgeIsSourced
  <2> HIDE DEF signed, forge
  <2>3. Alone(signed, v) /\ ReleasesOf(signed, v) = ReleasesOf(forge, v)
    BY <2>1, <2>2 DEF Alone, ReleasesOf
  <2> QED BY <2>2, <2>3 DEF signed, forge
<1>2. CASE Decided(v, K)
  <2>1. PICK e \in ToSet(Entries(list)) : e.version = v
    <3>1. \A i \in 1..K : Entries(list)[i] \in ToSet(Entries(list))
      BY EntriesAre, MembersAre DEF ToSet
    <3> QED BY <1>2, <3>1 DEF Decided
  <2>2. /\ signed.alternates[v] = <<>>
        /\ signed.choices[v] = IF e.yanked THEN None
                               ELSE EntryRelease(Live(site), list, site.latest, forge.choices[v], e)
    BY <2>1, EntriesDecide
  <2>3. forge.choices[v] \in ForgeOf(e.version) \cup {None}
    BY <2>1, ForgeIsWhole DEF Whole
  <2>4. LET r == EntryRelease(Live(site), list, site.latest, forge.choices[v], e)
        IN  Sourced(v, r) /\ Marked(r)
    BY <2>1, <2>3, EntryIsSourced
  <2>5. Distinct(<<>>) /\ ToSet(<<>>) = {}
    BY DEF Distinct, ToSet
  <2> HIDE DEF signed, forge
  <2>6. Alone(signed, v)
    BY <2>2, <2>5 DEF Alone
  <2>7. ReleasesOf(signed, v) = {signed.choices[v]}
    BY <2>2, <2>5 DEF ReleasesOf
  <2> QED BY <2>2, <2>4, <2>6, <2>7 DEF signed, forge
<1> QED BY <1>1, <1>2

\* What is told of a release when all entries had their say.
LEMMA UnmappedIsTraced ==
  ASSUME ListIsValid, NEW v, NEW r, Sourced(v, r), Unmapped(list, v, r)
  PROVE  Traced(v, r)
BY UnmappedIsFree DEF Sourced, Traced, FromForge

\* Dropping leaves fewer of a version's releases, and adds none.
LEMMA DroppedIsTraced ==
  ASSUME ListIsValid, site \in Sites, NEW m, Signed(m, Len(Entries(list))), Beside(m),
         NEW v \in Versions, Alone(m, v),
         \A r \in ReleasesOf(m, v) \ {None} : Sourced(v, r) /\ Marked(r)
  PROVE  LET new == DropMapped(list, m)
         IN  /\ Alone(new, v)
             /\ Decided(v, Len(Entries(list))) => new.alternates[v] = <<>>
             /\ \A r \in ReleasesOf(new, v) \ {None} : Traced(v, r) /\ Marked(r)
<1> DEFINE kept == m.choices[v] # None /\ Unmapped(list, v, m.choices[v])
           free == {r \in ToSet(m.alternates[v]) : Unmapped(list, v, r)}
           alt == m.alternates[v]
           o == Only(alt, free)
           new == DropMapped(list, m)
<1>1. Shape(m)
  BY DEF Signed
<1>2. /\ new.choices[v] = IF kept THEN m.choices[v] ELSE FirstOr(o, None)
      /\ new.alternates[v] = IF kept \/ o = <<>> THEN o ELSE Tail(o)
  BY <1>1 DEF DropMapped, Shape
<1> HIDE DEF new
<1>3. alt \in Seq(OthersOf(v))
  BY DEF Signed
<1>4. o \in Seq(ToSet(alt) \cap free) /\ ToSet(o) = ToSet(alt) \cap free /\ Distinct(o)
  <2>1. Distinct(alt)
    BY DEF Alone
  <2> HIDE DEF free, alt
  <2> QED BY <1>3, <2>1, OnlyIs, OnlyHasAll, OnlyIsDistinct
<1>5. /\ \A r \in ToSet(o) : Unmapped(list, v, r) /\ r \in ReleasesOf(m, v)
      /\ \A r \in ToSet(o) : m.choices[v] # None => r.tag # m.choices[v].tag
  <2> HIDE DEF o
  <2> QED BY <1>4 DEF ReleasesOf, Alone
<1>6. o # <<>> => /\ Head(o) \in ToSet(o) /\ ToSet(Tail(o)) \subseteq ToSet(o)
                  /\ Distinct(Tail(o)) /\ \A q \in ToSet(Tail(o)) : q.tag # Head(o).tag
  <2> HIDE DEF o, alt, free
  <2> QED BY <1>4, MembersOfTail, TailIsDistinct
<1>7. Decided(v, Len(Entries(list))) => o = <<>>
  <2> SUFFICES ASSUME Decided(v, Len(Entries(list))), o # <<>> PROVE FALSE
    OBVIOUS
  <2>1. alt = <<>>
    BY DEF Signed
  <2>2. ToSet(alt) = {}
    BY <2>1 DEF ToSet
  <2> HIDE DEF o, alt, free
  <2> QED BY <1>4, <1>6, <2>2
<1>8. kept => Unmapped(list, v, m.choices[v]) /\ m.choices[v] # None
  OBVIOUS
<1> HIDE DEF kept, o, alt, free
<1>9. Alone(new, v)
  <2>1. CASE kept
    BY <1>2, <1>4, <1>5, <1>8, <2>1 DEF Alone
  <2>2. CASE ~kept /\ o = <<>>
    BY <1>2, <1>4, <2>2 DEF Alone, FirstOr
  <2>3. CASE ~kept /\ o # <<>>
    BY <1>2, <1>6, <2>3 DEF Alone, FirstOr
  <2> QED BY <2>1, <2>2, <2>3
<1>10. Decided(v, Len(Entries(list))) => new.alternates[v] = <<>>
  BY <1>2, <1>7
<1>11. \A r \in ReleasesOf(new, v) \ {None} : Unmapped(list, v, r) /\ r \in ReleasesOf(m, v)
  <2>1. CASE kept
    BY <1>2, <1>5, <1>8, <2>1 DEF ReleasesOf
  <2>2. CASE ~kept /\ o = <<>>
    BY <1>2, <1>5, <2>2 DEF ReleasesOf, FirstOr
  <2>3. CASE ~kept /\ o # <<>>
    BY <1>2, <1>5, <1>6, <2>3 DEF ReleasesOf, FirstOr
  <2> QED BY <2>1, <2>2, <2>3
<1>12. \A r \in ReleasesOf(new, v) \ {None} : Traced(v, r) /\ Marked(r)
  BY <1>11, UnmappedIsTraced
<1> QED BY <1>9, <1>10, <1>12 DEF new

\* What is told of the releases of a version.
Told(m, v) ==
    /\ Alone(m, v) /\ None \notin ToSet(m.alternates[v])
    /\ Decided(v, Len(Entries(list))) => m.alternates[v] = <<>>
    /\ \A r \in ReleasesOf(m, v) \ {None} : Traced(v, r) /\ (r.recommended <=> Recommended(r))

LEMMA KeptAreReleases ==
  ASSUME NEW m, Kept(m), NEW v \in Versions
  PROVE  None \notin ToSet(m.alternates[v])
BY NoneAssumption DEF Kept, AreOthers, Fit

LEMMA MarkingIs ==
  ASSUME NEW r \in Releases, NEW x \in BOOLEAN
  PROVE  LET q == [r EXCEPT !.recommended = x]
         IN  q.tag = r.tag /\ q.version = r.version /\ (q.recommended <=> x)
BY DEF Releases

LEMMA PinnedIsDecided ==
  ASSUME ListIsValid, Pinned
  PROVE  Decided(list.latest, Len(Entries(list)))
<1>1. PICK e \in ToSet(Entries(list)) : e.version = list.latest
  BY DEF ListIsValid, Validate, Pinned, Entries
<1>2. DOMAIN Entries(list) = 1..Len(Entries(list))
  BY EntriesAre, MembersAre
<1> QED BY <1>1, <1>2 DEF Decided, ToSet

LEMMA RecommendIsTold ==
  ASSUME ListIsValid, NEW m, Kept(m), NEW v \in Versions, Alone(m, v),
         Decided(v, Len(Entries(list))) => m.alternates[v] = <<>>,
         \A r \in ReleasesOf(m, v) \ {None} : Traced(v, r) /\ Marked(r)
  PROVE  Told(Recommend(list, m), v)
<1> DEFINE new == Recommend(list, m)
           c == m.choices[v]
           rs == m.alternates[v]
           C == [c EXCEPT !.recommended = (v = list.latest)]
           qs == [i \in DOMAIN rs |-> [rs[i] EXCEPT !.recommended = FALSE]]
<1>1. CASE ~Pinned
  <2>1. new = m
    BY <1>1 DEF Recommend, Pinned
  <2>2. \A r : Marked(r) => (r.recommended <=> Recommended(r))
    BY <1>1 DEF Marked, Recommended, Pinned
  <2> QED BY <2>1, <2>2, KeptAreReleases DEF Told
<1>2. CASE Pinned
  <2>1. Shape(m)
    BY DEF Kept
  <2>2. new.choices[v] = (IF c = None THEN None ELSE C) /\ new.alternates[v] = qs
    BY <1>2, <2>1 DEF Recommend, Pinned, Shape
  <2> HIDE DEF new
  <2>3. /\ c # None => c \in Releases /\ c.version = v
        /\ rs \in Seq(ToSet(rs)) /\ \A r \in ToSet(rs) : r \in Releases /\ r.version = v /\ r # None
    BY NoneAssumption DEF Kept, Fit, AreOthers
  <2>4. c # None => C.tag = c.tag /\ C.version = v /\ (C.recommended <=> v = list.latest)
    <3> HIDE DEF c
    <3> QED BY <2>3, MarkingIs
  <2>5. Len(rs) \in Nat /\ DOMAIN rs = 1..Len(rs) /\ \A i \in DOMAIN rs : rs[i] \in ToSet(rs)
    <3> HIDE DEF rs
    <3> QED BY <2>3, MembersAre DEF ToSet
  <2>6. ASSUME NEW i \in DOMAIN rs
        PROVE  qs[i].tag = rs[i].tag /\ qs[i].version = v /\ qs[i].recommended = FALSE
    <3> DEFINE r == rs[i]
    <3>1. qs[i] = [r EXCEPT !.recommended = FALSE]
      OBVIOUS
    <3>2. r \in Releases /\ r.version = v
      BY <2>3, <2>5
    <3> HIDE DEF r, qs, rs
    <3>3. /\ [r EXCEPT !.recommended = FALSE].tag = r.tag
          /\ [r EXCEPT !.recommended = FALSE].version = r.version
          /\ [r EXCEPT !.recommended = FALSE].recommended <=> FALSE
      BY <3>2, MarkingIs
    <3>4. [r EXCEPT !.recommended = FALSE].recommended = FALSE
      BY <3>2 DEF Releases
    <3> QED BY <3>1, <3>2, <3>3, <3>4 DEF r
  <2>7. DOMAIN qs = DOMAIN rs
    OBVIOUS
  <2>8. \A q \in ToSet(qs) : \E i \in DOMAIN rs : q = qs[i]
    BY DEF ToSet
  <2>9. rs = <<>> => qs = <<>>
    <3> SUFFICES ASSUME rs = <<>> PROVE qs = <<>>
      OBVIOUS
    <3>1. DOMAIN rs = {}
      OBVIOUS
    <3>2. qs = [i \in {} |-> [rs[i] EXCEPT !.recommended = FALSE]]
      BY <3>1
    <3> HIDE DEF rs
    <3> QED BY <3>2
  <2>10. rs # <<>> => v # list.latest
    BY <1>2, PinnedIsDecided
  <2>11. \A r : Traced(v, r) => \A q : q.tag = r.tag => Traced(v, q)
    BY DEF Traced, FromForge, FromEntry
  <2>12. \A r : r.version = v => (Recommended(r) <=> v = list.latest)
    BY <1>2 DEF Recommended, Pinned
  <2> HIDE DEF qs, C, rs, c
  <2>13. \A q \in ToSet(qs) : \E r \in ToSet(rs) :
           q.tag = r.tag /\ q.version = v /\ q.recommended = FALSE
    <3> SUFFICES ASSUME NEW q \in ToSet(qs)
                 PROVE  \E r \in ToSet(rs) :
                          q.tag = r.tag /\ q.version = v /\ q.recommended = FALSE
      OBVIOUS
    <3>1. PICK i \in DOMAIN rs : q = qs[i]
      BY <2>8
    <3>2. q.tag = rs[i].tag /\ q.version = v /\ q.recommended = FALSE
      BY <2>6, <3>1, Zenon
    <3>3. rs[i] \in ToSet(rs)
      BY <2>5
    <3> QED BY <3>2, <3>3, Zenon
  <2>14. ToSet(rs) # {} => rs # <<>>
    BY DEF ToSet
  <2>15. Alone(new, v)
    <3>1. Distinct(qs)
      BY <2>6, <2>7 DEF Alone, Distinct, rs
    <3>2. new.choices[v] # None => c # None /\ new.choices[v].tag = c.tag
      BY <2>2, <2>4
    <3>3. c # None => \A r \in ToSet(rs) : r.tag # c.tag
      BY DEF Alone, c, rs
    <3> QED BY <2>2, <2>13, <3>1, <3>2, <3>3 DEF Alone
  <2>16. Decided(v, Len(Entries(list))) => new.alternates[v] = <<>>
    BY <2>2, <2>9 DEF rs
  <2>17. c # None => Traced(v, c)
    BY DEF ReleasesOf, c
  <2>18. \A r \in ToSet(rs) : Traced(v, r)
    BY <2>3 DEF ReleasesOf, rs
  <2>19. c # None => Traced(v, C) /\ (C.recommended <=> Recommended(C))
    BY <2>4, <2>11, <2>12, <2>17
  <2>20. \A q \in ToSet(qs) : Traced(v, q) /\ (q.recommended <=> Recommended(q))
    BY <2>10, <2>11, <2>12, <2>13, <2>14, <2>18
  <2>21. None \notin ToSet(new.alternates[v])
    <3>1. Kept(new)
      BY RecommendKeeps DEF new
    <3> QED BY <3>1, KeptAreReleases
  <2> QED BY <2>2, <2>15, <2>16, <2>19, <2>20, <2>21 DEF Told, ReleasesOf, new
<1> QED BY <1>1, <1>2

\* The merge: of a version, different tags; each from where it should be; and
\* the recommendation of the list, or else of the forge.
LEMMA MergeIsTold ==
  ASSUME ListIsValid, site \in Sites, NEW v \in Versions
  PROVE  Told(Merge(Live(site), list, site.latest), v)
<1> DEFINE live == Live(site)
           forge == MergeLive(live, list)
           signed == AddEntries(live, list, site.latest, forge)
           dropped == DropMapped(list, signed)
           kept == IF list = None THEN forge ELSE Recommend(list, dropped)
           new == WithBundles(kept)
<1>1. Merge(live, list, site.latest) = new
  BY Zenon DEF Merge
<1>2. Signed(forge, 0) /\ Signed(signed, Len(Entries(list))) /\ Whole(forge, Len(live))
  BY MergedIs, ForgeIsWhole
<1>3. Kept(kept) /\ Told(kept, v)
  <2>1. CASE list = None
    <3>1. Entries(list) = <<>> /\ ToSet(Entries(list)) = {} /\ Len(Entries(list)) = 0
      BY <2>1 DEF Entries, ToSet
    <3>2. ~Decided(v, Len(Entries(list)))
      BY <3>1 DEF Decided
    <3>3. Alone(forge, v) /\ \A r \in ReleasesOf(forge, v) \ {None} : Sourced(v, r) /\ Marked(r)
      BY <3>2, ForgeIsSourced
    <3> HIDE DEF forge
    <3>4. \A r : Sourced(v, r) /\ Marked(r) => Traced(v, r) /\ (r.recommended <=> Recommended(r))
      BY <2>1, <3>1 DEF Sourced, Traced, FromForge, FromEntry, Marked, Recommended, Pinned
    <3>5. Kept(forge)
      BY <1>2, <2>1, ForgeIsKept
    <3> QED BY <2>1, <3>2, <3>3, <3>4, <3>5, KeptAreReleases DEF Told
  <2>2. CASE list # None
    <3>1. Alone(signed, v) /\ \A r \in ReleasesOf(signed, v) \ {None} : Sourced(v, r) /\ Marked(r)
      BY SignedIsSourced
    <3>2. Beside(signed)
      <4>1. /\ \A w \in Versions :
                 ~Decided(w, Len(Entries(list))) =>
                   signed.choices[w] = forge.choices[w] /\ signed.alternates[w] = forge.alternates[w]
        BY EntriesDecide
      <4>2. \A w \in Versions : Decided(w, Len(Entries(list))) => signed.alternates[w] = <<>>
        <5> HIDE DEF signed
        <5> QED BY <1>2 DEF Signed
      <4> HIDE DEF signed, forge
      <4> QED BY <1>2, <4>1, <4>2 DEF Beside, Whole
    <3> HIDE DEF signed, forge
    <3>3. Kept(dropped)
      BY <1>2, DropMappedKeeps
    <3>4. /\ Alone(dropped, v)
          /\ Decided(v, Len(Entries(list))) => dropped.alternates[v] = <<>>
          /\ \A r \in ReleasesOf(dropped, v) \ {None} : Traced(v, r) /\ Marked(r)
      BY <1>2, <3>1, <3>2, DroppedIsTraced
    <3> HIDE DEF dropped
    <3> QED BY <2>2, <3>3, <3>4, RecommendKeeps, RecommendIsTold
  <2> QED BY <2>1, <2>2
<1> HIDE DEF kept
<1>4. /\ new.alternates = kept.alternates
      /\ new.choices[v] = IF kept.choices[v] # None /\ kept.choices[v].bundles = <<>> THEN None
                          ELSE kept.choices[v]
  BY <1>3 DEF WithBundles, Kept, Shape
<1> HIDE DEF new
<1>5. new.choices[v] \in {None, kept.choices[v]}
  BY <1>4
<1> QED BY <1>1, <1>3, <1>4, <1>5 DEF Told, Alone, ReleasesOf

-----------------------------------------------------------------------------
(* Of all that is eligible at most one release is recommended.             *)

Once(s) == \A i, j \in DOMAIN s : Recommended(s[i]) /\ Recommended(s[j]) => i = j

LEMMA ConcatIsOnce ==
  ASSUME NEW T, NEW s \in Seq(T), NEW t \in Seq(T), Once(s), Once(t),
         \A i \in 1..Len(s), j \in 1..Len(t) : ~(Recommended(s[i]) /\ Recommended(t[j]))
  PROVE  Once(s \o t)
<1> DEFINE both == s \o t
<1>1. /\ Len(s) \in Nat /\ DOMAIN s = 1..Len(s)
      /\ Len(t) \in Nat /\ DOMAIN t = 1..Len(t)
  BY LenProperties
<1>2. /\ both \in Seq(T) /\ Len(both) = Len(s) + Len(t)
      /\ \A i \in 1..(Len(s) + Len(t)) :
           both[i] = IF i <= Len(s) THEN s[i] ELSE t[i - Len(s)]
  BY ConcatProperties
<1> HIDE DEF both
<1>3. DOMAIN both = 1..Len(both)
  BY <1>2, LenProperties
<1> SUFFICES ASSUME NEW i \in 1..(Len(s) + Len(t)), NEW j \in 1..(Len(s) + Len(t)),
                    Recommended(both[i]), Recommended(both[j])
             PROVE  i = j
  BY <1>2, <1>3 DEF Once, both
<1>4. \A k \in 1..(Len(s) + Len(t)) :
         \/ k <= Len(s) /\ k \in 1..Len(s) /\ both[k] = s[k]
         \/ ~(k <= Len(s)) /\ k - Len(s) \in 1..Len(t) /\ both[k] = t[k - Len(s)]
  BY <1>1, <1>2
<1>5. CASE i <= Len(s) /\ j <= Len(s)
  BY <1>1, <1>4, <1>5 DEF Once
<1>6. CASE ~(i <= Len(s)) /\ ~(j <= Len(s))
  <2>1. i - Len(s) = j - Len(s)
    BY <1>1, <1>4, <1>6 DEF Once
  <2> QED BY <1>1, <2>1
<1>7. CASE i <= Len(s) /\ ~(j <= Len(s))
  BY <1>4, <1>7
<1>8. CASE ~(i <= Len(s)) /\ j <= Len(s)
  BY <1>4, <1>8
<1> QED BY <1>5, <1>6, <1>7, <1>8

\* A release of the merge.
Merged(m, v, r) == r \in ReleasesOf(m, v) \ {None} /\ r.version = v

LEMMA RecommendedApart ==
  ASSUME ListIsValid, site \in Sites, OwnTags, NEW m, NEW v, NEW w, v # w,
         Told(m, v), Told(m, w), NEW r, NEW q, Merged(m, v, r), Merged(m, w, q)
  PROVE  ~(Recommended(r) /\ Recommended(q))
<1>1. r.tag # q.tag
  BY TracedApart DEF Told, Merged
<1>2. r.version # q.version
  BY DEF Merged
<1> QED BY <1>1, <1>2 DEF Recommended

LEMMA BlockIsOnce ==
  ASSUME ListIsValid, NEW m, NEW v, Told(m, v), m.choices[v] # None,
         m.alternates[v] \in Seq(ToSet(m.alternates[v])),
         \A r \in ReleasesOf(m, v) : Merged(m, v, r)
  PROVE  Once(Block(m, v))
<1> DEFINE c == m.choices[v]
           rs == m.alternates[v]
           T == ReleasesOf(m, v)
<1>1. Block(m, v) = <<c>> \o rs
  BY DEF Block
<1>2. /\ c \in T /\ <<c>> \in Seq(T) /\ rs \in Seq(T)
      /\ Len(rs) \in Nat /\ DOMAIN rs = 1..Len(rs) /\ \A i \in 1..Len(rs) : rs[i] \in ToSet(rs)
  <2>1. c \in T /\ ToSet(rs) \subseteq T
    BY DEF ReleasesOf
  <2>2. rs \in Seq(ToSet(rs))
    OBVIOUS
  <2> HIDE DEF rs, c, T
  <2>3. <<c>> \in Seq(T)
    BY <2>1
  <2>4. Len(rs) \in Nat /\ DOMAIN rs = 1..Len(rs)
    BY <2>2, MembersAre
  <2>5. rs \in Seq(T)
    BY <2>1, <2>2, SeqMonotonic
  <2> QED BY <2>1, <2>3, <2>4, <2>5 DEF ToSet
<1>3. /\ Distinct(rs) /\ \A r \in ToSet(rs) : r.tag # c.tag
      /\ Decided(v, Len(Entries(list))) => rs = <<>>
  BY DEF Told, Alone
<1>4. \A r \in T : r.version = v
  BY DEF Merged
<1>5. Pinned /\ rs # <<>> => \A r \in T : ~Recommended(r)
  BY <1>3, <1>4, PinnedIsDecided DEF Recommended, Pinned
<1>6. ~Pinned => \A r, q : Recommended(r) /\ Recommended(q) => r.tag = q.tag
  BY DEF Recommended, Pinned
<1> HIDE DEF c, rs, T
<1>7. Once(<<c>>)
  BY DEF Once
<1>8. Once(rs)
  <2> SUFFICES ASSUME NEW i \in 1..Len(rs), NEW j \in 1..Len(rs), Recommended(rs[i]), Recommended(rs[j])
               PROVE  i = j
    BY <1>2 DEF Once
  <2>1. rs # <<>> /\ rs[i] \in T
    BY <1>2, ElementOfSeq
  <2>2. rs[i].tag = rs[j].tag
    BY <1>5, <1>6, <2>1
  <2> QED BY <1>2, <1>3, <2>2 DEF Distinct
<1>9. \A j \in 1..Len(rs) : ~(Recommended(c) /\ Recommended(rs[j]))
  <2> SUFFICES ASSUME NEW j \in 1..Len(rs), Recommended(c), Recommended(rs[j]) PROVE FALSE
    OBVIOUS
  <2>1. rs # <<>> /\ rs[j] \in ToSet(rs)
    BY <1>2
  <2>2. rs[j].tag = c.tag
    BY <1>2, <1>5, <1>6, <2>1
  <2> QED BY <1>3, <2>1, <2>2
<1>10. \A i \in 1..Len(<<c>>), j \in 1..Len(rs) : ~(Recommended(<<c>>[i]) /\ Recommended(rs[j]))
  <2>1. \A i \in 1..Len(<<c>>) : <<c>>[i] = c
    OBVIOUS
  <2> QED BY <1>9, <2>1
<1> QED BY <1>1, <1>2, <1>7, <1>8, <1>10, ConcatIsOnce

LEMMA OrderedIsOnce ==
  ASSUME ListIsValid, site \in Sites, OwnTags, NEW m, Offering(m), NEW versions \in SUBSET Chosen(m),
         \A v \in Versions : Told(m, v)
  PROVE  /\ Once(Ordered(m, versions))
         /\ \A r \in ToSet(Ordered(m, versions)) : r.recommended <=> Recommended(r)
<1> DEFINE Of(v) == ReleasesOf(m, v)
           R == UNION {Of(v) : v \in versions}
           order == Descending(versions)
           N == Len(order)
<1>1. versions \subseteq Versions /\ \A v \in versions : m.choices[v] # None /\ IsFull(v)
  BY VersionsAre DEF Chosen, Offering, Shape
<1>2. /\ order \in Seq(versions) /\ N \in Nat
      /\ \A i, j \in 1..N : i < j => order[j] # order[i]
  <2>1. IsFiniteSet(versions)
    BY <1>1, VersionsAre, FS_Subset
  <2>2. /\ order \in Seq(versions)
        /\ \A i, j \in 1..N : i < j => order[j] # order[i]
    BY <1>1, <2>1, DescendingIs
  <2> HIDE DEF order
  <2> QED BY <2>2, MembersAre
<1>3. \A v \in versions : \A r \in Of(v) : r # None /\ Merged(m, v, r)
  <2> SUFFICES ASSUME NEW v \in versions, NEW r \in Of(v) PROVE r # None /\ r.version = v
    BY DEF Merged
  <2>1. v \in Versions /\ m.choices[v] # None
    BY <1>1
  <2>2. Offer(v, r)
    BY <2>1 DEF Offering, ReleasesOf
  <2>3. r # None
    BY <2>1 DEF Told, ReleasesOf
  <2> QED BY <2>2, <2>3 DEF Offer
<1>4. ASSUME NEW v \in versions
      PROVE  Block(m, v) \in Seq(Of(v)) /\ Of(v) \subseteq R /\ Once(Block(m, v))
  <2>1. /\ m.choices[v] \in Of(v) /\ ToSet(m.alternates[v]) \subseteq Of(v)
        /\ Of(v) \subseteq R
    BY DEF ReleasesOf
  <2>2. m.alternates[v] \in Seq(ToSet(m.alternates[v]))
    BY <1>1 DEF Offering
  <2>3. Once(Block(m, v))
    BY <1>1, <1>3, <2>2, BlockIsOnce
  <2> HIDE DEF R, Of
  <2>4. m.alternates[v] \in Seq(Of(v))
    BY <2>1, <2>2, SeqMonotonic
  <2>5. <<m.choices[v]>> \in Seq(Of(v))
    BY <2>1
  <2> QED BY <2>1, <2>3, <2>4, <2>5, ConcatProperties DEF Block
<1>5. PICK f : /\ f[0] = <<>>
               /\ \A n \in 1..N : f[n] = f[n - 1] \o Block(m, order[n])
               /\ Ordered(m, versions) = f[N]
  BY <1>2, OrderTurns
<1> DEFINE Right(n) ==
             /\ f[n] \in Seq(R) /\ Once(f[n])
             /\ \A r \in ToSet(f[n]) : \E k \in 1..n : r \in Of(order[k])
           S == {n \in 0..N : Right(n)}
<1>12. \A v \in versions, w \in versions : v # w =>
         \A r \in Of(v), q \in Of(w) : ~(Recommended(r) /\ Recommended(q))
  BY <1>1, <1>3, RecommendedApart
<1>13. \A r \in R : r.recommended <=> Recommended(r)
  <2> SUFFICES ASSUME NEW v \in versions, NEW r \in Of(v) PROVE r.recommended <=> Recommended(r)
    OBVIOUS
  <2> QED BY <1>1, <1>3 DEF Told
<1> HIDE DEF R, Of, order
<1>6. 0 \in S
  <2>1. f[0] = <<>> /\ f[0] \in Seq(R) /\ Len(f[0]) = 0
    BY <1>5, EmptySeq
  <2>2. Once(f[0]) /\ ToSet(f[0]) = {}
    BY <2>1 DEF Once, ToSet
  <2>3. 0 \in 0..N
    BY <1>2
  <2> QED BY <2>1, <2>2, <2>3
<1>7. ASSUME NEW n \in 0..(N - 1), n \in S PROVE n + 1 \in S
  <2> DEFINE v == order[n + 1]
             b == Block(m, v)
             both == f[n] \o b
  <2>1. n + 1 \in 1..N /\ (n + 1) - 1 = n /\ n + 1 \in 0..N
    BY <1>2
  <2>2. f[n + 1] = both
    BY <1>5, <2>1
  <2>3. v \in versions
    BY <1>2, <2>1, ElementOfSeq
  <2>4. /\ f[n] \in Seq(R) /\ Once(f[n])
        /\ \A r \in ToSet(f[n]) : \E k \in 1..n : r \in Of(order[k])
    BY <1>7
  <2>5. \A k \in 1..n : v # order[k] /\ order[k] \in versions /\ k \in 1..(n + 1)
    <3>1. \A k \in 1..n : k \in 1..N /\ k < n + 1 /\ k \in 1..(n + 1)
      BY <1>2, <2>1
    <3> QED BY <1>2, <2>1, <3>1, ElementOfSeq
  <2>6. b \in Seq(Of(v)) /\ b \in Seq(R) /\ Once(b)
    BY <1>4, <2>3, SeqMonotonic
  <2>13. v = order[n + 1] /\ n + 1 \in 1..(n + 1)
    BY <2>1
  <2> HIDE DEF b, v
  <2>7. Len(b) \in Nat /\ DOMAIN b = 1..Len(b) /\ Len(f[n]) \in Nat /\ DOMAIN f[n] = 1..Len(f[n])
        /\ ToSet(b) \subseteq Of(v)
    BY <2>4, <2>6, MembersAre
  <2>8. \A i \in 1..Len(f[n]), j \in 1..Len(b) : ~(Recommended(f[n][i]) /\ Recommended(b[j]))
    <3> SUFFICES ASSUME NEW i \in 1..Len(f[n]), NEW j \in 1..Len(b)
                 PROVE  ~(Recommended(f[n][i]) /\ Recommended(b[j]))
      OBVIOUS
    <3>1. f[n][i] \in ToSet(f[n]) /\ b[j] \in Of(v)
      BY <2>7 DEF ToSet
    <3>2. PICK k \in 1..n : f[n][i] \in Of(order[k])
      BY <2>4, <3>1
    <3> QED BY <1>12, <2>3, <2>5, <3>1, <3>2
  <2>9. both \in Seq(R) /\ Once(both)
    BY <2>4, <2>6, <2>8, ConcatProperties, ConcatIsOnce
  <2>10. ToSet(both) = ToSet(f[n]) \cup ToSet(b)
    BY <2>4, <2>6, MembersOfConcat
  <2> HIDE DEF both
  <2>11. \A r \in ToSet(both) : \E k \in 1..(n + 1) : r \in Of(order[k])
    BY <2>4, <2>5, <2>7, <2>10, <2>13
  <2> QED BY <2>1, <2>2, <2>9, <2>11
<1>8. Right(N)
  <2>1. \A n \in 0..N : n \in S
    <3> HIDE DEF S, N
    <3> QED BY <1>2, <1>6, <1>7, EveryNaturalUpTo
  <2>2. N \in S
    <3> HIDE DEF S, N
    <3> QED BY <1>2, <2>1
  <2> HIDE DEF Right, N
  <2> QED BY <2>2
<1>9. Ordered(m, versions) \in Seq(R) /\ Once(Ordered(m, versions))
  BY <1>5, <1>8
<1>10. ToSet(Ordered(m, versions)) \subseteq R
  BY <1>9, MembersAre
<1> QED BY <1>9, <1>10, <1>13

LEMMA RemovedAre ==
  ASSUME NEW T, NEW s \in Seq(T), NEW i \in 1..Len(s)
  PROVE  \A r \in ToSet(RemoveAt(s, i)) : \E k \in 1..Len(s) : k # i /\ r = s[k]
<1> DEFINE N == Len(s)
           a == SubSeq(s, 1, i - 1)
           b == SubSeq(s, i + 1, N)
<1>1. N \in Nat
  BY LenProperties
<1>2. /\ DOMAIN a = 1..(i - 1) /\ a \in Seq(T)
      /\ \A k \in 1..(i - 1) : a[k] = s[k]
  BY SubSeqIs
<1>3. /\ DOMAIN b = 1..(N - i) /\ b \in Seq(T)
      /\ \A k \in 1..(N - i) : b[k] = s[i + k]
  BY SubSeqIs
<1>4. RemoveAt(s, i) = a \o b
  BY DEF RemoveAt
<1>5. i \in 1..N
  OBVIOUS
<1> HIDE DEF N, a, b
<1>6. /\ \A k \in 1..(i - 1) : k \in 1..N /\ k # i
      /\ \A k \in 1..(N - i) : i + k \in 1..N /\ i + k # i
  BY <1>1, <1>5
<1>7. ToSet(a \o b) = ToSet(a) \cup ToSet(b)
  BY <1>2, <1>3, MembersOfConcat
<1>8. \A r \in ToSet(a) : \E k \in 1..N : k # i /\ r = s[k]
  BY <1>2, <1>6 DEF ToSet
<1>9. \A r \in ToSet(b) : \E k \in 1..N : k # i /\ r = s[k]
  <2> SUFFICES ASSUME NEW k \in 1..(N - i) PROVE \E l \in 1..N : l # i /\ b[k] = s[l]
    BY <1>3 DEF ToSet
  <2> QED BY <1>3, <1>6
<1> QED BY <1>4, <1>7, <1>8, <1>9 DEF N

\* One is moved to the front.
LEMMA MovedIs ==
  ASSUME NEW T, NEW s \in Seq(T), NEW i \in 1..Len(s), InOrder(s)
  PROVE  LET moved == <<s[i]>> \o RemoveAt(s, i)
         IN  /\ moved \in Seq(T) /\ 1 \in DOMAIN moved /\ moved[1] = s[i]
             /\ \A j \in DOMAIN moved : j # 1 => \E k \in 1..Len(s) : k # i /\ moved[j] = s[k]
<1> DEFINE x == s[i]
           rest == RemoveAt(s, i)
           moved == <<x>> \o rest
<1>1. x \in T
  BY ElementOfSeq
<1>2. rest \in Seq(T)
  BY RemoveKeepsOrder
<1>3. \A r \in ToSet(rest) : \E k \in 1..Len(s) : k # i /\ r = s[k]
  BY RemovedAre
<1> HIDE DEF x, rest
<1>4. <<x>> \in Seq(T) /\ Len(<<x>>) = 1 /\ <<x>>[1] = x
  BY <1>1
<1>5. Len(rest) \in Nat /\ DOMAIN rest = 1..Len(rest)
  BY <1>2, MembersAre
<1> DEFINE one == <<x>>
<1> HIDE DEF one
<1>6. /\ moved \in Seq(T) /\ Len(moved) = 1 + Len(rest)
      /\ \A j \in 1..(1 + Len(rest)) : moved[j] = IF j <= 1 THEN one[j] ELSE rest[j - 1]
  BY <1>2, <1>4, ConcatProperties DEF one
<1> HIDE DEF moved
<1>7. DOMAIN moved = 1..(1 + Len(rest))
  BY <1>6, MembersAre
<1>8. 1 \in DOMAIN moved /\ moved[1] = x
  BY <1>4, <1>5, <1>6, <1>7 DEF one
<1>9. ASSUME NEW j \in DOMAIN moved, j # 1 PROVE moved[j] \in ToSet(rest)
  <2>1. j - 1 \in 1..Len(rest) /\ moved[j] = rest[j - 1]
    BY <1>5, <1>6, <1>7, <1>9
  <2> QED BY <1>5, <2>1 DEF ToSet
<1> QED BY <1>3, <1>6, <1>8, <1>9 DEF moved, rest, x

\* A recommendation that names anything names something that is not None.
LEMMA TargetIs ==
  ASSUME ListIsValid, site \in Sites, Named
  PROVE  Target(Live(site), list, site.latest) # None
<1> DEFINE live == Live(site)
           entries == Entries(list)
           isPinned == {e \in ToSet(entries) : e.version = list.latest}
           isTagged == {e \in ToSet(entries) : site.latest # None /\ e.tag = site.latest}
           isShown == {r \in ToSet(live) : r.tag = site.latest}
           pinned == Only(entries, isPinned)
           tagged == Only(entries, isTagged)
           shown == Only(live, isShown)
<1>1. \A e \in ToSet(entries) : e # None
  <2>1. CASE list = None
    <3>1. ToSet(entries) = {}
      BY <2>1 DEF Entries, ToSet
    <3> QED BY <3>1
  <2>2. CASE list # None
    BY <2>2, NoneAssumption DEF ListIsValid, Entries
  <2> QED BY <2>1, <2>2
<1>2. \A r \in ToSet(live) : r # None
  BY LiveIsPublic
<1>3. Target(live, list, site.latest) =
        IF list # None /\ list.latest # None THEN FirstOr(pinned, None)
        ELSE FirstOr(tagged, FirstOr(shown, None))
  BY DEF Target
<1>4. /\ pinned \in Seq(ToSet(entries)) /\ tagged \in Seq(ToSet(entries)) /\ shown \in Seq(ToSet(live))
      /\ pinned = <<>> => ToSet(entries) \cap isPinned = {}
      /\ tagged = <<>> => ToSet(entries) \cap isTagged = {}
      /\ shown = <<>> => ToSet(live) \cap isShown = {}
  <2> HIDE DEF isPinned, isTagged, isShown, live, entries
  <2>1. live \in Seq(ToSet(live)) /\ entries \in Seq(ToSet(entries))
    BY LiveIs, EntriesAre DEF live, entries
  <2>2. /\ pinned \in Seq(ToSet(entries) \cap isPinned) /\ tagged \in Seq(ToSet(entries) \cap isTagged)
        /\ shown \in Seq(ToSet(live) \cap isShown)
    BY <2>1, OnlyIs
  <2>3. /\ pinned \in Seq(ToSet(entries)) /\ tagged \in Seq(ToSet(entries)) /\ shown \in Seq(ToSet(live))
    <3> HIDE DEF pinned, tagged, shown
    <3> QED BY <2>2, SeqMonotonic
  <2> QED BY <2>1, <2>3, OnlyIs
<1>5. Pinned => ToSet(entries) \cap isPinned # {}
  BY DEF Pinned, ListIsValid, Validate, Entries
<1>6. ~Pinned => ToSet(entries) \cap isTagged # {} \/ ToSet(live) \cap isShown # {}
  BY DEF Pinned, Named
<1> HIDE DEF pinned, tagged, shown, isPinned, isTagged, isShown
<1>7. /\ pinned # <<>> => Head(pinned) \in ToSet(entries)
      /\ tagged # <<>> => Head(tagged) \in ToSet(entries)
      /\ shown # <<>> => Head(shown) \in ToSet(live)
  <2> HIDE DEF entries, live
  <2> QED BY <1>4, HeadTailProperties
<1> HIDE DEF entries, live
<1> QED BY <1>1, <1>2, <1>3, <1>4, <1>5, <1>6, <1>7 DEF FirstOr, Pinned, live

\* What a latest request is answered: the recommended release first, or else all
\* in order; and if it is not among them, it is said to be passed over.
LEMMA LatestIsFirst ==
  ASSUME ListIsValid, site \in Sites, OwnTags
  PROVE  LET answer == CandidatesFor(Live(site), list, None, site.latest)
             rs == answer.releases
             first == {i \in DOMAIN rs : Recommended(rs[i])}
         IN  /\ first \subseteq {1}
             /\ InOrder(IF first = {1} THEN Tail(rs) ELSE rs)
             /\ first = {} /\ answer.error = None /\ Named => answer.skipped # <<>>
<1> DEFINE m == Merge(Live(site), list, site.latest)
           versions == {w \in Chosen(m) : m.choices[w].version.rc = 0}
           eligible == Ordered(m, versions)
           marked == {i \in DOMAIN eligible : eligible[i].recommended}
           i == CHOOSE i \in marked : \A j \in marked : i <= j
           moved == <<eligible[i]>> \o RemoveAt(eligible, i)
           target == Target(Live(site), list, site.latest)
           T == ToSet(eligible)
           new == ForLatest(Live(site), list, site.latest, m)
           first(rs) == {j \in DOMAIN rs : Recommended(rs[j])}
           Goal(answer) == /\ first(answer.releases) \subseteq {1}
                           /\ InOrder(IF first(answer.releases) = {1} THEN Tail(answer.releases)
                                      ELSE answer.releases)
                           /\ first(answer.releases) = {} /\ answer.error = None /\ Named
                                => answer.skipped # <<>>
<1>1. CandidatesFor(Live(site), list, None, site.latest) = new
  BY DEF CandidatesFor
<1>2. Offering(m) /\ \A v \in Versions : Told(m, v)
  BY MergeIs, MergeIsTold
<1>3. Sorted(None, new)
  BY <1>2, ForLatestIs
<1>4. \/ new = Error("none")
      \/ marked # {} /\ new = Answer(moved, TRUE, <<>>)
      \/ /\ marked = {} /\ target # None
         /\ new = Answer(eligible, TRUE,
                         <<[version |-> target.version, why |-> WhySkipped(list, target)]>>)
      \/ marked = {} /\ target = None /\ new = Answer(eligible, TRUE, <<>>)
  BY DEF ForLatest
<1> HIDE DEF m
<1>5. versions \in SUBSET Chosen(m)
  OBVIOUS
<1>6. /\ eligible \in Seq(T) /\ InOrder(eligible) /\ Once(eligible)
      /\ \A r \in T : r.recommended <=> Recommended(r)
  <2> HIDE DEF versions
  <2> QED BY <1>2, <1>5, OrderedIs, OrderedIsOnce
<1>7. Named => target # None
  BY TargetIs
<1> HIDE DEF eligible, versions, target, new
<1>8. Len(eligible) \in Nat /\ DOMAIN eligible = 1..Len(eligible) /\ \A j \in DOMAIN eligible : eligible[j] \in T
  <2>1. eligible \in Seq(ToSet(eligible))
    BY <1>6
  <2> QED BY <2>1, MembersAre DEF ToSet
<1>9. marked = first(eligible)
  <2> HIDE DEF T
  <2> QED BY <1>6, <1>8
<1>10. CASE new = Error("none")
  <2>1. new.releases = <<>> /\ new.error = "none"
    BY <1>10 DEF Error
  <2>2. first(<<>>) = {} /\ InOrder(<<>>)
    BY DEF InOrder
  <2> HIDE DEF first
  <2> QED BY <1>1, <2>1, <2>2, NoneAssumption DEF first
<1>11. CASE marked # {} /\ new = Answer(moved, TRUE, <<>>)
  <2>1. new.releases = moved
    BY <1>11 DEF Answer
  <2>2. marked \in SUBSET Nat
    BY <1>8
  <2>3. i \in marked
    <3> HIDE DEF marked
    <3> QED BY <1>11, <2>2, Least
  <2> HIDE DEF i
  <2>4. i \in 1..Len(eligible) /\ Recommended(eligible[i])
    BY <1>8, <1>9, <2>3
  <2>5. /\ moved \in Seq(T) /\ 1 \in DOMAIN moved /\ moved[1] = eligible[i]
        /\ \A j \in DOMAIN moved :
             j # 1 => \E k \in 1..Len(eligible) : k # i /\ moved[j] = eligible[k]
    <3>1. eligible \in Seq(T) /\ InOrder(eligible) /\ i \in 1..Len(eligible)
      BY <1>6, <2>4
    <3> HIDE DEF T
    <3> QED BY <3>1, MovedIs
  <2> HIDE DEF moved, marked, T
  <2>6. first(moved) = {1}
    <3>1. 1 \in first(moved)
      <4>1. Recommended(moved[1])
        BY <2>4, <2>5
      <4> QED BY <2>5, <4>1
    <3>2. ASSUME NEW j \in DOMAIN moved, j # 1 PROVE ~Recommended(moved[j])
      <4>1. PICK k \in 1..Len(eligible) : k # i /\ moved[j] = eligible[k]
        BY <2>5, <3>2
      <4> QED BY <1>6, <1>8, <2>4, <4>1 DEF Once
    <3> QED BY <3>1, <3>2
  <2>7. moved # <<>>
    BY <2>5
  <2>8. InOrder(Tail(moved))
    BY <1>3, <2>1, <2>7 DEF Sorted
  <2> HIDE DEF first
  <2> QED BY <1>1, <2>1, <2>6, <2>8 DEF first
<1>12. CASE marked = {} /\ new.releases = eligible /\ (target # None => new.skipped # <<>>)
  <2>1. first(eligible) = {}
    BY <1>9, <1>12
  <2> HIDE DEF first
  <2> QED BY <1>1, <1>6, <1>7, <1>12, <2>1 DEF first
<1>13. \/ new = Error("none")
       \/ marked # {} /\ new = Answer(moved, TRUE, <<>>)
       \/ marked = {} /\ new.releases = eligible /\ (target # None => new.skipped # <<>>)
  <2> HIDE DEF marked, moved
  <2>1. \A skips : Answer(eligible, TRUE, skips).releases = eligible
                   /\ Answer(eligible, TRUE, skips).skipped = skips
    BY DEF Answer
  <2>2. \A x : <<x>> # <<>>
    OBVIOUS
  <2> QED BY <1>4, <2>1, <2>2
<1> QED BY <1>10, <1>11, <1>12, <1>13

-----------------------------------------------------------------------------
(* Requests: what MatchesRequest compares is what a request means.         *)

IsRequest(q) == IsText(q) /\ (q.lead = ">=" => Len(q.n) = 3)

\* The numbers of the forge's versions and of the list's have nothing before them.
LEMMA VersionsAreWhole ==
  ASSUME ListIsValid, site \in Sites
  PROVE  \A v \in Versions : IsFull(v) /\ v.lead = ""
<1>1. \A r \in ToSet(Live(site)) : r.version.lead = ""
  BY LiveTags
<1>2. \A e \in ToSet(Entries(list)) : e.version.lead = ""
  <2>1. CASE list = None
    <3>1. Entries(list) = <<>>
      BY <2>1 DEF Entries
    <3>2. ToSet(<<>>) = {}
      BY DEF ToSet
    <3> QED BY <3>1, <3>2
  <2>2. CASE list # None
    BY <2>2 DEF ListIsValid, Validate, IsVersion, Entries
  <2> QED BY <2>1, <2>2
<1> QED BY <1>1, <1>2, VersionsAre DEF Versions, VersionsOf

LEMMA PaddedIs ==
  ASSUME NEW n \in Seq(Nat), Len(n) \in 1..3
  PROVE  Padded(n) \in Seq(Nat) /\ Len(Padded(n)) \in 1..3
<1>1. CASE Len(n) = 2
  <2>1. Append(n, 0) \in Seq(Nat) /\ Len(Append(n, 0)) = Len(n) + 1
    BY AppendProperties
  <2> QED BY <1>1, <2>1 DEF Padded
<1>2. CASE Len(n) # 2
  BY <1>2 DEF Padded
<1> QED BY <1>1, <1>2

\* The numbers that a request names: a text of its own, that is not None.
LEMMA NumericIs ==
  ASSUME NEW q, IsText(q)
  PROVE  /\ q.lead \in {"", "v"} /\ Len(q.n) \in 1..3 => Numeric(q) # None
         /\ Numeric(q) # None =>
              /\ q.lead \in {"", "v"}
              /\ \E n \in Seq(Nat) : Len(n) \in 1..3 /\ Numeric(q) = Text("", n, q.rc, q.b)
<1> DEFINE n == IF q.rc # 0 \/ q.b # 0 THEN Padded(q.n) ELSE q.n
<1>1. Numeric(q) = IF q.lead \in {"", "v"} /\ Len(q.n) \in 1..3 THEN Text("", n, q.rc, q.b) ELSE None
  BY DEF Numeric
<1>2. q.n \in Seq(Nat) /\ q.rc \in Nat /\ q.b \in Nat
  BY DEF IsText
<1>3. Len(q.n) \in 1..3 => n \in Seq(Nat) /\ Len(n) \in 1..3
  BY <1>2, PaddedIs
<1> HIDE DEF n
<1>4. Len(q.n) \in 1..3 => Text("", n, q.rc, q.b) \in AnyNumbers
  BY <1>2, <1>3 DEF AnyNumbers, Text
<1>5. None \notin AnyNumbers
  BY NoneAssumption
<1> QED BY <1>1, <1>3, <1>4, <1>5

LEMMA PrefixIs ==
  ASSUME NEW s \in Seq(Nat), NEW t \in Seq(Nat)
  PROVE  /\ IsPrefix(s, s)
         /\ IsPrefix(s, t) /\ Len(s) = Len(t) => s = t
         /\ IsStrictPrefix(s, t) => IsPrefix(s, t) /\ Len(s) < Len(t)
         /\ IsPrefix(s, t) /\ Len(s) < Len(t) => IsStrictPrefix(s, t)
<1>1. SubSeq(s, 1, Len(s)) = s /\ SubSeq(t, 1, Len(t)) = t /\ Len(s) \in Nat /\ Len(t) \in Nat
  BY SubSeqFull, LenProperties
<1>2. IsPrefix(s, t) <=> Len(s) <= Len(t) /\ SubSeq(s, 1, Len(s)) = SubSeq(t, 1, Len(s))
  BY DEF IsPrefix
<1>3. IsPrefix(s, s)
  BY <1>1 DEF IsPrefix
<1>4. IsStrictPrefix(s, t) <=> IsPrefix(s, t) /\ s # t
  BY DEF IsStrictPrefix
<1>5. IsPrefix(s, t) /\ Len(s) = Len(t) => s = t
  BY <1>1, <1>2
<1>6. IsPrefix(s, t) => Len(s) <= Len(t)
  BY <1>2
<1>7. IsStrictPrefix(s, t) => IsPrefix(s, t) /\ Len(s) < Len(t)
  <2> SUFFICES ASSUME IsStrictPrefix(s, t) PROVE IsPrefix(s, t) /\ Len(s) < Len(t)
    OBVIOUS
  <2>1. IsPrefix(s, t) /\ s # t
    BY <1>4
  <2>2. Len(s) <= Len(t) /\ Len(s) # Len(t)
    BY <1>5, <1>6, <2>1
  <2>3. Len(s) \in Nat /\ Len(t) \in Nat
    BY LenProperties
  <2>4. Len(s) < Len(t)
    BY ONLY <2>2, <2>3
  <2> QED BY <2>1, <2>4
<1>8. IsPrefix(s, t) /\ Len(s) < Len(t) => IsStrictPrefix(s, t)
  <2> SUFFICES ASSUME IsPrefix(s, t), Len(s) < Len(t) PROVE IsStrictPrefix(s, t)
    OBVIOUS
  <2>1. s # t
    BY <1>1
  <2> QED BY <1>4, <2>1
<1> QED BY <1>3, <1>5, <1>7, <1>8

\* The version of a release that matches is the one asked for, or begins with it.
LEMMA AskedIs ==
  ASSUME NEW q, IsRequest(q), NEW v, IsFull(v), v.lead = "", q.lead # ">=", Numeric(q) # None
  PROVE  LET a == Asked(q)
         IN  /\ a.lead = "" /\ a.n \in Seq(Nat) /\ Len(a.n) \in 1..3 /\ a.rc = q.rc /\ a.b = q.b
             /\ a = Text("", a.n, a.rc, a.b) /\ v = Text("", v.n, v.rc, v.b)
             /\ v.n \in Seq(Nat) /\ Len(v.n) = 3
             /\ NumericPrefix(q) <=> a.rc = 0 /\ a.b = 0 /\ Len(a.n) < 3
<1> DEFINE a == Asked(q)
<1>1. a = Numeric(q)
  BY DEF Asked
<1>2. PICK n \in Seq(Nat) : Len(n) \in 1..3 /\ a = Text("", n, q.rc, q.b)
  BY <1>1, NumericIs DEF IsRequest
<1>3. NumericPrefix(q) <=> a.rc = 0 /\ a.b = 0 /\ Len(a.n) < 3
  BY <1>1 DEF NumericPrefix
<1> HIDE DEF a
<1>4. a.lead = "" /\ a.n = n /\ a.rc = q.rc /\ a.b = q.b
  BY <1>2 DEF Text
<1>5. v = Text("", v.n, v.rc, v.b) /\ v.n \in Seq(Nat) /\ Len(v.n) = 3
  BY DEF IsFull, IsText
<1> QED BY <1>2, <1>3, <1>4, <1>5 DEF a

\* A whole version that is asked for, with its build or without, is meant.
LEMMA SameIsMeant ==
  ASSUME NEW q, IsRequest(q), NEW v, IsFull(v), v.lead = "", SameVersion(Asked(q), v)
  PROVE  Means(q, v)
<1> DEFINE a == Asked(q)
<1>1. v = Text("", v.n, v.rc, v.b) /\ v.n \in Seq(Nat) /\ Len(v.n) = 3
  BY DEF IsFull, IsText
<1>2. a.lead = "" /\ a.n = v.n /\ a.rc = v.rc /\ a.b \in {0, v.b}
  <2>1. CASE v = a
    BY <2>1
  <2>2. CASE a.b = 0 /\ Unbuilt(v) = a
    <3>1. a = Text("", v.n, v.rc, 0)
      BY <2>2 DEF Unbuilt
    <3> HIDE DEF a
    <3> QED BY <3>1 DEF Text
  <2> QED BY <2>1, <2>2 DEF SameVersion
<1>3. Numeric(q) # None
  <2> SUFFICES ASSUME Numeric(q) = None PROVE FALSE
    OBVIOUS
  <2>1. a = q
    BY DEF Asked
  <2>2. q.lead = "" /\ Len(q.n) = 3
    BY <1>1, <1>2, <2>1
  <2>3. q.lead \in {"", "v"}
    BY <2>2, Zenon
  <2>5. Len(q.n) = 3
    BY <2>2, Zenon
  <2>6. Len(q.n) \in 1..3
    BY ONLY <2>5
  <2>4. IsText(q)
    BY DEF IsRequest
  <2> QED BY <2>3, <2>4, <2>6, NumericIs, Zenon
<1>4. q.lead # ">="
  BY <1>3, NumericIs DEF IsRequest
<1>5. a.rc = q.rc /\ a.b = q.b
  BY <1>3, <1>4, AskedIs
<1> HIDE DEF a
<1>6. IsPrefix(a.n, v.n) /\ Len(a.n) = 3 /\ q.rc = v.rc /\ q.b \in {0, v.b}
  <2>1. IsPrefix(v.n, v.n)
    BY <1>1, PrefixIs
  <2> QED BY <1>1, <1>2, <1>5, <2>1
<1> QED BY <1>3, <1>4, <1>6 DEF Means, a

LEMMA MatchIsMeant ==
  ASSUME NEW q, IsRequest(q), NEW r, IsFull(r.version), r.version.lead = "", MatchesRequest(r, q)
  PROVE  Means(q, r.version) \/ r.tag = q
<1> DEFINE a == Asked(q)
           v == r.version
<1>1. \/ r.tag = q
      \/ v = a
      \/ (v.rc = 0 \/ a.rc # 0) /\ Numeric(q) # None /\ StartsWith(v, a)
      \/ a.lead = ">=" /\ InRange(v, a)
  BY DEF MatchesRequest
<1>2. CASE v = a
  BY <1>2, SameIsMeant DEF SameVersion
<1>3. ASSUME v.rc = 0 \/ a.rc # 0, Numeric(q) # None, StartsWith(v, a) PROVE Means(q, v)
  <2>1. q.lead # ">="
    BY <1>3, NumericIs DEF IsRequest
  <2>2. /\ a.n \in Seq(Nat) /\ Len(a.n) \in 1..3 /\ a.rc = q.rc /\ a.b = q.b
        /\ v.n \in Seq(Nat) /\ Len(v.n) = 3
        /\ NumericPrefix(q) <=> a.rc = 0 /\ a.b = 0 /\ Len(a.n) < 3
    BY <1>3, <2>1, AskedIs
  <2>3. CASE IsStrictPrefix(a.n, v.n) /\ a.rc = 0 /\ a.b = 0
    <3> HIDE DEF a, v
    <3>1. IsPrefix(a.n, v.n) /\ Len(a.n) < Len(v.n)
      BY <2>2, <2>3, PrefixIs
    <3>2. NumericPrefix(q)
      BY <2>2, <2>3, <3>1
    <3>3. v.rc = 0
      BY <1>3, <2>3
    <3>4. q.rc = v.rc /\ q.b \in {0, v.b}
      BY <2>2, <2>3, <3>3
    <3> QED BY <1>3, <2>1, <3>1, <3>2, <3>4 DEF Means, a
  <2>4. CASE Unbuilt(v) = a
    <3>1. a = Text("", v.n, v.rc, 0)
      BY <2>4 DEF Unbuilt
    <3> HIDE DEF a
    <3>2. a.b = 0
      BY <3>1 DEF Text
    <3>3. SameVersion(a, v)
      BY <2>4, <3>2 DEF SameVersion
    <3> QED BY <3>3, SameIsMeant DEF a
  <2> QED BY <1>3, <2>3, <2>4 DEF StartsWith
<1>4. ASSUME a.lead = ">=", InRange(v, a) PROVE Means(q, v)
  <2>1. Numeric(q) = None
    <3> SUFFICES ASSUME Numeric(q) # None PROVE FALSE
      OBVIOUS
    <3>1. q.lead # ">="
      BY NumericIs DEF IsRequest
    <3>2. a.lead = ""
      BY <3>1, AskedIs
    <3> QED BY <1>4, <3>2
  <2>2. a = q
    BY <2>1 DEF Asked
  <2> QED BY <1>4, <2>2 DEF Means
<1> QED BY <1>1, <1>2, <1>3, <1>4

LEMMA MeantIsMatched ==
  ASSUME NEW q, IsRequest(q), NEW r, IsFull(r.version), r.version.lead = "", Means(q, r.version)
  PROVE  MatchesRequest(r, q)
<1> DEFINE a == Asked(q)
           v == r.version
<1>1. CASE q.lead = ">="
  <2>1. Numeric(q) = None
    BY <1>1, NumericIs DEF IsRequest
  <2>2. a = q
    BY <2>1 DEF Asked
  <2>3. InRange(v, a) /\ (v.rc = 0 \/ a.rc # 0)
    BY <1>1, <2>2 DEF Means, InRange
  <2> QED BY <1>1, <2>2, <2>3 DEF MatchesRequest
<1>2. CASE q.lead # ">="
  <2>1. /\ Numeric(q) # None
        /\ q.rc = v.rc /\ q.b \in {0, v.b} /\ IsPrefix(a.n, v.n)
        /\ NumericPrefix(q) \/ Len(a.n) = 3
    BY <1>2 DEF Means
  <2>2. /\ a.n \in Seq(Nat) /\ Len(a.n) \in 1..3 /\ a.rc = q.rc /\ a.b = q.b
        /\ v.n \in Seq(Nat) /\ Len(v.n) = 3
        /\ a = Text("", a.n, a.rc, a.b) /\ v = Text("", v.n, v.rc, v.b)
        /\ NumericPrefix(q) <=> a.rc = 0 /\ a.b = 0 /\ Len(a.n) < 3
    BY <1>2, <2>1, AskedIs
  <2>3. v.rc = 0 \/ a.rc # 0
    BY <2>1, <2>2
  <2>4. v = a \/ StartsWith(v, a)
    <3> HIDE DEF a, v
    <3>1. CASE NumericPrefix(q)
      <4>1. a.rc = 0 /\ a.b = 0 /\ Len(a.n) < Len(v.n)
        BY <2>2, <3>1
      <4>2. IsStrictPrefix(a.n, v.n)
        BY <2>1, <2>2, <4>1, PrefixIs, Zenon
      <4> QED BY <4>1, <4>2 DEF StartsWith
    <3>2. CASE Len(a.n) = 3
      <4>1. a.n = v.n
        BY <2>1, <2>2, <3>2, PrefixIs
      <4>2. CASE a.b = v.b
        BY <2>1, <2>2, <4>1, <4>2
      <4>3. CASE a.b # v.b
        <5>1. a.b = 0 /\ v.b # 0
          BY <2>1, <2>2, <4>3
        <5>2. Unbuilt(v) = a
          BY <2>1, <2>2, <4>1, <5>1 DEF Unbuilt
        <5> QED BY <5>1, <5>2 DEF StartsWith
      <4> QED BY <4>2, <4>3
    <3> QED BY <2>1, <3>1, <3>2
  <2> QED BY <2>1, <2>3, <2>4 DEF MatchesRequest
<1> QED BY <1>1, <1>2

\* The forge's release that a request names.
LEMMA ExactIs ==
  ASSUME site \in Sites, NEW q, ExactTag(Live(site), q) # None
  PROVE  /\ ExactTag(Live(site), q) \in ToSet(Live(site))
         /\ ExactTag(Live(site), q).tag = q /\ ~NumericPrefix(q)
<1> DEFINE live == Live(site)
           named == {r \in ToSet(live) : r.tag = q}
           first == Only(live, named)
<1>1. ~NumericPrefix(q) /\ first # <<>> /\ ExactTag(live, q) = Head(first)
  BY DEF ExactTag, FirstOr
<1>2. first \in Seq(ToSet(live) \cap named)
  <2> HIDE DEF named
  <2> QED BY LiveIs, OnlyIs
<1>3. Head(first) \in ToSet(live) \cap named
  <2> HIDE DEF first, live, named
  <2> QED BY <1>1, <1>2, HeadTailProperties
<1> HIDE DEF first
<1> QED BY <1>1, <1>3

\* Where a request is refused for a withdrawn entry, it names that.
LEMMA WithdrawnIsNamed ==
  ASSUME ListIsValid, site \in Sites, NEW q, IsRequest(q), NEW e \in ToSet(Entries(list)),
         NamesWithdrawn(Live(site), MergeLive(Live(site), list), e, q)
  PROVE  e.yanked /\ (Means(q, e.version) \/ TagOf(q, e.version))
<1> DEFINE exact == ExactTag(Live(site), q)
           forge == MergeLive(Live(site), list)
           removed == forge.choices[e.version]
<1>1. /\ e.yanked
      /\ \/ Asked(q) = e.version
         \/ exact # None /\ exact.version = e.version
         \/ e.tag = q
         \/ removed # None /\ removed.tag = q
  BY DEF NamesWithdrawn
<1>2. e.version \in Versions
  BY DEF Versions, VersionsOf
<1>3. CASE Asked(q) = e.version
  <2>1. IsFull(e.version) /\ e.version.lead = ""
    BY <1>2, VersionsAreWhole
  <2>2. Means(q, e.version)
    BY <1>3, <2>1, SameIsMeant DEF SameVersion
  <2> QED BY <1>1, <2>2
<1>4. CASE exact # None /\ exact.version = e.version
  <2>1. exact \in ToSet(Live(site)) /\ exact.tag = q
    BY <1>4, ExactIs
  <2> QED BY <1>1, <1>4, <2>1 DEF TagOf
<1>5. CASE e.tag = q
  BY <1>1, <1>5 DEF TagOf
<1>6. CASE removed # None /\ removed.tag = q
  <2>1. removed \in ForgeOf(e.version)
    <3>1. Whole(forge, Len(Live(site)))
      BY ForgeIsWhole
    <3> HIDE DEF forge
    <3> QED BY <1>2, <1>6, <3>1 DEF Whole
  <2> QED BY <1>1, <1>6, <2>1 DEF TagOf, ForgeOf
<1> QED BY <1>1, <1>3, <1>4, <1>5, <1>6

\* Where the tags of the entries are their own, what stands is due, and so there.
LEMMA StandingIsThere ==
  ASSUME ListIsValid, site \in Sites, OwnTags, NEW latest, NEW v, NEW bundles, Stands(v, bundles)
  PROVE  LET m == Merge(Live(site), list, latest)
         IN  v \in Chosen(m) /\ m.choices[v] # None /\ m.choices[v].version = v /\ v \in Versions
<1> DEFINE m == Merge(Live(site), list, latest)
<1>1. Due(v, bundles)
  BY DEF Stands, Due, ForgeOf, OwnTags
<1>2. v \in Chosen(m) /\ Offering(m)
  BY <1>1, MergeHasAll, MergeIs
<1> HIDE DEF m
<1>3. m.choices[v] # None /\ m.choices[v].version = v /\ v \in Versions
  BY <1>2 DEF Chosen, Offering, Shape, Offer
<1> QED BY <1>2, <1>3 DEF m

\* No release of a version that is meant stands.
NothingMeant(q) == \A v, bundles : Means(q, v) => ~Stands(v, bundles)

\* What an answer says of its request.
Fitting(q, answer) ==
    /\ \A r \in ToSet(answer.releases) : Means(q, r.version) \/ TagOf(q, r.version) \/ r.tag = q
    /\ answer.error = "none" => NothingMeant(q)
    /\ answer.error = "yanked" =>
         \E e \in ToSet(Entries(list)) : e.yanked /\ (Means(q, e.version) \/ TagOf(q, e.version))

LEMMA MatchingFits ==
  ASSUME ListIsValid, site \in Sites, OwnTags, NEW latest, NEW q, IsRequest(q)
  PROVE  Fitting(q, Matching(list, Merge(Live(site), list, latest), q))
<1> DEFINE m == Merge(Live(site), list, latest)
           versions == {v \in Chosen(m) : MatchesRequest(m.choices[v], q)}
           matches == Ordered(m, versions)
           good == {r \in ToSet(matches) : MatchesRequest(r, q)}
           found == Only(matches, good)
           withdrawn == \E e \in ToSet(Entries(list)) : e.yanked /\ SameVersion(Asked(q), e.version)
           new == Matching(list, m, q)
<1>1. new = IF found = <<>> THEN Error(IF withdrawn THEN "yanked" ELSE "none")
            ELSE Answer(found, FALSE, <<>>)
  BY DEF Matching
<1>2. Offering(m)
  BY MergeIs
<1>3. ASSUME NEW v, NEW bundles, Stands(v, bundles)
      PROVE  v \in Chosen(m) /\ m.choices[v] # None /\ m.choices[v].version = v /\ v \in Versions
  BY <1>3, StandingIsThere
<1> HIDE DEF m
<1>4. /\ matches \in Seq(ToSet(matches))
      /\ \A r \in ToSet(matches) : r.version \in Versions
      /\ \A v \in versions : ReleasesOf(m, v) \subseteq ToSet(matches)
  <2>1. versions \in SUBSET Chosen(m) /\ Chosen(m) \subseteq Versions
    BY <1>2 DEF Chosen, Offering, Shape
  <2> HIDE DEF versions
  <2> QED BY <1>2, <2>1, OrderedIs, OrderedHasAll
<1>5. ToSet(found) = ToSet(matches) \cap good
  <2> HIDE DEF matches, good
  <2> QED BY <1>4, OnlyHasAll
<1>6. \A r \in ToSet(found) : Means(q, r.version) \/ r.tag = q
  <2> SUFFICES ASSUME NEW r \in ToSet(found) PROVE Means(q, r.version) \/ r.tag = q
    OBVIOUS
  <2>1. r \in ToSet(matches) /\ MatchesRequest(r, q)
    BY <1>5
  <2>2. IsFull(r.version) /\ r.version.lead = ""
    BY <1>4, <2>1, VersionsAreWhole
  <2> QED BY <2>1, <2>2, MatchIsMeant
<1>7. ASSUME NEW v, NEW bundles, Means(q, v), Stands(v, bundles) PROVE found # <<>>
  <2>1. v \in Chosen(m) /\ m.choices[v].version = v /\ v \in Versions
    BY <1>3, <1>7
  <2>2. IsFull(v) /\ v.lead = ""
    BY <2>1, VersionsAreWhole
  <2>3. MatchesRequest(m.choices[v], q)
    BY <1>7, <2>1, <2>2, MeantIsMatched
  <2>4. m.choices[v] \in ToSet(matches)
    BY <1>4, <2>1, <2>3 DEF ReleasesOf
  <2>5. m.choices[v] \in ToSet(found)
    BY <1>5, <2>3, <2>4
  <2> HIDE DEF found
  <2> QED BY <2>5 DEF ToSet
<1>8. withdrawn => \E e \in ToSet(Entries(list)) : e.yanked /\ Means(q, e.version)
  <2> SUFFICES ASSUME NEW e \in ToSet(Entries(list)), e.yanked, SameVersion(Asked(q), e.version)
               PROVE  Means(q, e.version)
    OBVIOUS
  <2>1. e.version \in Versions
    BY DEF Versions, VersionsOf
  <2>2. IsFull(e.version) /\ e.version.lead = ""
    BY <2>1, VersionsAreWhole
  <2> QED BY <2>2, SameIsMeant
<1> HIDE DEF found, withdrawn, new
<1>9. CASE found = <<>>
  <2>1. new.releases = <<>> /\ new.error \in {"none", "yanked"} /\ (new.error = "yanked" => withdrawn)
    BY <1>1, <1>9 DEF Error
  <2>2. ToSet(new.releases) = {}
    BY <2>1 DEF ToSet
  <2>3. NothingMeant(q)
    BY <1>7, <1>9 DEF NothingMeant
  <2>4. new.error = "yanked" =>
          \E e \in ToSet(Entries(list)) : e.yanked /\ (Means(q, e.version) \/ TagOf(q, e.version))
    BY <1>8, <2>1
  <2>5. Fitting(q, new)
    BY <2>2, <2>3, <2>4, Zenon DEF Fitting
  <2> QED BY <2>5 DEF new, m
<1>10. CASE found # <<>>
  <2>1. new.releases = found /\ new.error = None
    BY <1>1, <1>10 DEF Answer
  <2>2. new.error \notin {"none", "yanked"}
    BY <2>1, NoneAssumption
  <2>3. new.error # "none" /\ new.error # "yanked"
    BY <2>2
  <2>4. \A r \in ToSet(new.releases) : Means(q, r.version) \/ TagOf(q, r.version) \/ r.tag = q
    BY <1>6, <2>1
  <2>5. Fitting(q, new)
    BY <2>3, <2>4, Zenon DEF Fitting
  <2> QED BY <2>5 DEF new, m
<1> QED BY <1>9, <1>10 DEF m, new

\* An error is one, and an answer is none.
LEMMA Fits ==
  ASSUME NEW q
  PROVE  /\ NothingMeant(q) => Fitting(q, Error("none"))
         /\ (\E e \in ToSet(Entries(list)) : e.yanked /\ (Means(q, e.version) \/ TagOf(q, e.version)))
              => Fitting(q, Error("yanked"))
         /\ \A r : Means(q, r.version) \/ TagOf(q, r.version) \/ r.tag = q
              => Fitting(q, Answer(<<r>>, FALSE, <<>>))
<1>1. \A why : Error(why).error = why /\ Error(why).releases = <<>>
  BY DEF Error
<1>2. ToSet(<<>>) = {}
  BY DEF ToSet
<1>3. "none" # "yanked" /\ "yanked" # "none"
  OBVIOUS
<1>4. ASSUME NothingMeant(q) PROVE Fitting(q, Error("none"))
  BY <1>1, <1>2, <1>3, <1>4, Zenon DEF Fitting
<1>5. ASSUME \E e \in ToSet(Entries(list)) : e.yanked /\ (Means(q, e.version) \/ TagOf(q, e.version))
      PROVE  Fitting(q, Error("yanked"))
  <2> DEFINE new == Error("yanked")
  <2>1. new.error # "none" /\ ToSet(new.releases) = {}
    BY <1>1, <1>2, <1>3
  <2> HIDE DEF new
  <2>2. Fitting(q, new)
    BY <1>5, <2>1, Zenon DEF Fitting
  <2> QED BY <2>2 DEF new
<1>6. ASSUME NEW r, Means(q, r.version) \/ TagOf(q, r.version) \/ r.tag = q
      PROVE  Fitting(q, Answer(<<r>>, FALSE, <<>>))
  <2> DEFINE new == Answer(<<r>>, FALSE, <<>>)
  <2>1. new.error = None /\ new.releases = <<r>>
    BY DEF Answer
  <2>2. new.error # "none" /\ new.error # "yanked"
    BY <2>1, NoneAssumption
  <2>3. ToSet(<<r>>) = {r}
    BY DEF ToSet
  <2> HIDE DEF new
  <2>4. Fitting(q, new)
    BY <1>6, <2>1, <2>2, <2>3, Zenon DEF Fitting
  <2> QED BY <2>4 DEF new
<1> QED BY <1>4, <1>5, <1>6, Zenon

LEMMA ForRequestFits ==
  ASSUME ListIsValid, site \in Sites, OwnTags, NEW latest, NEW q, IsRequest(q),
         \A e \in ToSet(Entries(list)) :
           ~NamesWithdrawn(Live(site), MergeLive(Live(site), list), e, q)
  PROVE  Fitting(q, ForRequest(Live(site), list, Merge(Live(site), list, latest), q))
<1> DEFINE live == Live(site)
           m == Merge(live, list, latest)
           E == Entries(list)
           exact == ExactTag(live, q)
           same == {e \in ToSet(E) : e.version = exact.version}
           tagged == {e \in ToSet(E) : e.tag = exact.tag}
           listed == ListedFor(list, exact)
           choice == m.choices[Head(listed).version]
           new == ForRequest(live, list, m, q)
<1>1. \/ new = Matching(list, m, q)
      \/ exact # None /\ listed # <<>> /\ choice = None /\ new = Error("none")
      \/ exact # None /\ listed # <<>> /\ choice # None /\ new = Answer(<<choice>>, FALSE, <<>>)
      \/ exact # None /\ new = Answer(<<exact>>, FALSE, <<>>)
      \/ exact # None /\ Numeric(q) = None /\ new = Error("none")
  BY DEF ForRequest
<1>2. exact # None => exact \in ToSet(live) /\ exact.tag = q /\ ~NumericPrefix(q)
  BY ExactIs
<1>3. listed # <<>> =>
        LET e == Head(listed)
        IN  e \in ToSet(E) /\ (e.version = exact.version \/ e.tag = exact.tag)
  <2>1. listed = IF Only(E, same) # <<>> THEN Only(E, same) ELSE Only(E, tagged)
    BY DEF ListedFor
  <2>2. E \in Seq(ToSet(E))
    BY EntriesAre
  <2>3. \A e \in same : e.version = exact.version
    OBVIOUS
  <2>4. \A e \in tagged : e.tag = exact.tag
    OBVIOUS
  <2> HIDE DEF same, tagged, E, listed, exact
  <2>5. Only(E, same) \in Seq(ToSet(E) \cap same) /\ Only(E, tagged) \in Seq(ToSet(E) \cap tagged)
    BY <2>2, OnlyIs
  <2>6. \A T, s : s \in Seq(T) /\ s # <<>> => Head(s) \in T
    BY HeadTailProperties
  <2>7. listed # <<>> => Head(listed) \in ToSet(E) \cap (same \cup tagged)
    <3>1. CASE Only(E, same) # <<>>
      BY <2>1, <2>5, <2>6, <3>1
    <3>2. CASE Only(E, same) = <<>>
      <4>1. listed = Only(E, tagged)
        BY <2>1, <3>2
      <4> QED BY <2>5, <2>6, <4>1
    <3> QED BY <3>1, <3>2
  <2> QED BY <2>3, <2>4, <2>7
<1>4. ASSUME exact # None, listed # <<>>
      PROVE  choice # None /\ choice.version = Head(listed).version /\ TagOf(q, choice.version)
  <2> DEFINE e == Head(listed)
  <2>1. e \in ToSet(E) /\ (e.version = exact.version \/ e.tag = q)
    BY <1>2, <1>3, <1>4
  <2> HIDE DEF e
  <2>2. ~e.yanked
    BY <1>2, <1>4, <2>1 DEF NamesWithdrawn
  <2>3. Stands(e.version, <<e.packslip>>)
    BY <2>1, <2>2 DEF Stands
  <2>4. m.choices[e.version] # None /\ m.choices[e.version].version = e.version
    BY <2>3, StandingIsThere
  <2>5. TagOf(q, e.version)
    BY <1>2, <1>4, <2>1 DEF TagOf
  <2> QED BY <2>4, <2>5 DEF e
<1>5. CASE new = Matching(list, m, q)
  BY <1>5, MatchingFits
<1>6. CASE exact # None /\ listed # <<>> /\ choice # None /\ new = Answer(<<choice>>, FALSE, <<>>)
  <2>1. TagOf(q, choice.version)
    BY <1>4, <1>6
  <2> HIDE DEF choice, new
  <2>2. Fitting(q, new)
    BY <1>6, <2>1, Fits
  <2> QED BY <2>2 DEF new
<1>7. CASE exact # None /\ new = Answer(<<exact>>, FALSE, <<>>)
  <2>1. exact.tag = q
    BY <1>2, <1>7
  <2> HIDE DEF exact, new
  <2>2. Fitting(q, new)
    BY <1>7, <2>1, Fits
  <2> QED BY <2>2 DEF new
<1>8. CASE exact # None /\ Numeric(q) = None /\ new = Error("none")
  <2>1. TagVersion(q) # None
    BY <1>2, <1>8, LiveTags
  <2>2. q.lead # ">="
    BY <2>1, LeadsAssumption DEF TagVersion
  <2>3. NothingMeant(q)
    BY <1>8, <2>2 DEF NothingMeant, Means
  <2> HIDE DEF new
  <2>4. Fitting(q, new)
    BY <1>8, <2>3, Fits
  <2> QED BY <2>4 DEF new
<1> QED BY <1>1, <1>4, <1>5, <1>6, <1>7, <1>8

\* A request, but for the latest release, is answered as it should be.
LEMMA RequestFits ==
  ASSUME ListIsValid, site \in Sites, OwnTags, NEW latest, NEW q, IsRequest(q), q # None
  PROVE  Fitting(q, CandidatesFor(Live(site), list, q, latest))
<1> DEFINE live == Live(site)
           Barred(e) == NamesWithdrawn(live, MergeLive(live, list), e, q)
           new == CandidatesFor(live, list, q, latest)
<1>1. CASE \E e \in ToSet(Entries(list)) : Barred(e)
  <2>1. PICK e \in ToSet(Entries(list)) : Barred(e)
    BY <1>1
  <2>2. e.yanked /\ (Means(q, e.version) \/ TagOf(q, e.version))
    BY <2>1, WithdrawnIsNamed
  <2>3. new = Error("yanked")
    BY <1>1 DEF CandidatesFor
  <2> HIDE DEF new
  <2>4. Fitting(q, new)
    BY <2>2, <2>3, Fits
  <2> QED BY <2>4 DEF new
<1>2. CASE \A e \in ToSet(Entries(list)) : ~Barred(e)
  <2>1. new = ForRequest(live, list, Merge(live, list, latest), q)
    BY <1>2 DEF CandidatesFor
  <2> HIDE DEF new
  <2>2. Fitting(q, new)
    BY <1>2, <2>1, ForRequestFits
  <2> QED BY <2>2 DEF new
<1> QED BY <1>1, <1>2

-----------------------------------------------------------------------------
\* Nothing that stands is withdrawn.
LEMMA StandingIsNotWithdrawn ==
  ASSUME ListIsValid, NEW version, NEW bundles, Stands(version, bundles)
  PROVE  ~Withdrawn(version)
<1>1. CASE list = None
  BY <1>1 DEF Withdrawn, Entries, ToSet
<1>2. CASE list # None
  <2>1. \A e, f \in ToSet(list.releases) : e.version = f.version => e = f
    BY <1>2 DEF ListIsValid, Validate, ToSet
  <2> QED BY <1>2, <2>1 DEF Stands, Withdrawn, Entries
<1> QED BY <1>1, <1>2

\* create_release_list gives nothing or a valid list of full versions.
LEMMA Published ==
  ASSUME NEW given \in Publications, given # None, NEW now, CreateReleaseList(given, now) # None
  PROVE  LET made == CreateReleaseList(given, now)
         IN  /\ Validate(made)
             /\ made.releases \in Seq(ToSet(made.releases))
             /\ \A e \in ToSet(made.releases) :
                  IsFull(e.version) /\ IsListed(e) /\ e \in AnyEntry
<1> DEFINE made == CreateReleaseList(given, now)
           listed == given.listed
           urls == Urls(given)
           R == [i \in DOMAIN urls |-> EntryOf(given, given.listed[i])]
<1>1. Validate(made)
  BY Zenon DEF CreateReleaseList
<1>2. /\ made.releases = R
      /\ \A e \in ToSet(given.listed) : ~NotAPackslip(e.slip)
  BY DEF CreateReleaseList
<1>3. /\ listed \in Seq(ToSet(listed))
      /\ \A e \in ToSet(listed) : e.slip # None => IsText(e.slip.version)
  BY PublicationsComplete
<1>4. Len(listed) \in Nat /\ DOMAIN listed = 1..Len(listed)
  <2> HIDE DEF listed
  <2> QED BY <1>3, MembersAre
<1>5. made.releases = [i \in 1..Len(listed) |-> EntryOf(given, listed[i])]
  BY <1>2, <1>4 DEF Urls
<1> HIDE DEF made
<1>6. \A e \in ToSet(made.releases) : \E i \in 1..Len(listed) : e = EntryOf(given, listed[i])
  <2> HIDE DEF listed
  <2> QED BY <1>5 DEF ToSet
<1>7. made.releases \in Seq({EntryOf(given, listed[i]) : i \in 1..Len(listed)})
  <2> HIDE DEF listed
  <2> QED BY <1>4, <1>5
<1>8. ASSUME NEW e \in ToSet(made.releases)
      PROVE  IsFull(e.version) /\ IsListed(e) /\ e \in AnyEntry
  <2>1. PICK i \in 1..Len(listed) : e = EntryOf(given, listed[i])
    BY <1>6
  <2>2. listed[i] \in ToSet(listed)
    <3> HIDE DEF listed
    <3> QED BY <1>4 DEF ToSet
  <2>3. IsText(listed[i].slip.version)
    BY <1>2, <1>3, <2>2 DEF NotAPackslip
  <2>4. /\ e.version = listed[i].slip.version /\ e.tag = listed[i].slip.tag
        /\ e.packslip = listed[i].url
    BY <2>1 DEF EntryOf
  <2>5. Len(e.version.n) = 3
    BY <1>1 DEF Validate, IsVersion, made
  <2>6. listed[i] \in Listed
    <3>1. listed[i].slip # None
      BY <1>2, <2>2 DEF NotAPackslip
    <3> QED BY <2>2, <3>1 DEF Listed
  <2>7. IsListed(e)
    BY <2>4, <2>6 DEF IsListed
  <2>8. e \in AnyEntry
    <3> DEFINE x == listed[i]
    <3> HIDE DEF x
    <3>1. e = [version |-> x.slip.version, tag |-> x.slip.tag, packslip |-> x.url,
               yanked |-> x.url \in given.yank]
      BY <2>1 DEF EntryOf, x
    <3>2. (x.url \in given.yank) \in BOOLEAN
      OBVIOUS
    <3> QED BY <2>6, <3>1, <3>2 DEF AnyEntry, AnyVersion, x
  <2> QED BY <2>3, <2>4, <2>5, <2>7, <2>8 DEF IsFull
<1>9. made.releases \in Seq(ToSet(made.releases))
  BY <1>7, MembersAre
<1> QED BY <1>1, <1>8, <1>9 DEF made

\* The answers are sequences, so that their lengths are numbers.
LEMMA Lengths ==
  ASSUME NEW answer, AreSequences(answer)
  PROVE  /\ Len(answer.releases) \in Nat
         /\ DOMAIN answer.releases = 1..Len(answer.releases)
         /\ \A i \in DOMAIN answer.releases :
              /\ Len(answer.releases[i].bundles) \in Nat
              /\ DOMAIN answer.releases[i].bundles = 1..Len(answer.releases[i].bundles)
         /\ FirstOf(answer) \in Nat
         /\ answer.releases # <<>> => FirstOf(answer) = Len(answer.releases[1].bundles)
<1>1. /\ Len(answer.releases) \in Nat
      /\ DOMAIN answer.releases = 1..Len(answer.releases)
  BY DEF AreSequences
<1>2. \A i \in DOMAIN answer.releases :
         /\ Len(answer.releases[i].bundles) \in Nat
         /\ DOMAIN answer.releases[i].bundles = 1..Len(answer.releases[i].bundles)
  BY DEF AreSequences
<1>3. answer.releases # <<>> => 1 \in DOMAIN answer.releases
  BY <1>1 DEF AreSequences
<1> QED BY <1>1, <1>2, <1>3 DEF FirstOf

-----------------------------------------------------------------------------
(* Steps.                                                                  *)

LEMMA InitInv == Init => IInv
<1> SUFFICES ASSUME Init PROVE IInv
  OBVIOUS
<1>1. offers.releases = <<>> /\ Len(offers.releases) = 0
  BY DEF Init, Error
<1>2. Progress
  BY <1>1 DEF Init, Progress, First, FirstOf
<1>3. site \in Sites /\ ListIsValid /\ Examined /\ Installed
  BY DEF Init, ListIsValid, Examined, Installed
<1>4. Passed
  <2>1. Behind = 0
    BY DEF Init, Behind
  <2> QED BY <2>1 DEF Passed
<1>5. OffersStand
  BY <1>1, ErrorIs DEF Init, OffersStand
<1> QED BY <1>2, <1>3, <1>4, <1>5 DEF IInv

LEMMA PublishKeeps ==
  ASSUME IInv, Publish
  PROVE  IInv'
<1>1. /\ pc = "publish" /\ pc' = "ask"
      /\ UNCHANGED <<site, request, offers, lookup, fetched, skipped, outcome>>
      /\ list' # None =>
           \E given \in Publications \ {None} : list' = CreateReleaseList(given, site.now - 1)
  BY DEF Publish
<1>2. ListIsValid' /\ site' \in Sites
  BY <1>1, Published DEF IInv, ListIsValid
<1>3. outcome = "none" /\ index = 0
  BY <1>1 DEF IInv, Progress
<1>4. Progress'
  BY <1>1, <1>3 DEF IInv, Progress, lookup, First
<1>5. Passed'
  BY <1>1, <1>3 DEF Passed, Behind, lookup
<1>6. OffersStand'
  <2>1. offers'.releases = <<>>
    BY <1>1 DEF IInv, OffersStand
  <2>2. ToSet(<<>>) = {} /\ <<>> \in Seq({}) /\ InOrder(<<>>)
    BY EmptySeq DEF ToSet, InOrder
  <2>3. Standing(offers)' /\ Sorted(request', offers')
    BY <2>1, <2>2 DEF Standing, AreSequences, Sorted
  <2> QED BY <2>1, <2>3 DEF OffersStand
<1> QED BY <1>1, <1>2, <1>3, <1>4, <1>5, <1>6
        DEF IInv, Examined, Installed, lookup

\* What is offered stays, with the forge and the list that it is offered from.
LEMMA OffersStay ==
  ASSUME IInv, UNCHANGED <<site, list, request, offers>>, pc \notin {"publish", "ask"},
         pc' \notin {"publish", "ask"}
  PROVE  site' \in Sites /\ ListIsValid' /\ OffersStand'
<1>1. Standing(offers) /\ Sorted(request, offers) /\ site \in Sites /\ ListIsValid
  BY DEF IInv, OffersStand
<1>2. Standing(offers)'
  BY <1>1 DEF Standing, AreSequences, Offered, Offer, Stands
<1> QED BY <1>1, <1>2 DEF OffersStand, ListIsValid

\* The lengths of what is offered are numbers.
LEMMA OffersAre ==
  ASSUME IInv
  PROVE  AreSequences(offers)
BY DEF IInv, OffersStand, Standing

LEMMA AskKeeps ==
  ASSUME IInv, Ask
  PROVE  IInv'
<1>1. /\ pc = "ask" /\ UNCHANGED <<site, list, at, accepted, unknown, fetched>>
      /\ \/ ListAccepted /\ pc' = "next" /\ index' = 0 /\ outcome' = outcome
         \/ pc' = "done" /\ index' = index /\ outcome' = "refused"
  BY DEF Ask, End
<1>2. outcome = "none" /\ index = 0 /\ fetched = 0 /\ index' = 0 /\ fetched' = 0
  BY <1>1 DEF IInv, Progress
<1>3. OffersStand'
  <2>1. offers' = CandidatesFor(Live(site), list, request', site.latest)
    BY DEF Ask
  <2>2. /\ Standing(CandidatesFor(Live(site), list, request', site.latest))
        /\ Sorted(request', CandidatesFor(Live(site), list, request', site.latest))
    BY CandidatesStand DEF IInv
  <2>3. Standing(offers') /\ Sorted(request', offers')
    BY <2>1, <2>2
  <2>4. Standing(offers)'
    BY <1>1, <2>3 DEF Standing, AreSequences, Offered, Offer, Stands
  <2> QED BY <1>1, <2>3, <2>4 DEF OffersStand
<1>4. Progress'
  <2>1. Len(offers'.releases) \in Nat /\ First' \in Nat
    BY <1>3, Lengths DEF OffersStand, Standing, First
  <2> QED BY <1>1, <1>2, <2>1, MaxBundlesAssumption DEF Progress
<1>5. Examined' /\ Passed' /\ Installed'
  BY <1>1, <1>2 DEF Examined, Passed, Behind, Installed
<1> QED BY <1>1, <1>3, <1>4, <1>5 DEF IInv, ListIsValid

LEMMA ExamineKeeps ==
  ASSUME IInv, Examine
  PROVE  IInv'
<1> DEFINE i == index + 1
<1>1. pc = "next" /\ UNCHANGED <<site, list, request, offers, skipped>>
  BY DEF Examine
<1>2. /\ outcome = "none" /\ index \in Nat /\ index <= Len(offers.releases)
      /\ fetched \in Nat /\ (index = 0 => fetched = 0)
      /\ fetched <= First \/ fetched <= MaxBundles
  BY <1>1 DEF IInv, Progress
<1>3. /\ Len(offers.releases) \in Nat /\ First \in Nat
      /\ DOMAIN offers.releases = 1..Len(offers.releases)
  BY OffersAre, Lengths DEF First
<1>4. site' \in Sites /\ ListIsValid' /\ OffersStand'
  BY <1>1, OffersStay DEF Examine, End
<1>5. \A j \in 1..index : PassedOver(offers.releases[j])
  BY <1>1, <1>2 DEF IInv, Passed, Behind
<1>6. CASE i > Len(offers.releases) /\ End("nothing") /\ UNCHANGED <<lookup, fetched>>
  <2>1. pc' = "done" /\ outcome' = "nothing" /\ UNCHANGED <<index, at, accepted, unknown, fetched>>
    BY <1>6 DEF End, lookup
  <2>2. Progress'
    BY <1>1, <1>2, <2>1 DEF Progress, First
  <2>3. Passed'
    BY <1>1, <1>5, <2>1 DEF Passed, Behind, PassedOver
  <2> QED BY <1>4, <2>1, <2>2, <2>3 DEF IInv, Examined, Installed
<1>7. CASE OverBudget(i) /\ End("stopped") /\ UNCHANGED <<lookup, fetched>>
  <2>1. pc' = "done" /\ outcome' = "stopped" /\ UNCHANGED <<index, at, accepted, unknown, fetched>>
    BY <1>7 DEF End, lookup
  <2>2. fetched + Len(offers.releases[index + 1].bundles) > MaxBundles
    BY <1>7 DEF OverBudget
  <2>3. Progress'
    BY <1>1, <1>2, <2>1, <2>2 DEF Progress, First
  <2>4. Passed'
    BY <1>1, <1>5, <2>1 DEF Passed, Behind, PassedOver
  <2> QED BY <1>4, <2>1, <2>3, <2>4 DEF IInv, Examined, Installed
<1>8. CASE /\ ~(i > Len(offers.releases)) /\ ~OverBudget(i)
           /\ index' = i /\ at' = 1 /\ accepted' = None /\ unknown' = FALSE
           /\ fetched' = fetched + Len(offers.releases[i].bundles)
           /\ pc' = "bundle" /\ outcome' = outcome
  <2> DEFINE n == Len(offers.releases[i].bundles)
  <2>1. i \in DOMAIN offers.releases
    BY <1>2, <1>3, <1>8
  <2>2. n \in Nat
    BY <2>1, OffersAre, Lengths
  <2>3. Selected' = offers.releases[i]
    BY <1>1, <1>8 DEF Selected
  <2> HIDE DEF n
  <2>4. fetched' = fetched + n /\ Len(Selected'.bundles) = n
    BY <1>8, <2>3 DEF n
  <2>5. fetched' <= First \/ fetched' <= MaxBundles
    <3>1. CASE index = 0
      <4>1. offers.releases # <<>>
        BY <1>2, <1>8, <3>1
      <4>2. n = First
        BY <3>1, <4>1, OffersAre, Lengths DEF n, First
      <4> QED BY <1>2, <2>2, <2>4, <3>1, <4>2
    <3>2. CASE index # 0
      BY <1>2, <1>8, <2>2, <2>4, <3>2, MaxBundlesAssumption DEF OverBudget, n
    <3> QED BY <3>1, <3>2
  <2>6. First' = First
    BY <1>1 DEF First
  <2>7. Progress'
    BY <1>1, <1>2, <1>3, <1>8, <2>1, <2>2, <2>4, <2>5, <2>6 DEF Progress
  <2>8. Examined'
    BY <1>8 DEF Examined
  <2>9. Passed'
    <3>1. Behind' = index
      BY <1>2, <1>8 DEF Behind
    <3> QED BY <1>1, <1>5, <3>1 DEF Passed, PassedOver
  <2>10. Installed'
    BY <1>2, <1>8 DEF Installed
  <2> QED BY <1>4, <2>7, <2>8, <2>9, <2>10 DEF IInv
<1> QED BY <1>6, <1>7, <1>8 DEF Examine

\* One bundle: it is passed over, or the run ends.
LEMMA BundleKeeps ==
  ASSUME IInv, NEW arrives \in BOOLEAN, Bundle(arrives)
  PROVE  IInv'
<1> DEFINE url == Selected.bundles[at]
           slip == site.bundle[url]
<1>1. /\ pc = "bundle" /\ at <= Len(Selected.bundles)
      /\ UNCHANGED <<site, list, request, offers, index, fetched, skipped>>
  BY DEF Bundle
<1>2. /\ outcome = "none" /\ index \in Nat /\ index > 0 /\ index <= Len(offers.releases)
      /\ at \in 1..(Len(Selected.bundles) + 1)
  BY <1>1 DEF IInv, Progress
<1>3. Len(Selected.bundles) \in Nat
  BY <1>2, OffersAre, Lengths DEF Selected
<1>4. site' \in Sites /\ ListIsValid' /\ OffersStand'
  BY <1>1, OffersStay DEF Bundle, Advance, Fail, End
<1>5. Selected' = Selected /\ First' = First
  BY <1>1 DEF Selected, First
<1>6. \/ /\ Advance(accepted, TRUE)
      \/ Fail
      \/ /\ Advance(accepted, unknown)
         /\ slip # None /\ Peek(slip) # "requested"
      \/ /\ Advance(slip, unknown)
         /\ Verifies(slip) /\ accepted = None
  BY DEF Bundle, Peek
<1>7. CASE Fail
  <2>1. /\ pc' = "done" /\ outcome' = "failed"
        /\ UNCHANGED <<at, accepted, unknown>>
    BY <1>7 DEF Fail, End
  <2>2. Progress'
    BY <1>1, <1>2, <1>5, <2>1 DEF IInv, Progress
  <2>3. Passed'
    <3>1. Behind' = Behind
      BY <1>1, <2>1 DEF Behind
    <3> QED BY <1>1, <3>1 DEF IInv, Passed, PassedOver
  <2>4. Examined' /\ Installed'
    BY <2>1 DEF Examined, Installed
  <2> QED BY <1>4, <2>2, <2>3, <2>4 DEF IInv
<1>8. CASE \E found, doubt : Advance(found, doubt)
  <2>1. at' = at + 1 /\ pc' = "bundle" /\ outcome' = "none"
    BY <1>1, <1>2, <1>8 DEF Advance
  <2>2. Progress'
    <3>1. at' \in 1..(Len(Selected'.bundles) + 1)
      BY <1>1, <1>2, <1>3, <1>5, <2>1
    <3> QED BY <1>1, <1>2, <1>5, <2>1, <3>1 DEF IInv, Progress
  <2>3. Passed'
    <3>1. Behind' = Behind
      BY <1>1, <2>1 DEF Behind
    <3> QED BY <1>1, <3>1 DEF IInv, Passed, PassedOver
  <2>4. Installed'
    BY <2>1 DEF Installed
  <2>5. Examined'
    <3> DEFINE s(j) == site.bundle[Selected.bundles[j]]
    <3>1. /\ accepted # None =>
               Verifies(accepted) /\ \E j \in 1..(at - 1) : s(j) = accepted
          /\ accepted = None /\ ~unknown =>
               \A j \in 1..(at - 1) : s(j) # None /\ Peek(s(j)) # "requested"
      BY <1>1 DEF IInv, Examined
    <3>9. at' - 1 = at /\ Selected' = Selected /\ site' = site
      BY <1>1, <1>2, <1>3, <1>5, <2>1
    <3>2. SUFFICES
            /\ accepted' # None =>
                 Verifies(accepted') /\ \E j \in 1..at : s(j) = accepted'
            /\ accepted' = None /\ ~unknown' =>
                 \A j \in 1..at : s(j) # None /\ Peek(s(j)) # "requested"
      BY <3>9 DEF Examined
    <3>3. s(at) = slip
      OBVIOUS
    <3>4. 1..at = (1..(at - 1)) \cup {at}
      BY <1>2, <1>3
    <3> HIDE DEF s, slip, url
    <3>5. CASE Advance(accepted, TRUE)
      BY <3>1, <3>4, <3>5 DEF Advance
    <3>6. CASE Advance(accepted, unknown) /\ slip # None /\ Peek(slip) # "requested"
      BY <3>1, <3>3, <3>4, <3>6 DEF Advance
    <3>7. CASE Advance(slip, unknown) /\ Verifies(slip) /\ accepted = None
      BY <3>1, <3>3, <3>4, <3>7 DEF Advance, Verifies
    <3>8. Fail => FALSE
      BY <2>1 DEF Fail, End
    <3> QED BY <1>6, <3>5, <3>6, <3>7, <3>8
  <2> QED BY <1>4, <2>2, <2>3, <2>4, <2>5 DEF IInv
<1> QED BY <1>6, <1>7, <1>8

\* A release whose last bundle was examined is one to pass over, if the search
\* goes on to the next.
LEMMA CheckKeeps ==
  ASSUME IInv, Check
  PROVE  IInv'
<1>1. /\ pc = "bundle" /\ at > Len(Selected.bundles)
      /\ UNCHANGED <<site, list, request, offers, index, at, accepted, unknown, fetched>>
  BY DEF Check, lookup
<1>2. /\ outcome = "none" /\ index \in Nat /\ index > 0 /\ index <= Len(offers.releases)
      /\ at \in 1..(Len(Selected.bundles) + 1)
  BY <1>1 DEF IInv, Progress
<1>3. /\ Len(Selected.bundles) \in Nat
      /\ DOMAIN Selected.bundles = 1..Len(Selected.bundles)
  BY <1>2, OffersAre, Lengths DEF Selected
<1>4. /\ site' \in Sites /\ ListIsValid' /\ OffersStand'
      /\ Selected' = Selected /\ First' = First
  <2>1. pc' \notin {"publish", "ask"}
    BY DEF Check, End, Skip
  <2> QED BY <1>1, <2>1, OffersStay DEF Selected, First
<1>5. \A i \in 1..(index - 1) : PassedOver(offers.releases[i])
  BY <1>1 DEF IInv, Passed, Behind
<1> DEFINE slip(j) == site.bundle[Selected.bundles[j]]
<1>6. at - 1 = Len(Selected.bundles)
  BY <1>1, <1>2, <1>3
<1>7. /\ accepted # None =>
           Verifies(accepted) /\ \E j \in DOMAIN Selected.bundles : slip(j) = accepted
      /\ accepted = None /\ ~unknown =>
           \A j \in DOMAIN Selected.bundles : slip(j) # None /\ Peek(slip(j)) # "requested"
  BY <1>1, <1>3, <1>6 DEF IInv, Examined
<1>8. \/ /\ pc' = "done" /\ outcome' = "failed"
      \/ /\ pc' = "next" /\ outcome' = outcome
         /\ accepted = None /\ ~unknown
      \/ /\ pc' = "next" /\ outcome' = outcome
         /\ accepted # None /\ CheckRelease(accepted)
         /\ accepted.host = "none" /\ offers.latest
      \/ /\ pc' = "done" /\ outcome' = "installed"
         /\ accepted # None /\ CheckRelease(accepted) /\ accepted.host = "fits"
  BY DEF Check, End, Skip
<1>9. Progress' /\ Examined'
  BY <1>1, <1>2, <1>4, <1>8 DEF IInv, Progress, Examined
<1>10. Installed'
  <2>1. outcome' = "installed" =>
          Verifies(accepted) /\ accepted.host = "fits" /\ CheckRelease(accepted)
    BY <1>2, <1>7, <1>8
  <2> QED BY <1>1, <1>4, <2>1 DEF Installed, CheckRelease
<1>11. pc' = "next" => PassedOver(Selected)
  <2> DEFINE slips == {site.bundle[url] : url \in ToSet(Selected.bundles)}
  <2>1. slips = {slip(j) : j \in DOMAIN Selected.bundles}
    BY DEF ToSet
  <2>2. CASE accepted = None /\ ~unknown
    <3>1. \A s \in slips : s # None /\ Peek(s) # "requested"
      BY <1>7, <2>1, <2>2
    <3> QED BY <3>1 DEF PassedOver
  <2>3. CASE /\ accepted # None /\ CheckRelease(accepted)
             /\ accepted.host = "none" /\ offers.latest
    <3>1. accepted \in slips /\ Verifies(accepted)
      BY <1>7, <2>1, <2>3
    <3>2. accepted.version = Selected.version
      BY <2>3 DEF CheckRelease
    <3> QED BY <2>3, <3>1, <3>2 DEF PassedOver
  <2> QED BY <1>8, <2>2, <2>3
<1>12. Passed'
  <2>1. pc' = "next" => Behind' = index
    BY <1>1, <1>2, <1>8 DEF Behind
  <2>2. pc' = "done" => Behind' = index - 1
    BY <1>1, <1>2, <1>8 DEF Behind
  <2>3. pc' = "next" => \A i \in 1..index : PassedOver(offers.releases[i])
    BY <1>2, <1>5, <1>11 DEF Selected
  <2>4. \A i \in 1..Behind' : PassedOver(offers.releases[i])
    BY <1>5, <1>8, <2>1, <2>2, <2>3
  <2> SUFFICES ASSUME NEW i \in 1..Behind' PROVE PassedOver(offers.releases[i])'
    BY DEF Passed
  <2>5. PassedOver(offers.releases[i])
    BY <2>4
  <2> QED BY <1>1, <2>5 DEF PassedOver
<1> QED BY <1>4, <1>9, <1>10, <1>12 DEF IInv

LEMMA NextKeeps == IInv /\ [Next]_vars => IInv'
<1> SUFFICES ASSUME IInv, [Next]_vars PROVE IInv'
  OBVIOUS
<1>2. CASE Publish
  BY <1>2, PublishKeeps
<1>3. CASE Ask
  BY <1>3, AskKeeps
<1>4. CASE Examine
  BY <1>4, ExamineKeeps
<1>5. CASE Bundles
  BY <1>5, BundleKeeps DEF Bundles
<1>6. CASE Check
  BY <1>6, CheckKeeps
<1>7. CASE UNCHANGED vars
  <2>1. Behind' = Behind /\ Selected' = Selected /\ First' = First
    BY <1>7 DEF vars, lookup, Behind, Selected, First
  <2>2. site' \in Sites /\ ListIsValid' /\ OffersStand' /\ Progress'
    <3>1. site' \in Sites /\ ListIsValid' /\ Progress'
      BY <1>7, <2>1 DEF vars, lookup, IInv, ListIsValid, Progress
    <3>2. Standing(offers) /\ Sorted(request, offers)
      BY DEF IInv, OffersStand
    <3>3. Standing(offers)'
      BY <1>7, <3>2 DEF vars, Standing, AreSequences, Offered, Offer, Stands
    <3>4. OffersStand'
      BY <1>7, <3>2, <3>3 DEF vars, IInv, OffersStand
    <3> QED BY <3>1, <3>4
  <2>3. Examined' /\ Installed'
    BY <1>7, <2>1 DEF vars, lookup, IInv, Examined, Installed, CheckRelease
  <2>4. Passed'
    BY <1>7, <2>1 DEF vars, lookup, IInv, Passed, PassedOver
  <2> QED BY <2>2, <2>3, <2>4 DEF IInv
<1> QED BY <1>2, <1>3, <1>4, <1>5, <1>6, <1>7 DEF Next

-----------------------------------------------------------------------------
(* The results.                                                            *)

\* Merging, answering and searching (candidates_with_latest, run_in and
\* Lookup::bundles) keep the inductive invariant.
THEOREM Invariance == Spec => []IInv
<1>1. Init => IInv
  BY InitInv
<1>2. IInv /\ [Next]_vars => IInv'
  BY NextKeeps
<1> QED BY <1>1, <1>2, PTL DEF Spec

\* What a user is offered stands, nothing of it is withdrawn, and the versions
\* descend; on a latest request after the first, and without prereleases.
SoundOffers ==
    /\ \A r \in ToSet(offers.releases) : Stands(r.version, r.bundles) /\ ~Withdrawn(r.version)
    /\ Sorted(request, offers)

\* candidates_with_latest: "signed list entries always decide withdrawal, tag,
\* URL", "an explicit version never revives a yank": whatever the forge has,
\* the list says and the user asks for, only what stands is offered, in order.
THEOREM OffersAreSound == Spec => []SoundOffers
<1>1. IInv => SoundOffers
  <2> SUFFICES ASSUME IInv PROVE SoundOffers
    OBVIOUS
  <2>1. /\ \A r \in ToSet(offers.releases) : Stands(r.version, r.bundles)
        /\ Sorted(request, offers)
    BY DEF IInv, OffersStand, Standing, Offered, Offer
  <2>2. \A r \in ToSet(offers.releases) : ~Withdrawn(r.version)
    BY <2>1, StandingIsNotWithdrawn DEF IInv
  <2> QED BY <2>1, <2>2 DEF SoundOffers
<1> QED BY <1>1, Invariance, PTL

\* Of what is offered when the latest is asked for nothing is missing.
AllIsOffered ==
    pc \notin {"publish", "ask"} /\ request = None =>
        /\ \A r \in ToSet(Live(site)) :
             /\ r.bundles # <<>> /\ r.version.rc = 0
             /\ \A e \in ToSet(Entries(list)) : e.version # r.version /\ e.tag # r.tag
             => \E o \in ToSet(offers.releases) : o.version = r.version /\ o.bundles = r.bundles
        /\ OwnTags => LatestOffers

\* What is offered is the answer to the question that was asked.
Answered ==
    pc \notin {"publish", "ask"} =>
        request \in Requests /\ offers = CandidatesFor(Live(site), list, request, site.latest)

LEMMA AnswersStay == Spec => []Answered
<1>1. Init => Answered
  BY DEF Init, Answered
<1>2. Answered /\ [Next]_vars => Answered'
  <2> SUFFICES ASSUME Answered, [Next]_vars PROVE Answered'
    OBVIOUS
  <2>1. CASE Publish
    BY <2>1 DEF Publish, Answered
  <2>2. CASE Ask
    BY <2>2 DEF Ask, Answered
  <2>3. CASE Examine \/ Bundles \/ Check
    <3>1. UNCHANGED <<site, list, request, offers>> /\ pc \notin {"publish", "ask"}
      BY <2>3 DEF Examine, Bundles, Bundle, Check
    <3> QED BY <3>1 DEF Answered
  <2>4. CASE UNCHANGED vars
    BY <2>4 DEF vars, Answered
  <2> QED BY <2>1, <2>2, <2>3, <2>4 DEF Next
<1> QED BY <1>1, <1>2, PTL DEF Spec

\* candidates_with_latest: "Another forge release with the same version, such
\* as a monorepo sibling whose tag carries the repository-name prefix, stays a
\* candidate after the one chosen above": on a latest request every release
\* of the forge that has bundles is offered, unless an entry decides on it or it
\* is a prerelease; and if no entry names a tag that another has, what is offered
\* is just what stands.
THEOREM NothingIsLost == Spec => []AllIsOffered
<1>1. IInv /\ Answered => AllIsOffered
  <2> SUFFICES ASSUME IInv, Answered, pc \notin {"publish", "ask"}, request = None
               PROVE  AllIsOffered
    BY DEF AllIsOffered
  <2> DEFINE Offers(v, bundles) ==
               \E o \in ToSet(offers.releases) : o.version = v /\ o.bundles = bundles
             standing == {r \in ToSet(Live(site)) : Stands(r.version, r.bundles)}
             entries == {e \in ToSet(Entries(list)) : ~e.yanked}
             left == {<<r.version, r.bundles>> : r \in ToSet(offers.releases)}
             right == {<<r.version, r.bundles>> : r \in {x \in standing : x.version.rc = 0}}
                      \cup {<<e.version, <<e.packslip>>>> : e \in {x \in entries : x.version.rc = 0}}
  <2>1. ListIsValid /\ site \in Sites
    BY DEF IInv
  <2>2. ASSUME NEW v, NEW bundles, Due(v, bundles), v.rc = 0 PROVE Offers(v, bundles)
    BY <2>1, <2>2, LatestHasAll DEF Answered
  <2> HIDE DEF Offers
  <2>3. ASSUME NEW r \in ToSet(Live(site)), r.bundles # <<>>, r.version.rc = 0,
               \A e \in ToSet(Entries(list)) : e.version # r.version /\ e.tag # r.tag
        PROVE  Offers(r.version, r.bundles)
    <3>1. Due(r.version, r.bundles)
      BY <2>3 DEF Due, ForgeOf
    <3> QED BY <2>2, <2>3, <3>1
  <2>4. ASSUME OwnTags PROVE LatestOffers
    <3>1. \A v, bundles : Stands(v, bundles) => Due(v, bundles)
      BY <2>4 DEF Stands, Due, ForgeOf, OwnTags
    <3>2. \A r \in standing : r.version.rc = 0 => Offers(r.version, r.bundles)
      BY <2>2, <3>1
    <3>3. \A e \in entries : e.version.rc = 0 => Offers(e.version, <<e.packslip>>)
      <4>1. \A e \in entries : Stands(e.version, <<e.packslip>>)
        BY DEF Stands
      <4> QED BY <2>2, <3>1, <4>1
    <3>4. \A o \in ToSet(offers.releases) :
            /\ Stands(o.version, o.bundles)
            /\ o.version.rc = 0
      BY DEF IInv, OffersStand, Standing, Offered, Offer, Sorted
    <3>5. ASSUME NEW o \in ToSet(offers.releases) PROVE <<o.version, o.bundles>> \in right
      <4>1. CASE \E e \in entries : e.version = o.version /\ o.bundles = <<e.packslip>>
        BY <3>4, <4>1
      <4>2. CASE \E r \in ToSet(Live(site)) : r.version = o.version /\ r.bundles = o.bundles
        <5>1. PICK r \in ToSet(Live(site)) : r.version = o.version /\ r.bundles = o.bundles
          BY <4>2
        <5>2. r \in standing /\ r.version.rc = 0
          BY <3>4, <5>1
        <5> HIDE DEF standing
        <5> QED BY <5>1, <5>2
      <4> QED BY <3>4, <4>1, <4>2 DEF Stands
    <3>6. right \subseteq left
      <4>1. \A r \in standing : r.version.rc = 0 => <<r.version, r.bundles>> \in left
        BY <3>2 DEF Offers
      <4>2. \A e \in entries : e.version.rc = 0 => <<e.version, <<e.packslip>>>> \in left
        BY <3>3 DEF Offers
      <4> HIDE DEF left, standing, entries
      <4> QED BY <4>1, <4>2
    <3>7. left \subseteq right
      <4> HIDE DEF right
      <4> QED BY <3>5
    <3> QED BY <3>6, <3>7 DEF LatestOffers
  <2> QED BY <2>3, <2>4 DEF AllIsOffered, Offers
<1> QED BY <1>1, Invariance, AnswersStay, PTL

\* candidates_with_latest: "signed list entries always decide withdrawal, tag,
\* URL, and vendor recommendation": the whole answer is as it is defined without
\* merging. A latest request is offered just what stands and is no prerelease,
\* the recommended release first, or it is reported as passed over; another
\* request only what was asked for, and it fails only if nothing of the kind
\* stands, or for an entry that is withdrawn. All this where no entry names a tag
\* that another has: of two such entries only one can decide.
THEOREM OffersAreAsDefined == Spec => [](OwnTags => OffersAsDefined)
<1>1. IInv /\ Answered /\ AllIsOffered => (OwnTags => OffersAsDefined)
  <2> SUFFICES ASSUME IInv, Answered, AllIsOffered, OwnTags PROVE OffersAsDefined
    OBVIOUS
  <2>1. ListIsValid /\ site \in Sites /\ AreSequences(offers)
    BY OffersAre DEF IInv
  <2> SUFFICES ASSUME pc \in {"next", "done"}
               PROVE  IF request = None THEN LatestAsDefined ELSE RequestAsDefined
    BY <2>1 DEF OffersAsDefined
  <2>2. request \in Requests /\ offers = CandidatesFor(Live(site), list, request, site.latest)
    BY DEF Answered
  <2>3. CASE request = None
    <3>1. LatestOffers
      BY <2>3 DEF AllIsOffered
    <3>2. LET first == {i \in DOMAIN offers.releases : Recommended(offers.releases[i])}
          IN  /\ first \subseteq {1}
              /\ InOrder(IF first = {1} THEN Tail(offers.releases) ELSE offers.releases)
              /\ first = {} /\ offers.error = None /\ Named => offers.skipped # <<>>
      BY <2>1, <2>2, <2>3, LatestIsFirst
    <3> QED BY <2>3, <3>1, <3>2, Zenon DEF LatestAsDefined
  <2>4. CASE request # None
    <3>1. IsRequest(request)
      BY <2>2, <2>4, RequestsComplete DEF IsRequest
    <3>2. Fitting(request, offers)
      BY <2>1, <2>2, <2>4, <3>1, RequestFits
    <3>3. InOrder(offers.releases) /\ \A r \in ToSet(offers.releases) : Stands(r.version, r.bundles)
      BY <2>4 DEF IInv, OffersStand, Standing, Offered, Offer, Sorted
    <3>4. RequestAsDefined
      BY <3>2, <3>3, Zenon DEF RequestAsDefined, Fitting, NothingMeant
    <3> QED BY <2>4, <3>4
  <2> QED BY <2>3, <2>4
<1> QED BY <1>1, Invariance, AnswersStay, NothingIsLost, PTL

\* MAX_BUNDLES: whatever the budget and the candidates, no more bundles are
\* fetched than the budget or the first candidate has, and a search that stops
\* would have gone over it.
THEOREM SearchIsBounded == Spec => []FetchesBounded
<1>1. IInv => FetchesBounded
  <2> SUFFICES ASSUME IInv PROVE FetchesBounded
    OBVIOUS
  <2>1. First \in Nat /\ fetched \in Nat
    BY OffersAre, Lengths DEF First, IInv, Progress
  <2>2. fetched <= First \/ fetched <= MaxBundles
    BY DEF IInv, Progress
  <2>3. outcome = "stopped" =>
          fetched + Len(offers.releases[index + 1].bundles) > MaxBundles
    BY DEF IInv, Progress
  <2>4. fetched <= (IF First > MaxBundles THEN First ELSE MaxBundles)
    BY <2>1, <2>2, MaxBundlesAssumption
  <2> QED BY <2>3, <2>4 DEF FetchesBounded, First, FirstOf
<1> QED BY <1>1, Invariance, PTL

\* install_in: what is installed is genuine, of the version that was selected,
\* not withdrawn, and the bytes that the list has; and no release that would
\* have come first is passed over for another reason than that it has no bundle
\* of the project or, on a latest request, nothing for this host.
THEOREM RightReleaseIsInstalled == Spec => []RightRelease
<1>1. IInv => RightRelease
  <2> SUFFICES ASSUME IInv PROVE RightRelease
    OBVIOUS
  <2>1. ASSUME outcome = "installed"
        PROVE  /\ Verifies(accepted) /\ accepted.host = "fits"
               /\ accepted.version = Selected.version /\ ~Withdrawn(accepted.version)
               /\ \A e \in ToSet(Entries(list)) :
                    e.version = accepted.version => list.digest[e.packslip] = accepted
    <3>1. /\ Verifies(accepted) /\ accepted.host = "fits"
          /\ CheckRelease(accepted)
      BY <2>1 DEF IInv, Installed
    <3>2. accepted.version = Selected.version
      BY <3>1 DEF CheckRelease
    <3>3. pc = "done" /\ index \in Nat /\ index > 0 /\ index <= Len(offers.releases)
      BY <2>1 DEF IInv, Progress
    <3>4. index \in DOMAIN offers.releases
      BY <3>3, OffersAre, Lengths
    <3>5. Stands(Selected.version, Selected.bundles)
      BY <3>4 DEF IInv, OffersStand, Standing, Offered, Offer, Selected, ToSet
    <3>6. ~Withdrawn(Selected.version)
      BY <3>5, StandingIsNotWithdrawn DEF IInv
    <3>7. ASSUME NEW e \in ToSet(Entries(list)), e.version = accepted.version
          PROVE  list.digest[e.packslip] = accepted
      <4>1. DigestOf(list, e.packslip) = accepted
        BY <3>1, <3>2, <3>7 DEF CheckRelease
      <4>2. accepted # None
        BY <3>1 DEF Verifies
      <4> QED BY <4>1, <4>2 DEF DigestOf
    <3> QED BY <3>1, <3>2, <3>6, <3>7
  <2>2. ASSUME outcome \in {"installed", "stopped", "nothing"}, pc = "done"
        PROVE  \A i \in 1..(IF outcome = "installed" THEN index - 1 ELSE index) :
                 PassedOver(offers.releases[i])
    <3>1. Behind = IF outcome = "installed" THEN index - 1 ELSE index
      BY <2>2 DEF Behind
    <3> QED BY <3>1 DEF IInv, Passed
  <2> QED BY <2>1, <2>2 DEF RightRelease
<1> QED BY <1>1, Invariance, PTL
=============================================================================
