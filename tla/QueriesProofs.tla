--------------------------- MODULE QueriesProofs ---------------------------
(***************************************************************************)
(* Every algorithm of the queries computes what its reference definition   *)
(* says, for queries of any size: the loops are functions over the number  *)
(* of their turns, and what holds after every turn is proved by induction  *)
(* over that number.                                                       *)
(***************************************************************************)
EXTENDS Queries, SequenceTheorems, FiniteSetTheorems, WellFoundedInduction, TLAPS

-----------------------------------------------------------------------------
(* Induction, and functions that are defined by it.                        *)

\* A set of numbers that has 0, and with every number the next, has them all.
LEMMA SetInduction ==
    ASSUME NEW S, 0 \in S, \A n \in Nat : n \in S => n + 1 \in S
    PROVE  Nat \subseteq S
  <1>1. SUFFICES ASSUME Nat \ S # {} PROVE FALSE
    OBVIOUS
  <1>2. IsWellFoundedOn(OpToRel(<, Nat), Nat)
    BY NatLessThanWellFounded
  <1>3. PICK x \in Nat \ S : \A y \in Nat \ S : ~ (<<y, x>> \in OpToRel(<, Nat))
    BY <1>1, <1>2, WFMin
  <1>4. x # 0 /\ x - 1 \in Nat /\ x - 1 \notin S
    OBVIOUS
  <1>5. <<x - 1, x>> \in OpToRel(<, Nat)
    BY <1>4 DEF OpToRel
  <1> QED BY <1>3, <1>4, <1>5

\* The same, up to a bound.
LEMMA BoundedInduction ==
    ASSUME NEW N \in Nat, NEW S, 0 \in S, \A n \in 1..N : n - 1 \in S => n \in S
    PROVE  0..N \subseteq S
  <1> DEFINE T == {n \in Nat : n \in 0..N => n \in S}
  <1>1. 0 \in T
    OBVIOUS
  <1>2. ASSUME NEW n \in Nat, n \in T PROVE n + 1 \in T
    <2>1. CASE n + 1 \in 0..N
      <3>1. n + 1 \in 1..N /\ (n + 1) - 1 = n /\ n \in 0..N
        BY <2>1
      <3> QED BY <1>2, <3>1
    <2> QED BY <2>1
  <1>3. Nat \subseteq T
    <2> HIDE DEF T
    <2> QED BY <1>1, <1>2, SetInduction
  <1> QED BY <1>3

\* A set of numbers has a least one.
LEMMA LeastNumber ==
    ASSUME NEW S \in SUBSET Nat, S # {}
    PROVE  Min(S) \in S /\ \A y \in S : Min(S) <= y
  <1> DEFINE T == {n \in Nat : \A m \in S : n <= m}
  <1>1. \E x \in S : \A y \in S : x <= y
    <2> SUFFICES ASSUME ~ \E x \in S : \A y \in S : x <= y PROVE FALSE
      OBVIOUS
    <2>1. 0 \in T
      OBVIOUS
    <2>2. ASSUME NEW n \in Nat, n \in T PROVE n + 1 \in T
      BY <2>2
    <2>3. Nat \subseteq T
      <3> HIDE DEF T
      <3> QED BY <2>1, <2>2, SetInduction
    <2>4. PICK m \in S : TRUE
      OBVIOUS
    <2>5. m + 1 \in T
      BY <2>3
    <2> QED BY <2>5
  <1> QED BY <1>1 DEF Min

\* f is what recursion makes of a first value and a step.
Recursion(f, a, g) == f[0] = a /\ \A k \in Nat : f[k + 1] = g[<<k + 1, f[k]>>]

Loop(f, N, a, g) == f[0] = a /\ \A k \in 1..N : f[k] = g[<<k, f[k - 1]>>]

\* A function defined by recursion over the numbers exists, when its step is a
\* function.
LEMMA IterationOverNat ==
    ASSUME NEW A, NEW a \in A, NEW g \in [Nat \X A -> A]
    PROVE  \E f \in [Nat -> A] : Recursion(f, a, g)
  <1> DEFINE IsUpTo(m, h) == /\ h \in [Nat -> A] /\ h[0] = a
                             /\ \A k \in Nat : k < m => h[k + 1] = g[<<k + 1, h[k]>>]
             S == {m \in Nat : \E h : IsUpTo(m, h)}
  <1>1. 0 \in S
    <2>1. IsUpTo(0, [k \in Nat |-> a])
      OBVIOUS
    <2> QED BY <2>1
  <1>2. ASSUME NEW m \in Nat, m \in S PROVE m + 1 \in S
    <2>1. PICK h : IsUpTo(m, h)
      BY <1>2
    <2> DEFINE hh == [k \in Nat |-> IF k = m + 1 THEN g[<<m + 1, h[m]>>] ELSE h[k]]
    <2>2. <<m + 1, h[m]>> \in Nat \X A
      BY <2>1
    <2>3. hh \in [Nat -> A] /\ hh[0] = a
      BY <2>1, <2>2
    <2>4. ASSUME NEW k \in Nat, k < m + 1 PROVE hh[k + 1] = g[<<k + 1, hh[k]>>]
      <3>1. CASE k = m
        BY <3>1
      <3>2. CASE k # m
        <4>1. k < m /\ k # m + 1 /\ k + 1 # m + 1 /\ k + 1 \in Nat
          BY <2>4, <3>2
        <4>2. hh[k] = h[k] /\ hh[k + 1] = h[k + 1]
          BY <4>1
        <4> QED BY <2>1, <4>1, <4>2
      <3> QED BY <3>1, <3>2
    <2> HIDE DEF hh
    <2> QED BY <2>3, <2>4
  <1>3. Nat \subseteq S
    <2> HIDE DEF S
    <2> QED BY <1>1, <1>2, SetInduction
  <1> DEFINE upTo == [m \in Nat |-> CHOOSE h : IsUpTo(m, h)]
             f == [m \in Nat |-> upTo[m][m]]
  <1>4. ASSUME NEW m \in Nat PROVE IsUpTo(m, upTo[m])
    <2>1. \E h : IsUpTo(m, h)
      BY <1>3
    <2> HIDE DEF IsUpTo
    <2> QED BY <2>1
  <1> HIDE DEF upTo
  <1>5. ASSUME NEW m \in Nat PROVE upTo[m + 1][m] = upTo[m][m]
    <2> DEFINE T == {k \in Nat : k <= m => upTo[m + 1][k] = upTo[m][k]}
    <2>1. IsUpTo(m, upTo[m]) /\ IsUpTo(m + 1, upTo[m + 1])
      <3> HIDE DEF IsUpTo
      <3> QED BY <1>4
    <2>2. 0 \in T
      BY <2>1
    <2>3. ASSUME NEW k \in Nat, k \in T PROVE k + 1 \in T
      <3> SUFFICES ASSUME k + 1 <= m PROVE upTo[m + 1][k + 1] = upTo[m][k + 1]
        OBVIOUS
      <3>1. k < m /\ k < m + 1 /\ upTo[m + 1][k] = upTo[m][k]
        BY <2>3
      <3> QED BY <2>1, <3>1
    <2>4. Nat \subseteq T
      <3> HIDE DEF T
      <3> QED BY <2>2, <2>3, SetInduction
    <2> QED BY <2>4
  <1>6. f \in [Nat -> A] /\ f[0] = a
    BY <1>4
  <1>7. ASSUME NEW k \in Nat PROVE f[k + 1] = g[<<k + 1, f[k]>>]
    <2>1. f[k + 1] = upTo[k + 1][k + 1] /\ f[k] = upTo[k][k]
      OBVIOUS
    <2>2. upTo[k + 1][k + 1] = g[<<k + 1, upTo[k + 1][k]>>]
      <3>1. k + 1 \in Nat /\ k < k + 1
        OBVIOUS
      <3>2. IsUpTo(k + 1, upTo[k + 1])
        BY <1>4, <3>1
      <3> QED BY <3>1, <3>2
    <2> QED BY <2>1, <2>2, <1>5
  <1> HIDE DEF f
  <1>8. Recursion(f, a, g)
    BY <1>6, <1>7 DEF Recursion
  <1> QED BY <1>6, <1>8

\* The same over the numbers up to a bound, as the loops of the model are written.
LEMMA Iteration ==
    ASSUME NEW A, NEW N \in Nat, NEW a \in A, NEW g \in [(1..N) \X A -> A]
    PROVE  \E f \in [0..N -> A] : Loop(f, N, a, g)
  <1> DEFINE gg == [p \in Nat \X A |-> IF p[1] \in 1..N THEN g[p] ELSE p[2]]
  <1>1. gg \in [Nat \X A -> A]
    OBVIOUS
  <1>2. \A k \in 1..N : \A x \in A : gg[<<k, x>>] = g[<<k, x>>]
    OBVIOUS
  <1> HIDE DEF gg
  <1>3. \E h \in [Nat -> A] : Recursion(h, a, gg)
    BY <1>1, IterationOverNat
  <1>4. PICK h \in [Nat -> A] : h[0] = a /\ \A k \in Nat : h[k + 1] = gg[<<k + 1, h[k]>>]
    BY <1>3 DEF Recursion
  <1> DEFINE f == [k \in 0..N |-> h[k]]
  <1>5. f \in [0..N -> A] /\ f[0] = a
    BY <1>4
  <1>6. ASSUME NEW k \in 1..N PROVE f[k] = g[<<k, f[k - 1]>>]
    <2>1. k - 1 \in Nat /\ (k - 1) + 1 = k /\ k - 1 \in 0..N /\ k \in 0..N
      OBVIOUS
    <2>2. h[k] = gg[<<k, h[k - 1]>>] /\ h[k - 1] \in A
      BY <1>4, <2>1
    <2> QED BY <1>2, <2>1, <2>2
  <1> HIDE DEF f
  <1>7. Loop(f, N, a, g)
    BY <1>5, <1>6 DEF Loop
  <1> QED BY <1>5, <1>7

-----------------------------------------------------------------------------
(* Results gathered in the order of their addresses.                       *)

\* Results with an address.
HasAddress(x) == x.block \in Nat /\ x.place \in Nat
Addressed(S) == \A x \in S : HasAddress(x)

\* Addresses are in order.
LEMMA BeforeOrder ==
    ASSUME NEW x, HasAddress(x), NEW y, HasAddress(y), NEW z, HasAddress(z)
    PROVE  /\ ~Before(x, x)
           /\ Before(x, y) /\ ~Before(z, y) => Before(x, z)
           /\ Before(x, y) /\ Before(y, z) => Before(x, z)
  BY DEF HasAddress, Before

\* "found" is the first "limit" of what there is before an address.
Gathered(found, all, limit, here) ==
    /\ \A i, j \in DOMAIN found : i < j => Before(found[i], found[j])
    /\ \A i \in DOMAIN found : found[i] \in all /\ Before(found[i], here)
    /\ Len(found) <= limit
    /\ \A x \in all : Before(x, here) =>
         \/ \E i \in DOMAIN found : found[i] = x
         \/ Len(found) = limit /\ \A i \in DOMAIN found : Before(found[i], x)

\* With nothing between two addresses, or no room for more, the search goes on.
LEMMA GatherOn ==
    ASSUME NEW all, Addressed(all), NEW limit \in Nat, NEW found \in Seq(all),
           NEW here, HasAddress(here), NEW there, HasAddress(there), ~Before(there, here),
           Gathered(found, all, limit, here),
           Len(found) >= limit \/ \A x \in all : Before(x, there) => Before(x, here)
    PROVE  Gathered(found, all, limit, there)
  <1>1. DOMAIN found = 1..Len(found) /\ Len(found) \in Nat
    OBVIOUS
  <1>2. \A i \in DOMAIN found : found[i] \in all /\ Before(found[i], here) /\ Before(found[i], there)
    BY <1>1, BeforeOrder DEF Gathered, Addressed
  <1>3. ASSUME NEW x \in all, Before(x, there)
        PROVE  \/ \E i \in DOMAIN found : found[i] = x
               \/ Len(found) = limit /\ \A i \in DOMAIN found : Before(found[i], x)
    <2>1. CASE Before(x, here)
      BY <2>1 DEF Gathered
    <2>2. CASE ~Before(x, here)
      <3>1. Len(found) = limit
        <4>1. Len(found) >= limit
          BY <1>3, <2>2
        <4>2. Len(found) <= limit
          BY DEF Gathered
        <4>3. \A n \in Nat : n >= limit /\ n <= limit => n = limit
          OBVIOUS
        <4> QED BY <1>1, <4>1, <4>2, <4>3
      <3>2. \A i \in DOMAIN found : Before(found[i], x)
        BY <1>2, <2>2, BeforeOrder DEF Addressed
      <3> QED BY <3>1, <3>2
    <2> QED BY <2>1, <2>2
  <1> QED BY <1>2, <1>3 DEF Gathered

\* What is at the address is the next result, if there is room.
LEMMA GatherOne ==
    ASSUME NEW all, Addressed(all), NEW limit \in Nat, NEW found \in Seq(all),
           NEW here, HasAddress(here), NEW there, HasAddress(there), Before(here, there),
           Gathered(found, all, limit, here),
           NEW x \in all, x.block = here.block, x.place = here.place,
           \A y \in all : Before(y, there) => y = x \/ Before(y, here)
    PROVE  Added(found, x, limit) \in Seq(all) /\ Gathered(Added(found, x, limit), all, limit, there)
  <1>1. CASE Len(found) < limit
    <2> DEFINE more == Append(found, x)
    <2>1. /\ more \in Seq(all) /\ Len(more) = Len(found) + 1
          /\ DOMAIN more = 1..(Len(found) + 1) /\ DOMAIN found = 1..Len(found) /\ Len(found) \in Nat
          /\ \A i \in DOMAIN found : more[i] = found[i]
          /\ more[Len(found) + 1] = x
      OBVIOUS
    <2> HIDE DEF more
    <2>2. \A i \in DOMAIN found : Before(found[i], x) /\ Before(found[i], there)
      <3>1. HasAddress(x) /\ ~Before(x, here)
        BY DEF Addressed, HasAddress, Before
      <3>2. \A i \in DOMAIN found : found[i] \in all /\ Before(found[i], here)
        BY DEF Gathered
      <3> QED BY <3>1, <3>2, BeforeOrder DEF Addressed
    <2>3. Before(x, there)
      BY DEF Before
    <2>4. \A i, j \in DOMAIN more : i < j => Before(more[i], more[j])
      <3>1. \A i, j \in DOMAIN found : i < j => Before(found[i], found[j])
        BY DEF Gathered
      <3>2. ASSUME NEW i \in DOMAIN more, NEW j \in DOMAIN more, i < j
            PROVE  Before(more[i], more[j])
        <4>1. i \in DOMAIN found
          BY <2>1, <3>2
        <4>2. CASE j \in DOMAIN found
          BY <2>1, <3>1, <3>2, <4>1, <4>2
        <4>3. CASE j \notin DOMAIN found
          <5>1. more[j] = x
            BY <2>1, <4>3
          <5> QED BY <2>1, <2>2, <4>1, <5>1
        <4> QED BY <4>2, <4>3
      <3> QED BY <3>2
    <2>5. \A i \in DOMAIN more : more[i] \in all /\ Before(more[i], there)
      BY <2>1, <2>2, <2>3
    <2>6. ASSUME NEW y \in all, Before(y, there)
          PROVE  \/ \E i \in DOMAIN more : more[i] = y
                 \/ Len(more) = limit /\ \A i \in DOMAIN more : Before(more[i], y)
      <3>1. CASE y = x
        BY <2>1, <3>1
      <3>2. CASE Before(y, here)
        <4>1. \E i \in DOMAIN found : found[i] = y
          BY <1>1, <3>2 DEF Gathered
        <4> QED BY <2>1, <4>1
      <3> QED BY <2>6, <3>1, <3>2
    <2>7. Added(found, x, limit) = more /\ Len(more) <= limit
      BY <1>1, <2>1 DEF Added, more
    <2>8. Gathered(more, all, limit, there)
      BY <2>4, <2>5, <2>6, <2>7 DEF Gathered
    <2> QED BY <2>1, <2>7, <2>8
  <1>2. CASE ~(Len(found) < limit)
    <2>1. Len(found) >= limit
      BY <1>2
    <2>2. ~Before(there, here)
      BY DEF Before, HasAddress
    <2> QED BY <1>2, <2>1, <2>2, GatherOn DEF Added
  <1> QED BY <1>1, <1>2

\* When all there is has been passed, that is the answer.
LEMMA GatheredIsFirst ==
    ASSUME NEW all, Addressed(all), NEW limit \in Nat, NEW found \in Seq(all),
           NEW here, HasAddress(here), Gathered(found, all, limit, here),
           \A x \in all : Before(x, here)
    PROVE  FirstOf(found, all, limit)
  <1>1. DOMAIN found = 1..Len(found) /\ Len(found) \in Nat
    OBVIOUS
  <1>2. ASSUME Len(found) # limit PROVE Len(found) = Cardinality(all)
    <2>1. \A i, j \in 1..Len(found) : found[i] = found[j] => i = j
      <3>1. \A i, j \in 1..Len(found) : i < j => Before(found[i], found[j])
        BY <1>1 DEF Gathered
      <3>2. \A i \in 1..Len(found) : ~Before(found[i], found[i])
        BY <1>1, BeforeOrder DEF Gathered, Addressed
      <3> QED BY <1>1, <3>1, <3>2
    <2>2. \A x \in all : \E i \in 1..Len(found) : found[i] = x
      BY <1>1, <1>2 DEF Gathered
    <2>3. found \in Bijection(1..Len(found), all)
      BY <1>1, <2>1, <2>2 DEF Bijection, Injection, Surjection, IsInjective
    <2>4. IsFiniteSet(1..Len(found)) /\ Cardinality(1..Len(found)) = Len(found)
      <3>1. ASSUME NEW n \in Nat PROVE IsFiniteSet(1..n) /\ Cardinality(1..n) = n
        BY FS_Interval
      <3> QED BY <1>1, <3>1
    <2> QED BY <2>3, <2>4, FS_Bijection DEF ExistsBijection
  <1> QED BY <1>2 DEF Gathered, FirstOf

-----------------------------------------------------------------------------
(* Byte patterns: FindBytes.                                               *)

\* The pattern is there.
IsPlace(bytes, needle, i) ==
    i + Len(needle) - 1 <= Len(bytes) /\ SubSeq(bytes, i, i + Len(needle) - 1) = needle

\* Memory.findBytes returns the first place from an address on, 0 when there is none.
LEMMA FirstAtIsFirst ==
    ASSUME NEW bytes \in Seq(Nat), NEW needle, NEW from \in Nat \ {0}
    PROVE  LET first == FirstAt(bytes, needle, from)
           IN /\ first \in 0..Len(bytes)
              /\ first = 0 => \A i \in from..Len(bytes) : ~IsPlace(bytes, needle, i)
              /\ first # 0 => /\ first >= from /\ IsPlace(bytes, needle, first)
                              /\ \A i \in from..Len(bytes) : IsPlace(bytes, needle, i) => first <= i
  <1> DEFINE places == {i \in from..Len(bytes) : IsPlace(bytes, needle, i)}
  <1>1. FirstAt(bytes, needle, from) = IF places = {} THEN 0 ELSE Min(places)
    BY DEF FirstAt, IsPlace
  <1>2. places \in SUBSET Nat /\ Len(bytes) \in Nat
    OBVIOUS
  <1>3. CASE places = {}
    BY <1>1, <1>2, <1>3
  <1>4. CASE places # {}
    <2>1. Min(places) \in places /\ \A i \in places : Min(places) <= i
      BY <1>2, <1>4, LeastNumber
    <2>2. FirstAt(bytes, needle, from) = Min(places)
      BY <1>1, <1>4
    <2>3. FirstAt(bytes, needle, from) \in from..Len(bytes)
      BY <2>1, <2>2
    <2> QED BY <1>2, <2>1, <2>2, <2>3
  <1> QED BY <1>3, <1>4

Found == [block : Nat, place : Nat]

\* The turns of the loop over a block.
FindLoop(turn, found, b, bytes, needle, limit) ==
    /\ turn \in [0..Len(bytes) -> [found : Seq(Found), at : 0..Len(bytes)]]
    /\ turn[0] = [found |-> found, at |-> FirstAt(bytes, needle, 1)]
    /\ \A n \in 1..Len(bytes) : turn[n] = FindTurn(turn[n - 1], b, bytes, needle, limit)
    /\ FindInBlock(found, b, bytes, needle, limit) = turn[Len(bytes)].found

\* The loop over a block has its turns.
LEMMA FindTurns ==
    ASSUME NEW found \in Seq(Found), NEW b \in Nat, NEW bytes \in Seq(Nat), NEW needle,
           NEW limit \in Nat
    PROVE  \E turn : FindLoop(turn, found, b, bytes, needle, limit)
  <1> DEFINE N == Len(bytes)
             S == [found : Seq(Found), at : 0..N]
             a == [found |-> found, at |-> FirstAt(bytes, needle, 1)]
             step == [p \in (1..N) \X S |-> FindTurn(p[2], b, bytes, needle, limit)]
             Turns1(f) == f = [n \in 0..N |-> IF n = 0 THEN a
                                              ELSE FindTurn(f[n - 1], b, bytes, needle, limit)]
  <1>0. N \in Nat
    OBVIOUS
  <1>1. a \in S
    BY FirstAtIsFirst, 1 \in Nat \ {0}
  <1>2. ASSUME NEW s \in S PROVE FindTurn(s, b, bytes, needle, limit) \in S
    <2>1. CASE s.at = 0 \/ Len(s.found) >= limit
      BY <2>1 DEF FindTurn
    <2>2. CASE ~(s.at = 0 \/ Len(s.found) >= limit)
      <3>1. Append(s.found, [block |-> b, place |-> s.at]) \in Seq(Found)
        BY DEF Found
      <3>2. s.at + 1 \in Nat \ {0}
        OBVIOUS
      <3>3. FirstAt(bytes, needle, s.at + 1) \in 0..N
        BY <3>2, FirstAtIsFirst
      <3> QED BY <2>2, <3>1, <3>3 DEF FindTurn, NextFrom
    <2> QED BY <2>1, <2>2
  <1> HIDE DEF S, N, a
  <1>3. step \in [(1..N) \X S -> S]
    BY <1>2
  <1>4. PICK f \in [0..N -> S] : Loop(f, N, a, step)
    <2> HIDE DEF step
    <2> QED BY <1>0, <1>1, <1>3, Iteration
  <1>5. Turns1(f)
    <2>1. \A n \in 1..N : step[<<n, f[n - 1]>>] = FindTurn(f[n - 1], b, bytes, needle, limit)
      BY <1>0
    <2> HIDE DEF step
    <2>2. \A n \in 0..N : f[n] = IF n = 0 THEN a ELSE FindTurn(f[n - 1], b, bytes, needle, limit)
      <3>1. \A n \in 0..N : n = 0 \/ n \in 1..N
        BY <1>0
      <3> QED BY <1>4, <2>1, <3>1 DEF Loop
    <2> QED BY <1>4, <2>2
  <1> DEFINE turn == CHOOSE h : Turns1(h)
  <1>6. Turns1(turn)
    <2> HIDE DEF Turns1
    <2> QED BY <1>5
  <1>7. FindInBlock(found, b, bytes, needle, limit) = turn[N].found
    BY DEF FindInBlock, N, a
  <1> HIDE DEF turn
  <1>8. turn[0] = a /\ \A n \in 1..N : turn[n] = FindTurn(turn[n - 1], b, bytes, needle, limit)
    <2>1. \A n \in 1..N : n \in 0..N /\ n # 0
      BY <1>0
    <2> QED BY <1>0, <1>6, <2>1
  <1> DEFINE T == {n \in 0..N : turn[n] \in S}
  <1>9. 0..N \subseteq T
    <2>1. 0 \in T
      BY <1>0, <1>1, <1>8
    <2>2. ASSUME NEW n \in 1..N, n - 1 \in T PROVE n \in T
      BY <1>0, <1>2, <1>8, <2>2
    <2> HIDE DEF T
    <2> QED BY <1>0, <2>1, <2>2, BoundedInduction
  <1>10. turn \in [0..N -> S]
    BY <1>6, <1>9
  <1>11. FindLoop(turn, found, b, bytes, needle, limit)
    BY <1>7, <1>8, <1>10 DEF S, N, a, FindLoop
  <1> QED BY <1>11

\* An address.
At(b, i) == [block |-> b, place |-> i]

\* A place of the pattern is a block and where it is in it.
LEMMA PlacesAre ==
    ASSUME NEW blocks \in Seq(Seq(Nat)), NEW needle
    PROVE  /\ Addressed(AllPlaces(blocks, needle)) /\ AllPlaces(blocks, needle) \subseteq Found
           /\ \A b, i : At(b, i) \in AllPlaces(blocks, needle) <=>
                  b \in DOMAIN blocks /\ i \in DOMAIN blocks[b] /\ IsPlace(blocks[b], needle, i)
           /\ \A x \in AllPlaces(blocks, needle) : x = At(x.block, x.place)
  <1>1. \A x : x \in AllPlaces(blocks, needle) <=>
           \E b \in DOMAIN blocks : \E i \in DOMAIN blocks[b] :
              x = At(b, i) /\ IsPlace(blocks[b], needle, i)
    BY SMTT(30) DEF AllPlaces, PlacesIn, At, IsPlace
  <1>2. \A b \in DOMAIN blocks : b \in Nat /\ DOMAIN blocks[b] \subseteq Nat
    OBVIOUS
  <1> QED BY <1>1, <1>2 DEF Addressed, HasAddress, At, Found

\* From one address of a block to the next place in it, or to the next block.
LEMMA NextPlace ==
    ASSUME NEW blocks \in Seq(Seq(Nat)), NEW needle, NEW b \in DOMAIN blocks,
           NEW from \in Nat \ {0}, from <= Len(blocks[b]) + 1,
           NEW limit \in Nat, NEW found \in Seq(AllPlaces(blocks, needle)),
           Gathered(found, AllPlaces(blocks, needle), limit, At(b, from))
    PROVE  LET first == FirstAt(blocks[b], needle, from)
           IN Gathered(found, AllPlaces(blocks, needle), limit,
                       IF first = 0 THEN At(b + 1, 1) ELSE At(b, first))
  <1> DEFINE first == FirstAt(blocks[b], needle, from)
             all == AllPlaces(blocks, needle)
             there == IF first = 0 THEN At(b + 1, 1) ELSE At(b, first)
  <1>1. b \in Nat /\ blocks[b] \in Seq(Nat) /\ DOMAIN blocks[b] = 1..Len(blocks[b])
        /\ Len(blocks[b]) \in Nat
    OBVIOUS
  <1>2. /\ first \in 0..Len(blocks[b])
        /\ first = 0 => \A i \in from..Len(blocks[b]) : ~IsPlace(blocks[b], needle, i)
        /\ first # 0 => /\ first >= from
                        /\ \A i \in from..Len(blocks[b]) : IsPlace(blocks[b], needle, i) => first <= i
    BY <1>1, FirstAtIsFirst
  <1> HIDE DEF first
  <1>3. HasAddress(there) /\ HasAddress(At(b, from)) /\ ~Before(there, At(b, from))
    BY <1>1, <1>2, SMTT(30) DEF HasAddress, At, Before
  <1>4. ASSUME NEW x \in all, Before(x, there) PROVE Before(x, At(b, from))
    <2>1. /\ x.block \in Nat /\ x.place \in Nat /\ x.place >= 1
          /\ x.block = b => x.place \in 1..Len(blocks[b]) /\ IsPlace(blocks[b], needle, x.place)
      BY <1>1, PlacesAre DEF Addressed, HasAddress
    <2>2. x.block < b \/ x.block = b
      BY <1>1, <1>4, <2>1, SMTT(30) DEF Before, At
    <2>3. CASE x.block = b
      <3>1. x.place < from
        BY <1>1, <1>2, <1>4, <2>1, <2>3 DEF Before, At
      <3> QED BY <2>3, <3>1 DEF Before, At
    <2> QED BY <2>2, <2>3 DEF Before, At
  <1> HIDE DEF there
  <1>5. Addressed(all)
    BY PlacesAre
  <1>6. Gathered(found, all, limit, there)
    BY <1>3, <1>4, <1>5, GatherOn
  <1> QED BY <1>6 DEF there, first

\* The loop over a block gathers its places.
LEMMA FindGathers ==
    ASSUME NEW blocks \in Seq(Seq(Nat)), NEW needle, NEW b \in DOMAIN blocks,
           NEW limit \in Nat, NEW found \in Seq(AllPlaces(blocks, needle)),
           Gathered(found, AllPlaces(blocks, needle), limit, At(b, 1))
    PROVE  LET more == FindInBlock(found, b, blocks[b], needle, limit)
           IN /\ more \in Seq(AllPlaces(blocks, needle))
              /\ Gathered(more, AllPlaces(blocks, needle), limit, At(b + 1, 1))
  <1> DEFINE bytes == blocks[b]
             N == Len(bytes)
             all == AllPlaces(blocks, needle)
             OK(s, n) == /\ s.found \in Seq(all)
                         /\ s.at = 0 => Gathered(s.found, all, limit, At(b + 1, 1))
                         /\ s.at # 0 => /\ Gathered(s.found, all, limit, At(b, s.at))
                                        /\ IsPlace(bytes, needle, s.at)
                                        /\ s.at > n \/ Len(s.found) >= limit
  <1>1. b \in Nat /\ bytes \in Seq(Nat) /\ DOMAIN bytes = 1..N /\ N \in Nat
    OBVIOUS
  <1>2. Addressed(all) /\ all \subseteq Found
    BY PlacesAre
  <1>3. found \in Seq(Found)
    BY <1>2, SeqMonotonic
  <1> HIDE DEF bytes, all
  <1> HIDE DEF N
  <1>0. PICK turn : FindLoop(turn, found, b, bytes, needle, limit)
    BY <1>1, <1>3, FindTurns
  <1>4. /\ turn \in [0..N -> [found : Seq(Found), at : 0..N]]
        /\ turn[0] = [found |-> found, at |-> FirstAt(bytes, needle, 1)]
        /\ \A n \in 1..N : turn[n] = FindTurn(turn[n - 1], b, bytes, needle, limit)
        /\ FindInBlock(found, b, bytes, needle, limit) = turn[N].found
    BY <1>0 DEF FindLoop, N
  <1>5. OK(turn[0], 0)
    <2> DEFINE first == FirstAt(bytes, needle, 1)
    <2>1. 1 \in Nat \ {0} /\ 1 <= N + 1
      BY <1>1
    <2>2. Gathered(found, all, limit, IF first = 0 THEN At(b + 1, 1) ELSE At(b, first))
      BY <2>1, NextPlace DEF bytes, all, N
    <2>3. first \in 0..N /\ (first # 0 => IsPlace(bytes, needle, first))
      BY <1>1, <2>1, FirstAtIsFirst
    <2> HIDE DEF first
    <2>4. turn[0].found = found /\ turn[0].at = first
      BY <1>4 DEF first
    <2> QED BY <1>1, <2>2, <2>3, <2>4 DEF all
  <1>6. ASSUME NEW n \in 1..N, OK(turn[n - 1], n - 1) PROVE OK(turn[n], n)
    <2> DEFINE s == turn[n - 1]
    <2>1. /\ turn[n] = FindTurn(s, b, bytes, needle, limit)
          /\ s.found \in Seq(Found) /\ s.at \in 0..N
      <3>1. n - 1 \in 0..N
        BY <1>1
      <3> QED BY <1>4, <3>1
    <2>2. OK(s, n - 1)
      BY <1>6
    <2> HIDE DEF s
    <2>3. CASE s.at = 0 \/ Len(s.found) >= limit
      BY <2>1, <2>2, <2>3 DEF FindTurn
    <2>4. CASE s.at # 0 /\ ~(Len(s.found) >= limit)
      <3> DEFINE next == s.at + 1
                 first == FirstAt(bytes, needle, next)
                 x == At(b, s.at)
      <3>0. s.at > n - 1 /\ IsPlace(bytes, needle, s.at) /\ s.at \in 1..N
        BY <1>1, <2>1, <2>2, <2>4, SMTT(30)
      <3>1. next \in Nat \ {0} /\ next <= N + 1 /\ next > n
        BY <1>1, <3>0, SMTT(30)
      <3>2. first \in 0..N /\ (first # 0 => first >= next /\ IsPlace(bytes, needle, first))
        BY <1>1, <3>1, FirstAtIsFirst
      <3>3. next > N => first = 0
        BY <1>1, <3>1, <3>2
      <3>4. /\ turn[n].found = Added(s.found, x, limit)
            /\ turn[n].at = first
        BY <1>1, <2>1, <2>4, <3>3, SMTT(30) DEF FindTurn, NextFrom, Added, At
      <3>5. x \in all
        BY <1>1, <3>0, PlacesAre DEF all, bytes
      <3>6. HasAddress(x) /\ HasAddress(At(b, next)) /\ Before(x, At(b, next))
        BY <1>1, <2>1, SMTT(30) DEF HasAddress, At, Before
      <3>7. \A y \in all : Before(y, At(b, next)) => y = x \/ Before(y, x)
        <4>1. \A y \in all : y = At(y.block, y.place) /\ y.block \in Nat /\ y.place \in Nat
          BY <1>2, PlacesAre DEF Addressed, HasAddress, all
        <4> QED BY <1>1, <2>1, <4>1 DEF Before, At
      <3>8. Gathered(s.found, all, limit, x) /\ s.found \in Seq(all)
        BY <2>2, <2>4
      <3>9. /\ Added(s.found, x, limit) \in Seq(all)
            /\ Gathered(Added(s.found, x, limit), all, limit, At(b, next))
        <4> HIDE DEF x, next
        <4> QED BY <1>2, <3>5, <3>6, <3>7, <3>8, GatherOne
      <3>10. Gathered(turn[n].found, all, limit, IF first = 0 THEN At(b + 1, 1) ELSE At(b, first))
        BY <3>1, <3>4, <3>9, NextPlace DEF all, bytes, N
      <3> HIDE DEF first, next
      <3> QED BY <1>1, <3>1, <3>2, <3>4, <3>9, <3>10, SMTT(30)
    <2> QED BY <2>3, <2>4
  <1> DEFINE T == {n \in 0..N : OK(turn[n], n)}
  <1>7. 0..N \subseteq T
    <2>1. 0 \in T
      BY <1>1, <1>5
    <2>2. ASSUME NEW n \in 1..N, n - 1 \in T PROVE n \in T
      BY <1>1, <1>6, <2>2, SMTT(30)
    <2> HIDE DEF T
    <2> QED BY <1>1, <2>1, <2>2, BoundedInduction
  <1>8. OK(turn[N], N) /\ turn[N].at \in 0..N
    <2>1. N \in 0..N
      BY <1>1
    <2> QED BY <1>4, <1>7, <2>1
  <1>9. Gathered(turn[N].found, all, limit, At(b + 1, 1))
    <2>1. CASE turn[N].at = 0
      BY <1>8, <2>1
    <2>2. CASE turn[N].at # 0
      <3>1. Len(turn[N].found) >= limit
        BY <1>1, <1>8, <2>2
      <3>2. HasAddress(At(b, turn[N].at)) /\ HasAddress(At(b + 1, 1))
            /\ ~Before(At(b + 1, 1), At(b, turn[N].at))
        BY <1>1, <1>8 DEF HasAddress, At, Before
      <3> QED BY <1>2, <1>8, <2>2, <3>1, <3>2, GatherOn
    <2> QED BY <2>1, <2>2
  <1> QED BY <1>4, <1>8, <1>9 DEF all, bytes

\* A byte search returns the first of all the places of its pattern.
LEMMA FindBytesExact ==
    ASSUME NEW blocks \in Seq(Seq(Nat)), NEW needle, NEW limit \in Nat
    PROVE  /\ FindBytes(blocks, needle, limit) \in Seq(AllPlaces(blocks, needle))
           /\ FirstOf(FindBytes(blocks, needle, limit), AllPlaces(blocks, needle), limit)
  <1> DEFINE N == Len(blocks)
             all == AllPlaces(blocks, needle)
             S == Seq(all)
             one(found, b) == FindInBlock(found, b, blocks[b], needle, limit)
             OK(found, b) == found \in S /\ Gathered(found, all, limit, At(b + 1, 1))
             step == [p \in (1..N) \X S |-> IF one(p[2], p[1]) \in S THEN one(p[2], p[1]) ELSE p[2]]
             IsAfter(f) == f = [b \in 0..N |-> IF b = 0 THEN <<>> ELSE one(f[b - 1], b)]
             good == {f \in [0..N -> S] : \A b \in 0..N : OK(f[b], b)}
  <1>1. N \in Nat /\ \A b \in 1..N : b \in DOMAIN blocks /\ b \in 0..N /\ b # 0 /\ b - 1 \in 0..N
                                     /\ (b - 1) + 1 = b /\ b \in Nat
    OBVIOUS
  <1>2. Addressed(all)
    BY PlacesAre
  <1>3. OK(<<>>, 0)
    <2>1. <<>> \in S /\ DOMAIN <<>> = {} /\ Len(<<>>) = 0
      OBVIOUS
    <2>2. \A x \in all : ~Before(x, At(1, 1))
      <3>1. \A x \in all : x.block \in Nat /\ x.place \in Nat /\ x.block >= 1 /\ x.place >= 1
        BY PlacesAre DEF Addressed, HasAddress
      <3> QED BY <3>1 DEF Before, At
    <2>3. 0 + 1 = 1
      OBVIOUS
    <2> HIDE DEF all
    <2>4. Gathered(<<>>, all, limit, At(1, 1))
      BY <2>1, <2>2 DEF Gathered
    <2> QED BY <2>1, <2>3, <2>4
  <1>4. ASSUME NEW b \in 1..N, NEW found, OK(found, b - 1) PROVE OK(one(found, b), b)
    <2>1. found \in Seq(AllPlaces(blocks, needle)) /\ Gathered(found, AllPlaces(blocks, needle), limit, At(b, 1))
      BY <1>1, <1>4
    <2>2. b \in DOMAIN blocks
      BY <1>1
    <2> QED BY <2>1, <2>2, FindGathers
  <1> HIDE DEF all, one, S, N
  <1>5. step \in [(1..N) \X S -> S]
    OBVIOUS
  <1>6. PICK f \in [0..N -> S] : Loop(f, N, <<>>, step)
    <2> HIDE DEF step
    <2> QED BY <1>1, <1>3, <1>5, Iteration
  <1>7. f[0] = <<>> /\ \A b \in 1..N : f[b] = step[<<b, f[b - 1]>>]
    BY <1>6 DEF Loop
  <1>8. ASSUME NEW b \in 1..N, OK(f[b - 1], b - 1) PROVE f[b] = one(f[b - 1], b) /\ OK(f[b], b)
    <2>1. OK(one(f[b - 1], b), b)
      <3> HIDE DEF OK
      <3> QED BY <1>4, <1>8
    <2>2. step[<<b, f[b - 1]>>] = one(f[b - 1], b)
      BY <1>8, <2>1
    <2> HIDE DEF OK, step
    <2> QED BY <1>7, <2>1, <2>2
  <1> HIDE DEF OK, step
  <1> DEFINE T == {b \in 0..N : OK(f[b], b)}
  <1>9. 0..N \subseteq T
    <2>1. 0 \in T
      BY <1>1, <1>3, <1>7
    <2>2. ASSUME NEW b \in 1..N, b - 1 \in T PROVE b \in T
      BY <1>1, <1>8, <2>2
    <2> HIDE DEF T
    <2> QED BY <1>1, <2>1, <2>2, BoundedInduction
  <1>10. \A b \in 1..N : f[b] = one(f[b - 1], b)
    <2> SUFFICES ASSUME NEW b \in 1..N PROVE f[b] = one(f[b - 1], b)
      OBVIOUS
    <2>1. OK(f[b - 1], b - 1)
      BY <1>1, <1>9
    <2> QED BY <1>8, <2>1
  <1>11. IsAfter(f)
    <2>1. \A b \in 0..N : b = 0 \/ b \in 1..N
      BY <1>1
    <2> QED BY <1>6, <1>7, <1>10, <2>1
  <1> DEFINE after == CHOOSE h : IsAfter(h)
  <1>12. IsAfter(after)
    <2> HIDE DEF IsAfter
    <2> QED BY <1>11
  <1>13. FindBytes(blocks, needle, limit) = after[N]
    BY DEF FindBytes, one, N
  <1> HIDE DEF after
  <1>14. after[0] = <<>> /\ \A b \in 1..N : after[b] = one(after[b - 1], b)
    BY <1>1, <1>12
  <1> DEFINE U == {b \in 0..N : after[b] = f[b]}
  <1>15. 0..N \subseteq U
    <2>1. 0 \in U
      BY <1>1, <1>7, <1>14
    <2>2. ASSUME NEW b \in 1..N, b - 1 \in U PROVE b \in U
      BY <1>1, <1>10, <1>14, <2>2
    <2> HIDE DEF U
    <2> QED BY <1>1, <2>1, <2>2, BoundedInduction
  <1>16. OK(after[N], N)
    <2>1. N \in 0..N
      BY <1>1
    <2> QED BY <1>9, <1>15, <2>1
  <1>17. FirstOf(after[N], all, limit)
    <2>1. HasAddress(At(N + 1, 1)) /\ \A x \in all : Before(x, At(N + 1, 1))
      <3>1. \A x \in all : x.block \in 1..N
        BY PlacesAre DEF all, N
      <3> QED BY <1>1, <3>1 DEF HasAddress, At, Before
    <2>2. after[N] \in Seq(all) /\ Gathered(after[N], all, limit, At(N + 1, 1))
      BY <1>16 DEF OK, S
    <2> QED BY <1>2, <2>1, <2>2, GatheredIsFirst
  <1>18. after[N] \in Seq(all)
    BY <1>16 DEF OK, S
  <1> QED BY <1>13, <1>17, <1>18 DEF all

-----------------------------------------------------------------------------
(* Transfers: Renamed.                                                     *)

\* A source function that is to be transferred has its only place at its target.
LEMMA TargetUnique ==
    ASSUME NEW q \in Transferals, NEW i \in Transfers(q)
    PROVE  /\ i \in DOMAIN q.source /\ Target(q, i) \in DOMAIN q.names
           /\ q.names[Target(q, i)] = "FUN"
           /\ AllPlaces(q.blocks, q.source[i].bytes) = {Target(q, i)}
  <1> DEFINE bytes == q.source[i].bytes
             matches == FindBytes(q.blocks, bytes, 2)
             all == AllPlaces(q.blocks, bytes)
  <1>1. i \in DOMAIN q.source /\ Verdict(q, q.source[i]) = "transfer"
    BY DEF Transfers, With
  <1>2. Len(matches) = 1 /\ matches[1] \in DOMAIN q.names /\ q.names[matches[1]] = "FUN"
    BY <1>1 DEF Verdict, OneMatch, Unnamed
  <1>3. q.blocks \in Seq(Seq(Nat))
    BY TransferalsAssumption
  <1>4. matches \in Seq(all) /\ FirstOf(matches, all, 2)
    BY <1>3, FindBytesExact
  <1> HIDE DEF matches, all
  <1>5. DOMAIN matches = {1} /\ matches[1] \in all
    BY <1>2, <1>4
  <1>6. \A x \in all : x = matches[1]
    BY <1>2, <1>4, <1>5 DEF FirstOf
  <1>7. Target(q, i) = matches[1]
    BY DEF Target, matches
  <1> QED BY <1>1, <1>2, <1>5, <1>6, <1>7 DEF all

\* The names after the renames that come before number n: changed ones are what a
\* transfer made of them, and a transfer that was not refused has made its change.
RenamedSoFar(q, names, n) ==
    /\ DOMAIN names = DOMAIN q.names
    /\ \A e \in DOMAIN q.names : names[e] # q.names[e] =>
          \E i \in Transfers(q) : e = Target(q, i) /\ names[e] = Label(q.source[i])
    /\ \A i \in Transfers(q) \ q.refused : i <= n =>
          \E j \in Transfers(q) : Target(q, i) = Target(q, j) /\ names[Target(q, i)] = Label(q.source[j])

\* One more rename keeps what the renames so far have made.
LEMMA RenameKeeps ==
    ASSUME NEW q \in Transferals, NEW n \in 1..Len(q.source), NEW names,
           RenamedSoFar(q, names, n - 1)
    PROVE  RenamedSoFar(q, Rename(q, names, n), n)
  <1>1. CASE n \in Transfers(q) \ q.refused
    <2> DEFINE t == Target(q, n)
               label == Label(q.source[n])
               new == [names EXCEPT ![t] = label]
    <2>1. Rename(q, names, n) = new
      BY <1>1 DEF Rename
    <2>2. DOMAIN names = DOMAIN q.names /\ t \in DOMAIN names
      BY <1>1, TargetUnique DEF RenamedSoFar
    <2>3. DOMAIN new = DOMAIN q.names /\ new[t] = label
          /\ \A e \in DOMAIN q.names : e # t => new[e] = names[e]
      BY <2>2
    <2> HIDE DEF new, t, label
    <2>4. \A e \in DOMAIN q.names : new[e] # q.names[e] =>
             \E i \in Transfers(q) : e = Target(q, i) /\ new[e] = Label(q.source[i])
      BY <1>1, <2>3 DEF RenamedSoFar, t, label
    <2>5. ASSUME NEW i \in Transfers(q) \ q.refused, i <= n
          PROVE  \E j \in Transfers(q) : Target(q, i) = Target(q, j) /\ new[Target(q, i)] = Label(q.source[j])
      <3>1. CASE Target(q, i) = t
        BY <1>1, <2>3, <3>1 DEF t, label
      <3>2. CASE Target(q, i) # t
        <4>1. i \in Nat /\ n \in Nat /\ i # n
          <5>1. i \in DOMAIN q.source /\ q.source \in Seq([name : STRING, bytes : Seq(Nat), readable : BOOLEAN])
            BY TargetUnique, TransferalsAssumption
          <5> QED BY <3>2, <5>1 DEF t
        <4>2. i <= n - 1
          BY <2>5, <4>1
        <4>3. Target(q, i) \in DOMAIN q.names
          BY TargetUnique
        <4> QED BY <2>3, <3>2, <4>2, <4>3 DEF RenamedSoFar
      <3> QED BY <3>1, <3>2
    <2> QED BY <2>1, <2>3, <2>4, <2>5 DEF RenamedSoFar
  <1>2. CASE n \notin Transfers(q) \ q.refused
    <2>1. Rename(q, names, n) = names
      BY <1>2 DEF Rename
    <2>2. \A i \in Transfers(q) \ q.refused : i <= n => i <= n - 1
      <3> SUFFICES ASSUME NEW i \in Transfers(q) \ q.refused, i <= n PROVE i <= n - 1
        OBVIOUS
      <3>1. i \in DOMAIN q.source /\ q.source \in Seq([name : STRING, bytes : Seq(Nat), readable : BOOLEAN])
        BY TargetUnique, TransferalsAssumption
      <3> QED BY <1>2, <3>1
    <2> QED BY <2>1, <2>2 DEF RenamedSoFar
  <1> QED BY <1>1, <1>2

\* So do all of them, in the order of the source.
LEMMA RenamedAll ==
    ASSUME NEW q \in Transferals
    PROVE  RenamedSoFar(q, Renamed(q), Len(q.source))
  <1> DEFINE N == Len(q.source)
             S == [DOMAIN q.names -> STRING \union {"fn"}]
             step == [p \in (1..N) \X S |-> Rename(q, p[2], p[1])]
             IsAfter(f) == f = [n \in 0..N |-> IF n = 0 THEN q.names ELSE Rename(q, f[n - 1], n)]
  <1>0. N \in Nat
    BY TransferalsAssumption
  <1>1. q.names \in S /\ q.source \in Seq([name : STRING, bytes : Seq(Nat), readable : BOOLEAN])
    BY TransferalsAssumption
  <1>2. ASSUME NEW n \in 1..N, NEW names \in S PROVE Rename(q, names, n) \in S
    <2>1. Label(q.source[n]) \in STRING \union {"fn"}
      <3> DEFINE R == [name : STRING, bytes : Seq(Nat), readable : BOOLEAN]
      <3>0. q.source \in Seq(R)
        BY <1>1
      <3>1. q.source[n].name \in STRING
        <4>1. n \in DOMAIN q.source
          BY <3>0
        <4>2. q.source[n] \in R
          <5> HIDE DEF R
          <5> QED BY <3>0, <4>1
        <4>3. \A r \in R : r.name \in STRING
          OBVIOUS
        <4> QED BY <4>2, <4>3
      <3> HIDE DEF N
      <3> QED BY <3>1 DEF Label
    <2> QED BY <2>1 DEF Rename
  <1> HIDE DEF S, N
  <1>3. PICK f \in [0..N -> S] : Loop(f, N, q.names, step)
    <2>1. step \in [(1..N) \X S -> S]
      BY <1>2
    <2> HIDE DEF step
    <2> QED BY <1>0, <1>1, <2>1, Iteration
  <1>4. IsAfter(f)
    <2>1. \A n \in 0..N : n = 0 \/ (n \in 1..N /\ n - 1 \in 0..N)
      BY <1>0
    <2>2. \A n \in 1..N : step[<<n, f[n - 1]>>] = Rename(q, f[n - 1], n)
      BY <1>0
    <2> HIDE DEF step
    <2> QED BY <1>3, <2>1, <2>2 DEF Loop
  <1> DEFINE after == CHOOSE h : IsAfter(h)
  <1>5. IsAfter(after)
    <2> HIDE DEF IsAfter
    <2> QED BY <1>4
  <1>6. Renamed(q) = after[N]
    BY DEF Renamed, N
  <1> HIDE DEF after
  <1>7. after[0] = q.names /\ \A n \in 1..N : after[n] = Rename(q, after[n - 1], n)
    <2>1. 0 \in 0..N /\ \A n \in 1..N : n \in 0..N /\ n # 0
      BY <1>0
    <2> QED BY <1>5, <2>1
  <1> DEFINE T == {n \in 0..N : RenamedSoFar(q, after[n], n)}
  <1>8. 0 \in T
    <2>1. \A i \in Transfers(q) : ~(i <= 0)
      <3>1. \A i \in Transfers(q) : i \in DOMAIN q.source
        BY TargetUnique
      <3> QED BY <1>1, <3>1
    <2> QED BY <1>0, <1>7, <2>1 DEF RenamedSoFar
  <1>9. ASSUME NEW n \in 1..N, n - 1 \in T PROVE n \in T
    <2>1. RenamedSoFar(q, Rename(q, after[n - 1], n), n)
      BY <1>9, RenameKeeps DEF N
    <2> QED BY <1>0, <1>7, <2>1
  <1>10. 0..N \subseteq T
    <2> HIDE DEF T
    <2> QED BY <1>0, <1>8, <1>9, BoundedInduction
  <1>11. N \in 0..N
    BY <1>0
  <1> QED BY <1>6, <1>10, <1>11 DEF N

\* A name goes to a function that Ghidra named, at the only place of the bytes, and
\* once all of them have gone there is nothing left to transfer.
LEMMA TransferIsUnique ==
    ASSUME NEW q \in Transferals
    PROVE  /\ \A e \in DOMAIN q.names : Renamed(q)[e] # q.names[e] =>
                /\ q.names[e] = "FUN"
                /\ \E i \in DOMAIN q.source :
                    /\ Renamed(q)[e] = Label(q.source[i])
                    /\ AllPlaces(q.blocks, q.source[i].bytes) = {e}
           /\ q.refused = {} => Transfers([q EXCEPT !.names = Renamed(q)]) = {}
  <1>1. RenamedSoFar(q, Renamed(q), Len(q.source))
    BY RenamedAll
  <1>2. \A e \in DOMAIN q.names : Renamed(q)[e] # q.names[e] =>
            /\ q.names[e] = "FUN"
            /\ \E i \in DOMAIN q.source :
                /\ Renamed(q)[e] = Label(q.source[i])
                /\ AllPlaces(q.blocks, q.source[i].bytes) = {e}
    <2> SUFFICES ASSUME NEW e \in DOMAIN q.names, Renamed(q)[e] # q.names[e]
                 PROVE  /\ q.names[e] = "FUN"
                        /\ \E i \in DOMAIN q.source :
                            /\ Renamed(q)[e] = Label(q.source[i])
                            /\ AllPlaces(q.blocks, q.source[i].bytes) = {e}
      OBVIOUS
    <2>1. PICK i \in Transfers(q) : e = Target(q, i) /\ Renamed(q)[e] = Label(q.source[i])
      BY <1>1 DEF RenamedSoFar
    <2> QED BY <2>1, TargetUnique
  <1>3. ASSUME q.refused = {}, NEW i \in Transfers([q EXCEPT !.names = Renamed(q)]) PROVE FALSE
    <2> DEFINE again == [q EXCEPT !.names = Renamed(q)]
               func == q.source[i]
               t == Target(q, i)
    <2>1. /\ again.source = q.source /\ again.blocks = q.blocks /\ again.mode = q.mode
          /\ again.min_size = q.min_size /\ again.max_size = q.max_size
          /\ again.names = Renamed(q)
      BY TransferalsAssumption
    <2> HIDE DEF again
    <2>2. DOMAIN Renamed(q) = DOMAIN q.names
      BY <1>1 DEF RenamedSoFar
    <2>3. i \in DOMAIN q.source /\ Verdict(again, func) = "transfer"
      BY <1>3, <2>1 DEF Transfers, With, again
    <2>4. t \in DOMAIN q.names /\ Renamed(q)[t] = "FUN"
      BY <2>1, <2>2, <2>3 DEF Verdict, Unnamed, Target
    <2>5. q.names[t] = "FUN"
      BY <1>2, <2>4
    <2>6. Verdict(q, func) = "transfer"
      BY <2>1, <2>2, <2>3, <2>4, <2>5 DEF Verdict, Unnamed, Target, Named, RightSize
    <2>7. i \in Transfers(q) \ q.refused /\ i <= Len(q.source)
      <3>1. q.source \in Seq([name : STRING, bytes : Seq(Nat), readable : BOOLEAN])
        BY TransferalsAssumption
      <3> QED BY <1>3, <2>3, <2>6, <3>1 DEF Transfers, With
    <2>8. PICK j \in Transfers(q) : Renamed(q)[t] = Label(q.source[j])
      BY <1>1, <2>7 DEF RenamedSoFar
    <2> QED BY <2>4, <2>8 DEF Label
  <1> QED BY <1>2, <1>3

-----------------------------------------------------------------------------
(* Lookups: FindOnDisk.                                                    *)

\* Among finitely many there is one with the greatest value.
LEMMA Greatest ==
    ASSUME NEW N \in Nat, NEW M \in SUBSET (1..N), M # {}, NEW v, \A i \in M : v[i] \in Nat
    PROVE  \E i \in M : \A j \in M : v[j] <= v[i]
  <1> DEFINE Up(k) == M \intersect (1..k)
             Top(k) == \E i \in Up(k) : \A j \in Up(k) : v[j] <= v[i]
             T == {k \in 0..N : Up(k) = {} \/ Top(k)}
  <1>1. 0 \in T
    OBVIOUS
  <1>2. ASSUME NEW k \in 1..N, k - 1 \in T PROVE k \in T
    <2>1. k \in 0..N /\ Up(k) = Up(k - 1) \union (M \intersect {k})
      OBVIOUS
    <2>2. CASE k \notin M
      <3>1. Up(k) = Up(k - 1)
        BY <2>1, <2>2
      <3> QED BY <1>2, <2>1, <3>1
    <2>3. CASE k \in M
      <3>1. k \in Up(k) /\ v[k] \in Nat /\ \A j \in Up(k) : j = k \/ j \in Up(k - 1)
        BY <2>1, <2>3
      <3>2. CASE Up(k - 1) = {}
        BY <2>1, <3>1, <3>2
      <3>3. CASE Up(k - 1) # {}
        <4>1. PICK i \in Up(k - 1) : \A j \in Up(k - 1) : v[j] <= v[i]
          BY <1>2, <3>3
        <4>2. i \in Up(k) /\ v[i] \in Nat /\ \A j \in Up(k) : v[j] \in Nat
          BY <2>1
        <4>3. CASE v[i] <= v[k]
          <5>1. \A j \in Up(k) : v[j] <= v[k]
            BY <3>1, <4>1, <4>2, <4>3
          <5> QED BY <2>1, <3>1, <5>1
        <4>4. CASE ~(v[i] <= v[k])
          <5>1. \A j \in Up(k) : v[j] <= v[i]
            BY <3>1, <4>1, <4>2, <4>4
          <5> QED BY <2>1, <4>2, <5>1
        <4> QED BY <4>3, <4>4
      <3> QED BY <3>2, <3>3
    <2> QED BY <2>2, <2>3
  <1>3. N \in T
    <2> HIDE DEF T
    <2> QED BY <1>1, <1>2, BoundedInduction
  <1> QED BY <1>3

\* A disk whose directory is listed in another order.
Listed(disk, order) == [i \in DOMAIN disk |-> disk[order[i]]]

\* Where the entries at S are then.
Moved(disk, order, S) == {i \in DOMAIN disk : order[i] \in S}

\* What is somewhere in one order is somewhere in the other, as many times.
SameThere(disk, order, S) ==
    LET there == Moved(disk, order, S)
    IN /\ (there = {}) <=> (S = {})
       /\ Cardinality(there) = Cardinality(S) /\ Cardinality(S) \in Nat
       /\ there # {} => Min(there) \in there /\ Min(S) \in S
       /\ DOMAIN Listed(disk, order) = DOMAIN disk
       /\ \A i \in DOMAIN disk : order[i] \in DOMAIN disk /\ Listed(disk, order)[i] = disk[order[i]]

\* As many status files of a kind are in the other order, and the same ones.
LEMMA SamePlaces ==
    ASSUME NEW q \in Lookups, NEW order \in Bijection(DOMAIN q.disk, DOMAIN q.disk),
           NEW S \in SUBSET DOMAIN q.disk
    PROVE  SameThere(q.disk, order, S)
  <1> DEFINE D == DOMAIN q.disk
             there == {i \in D : order[i] \in S}
             moved == [i \in there |-> order[i]]
  <1>1. q.disk \in Seq(ToSet(q.disk))
    BY LookupsAssumption
  <1>2. D = 1..Len(q.disk) /\ Len(q.disk) \in Nat
    BY <1>1
  <1> HIDE DEF D
  <1>3. /\ order \in [D -> D]
        /\ \A i, j \in D : order[i] = order[j] => i = j
        /\ \A j \in D : \E i \in D : order[i] = j
    BY DEF D, Bijection, Injection, Surjection, IsInjective
  <1>4. moved \in [there -> S] /\ \A i \in there : moved[i] = order[i]
    OBVIOUS
  <1>5. \A j \in S : \E i \in there : moved[i] = j
    BY <1>3 DEF D
  <1> HIDE DEF moved
  <1>6. moved \in Bijection(there, S)
    BY <1>3, <1>4, <1>5 DEF Bijection, Injection, Surjection, IsInjective
  <1>7. IsFiniteSet(D)
    BY <1>2, FS_Interval
  <1>8. IsFiniteSet(there) /\ IsFiniteSet(S)
    BY <1>7, FS_Subset DEF D
  <1>9. Cardinality(there) = Cardinality(S) /\ Cardinality(S) \in Nat
    BY <1>6, <1>8, FS_Bijection, FS_CardinalityType DEF ExistsBijection
  <1>10. (there = {}) <=> (S = {})
    BY <1>4, <1>5
  <1>11. there # {} => Min(there) \in there /\ Min(S) \in S
    <2>1. there \in SUBSET Nat /\ S \in SUBSET Nat
      BY <1>2 DEF D
    <2> HIDE DEF there
    <2> QED BY <1>10, <2>1, LeastNumber
  <1>12. /\ DOMAIN Listed(q.disk, order) = D
         /\ \A i \in D : order[i] \in D /\ Listed(q.disk, order)[i] = q.disk[order[i]]
    BY <1>3 DEF Listed, D
  <1>13. Moved(q.disk, order, S) = there
    BY DEF Moved, D
  <1> HIDE DEF there
  <1> QED BY <1>8, <1>9, <1>10, <1>11, <1>12, <1>13 DEF D, SameThere

\* A lookup by analysis id finds the only file with its unit and profile, in any order.
LEMMA AnalysisIdOrderFree ==
    ASSUME NEW q \in Lookups, NEW order \in Bijection(DOMAIN q.disk, DOMAIN q.disk),
           NEW unit, NEW profile
    PROVE  ByAnalysisId(Listed(q.disk, order), unit, profile) = ByAnalysisId(q.disk, unit, profile)
  <1> DEFINE disk == q.disk
             other == Listed(disk, order)
             matches == {i \in DOMAIN disk : disk[i].unit = unit /\ disk[i].profile = profile}
             there == Moved(disk, order, matches)
             theirs == {i \in DOMAIN other : other[i].unit = unit /\ other[i].profile = profile}
  <1>1. matches \in SUBSET DOMAIN disk
    OBVIOUS
  <1>2. \A i, j \in matches : i = j
    BY LookupsAssumption
  <1>3. SameThere(disk, order, matches)
    <2> HIDE DEF matches
    <2> QED BY <1>1, SamePlaces
  <1>4. theirs = there
    BY <1>3 DEF Moved, SameThere
  <1>5. there # {} => other[Min(there)] = disk[Min(matches)]
    <2> SUFFICES ASSUME there # {} PROVE other[Min(there)] = disk[Min(matches)]
      OBVIOUS
    <2>1. Min(there) \in DOMAIN disk /\ order[Min(there)] \in matches /\ Min(matches) \in matches
      BY <1>3 DEF Moved, SameThere
    <2> HIDE DEF there, matches
    <2>2. order[Min(there)] = Min(matches)
      BY <1>2, <2>1
    <2> QED BY <1>3, <2>1, <2>2 DEF SameThere
  <1>6. (there = {}) <=> (matches = {})
    BY <1>3 DEF SameThere
  <1> QED BY <1>4, <1>5, <1>6 DEF ByAnalysisId

\* A set with one element has that element only.
LEMMA OnlyOne ==
    ASSUME NEW S, IsFiniteSet(S), Cardinality(S) = 1
    PROVE  S # {} /\ \A x, y \in S : x = y
  <1>1. \E x : S = {x}
    BY FS_Singleton
  <1> QED BY <1>1

\* A lookup by unit id returns all of the unit or the only one, in any order.
LEMMA UnitOrderFree ==
    ASSUME NEW q \in Lookups, NEW order \in Bijection(DOMAIN q.disk, DOMAIN q.disk),
           NEW unit, NEW profile
    PROVE  LET one == ByUnit(q.disk, unit, profile)
               two == ByUnit(Listed(q.disk, order), unit, profile)
           IN two.is = one.is /\ (one.is = "found" => two = one)
  <1> DEFINE disk == q.disk
             other == Listed(disk, order)
             matches == {i \in DOMAIN disk : disk[i].unit = unit /\ profile \in {"any", disk[i].profile}}
             theirs == {i \in DOMAIN other : other[i].unit = unit /\ profile \in {"any", other[i].profile}}
             complete == {i \in matches : disk[i].status = "complete"}
             completeThere == {i \in theirs : other[i].status = "complete"}
             unfit == {i \in matches : disk[i].status \notin {"complete", "error"}}
             unfitThere == {i \in theirs : other[i].status \notin {"complete", "error"}}
  <1>1. SameThere(disk, order, complete) /\ SameThere(disk, order, unfit)
    <2>1. complete \in SUBSET DOMAIN disk /\ unfit \in SUBSET DOMAIN disk
      OBVIOUS
    <2> HIDE DEF complete, unfit
    <2> QED BY <2>1, SamePlaces
  <1>2. /\ DOMAIN other = DOMAIN disk
        /\ \A i \in DOMAIN disk : order[i] \in DOMAIN disk /\ other[i] = disk[order[i]]
    BY <1>1 DEF SameThere
  <1> HIDE DEF other
  <1>3. completeThere = Moved(disk, order, complete) /\ unfitThere = Moved(disk, order, unfit)
    BY <1>2 DEF Moved
  <1>4. IsFiniteSet(complete) /\ IsFiniteSet(completeThere)
    <2>1. disk \in Seq(ToSet(disk))
      BY LookupsAssumption
    <2>2. DOMAIN disk = 1..Len(disk) /\ Len(disk) \in Nat
      BY <2>1
    <2>3. IsFiniteSet(DOMAIN disk)
      BY <2>2, FS_Interval
    <2>4. complete \subseteq DOMAIN disk /\ completeThere \subseteq DOMAIN disk
      BY <1>2
    <2> QED BY <2>3, <2>4, FS_Subset
  <1>5. ByUnit(disk, unit, profile) = AllOfUnit(disk, matches)
        /\ ByUnit(other, unit, profile) = AllOfUnit(other, theirs)
    BY DEF ByUnit
  <1>6. CASE unfit # {}
    <2>1. /\ Min(unfit) \in unfit /\ Min(unfitThere) \in unfitThere /\ unfitThere # {}
      BY <1>1, <1>3, <1>6 DEF SameThere
    <2>2. /\ AllOfUnit(disk, matches) = ByStatus(disk[Min(unfit)])
          /\ AllOfUnit(other, theirs) = ByStatus(other[Min(unfitThere)])
      BY <1>6, <2>1 DEF AllOfUnit
    <2>3. disk[Min(unfit)].status \notin {"complete", "error"}
          /\ other[Min(unfitThere)].status \notin {"complete", "error"}
      BY <2>1
    <2>4. \A d : d.status \notin {"complete", "error"} => ByStatus(d).is = "refused"
      BY DEF ByStatus, Refusal
    <2> HIDE DEF unfit, unfitThere, matches, theirs
    <2> QED BY <1>5, <2>2, <2>3, <2>4 DEF other
  <1>7. CASE unfit = {}
    <2>1. unfitThere = {}
      BY <1>1, <1>3, <1>7 DEF SameThere
    <2>2. Cardinality(completeThere) = Cardinality(complete) /\ Cardinality(complete) \in Nat
      BY <1>1, <1>3 DEF SameThere
    <2>3. ASSUME Cardinality(complete) = 1 PROVE other[Min(completeThere)] = disk[Min(complete)]
      <3>1. complete # {} /\ \A i, j \in complete : i = j
        BY <1>4, <2>3, OnlyOne
      <3>2. /\ Min(complete) \in complete /\ Min(completeThere) \in Moved(disk, order, complete)
        BY <1>1, <1>3, <3>1 DEF SameThere
      <3> HIDE DEF complete, completeThere
      <3>3. Min(completeThere) \in DOMAIN disk /\ order[Min(completeThere)] \in complete
        BY <3>2 DEF Moved
      <3>4. order[Min(completeThere)] = Min(complete)
        BY <3>1, <3>2, <3>3
      <3> QED BY <1>2, <3>3, <3>4
    <2>4. CASE Cardinality(complete) > 1
      <3>1. AllOfUnit(disk, matches) = Refusal("ambiguous") /\ AllOfUnit(other, theirs) = Refusal("ambiguous")
        BY <1>7, <2>1, <2>2, <2>4, SMTT(30) DEF AllOfUnit
      <3> HIDE DEF unfit, unfitThere, matches, theirs, complete, completeThere
      <3> QED BY <1>5, <3>1 DEF other
    <2>5. CASE Cardinality(complete) = 1
      <3>0. ~(Cardinality(complete) > 1)
        BY <2>5
      <3>1. /\ AllOfUnit(disk, matches) = Match(disk[Min(complete)])
            /\ AllOfUnit(other, theirs) = Match(other[Min(completeThere)])
        BY <1>7, <2>1, <2>2, <2>5, <3>0 DEF AllOfUnit
      <3> HIDE DEF unfit, unfitThere, matches, theirs, complete, completeThere
      <3> QED BY <1>5, <2>3, <2>5, <3>1 DEF other
    <2>6. CASE ~(Cardinality(complete) > 1) /\ Cardinality(complete) # 1
      <3>1. AllOfUnit(disk, matches) = Nothing /\ AllOfUnit(other, theirs) = Nothing
        BY <1>7, <2>1, <2>2, <2>6 DEF AllOfUnit
      <3> HIDE DEF unfit, unfitThere, matches, theirs, complete, completeThere
      <3> QED BY <1>5, <3>1 DEF other
    <2> QED BY <2>4, <2>5, <2>6
  <1> QED BY <1>6, <1>7

\* Neither of two keys is above the other only when they are the same.
LEMMA SameKey ==
    ASSUME NEW d, NEW e, d.opened \in Nat, e.opened \in Nat,
           ~Above(SortKey(d), SortKey(e)), ~Above(SortKey(e), SortKey(d))
    PROVE  d.opened = e.opened
  BY DEF Above, SortKey

\* A lookup by name takes one of those that were opened last, in any order.
LEMMA NameOrderFree ==
    ASSUME NEW q \in Lookups, NEW order \in Bijection(DOMAIN q.disk, DOMAIN q.disk),
           NEW name, NEW profile
    PROVE  LET one == ByName(q.disk, name, profile)
               two == ByName(Listed(q.disk, order), name, profile)
           IN two.is = one.is /\ (one.is = "found" => two.project.opened = one.project.opened)
  <1> DEFINE disk == q.disk
             other == Listed(disk, order)
             matches == {i \in DOMAIN disk : /\ profile \in {"any", disk[i].profile}
                                             /\ disk[i].status = "complete" /\ disk[i].name = name}
             theirs == {i \in DOMAIN other : /\ profile \in {"any", other[i].profile}
                                             /\ other[i].status = "complete" /\ other[i].name = name}
             best == {i \in matches : \A j \in matches : ~Above(SortKey(disk[j]), SortKey(disk[i]))}
             bestThere == {i \in theirs : \A j \in theirs : ~Above(SortKey(other[j]), SortKey(other[i]))}
  <1>1. SameThere(disk, order, matches) /\ SameThere(disk, order, best)
    <2>1. matches \in SUBSET DOMAIN disk /\ best \in SUBSET DOMAIN disk
      OBVIOUS
    <2> HIDE DEF matches, best
    <2> QED BY <2>1, SamePlaces
  <1>2. /\ DOMAIN other = DOMAIN disk
        /\ \A i \in DOMAIN disk : order[i] \in DOMAIN disk /\ other[i] = disk[order[i]]
        /\ \A j \in DOMAIN disk : \E i \in DOMAIN disk : order[i] = j
    BY <1>1 DEF SameThere, Bijection, Surjection
  <1> HIDE DEF other
  <1>3. theirs = Moved(disk, order, matches)
    BY <1>2 DEF Moved
  <1>4. bestThere = Moved(disk, order, best)
    <2>1. ASSUME NEW i \in DOMAIN disk, order[i] \in matches
          PROVE  (\A j \in theirs : ~Above(SortKey(other[j]), SortKey(other[i])))
                 <=> (\A j \in matches : ~Above(SortKey(disk[j]), SortKey(disk[order[i]])))
      <3>1. \A j \in theirs : order[j] \in matches /\ other[j] = disk[order[j]]
        BY <1>2, <1>3 DEF Moved
      <3>2. ASSUME NEW j \in matches PROVE \E k \in theirs : other[k] = disk[j]
        <4>1. PICK k \in DOMAIN disk : order[k] = j
          BY <1>2
        <4>2. k \in Moved(disk, order, matches)
          BY <4>1 DEF Moved
        <4>3. other[k] = disk[j]
          BY <1>2, <4>1
        <4> QED BY <1>3, <4>2, <4>3
      <3>3. other[i] = disk[order[i]]
        BY <1>2
      <3> HIDE DEF theirs, matches
      <3> QED BY <3>1, <3>2, <3>3
    <2> HIDE DEF theirs, matches
    <2>2. \A i : i \in bestThere <=> i \in Moved(disk, order, best)
      BY <1>2, <1>3, <2>1 DEF Moved
    <2> QED BY <2>2
  <1>5. matches # {} => best # {}
    <2> SUFFICES ASSUME matches # {} PROVE best # {}
      OBVIOUS
    <2>1. \A i \in matches : disk[i].opened \in Nat
      BY LookupsAssumption
    <2> DEFINE M == matches
               v == [i \in M |-> disk[i].opened]
    <2>2. DOMAIN disk = 1..Len(disk) /\ Len(disk) \in Nat /\ M \in SUBSET (1..Len(disk))
      <3>1. disk \in Seq(ToSet(disk))
        BY LookupsAssumption
      <3> QED BY <3>1
    <2>3. \A i \in M : v[i] = disk[i].opened /\ v[i] \in Nat
      BY <2>1
    <2>4. \E i \in M : \A j \in M : v[j] <= v[i]
      <3> HIDE DEF v, M
      <3>1. M # {}
        BY DEF M
      <3> QED BY <2>2, <2>3, <3>1, Greatest
    <2> HIDE DEF v, matches
    <2>5. CASE \E i \in M : disk[i].opened = 0
      <3>1. PICK i \in M : disk[i].opened = 0
        BY <2>5
      <3>2. \A j \in M : ~Above(SortKey(disk[j]), SortKey(disk[i]))
        BY <2>1, <3>1 DEF Above, SortKey
      <3> QED BY <3>1, <3>2
    <2>6. CASE \A i \in M : disk[i].opened # 0
      <3>1. PICK i \in M : \A j \in M : disk[j].opened <= disk[i].opened
        BY <2>3, <2>4
      <3>2. \A j \in M : ~Above(SortKey(disk[j]), SortKey(disk[i]))
        BY <2>1, <2>6, <3>1 DEF Above, SortKey
      <3> QED BY <3>1, <3>2
    <2> QED BY <2>5, <2>6
  <1>6. CASE matches = {}
    <2>1. theirs = {}
      BY <1>1, <1>3, <1>6 DEF SameThere
    <2>2. ByName(disk, name, profile) = Nothing /\ ByName(other, name, profile) = Nothing
      BY <1>6, <2>1 DEF ByName
    <2> QED BY <2>2 DEF Nothing, other
  <1>7. CASE matches # {}
    <2>1. theirs # {}
      BY <1>1, <1>3, <1>7 DEF SameThere
    <2>2. /\ ByName(disk, name, profile) = Match(disk[Min(best)])
          /\ ByName(other, name, profile) = Match(other[Min(bestThere)])
      BY <1>7, <2>1 DEF ByName
    <2>3. Min(best) \in best /\ Min(bestThere) \in Moved(disk, order, best)
      BY <1>1, <1>4, <1>5, <1>7 DEF SameThere
    <2>4. Min(bestThere) \in DOMAIN disk /\ order[Min(bestThere)] \in best
      BY <2>3 DEF Moved
    <2> DEFINE d == disk[Min(best)]
               e == disk[order[Min(bestThere)]]
    <2>5. \A i, j \in best : /\ ~Above(SortKey(disk[i]), SortKey(disk[j]))
                             /\ disk[i].opened \in Nat
      BY LookupsAssumption
    <2>6. other[Min(bestThere)] = e
      BY <1>2, <2>4
    <2> HIDE DEF best, bestThere
    <2>7. e.opened = d.opened
      BY <2>3, <2>4, <2>5, SameKey
    <2> HIDE DEF matches, theirs, d, e
    <2>8. ByName(disk, name, profile) = Match(d) /\ ByName(other, name, profile) = Match(e)
      BY <2>2, <2>6 DEF d
    <2> QED BY <2>7, <2>8 DEF Match, other
  <1> QED BY <1>6, <1>7

\* A lookup does not depend on the order in which the directory is listed.
LEMMA LookupIsOrderFree ==
    ASSUME NEW q \in Lookups, NEW order \in Bijection(DOMAIN q.disk, DOMAIN q.disk)
    PROVE  LET one == FindOnDisk(q.disk, q)
               two == FindOnDisk([i \in DOMAIN q.disk |-> q.disk[order[i]]], q)
           IN /\ two.is = one.is
              /\ one.is = "found" =>
                   \/ two = one
                   \/ q.by = "name" /\ two.project.opened = one.project.opened
  <1>1. [i \in DOMAIN q.disk |-> q.disk[order[i]]] = Listed(q.disk, order)
    BY DEF Listed
  <1>2. CASE q.by = "analysis_id"
    <2>1. ByAnalysisId(Listed(q.disk, order), q.unit, q.profile) = ByAnalysisId(q.disk, q.unit, q.profile)
      BY AnalysisIdOrderFree
    <2> QED BY <1>1, <1>2, <2>1 DEF FindOnDisk
  <1>3. CASE q.by = "unit_id"
    BY <1>1, <1>3, UnitOrderFree DEF FindOnDisk
  <1>4. CASE q.by = "name"
    BY <1>1, <1>4, NameOrderFree DEF FindOnDisk
  <1> QED BY <1>2, <1>3, <1>4, LookupsAssumption

-----------------------------------------------------------------------------
(* Strings: BatchSearch and its uses.                                      *)

\* A run ends where the bytes that are printable do.
LEMMA RunEndIs ==
    ASSUME NEW data \in Seq(Nat), NEW i \in 1..Len(data), Printable(data[i])
    PROVE  /\ RunEnd(data, i) \in i..Len(data)
           /\ \A k \in i..RunEnd(data, i) : Printable(data[k])
           /\ RunEnd(data, i) = Len(data) \/ ~Printable(data[RunEnd(data, i) + 1])
  <1> DEFINE N == Len(data)
             ends == {j \in i..N : j = N \/ ~Printable(data[j + 1])}
             last == RunEnd(data, i)
  <1>1. i \in Nat /\ N \in Nat /\ i <= N
    OBVIOUS
  <1> HIDE DEF N
  <1>2. ends \in SUBSET Nat /\ N \in ends
    BY <1>1
  <1>3. last = Min(ends)
    BY DEF RunEnd, N
  <1> HIDE DEF last
  <1>4. last \in ends /\ \A j \in ends : last <= j
    <2> HIDE DEF ends
    <2> QED BY <1>2, <1>3, LeastNumber
  <1>5. ASSUME NEW k \in i..last PROVE Printable(data[k])
    <2>1. CASE k = i
      BY <2>1
    <2>2. CASE k # i
      <3>1. k - 1 \in i..N /\ k - 1 < last /\ (k - 1) + 1 = k
        BY <1>1, <1>4, <2>2
      <3>2. k - 1 \notin ends
        <4> HIDE DEF ends
        <4> QED BY <1>1, <1>2, <1>4, <3>1
      <3> QED BY <3>1, <3>2
    <2> QED BY <2>1, <2>2
  <1> QED BY <1>4, <1>5 DEF last, N

Hits == [block : Nat, place : Nat, last : Nat]

\* The stretches of all blocks, by their address.
LEMMA StretchesAre ==
    ASSUME NEW blocks \in Seq(Seq(Nat)), NEW query, NEW scan
    PROVE  /\ Addressed(AllStretches(blocks, query, scan)) /\ AllStretches(blocks, query, scan) \subseteq Hits
           /\ \A b, i, j : Hit(b, i, j) \in AllStretches(blocks, query, scan) <=>
                 /\ b \in DOMAIN blocks /\ i \in DOMAIN blocks[b] /\ j \in DOMAIN blocks[b]
                 /\ IsStretch(blocks[b], 1, Len(blocks[b]), i, j)
                 /\ Matches(blocks[b], i, j, query, scan.min_length)
           /\ \A x \in AllStretches(blocks, query, scan) : x = Hit(x.block, x.place, x.last)
  <1>0. \A b \in DOMAIN blocks : DOMAIN blocks[b] = 1..Len(blocks[b])
    OBVIOUS
  <1>1. \A x : x \in AllStretches(blocks, query, scan) <=>
           \E b \in DOMAIN blocks : \E i, j \in DOMAIN blocks[b] :
              /\ x = Hit(b, i, j) /\ IsStretch(blocks[b], 1, Len(blocks[b]), i, j)
              /\ Matches(blocks[b], i, j, query, scan.min_length)
    BY <1>0 DEF AllStretches, Stretches, Hit
  <1>2. \A b \in DOMAIN blocks : b \in Nat /\ DOMAIN blocks[b] \subseteq Nat
    OBVIOUS
  <1> QED BY <1>1, <1>2 DEF Addressed, HasAddress, Hit, Hits

\* Where the scanner stands it is at the beginning of a run or between runs.
AtRun(data, i) == \/ i = 1 \/ ~Printable(data[i - 1])
                  \/ i > Len(data) \/ ~Printable(data[i])

\* The stretch that begins where the scanner stands is the run, and no other begins
\* before the run ends.
LEMMA StretchAtRun ==
    ASSUME NEW data \in Seq(Nat), NEW i \in 1..Len(data), Printable(data[i]), AtRun(data, i)
    PROVE  /\ IsStretch(data, 1, Len(data), i, RunEnd(data, i))
           /\ \A k \in i..RunEnd(data, i) : \A j \in 1..Len(data) :
                 IsStretch(data, 1, Len(data), k, j) => k = i /\ j = RunEnd(data, i)
  <1> DEFINE N == Len(data)
             last == RunEnd(data, i)
  <1>1. /\ last \in i..N /\ i \in 1..N /\ N \in Nat
        /\ \A k \in i..last : Printable(data[k])
        /\ last = N \/ ~Printable(data[last + 1])
    BY RunEndIs
  <1>2. i = 1 \/ ~Printable(data[i - 1])
    BY <1>1 DEF AtRun
  <1> HIDE DEF N, last
  <1>3. IsStretch(data, 1, N, i, last)
    BY <1>1, <1>2 DEF IsStretch
  <1>4. ASSUME NEW k \in i..last, NEW j \in 1..N, IsStretch(data, 1, N, k, j)
        PROVE  k = i /\ j = last
    <2>1. /\ k <= j /\ \A m \in k..j : Printable(data[m])
          /\ k = 1 \/ ~Printable(data[k - 1])
          /\ j = N \/ ~Printable(data[j + 1])
      BY <1>4 DEF IsStretch
    <2>2. k = i
      <3> SUFFICES ASSUME k # i PROVE FALSE
        OBVIOUS
      <3>1. k - 1 \in i..last /\ k # 1
        BY <1>1
      <3> QED BY <1>1, <2>1, <3>1
    <2>3. ~(j < last)
      <3> SUFFICES ASSUME j < last PROVE FALSE
        OBVIOUS
      <3>1. j + 1 \in i..last /\ j # N
        BY <1>1, <2>1
      <3> QED BY <1>1, <2>1, <3>1
    <2>4. ~(last < j)
      <3> SUFFICES ASSUME last < j PROVE FALSE
        OBVIOUS
      <3>1. last + 1 \in k..j /\ last # N
        BY <1>1, <2>2
      <3> QED BY <1>1, <2>1, <3>1
    <2> QED BY <1>1, <2>2, <2>3, <2>4
  <1> QED BY <1>3, <1>4 DEF N, last

\* What a run adds to the hits of a query.
RunAdds(found, b, data, i, query, scan) ==
    IF Matches(data, i, RunEnd(data, i), query, scan.min_length)
    THEN Added(found, Hit(b, i, RunEnd(data, i)), scan.limit) ELSE found

\* A turn of the scanner past a run gathers its stretch.
LEMMA RunGathers ==
    ASSUME NEW blocks \in Seq(Seq(Nat)), NEW query, NEW scan, scan.limit \in Nat,
           NEW b \in DOMAIN blocks, NEW i \in DOMAIN blocks[b],
           Printable(blocks[b][i]), AtRun(blocks[b], i),
           NEW found \in Seq(AllStretches(blocks, query, scan)),
           Gathered(found, AllStretches(blocks, query, scan), scan.limit, At(b, i))
    PROVE  LET more == RunAdds(found, b, blocks[b], i, query, scan)
           IN /\ more \in Seq(AllStretches(blocks, query, scan))
              /\ Gathered(more, AllStretches(blocks, query, scan), scan.limit,
                          At(b, RunEnd(blocks[b], i) + 1))
  <1> DEFINE data == blocks[b]
             N == Len(data)
             all == AllStretches(blocks, query, scan)
             last == RunEnd(data, i)
             there == At(b, last + 1)
             hit == Hit(b, i, last)
             matches == Matches(data, i, last, query, scan.min_length)
  <1>1. b \in Nat /\ data \in Seq(Nat) /\ DOMAIN data = 1..N /\ N \in Nat /\ i \in 1..N
    OBVIOUS
  <1>2. last \in i..N
    BY <1>1, RunEndIs
  <1>3. /\ IsStretch(data, 1, N, i, last)
        /\ \A k \in i..last : \A j \in 1..N : IsStretch(data, 1, N, k, j) => k = i /\ j = last
    BY <1>1, StretchAtRun
  <1>4. Addressed(all)
    BY StretchesAre
  <1>5. ASSUME NEW y \in all, Before(y, there)
        PROVE  (y = hit /\ matches) \/ Before(y, At(b, i))
    <2> HIDE DEF data, last, N
    <2>1. y = Hit(y.block, y.place, y.last) /\ y.block \in Nat /\ y.place \in Nat
      BY StretchesAre DEF Addressed, HasAddress
    <2>2. y.block = b => /\ y.place \in 1..N /\ y.last \in 1..N
                         /\ IsStretch(data, 1, N, y.place, y.last)
                         /\ Matches(data, y.place, y.last, query, scan.min_length)
      <3>1. Hit(y.block, y.place, y.last) \in all
        BY <2>1
      <3> QED BY <1>1, <3>1, StretchesAre DEF data, N
    <2>3. CASE y.block = b /\ y.place >= i
      <3>0. y.place < last + 1
        BY <1>1, <1>5, <2>3 DEF Before, At
      <3>1. y.place \in i..last
        BY <1>1, <1>2, <2>1, <2>3, <3>0, SMTT(30)
      <3>2. y.place = i /\ y.last = last
        BY <1>3, <2>2, <2>3, <3>1
      <3> QED BY <2>1, <2>2, <2>3, <3>2
    <2>4. CASE ~(y.block = b /\ y.place >= i)
      BY <1>1, <1>5, <2>1, <2>4, SMTT(30) DEF Before, At
    <2> QED BY <2>3, <2>4
  <1>6. HasAddress(At(b, i)) /\ HasAddress(there) /\ Before(At(b, i), there)
    <2> HIDE DEF data, last, N
    <2> QED BY <1>1, <1>2, SMTT(30) DEF HasAddress, At, Before
  <1>7. CASE matches
    <2>1. hit \in all
      <3>1. last \in 1..N
        <4> HIDE DEF data, last, N
        <4> QED BY <1>1, <1>2
      <3> QED BY <1>1, <1>3, <1>7, <3>1, StretchesAre
    <2>2. hit.block = At(b, i).block /\ hit.place = At(b, i).place
      BY DEF Hit, At
    <2>3. RunAdds(found, b, data, i, query, scan) = Added(found, hit, scan.limit)
      BY <1>7 DEF RunAdds
    <2> HIDE DEF hit, there, all
    <2>4. found \in Seq(all) /\ Gathered(found, all, scan.limit, At(b, i))
      BY DEF all
    <2>5. /\ Added(found, hit, scan.limit) \in Seq(all)
          /\ Gathered(Added(found, hit, scan.limit), all, scan.limit, there)
      BY <1>4, <1>5, <1>6, <2>1, <2>2, <2>4, GatherOne
    <2> QED BY <2>3, <2>5 DEF all, there
  <1>8. CASE ~matches
    <2>1. RunAdds(found, b, data, i, query, scan) = found
      BY <1>8 DEF RunAdds
    <2> HIDE DEF there, all
    <2>2. found \in Seq(all) /\ Gathered(found, all, scan.limit, At(b, i))
      BY DEF all
    <2>3. ~Before(there, At(b, i))
      <3> DEFINE here == At(b, i)
      <3> HIDE DEF here
      <3>1. HasAddress(here) /\ HasAddress(there) /\ Before(here, there)
        BY <1>6 DEF here
      <3>2. ~Before(there, here)
        BY <3>1, BeforeOrder
      <3> QED BY <3>2 DEF here
    <2>4. \A y \in all : Before(y, there) => Before(y, At(b, i))
      BY <1>5, <1>8
    <2>5. Gathered(found, all, scan.limit, there)
      BY <1>4, <1>6, <2>2, <2>3, <2>4, GatherOn
    <2> QED BY <2>1, <2>2, <2>5 DEF all, there
  <1> QED BY <1>7, <1>8

\* Reading in chunks reads everything.
LEMMA DataIsAll ==
    ASSUME NEW bytes \in Seq(Nat), NEW size \in Nat \ {0}
    PROVE  Data(bytes, size) = bytes
  <1> DEFINE N == Len(bytes)
             S == {SubSeq(bytes, 1, m) : m \in 0..N}
             step == [p \in (1..N) \X S |-> ReadOn(p[2], bytes, size)]
             IsRead(f) == f = [n \in 0..N |-> IF n = 0 THEN <<>> ELSE ReadOn(f[n - 1], bytes, size)]
  <1>0. N \in Nat
    OBVIOUS
  <1>1. ASSUME NEW m \in 0..N
        PROVE  /\ Len(SubSeq(bytes, 1, m)) = m
               /\ ReadOn(SubSeq(bytes, 1, m), bytes, size) = SubSeq(bytes, 1, ChunkEnd(bytes, m, size))
               /\ ChunkEnd(bytes, m, size) \in m..N
               /\ m < N => ChunkEnd(bytes, m, size) > m
    <2> DEFINE c == ChunkEnd(bytes, m, size)
    <2>1. c \in m..N /\ (m < N => c > m)
      BY DEF ChunkEnd
    <2> HIDE DEF c
    <2>2. Len(SubSeq(bytes, 1, m)) = m
      OBVIOUS
    <2>3. 1 \in 1..(N + 1) /\ m \in (1 - 1)..N /\ c \in m..N
      BY <1>0, <2>1
    <2>4. SubSeq(bytes, 1, m) \o SubSeq(bytes, m + 1, c) = SubSeq(bytes, 1, c)
      BY <2>3, ConcatAdjacentSubSeq
    <2> QED BY <2>1, <2>2, <2>4 DEF ReadOn, c
  <1>2. ASSUME NEW s \in S PROVE ReadOn(s, bytes, size) \in S
    <2>1. PICK m \in 0..N : s = SubSeq(bytes, 1, m)
      OBVIOUS
    <2>2. ChunkEnd(bytes, m, size) \in 0..N
      BY <1>1, <2>1
    <2> QED BY <1>1, <2>1, <2>2
  <1>3. <<>> \in S /\ <<>> = SubSeq(bytes, 1, 0) /\ SubSeq(bytes, 1, N) = bytes
    <2>1. SubSeq(bytes, 1, 0) = <<>>
      OBVIOUS
    <2>2. SubSeq(bytes, 1, N) = bytes
      OBVIOUS
    <2> QED BY <1>0, <2>1, <2>2
  <1> HIDE DEF S, N
  <1>4. PICK f \in [0..N -> S] : Loop(f, N, <<>>, step)
    <2>1. step \in [(1..N) \X S -> S]
      BY <1>2
    <2> HIDE DEF step
    <2> QED BY <1>0, <1>3, <2>1, Iteration
  <1>5. IsRead(f)
    <2>1. \A n \in 0..N : n = 0 \/ (n \in 1..N /\ n - 1 \in 0..N)
      BY <1>0
    <2>2. \A n \in 1..N : step[<<n, f[n - 1]>>] = ReadOn(f[n - 1], bytes, size)
      BY <1>0
    <2> HIDE DEF step
    <2> QED BY <1>4, <2>1, <2>2 DEF Loop
  <1> DEFINE read == CHOOSE h : IsRead(h)
  <1>6. IsRead(read)
    <2> HIDE DEF IsRead
    <2> QED BY <1>5
  <1>7. Data(bytes, size) = read[N]
    BY DEF Data, N
  <1> HIDE DEF read
  <1>8. read[0] = <<>> /\ \A n \in 1..N : read[n] = ReadOn(read[n - 1], bytes, size)
    <2>1. 0 \in 0..N /\ \A n \in 1..N : n \in 0..N /\ n # 0
      BY <1>0
    <2> QED BY <1>6, <2>1
  <1> DEFINE T == {n \in 0..N : \E m \in n..N : read[n] = SubSeq(bytes, 1, m)}
  <1>9. 0 \in T
    <2>1. 0 \in 0..N /\ read[0] = SubSeq(bytes, 1, 0)
      BY <1>0, <1>3, <1>8
    <2> QED BY <2>1
  <1>10. ASSUME NEW n \in 1..N, n - 1 \in T PROVE n \in T
    <2>1. PICK m \in (n - 1)..N : read[n - 1] = SubSeq(bytes, 1, m)
      BY <1>10
    <2>2. m \in 0..N /\ m < N => ChunkEnd(bytes, m, size) > m
      BY <1>1 DEF N
    <2>3. m \in 0..N
      BY <1>0, <2>1
    <2>4. /\ read[n] = SubSeq(bytes, 1, ChunkEnd(bytes, m, size))
          /\ ChunkEnd(bytes, m, size) \in m..N
      BY <1>1, <1>8, <2>1, <2>3 DEF N
    <2>5. ChunkEnd(bytes, m, size) \in n..N
      BY <1>0, <2>1, <2>2, <2>3, <2>4
    <2> QED BY <1>0, <2>4, <2>5
  <1>11. N \in T
    <2> HIDE DEF T
    <2>1. N \in 0..N
      BY <1>0
    <2> QED BY <1>0, <1>9, <1>10, <2>1, BoundedInduction
  <1>12. read[N] = SubSeq(bytes, 1, N)
    BY <1>0, <1>11
  <1> QED BY <1>3, <1>7, <1>12

\* The hits of every query are the first of its stretches before an address.
GatheredAll(hits, queries, blocks, scan, here) ==
    /\ hits \in [queries -> Seq(Hits)]
    /\ \A q \in queries : /\ hits[q] \in Seq(AllStretches(blocks, q, scan))
                          /\ Gathered(hits[q], AllStretches(blocks, q, scan), scan.limit, here)

\* The states of the scanner of a block.
Scanner(data, queries) == [at : 1..(Len(data) + 1), hits : [queries -> Seq(Hits)]]

\* What a turn does past a run.
LEMMA RunTurn ==
    ASSUME NEW data \in Seq(Nat), NEW queries, NEW b \in Nat, NEW scan,
           NEW s \in Scanner(data, queries), s.at <= Len(data), Printable(data[s.at])
    PROVE  LET t == ScanTurn(s, b, data, scan)
           IN /\ t \in Scanner(data, queries) /\ t.at = RunEnd(data, s.at) + 1 /\ t.at > s.at
              /\ \A q \in queries : t.hits[q] = RunAdds(s.hits[q], b, data, s.at, q, scan)
  <1> DEFINE N == Len(data)
             last == RunEnd(data, s.at)
             hit == Hit(b, s.at, last)
             hits == [q \in DOMAIN s.hits |-> IF Matches(data, s.at, last, q, scan.min_length)
                                              THEN Added(s.hits[q], hit, scan.limit)
                                              ELSE s.hits[q]]
  <1>1. N \in Nat /\ s.at \in 1..N /\ s.hits \in [queries -> Seq(Hits)]
    BY DEF Scanner
  <1>2. last \in s.at..N
    BY <1>1, RunEndIs
  <1>3. hit \in Hits
    <2> HIDE DEF last, N
    <2> QED BY <1>1, <1>2 DEF Hit, Hits
  <1>4. ASSUME NEW found \in Seq(Hits) PROVE Added(found, hit, scan.limit) \in Seq(Hits)
    <2> HIDE DEF hit
    <2> QED BY <1>3 DEF Added
  <1>5. /\ hits \in [queries -> Seq(Hits)]
        /\ \A q \in queries : hits[q] = RunAdds(s.hits[q], b, data, s.at, q, scan)
    <2>1. DOMAIN s.hits = queries /\ \A q \in queries : s.hits[q] \in Seq(Hits)
      BY <1>1
    <2>2. \A q \in queries : hits[q] = RunAdds(s.hits[q], b, data, s.at, q, scan)
      BY <2>1 DEF RunAdds
    <2>3. \A q \in queries : RunAdds(s.hits[q], b, data, s.at, q, scan) \in Seq(Hits)
      <3> SUFFICES ASSUME NEW q \in queries PROVE RunAdds(s.hits[q], b, data, s.at, q, scan) \in Seq(Hits)
        OBVIOUS
      <3> QED BY <1>4, <2>1 DEF RunAdds
    <2> QED BY <2>1, <2>2, <2>3
  <1>6. ScanTurn(s, b, data, scan) = [at |-> last + 1, hits |-> hits]
    <2>1. ~(s.at > N)
      BY <1>1
    <2> QED BY <2>1 DEF ScanTurn
  <1> HIDE DEF hits, last, N
  <1>7. [at |-> last + 1, hits |-> hits] \in Scanner(data, queries)
    BY <1>1, <1>2, <1>5 DEF Scanner, N
  <1> QED BY <1>1, <1>2, <1>5, <1>6, <1>7 DEF last

\* What it does past a byte that is not printable, or at the end.
LEMMA GapTurn ==
    ASSUME NEW data \in Seq(Nat), NEW queries, NEW b \in Nat, NEW scan,
           NEW s \in Scanner(data, queries), s.at > Len(data) \/ ~Printable(data[s.at])
    PROVE  LET t == ScanTurn(s, b, data, scan)
           IN /\ t \in Scanner(data, queries) /\ t.hits = s.hits
              /\ t.at = IF s.at > Len(data) THEN s.at ELSE s.at + 1
  <1> DEFINE N == Len(data)
  <1>1. N \in Nat /\ s.at \in 1..(N + 1)
    BY DEF Scanner
  <1>2. CASE s.at > N
    <2>1. ScanTurn(s, b, data, scan) = s
      <3>1. ~(s.at <= N)
        BY <1>1, <1>2
      <3> QED BY <1>2, <3>1 DEF ScanTurn
    <2> QED BY <1>2, <2>1
  <1>3. CASE ~(s.at > N)
    <2>1. s.at <= N /\ s.at + 1 \in 1..(N + 1)
      BY <1>1, <1>3
    <2>2. ScanTurn(s, b, data, scan) = [s EXCEPT !.at = @ + 1]
      BY <1>3, <2>1 DEF ScanTurn
    <2> QED BY <1>3, <2>1, <2>2 DEF Scanner
  <1> QED BY <1>2, <1>3

\* A turn gathers.
ScanOK(s, queries, blocks, b, scan) ==
    /\ s \in Scanner(blocks[b], queries) /\ AtRun(blocks[b], s.at)
    /\ GatheredAll(s.hits, queries, blocks, scan, At(b, s.at))

\* A turn of the scanner gathers the stretches up to where it stands then, and moves on.
LEMMA TurnGathers ==
    ASSUME NEW blocks \in Seq(Seq(Nat)), NEW queries, NEW scan, scan.limit \in Nat,
           NEW b \in DOMAIN blocks, NEW s, ScanOK(s, queries, blocks, b, scan)
    PROVE  LET t == ScanTurn(s, b, blocks[b], scan)
           IN /\ ScanOK(t, queries, blocks, b, scan)
              /\ t.at > Len(blocks[b]) \/ t.at > s.at
  <1> DEFINE data == blocks[b]
             N == Len(data)
             t == ScanTurn(s, b, data, scan)
             all(q) == AllStretches(blocks, q, scan)
  <1>1. b \in Nat /\ data \in Seq(Nat) /\ DOMAIN data = 1..N /\ N \in Nat
    OBVIOUS
  <1>2. /\ s \in Scanner(data, queries) /\ AtRun(data, s.at) /\ s.at \in 1..(N + 1)
        /\ s.hits \in [queries -> Seq(Hits)]
        /\ \A q \in queries : s.hits[q] \in Seq(all(q)) /\ Gathered(s.hits[q], all(q), scan.limit, At(b, s.at))
    BY DEF ScanOK, GatheredAll, Scanner
  <1>3. CASE s.at <= N /\ Printable(data[s.at])
    <2> DEFINE last == RunEnd(data, s.at)
    <2>1. /\ t \in Scanner(data, queries) /\ t.at = last + 1 /\ t.at > s.at
          /\ \A q \in queries : t.hits[q] = RunAdds(s.hits[q], b, data, s.at, q, scan)
      <3>1. b \in Nat /\ data \in Seq(Nat) /\ s \in Scanner(data, queries) /\ s.at <= Len(data)
            /\ Printable(data[s.at])
        BY <1>1, <1>2, <1>3
      <3> HIDE DEF data
      <3> QED BY <3>1, RunTurn
    <2>2. s.at \in DOMAIN data
      BY <1>1, <1>2, <1>3
    <2>3. ASSUME NEW q \in queries
          PROVE  t.hits[q] \in Seq(all(q)) /\ Gathered(t.hits[q], all(q), scan.limit, At(b, t.at))
      <3>1. /\ RunAdds(s.hits[q], b, data, s.at, q, scan) \in Seq(all(q))
            /\ Gathered(RunAdds(s.hits[q], b, data, s.at, q, scan), all(q), scan.limit, At(b, last + 1))
        BY <1>2, <1>3, <2>2, RunGathers
      <3> HIDE DEF t, all
      <3> QED BY <2>1, <3>1
    <2>4. AtRun(data, last + 1)
      <3>1. last \in s.at..N /\ (last = N \/ ~Printable(data[last + 1]))
        BY <1>1, <1>3, <2>2, RunEndIs
      <3>2. last + 1 > N \/ ~Printable(data[last + 1])
        <4> HIDE DEF last, data, N
        <4> QED BY <1>1, <1>2, <3>1
      <3> HIDE DEF last, data
      <3> QED BY <3>2 DEF AtRun
    <2>5. t.hits \in [queries -> Seq(Hits)]
      BY <2>1 DEF Scanner
    <2> HIDE DEF t, all
    <2> QED BY <2>1, <2>3, <2>4, <2>5 DEF ScanOK, GatheredAll, all, t
  <1>4. CASE s.at > N \/ ~Printable(data[s.at])
    <2>1. /\ t \in Scanner(data, queries) /\ t.hits = s.hits
          /\ t.at = IF s.at > N THEN s.at ELSE s.at + 1
      <3>1. b \in Nat /\ data \in Seq(Nat) /\ s \in Scanner(data, queries)
            /\ (s.at > Len(data) \/ ~Printable(data[s.at]))
        BY <1>1, <1>2, <1>4
      <3> HIDE DEF data
      <3> QED BY <3>1, GapTurn
    <2>2. AtRun(data, t.at)
      <3>1. CASE s.at > N
        <4>1. t.at > N
          BY <2>1, <3>1
        <4> HIDE DEF t, data
        <4> QED BY <4>1 DEF AtRun
      <3>2. CASE ~(s.at > N)
        <4>1. t.at - 1 = s.at /\ ~Printable(data[s.at])
          BY <1>1, <1>2, <1>4, <2>1, <3>2
        <4> HIDE DEF t, data
        <4> QED BY <4>1 DEF AtRun
      <3> QED BY <3>1, <3>2
    <2>3. ASSUME NEW q \in queries PROVE Gathered(s.hits[q], all(q), scan.limit, At(b, t.at))
      <3>1. CASE s.at > N
        <4> HIDE DEF t, all
        <4> QED BY <1>2, <2>1, <3>1
      <3>2. CASE ~(s.at > N)
        <4>1. t.at = s.at + 1 /\ s.at \in 1..N /\ ~Printable(data[s.at])
          BY <1>1, <1>2, <1>4, <2>1, <3>2
        <4>2. ASSUME NEW y \in all(q), Before(y, At(b, t.at)) PROVE Before(y, At(b, s.at))
          <5>1. y = Hit(y.block, y.place, y.last) /\ y.block \in Nat /\ y.place \in Nat
            BY StretchesAre DEF Addressed, HasAddress
          <5>2. y.block = b => y.place # s.at
            <6> SUFFICES ASSUME y.block = b, y.place = s.at PROVE FALSE
              OBVIOUS
            <6>1. Hit(b, s.at, y.last) \in all(q)
              BY <5>1
            <6>2. y.last \in 1..N /\ IsStretch(data, 1, N, s.at, y.last)
              BY <6>1, StretchesAre, SMTT(30)
            <6>3. s.at \in s.at..y.last
              BY <4>1, <6>2 DEF IsStretch
            <6> QED BY <4>1, <6>2, <6>3 DEF IsStretch
          <5>3. y.block < b \/ (y.block = b /\ y.place < s.at + 1)
            <6> HIDE DEF t, all
            <6> QED BY <4>1, <4>2 DEF Before, At
          <5> HIDE DEF t, all
          <5> QED BY <1>1, <4>1, <5>1, <5>2, <5>3 DEF Before, At
        <4>3. HasAddress(At(b, s.at)) /\ HasAddress(At(b, t.at)) /\ ~Before(At(b, t.at), At(b, s.at))
          <5> HIDE DEF t
          <5> QED BY <1>1, <4>1 DEF HasAddress, At, Before
        <4>4. Addressed(all(q)) /\ s.hits[q] \in Seq(all(q)) /\ Gathered(s.hits[q], all(q), scan.limit, At(b, s.at))
          BY <1>2, StretchesAre
        <4> DEFINE those == all(q)
                   here == At(b, s.at)
                   there == At(b, t.at)
        <4> HIDE DEF those, here, there
        <4>5. Gathered(s.hits[q], those, scan.limit, there)
          BY <4>2, <4>3, <4>4, GatherOn DEF those, here, there
        <4> QED BY <4>5 DEF those, there
      <3> QED BY <3>1, <3>2
    <2> HIDE DEF t, all
    <2>4. GatheredAll(t.hits, queries, blocks, scan, At(b, t.at))
      BY <1>2, <2>1, <2>3 DEF GatheredAll, all
    <2>5. t.at > N \/ t.at > s.at
      BY <1>1, <1>2, <2>1
    <2> QED BY <2>1, <2>2, <2>4, <2>5 DEF ScanOK, t
  <1> QED BY <1>1, <1>2, <1>3, <1>4

\* The scanner of a block gathers its stretches.
LEMMA BlockGathers ==
    ASSUME NEW blocks \in Seq(Seq(Nat)), NEW queries, NEW scan, scan.limit \in Nat,
           NEW b \in DOMAIN blocks, NEW hits,
           GatheredAll(hits, queries, blocks, scan, At(b, 1))
    PROVE  GatheredAll(ScanBlock(hits, b, blocks[b], scan), queries, blocks, scan, At(b + 1, 1))
  <1> DEFINE data == blocks[b]
             N == Len(data)
             S == Scanner(data, queries)
             first == [at |-> 1, hits |-> hits]
             step == [p \in (1..N) \X S |-> ScanTurn(p[2], b, data, scan)]
             Turns1(f) == f = [n \in 0..N |-> IF n = 0 THEN first ELSE ScanTurn(f[n - 1], b, data, scan)]
             OK(s, n) == ScanOK(s, queries, blocks, b, scan) /\ s.at > n
  <1>1. b \in Nat /\ data \in Seq(Nat) /\ N \in Nat
    OBVIOUS
  <1>2. OK(first, 0)
    BY DEF ScanOK, Scanner, GatheredAll, AtRun
  <1>3. first \in S
    BY <1>2 DEF ScanOK
  <1>4. ASSUME NEW s \in S PROVE ScanTurn(s, b, data, scan) \in S
    <2> HIDE DEF data
    <2>1. CASE s.at <= N /\ Printable(data[s.at])
      BY <1>1, <2>1, RunTurn
    <2>2. CASE s.at > N \/ ~Printable(data[s.at])
      BY <1>1, <2>2, GapTurn
    <2>3. s.at \in 1..(N + 1)
      BY DEF Scanner
    <2> QED BY <1>1, <2>1, <2>2, <2>3
  <1> HIDE DEF S, N, first, data
  <1>5. PICK f \in [0..N -> S] : Loop(f, N, first, step)
    <2>1. step \in [(1..N) \X S -> S]
      BY <1>4
    <2> HIDE DEF step
    <2> QED BY <1>1, <1>3, <2>1, Iteration
  <1>6. Turns1(f)
    <2>1. \A n \in 0..N : n = 0 \/ (n \in 1..N /\ n - 1 \in 0..N)
      BY <1>1
    <2>2. \A n \in 1..N : step[<<n, f[n - 1]>>] = ScanTurn(f[n - 1], b, data, scan)
      BY <1>1
    <2> HIDE DEF step
    <2> QED BY <1>5, <2>1, <2>2 DEF Loop
  <1> DEFINE turn == CHOOSE h : Turns1(h)
  <1>7. Turns1(turn)
    <2> HIDE DEF Turns1
    <2> QED BY <1>6
  <1>8. ScanBlock(hits, b, data, scan) = turn[N].hits
    BY DEF ScanBlock, N, first
  <1> HIDE DEF turn
  <1>9. turn[0] = first /\ \A n \in 1..N : turn[n] = ScanTurn(turn[n - 1], b, data, scan)
    <2>1. 0 \in 0..N /\ \A n \in 1..N : n \in 0..N /\ n # 0
      BY <1>1
    <2> QED BY <1>7, <2>1
  <1> DEFINE T == {n \in 0..N : OK(turn[n], n)}
  <1>10. 0 \in T
    <2>1. 0 \in 0..N
      BY <1>1
    <2> HIDE DEF OK
    <2> QED BY <1>2, <1>9, <2>1
  <1>11. ASSUME NEW n \in 1..N, n - 1 \in T PROVE n \in T
    <2> DEFINE s == turn[n - 1]
               t == turn[n]
    <2>1. ScanOK(s, queries, blocks, b, scan) /\ s.at > n - 1
      BY <1>11
    <2>2. t = ScanTurn(s, b, data, scan)
      BY <1>9
    <2> HIDE DEF s, t
    <2>3. ScanOK(t, queries, blocks, b, scan) /\ (t.at > N \/ t.at > s.at)
      BY <2>1, <2>2, TurnGathers DEF data, N
    <2>4. s.at \in Nat /\ t.at \in Nat
      BY <1>1, <2>1, <2>3 DEF ScanOK, Scanner, data, N
    <2>5. t.at > n
      BY <1>1, <2>1, <2>3, <2>4, SMTT(30)
    <2>6. n \in 0..N
      BY <1>1
    <2> QED BY <2>3, <2>5, <2>6 DEF t
  <1>12. N \in T
    <2> HIDE DEF T
    <2>1. N \in 0..N
      BY <1>1
    <2> QED BY <1>1, <1>10, <1>11, <2>1, BoundedInduction
  <1> DEFINE last == turn[N]
  <1>13. ScanOK(last, queries, blocks, b, scan) /\ last.at > N
    BY <1>12
  <1> HIDE DEF last
  <1>14. /\ last.hits \in [queries -> Seq(Hits)] /\ last.at = N + 1
         /\ \A q \in queries : /\ last.hits[q] \in Seq(AllStretches(blocks, q, scan))
                               /\ Gathered(last.hits[q], AllStretches(blocks, q, scan), scan.limit, At(b, N + 1))
    BY <1>1, <1>13 DEF ScanOK, Scanner, GatheredAll, data, N
  <1>15. ASSUME NEW q \in queries
         PROVE  Gathered(last.hits[q], AllStretches(blocks, q, scan), scan.limit, At(b + 1, 1))
    <2> DEFINE all == AllStretches(blocks, q, scan)
    <2>1. Addressed(all) /\ \A y \in all : y.block = b => y.place \in 1..N
      <3>1. Addressed(all) /\ \A y \in all : y = Hit(y.block, y.place, y.last)
        BY StretchesAre
      <3>2. \A y \in all : y.place \in DOMAIN blocks[y.block]
        BY <3>1, StretchesAre, SMTT(30)
      <3>3. DOMAIN blocks[b] = 1..N
        BY DEF N, data
      <3> QED BY <3>1, <3>2, <3>3
    <2> HIDE DEF all
    <2>2. last.hits[q] \in Seq(all) /\ Gathered(last.hits[q], all, scan.limit, At(b, N + 1))
      BY <1>14 DEF all
    <2>3. /\ HasAddress(At(b, N + 1)) /\ HasAddress(At(b + 1, 1)) /\ ~Before(At(b + 1, 1), At(b, N + 1))
      BY <1>1 DEF HasAddress, At, Before
    <2>4. \A y \in all : Before(y, At(b + 1, 1)) => Before(y, At(b, N + 1))
      <3> SUFFICES ASSUME NEW y \in all, Before(y, At(b + 1, 1)) PROVE Before(y, At(b, N + 1))
        OBVIOUS
      <3>1. y.block \in Nat /\ y.place \in Nat /\ (y.block = b => y.place \in 1..N)
        BY <2>1 DEF Addressed, HasAddress
      <3>2. y.block < b + 1 \/ (y.block = b + 1 /\ y.place < 1)
        BY DEF Before, At
      <3>3. y.block < b + 1
        <4>1. \A z \in all : z.place >= 1
          <5>1. \A z \in all : z.place \in DOMAIN blocks[z.block] /\ z.block \in DOMAIN blocks
            <6>1. \A z \in all : Hit(z.block, z.place, z.last) \in all
              BY StretchesAre DEF all
            <6> QED BY <6>1, StretchesAre DEF all
          <5>2. \A c \in DOMAIN blocks : \A i \in DOMAIN blocks[c] : i >= 1
            OBVIOUS
          <5> QED BY <5>1, <5>2
        <4> QED BY <3>1, <3>2, <4>1
      <3> QED BY <1>1, <3>1, <3>3 DEF Before, At
    <2> DEFINE here == At(b, N + 1)
               there == At(b + 1, 1)
    <2> HIDE DEF here, there
    <2>5. Gathered(last.hits[q], all, scan.limit, there)
      BY <2>1, <2>2, <2>3, <2>4, GatherOn DEF here, there
    <2> QED BY <2>5 DEF all, there
  <1>16. ScanBlock(hits, b, data, scan) = last.hits
    BY <1>8 DEF last
  <1> QED BY <1>14, <1>15, <1>16 DEF GatheredAll, data

\* The pass over the blocks finds the first stretches of every query.
LEMMA BatchExact ==
    ASSUME NEW blocks \in Seq(Seq(Nat)), NEW queries, NEW scan, scan.limit \in Nat,
           scan.chunk \in Nat \ {0}
    PROVE  \A q \in queries :
              /\ BatchSearch(blocks, queries, scan)[q] \in Seq(AllStretches(blocks, q, scan))
              /\ FirstOf(BatchSearch(blocks, queries, scan)[q], AllStretches(blocks, q, scan), scan.limit)
  <1> DEFINE N == Len(blocks)
             S == [queries -> Seq(Hits)]
             none == [q \in queries |-> <<>>]
             OK(hits, b) == GatheredAll(hits, queries, blocks, scan, At(b + 1, 1))
             one(hits, b) == NextBlock(hits, b, blocks, scan)
             step == [p \in (1..N) \X S |-> IF one(p[2], p[1]) \in S THEN one(p[2], p[1]) ELSE p[2]]
             IsAfter(f) == f = [b \in 0..N |-> IF b = 0 THEN none ELSE one(f[b - 1], b)]
  <1>1. N \in Nat /\ \A b \in 1..N : b \in DOMAIN blocks /\ b - 1 \in 0..N /\ (b - 1) + 1 = b /\ b \in Nat
    OBVIOUS
  <1>2. OK(none, 0)
    <2>1. none \in S /\ 0 + 1 = 1
      OBVIOUS
    <2>2. ASSUME NEW q \in queries
          PROVE  /\ none[q] \in Seq(AllStretches(blocks, q, scan))
                 /\ Gathered(none[q], AllStretches(blocks, q, scan), scan.limit, At(1, 1))
      <3> DEFINE all == AllStretches(blocks, q, scan)
      <3>1. \A x \in all : ~Before(x, At(1, 1))
        <4>1. \A x \in all : x = Hit(x.block, x.place, x.last) /\ x.block \in Nat /\ x.place \in Nat
          BY StretchesAre DEF Addressed, HasAddress
        <4>2. \A x \in all : x.block \in DOMAIN blocks /\ x.place \in DOMAIN blocks[x.block]
          BY <4>1, StretchesAre, SMTT(30)
        <4>3. \A x \in all : x.block >= 1 /\ x.place >= 1
          BY <4>2
        <4> HIDE DEF all
        <4> QED BY <4>1, <4>3 DEF Before, At
      <3> HIDE DEF all
      <3>2. <<>> \in Seq(all) /\ DOMAIN <<>> = {} /\ Len(<<>>) = 0
        OBVIOUS
      <3>3. Gathered(<<>>, all, scan.limit, At(1, 1))
        BY <3>1, <3>2 DEF Gathered
      <3> QED BY <3>2, <3>3 DEF all
    <2> HIDE DEF none
    <2> QED BY <2>1, <2>2 DEF GatheredAll
  <1>3. ASSUME NEW b \in 1..N, NEW hits, OK(hits, b - 1) PROVE OK(one(hits, b), b)
    <2>1. b \in DOMAIN blocks /\ GatheredAll(hits, queries, blocks, scan, At(b, 1))
      BY <1>1, <1>3
    <2>2. CASE AllFull(hits, scan.limit)
      <3>1. ASSUME NEW q \in queries
            PROVE  Gathered(hits[q], AllStretches(blocks, q, scan), scan.limit, At(b + 1, 1))
        <4> DEFINE all == AllStretches(blocks, q, scan)
                   here == At(b, 1)
                   there == At(b + 1, 1)
        <4>1. Addressed(all) /\ hits[q] \in Seq(all) /\ Gathered(hits[q], all, scan.limit, here)
          BY <2>1, StretchesAre DEF GatheredAll
        <4>2. Len(hits[q]) >= scan.limit
          BY <2>1, <2>2 DEF GatheredAll, AllFull
        <4>3. HasAddress(here) /\ HasAddress(there) /\ ~Before(there, here)
          BY <1>1 DEF HasAddress, At, Before
        <4> HIDE DEF all, here, there
        <4>4. Gathered(hits[q], all, scan.limit, there)
          BY <4>1, <4>2, <4>3, GatherOn
        <4> QED BY <4>4 DEF all, there
      <3>2. GatheredAll(hits, queries, blocks, scan, At(b + 1, 1))
        BY <2>1, <3>1 DEF GatheredAll
      <3> QED BY <2>2, <3>2 DEF NextBlock
    <2>3. CASE ~AllFull(hits, scan.limit)
      <3>1. Data(blocks[b], scan.chunk) = blocks[b]
        BY <2>1, DataIsAll
      <3>2. GatheredAll(ScanBlock(hits, b, blocks[b], scan), queries, blocks, scan, At(b + 1, 1))
        BY <2>1, BlockGathers
      <3> QED BY <2>3, <3>1, <3>2 DEF NextBlock
    <2> QED BY <2>2, <2>3
  <1>4. \A hits, b : OK(hits, b) => hits \in S
    BY DEF GatheredAll
  <1> HIDE DEF one, S, N, none, OK
  <1>5. step \in [(1..N) \X S -> S]
    OBVIOUS
  <1>6. PICK f \in [0..N -> S] : Loop(f, N, none, step)
    <2> HIDE DEF step
    <2> QED BY <1>1, <1>2, <1>4, <1>5, Iteration
  <1>7. ASSUME NEW b \in 1..N, OK(f[b - 1], b - 1) PROVE f[b] = one(f[b - 1], b) /\ OK(f[b], b)
    <2>1. OK(one(f[b - 1], b), b)
      BY <1>3, <1>7
    <2>2. step[<<b, f[b - 1]>>] = one(f[b - 1], b)
      BY <1>4, <1>7, <2>1
    <2> HIDE DEF step
    <2> QED BY <1>6, <2>1, <2>2 DEF Loop
  <1> HIDE DEF step
  <1> DEFINE T == {b \in 0..N : OK(f[b], b)}
  <1>8. 0..N \subseteq T
    <2>1. 0 \in T
      BY <1>1, <1>2, <1>6 DEF Loop
    <2>2. ASSUME NEW b \in 1..N, b - 1 \in T PROVE b \in T
      <3>1. OK(f[b], b)
        BY <1>7, <2>2
      <3> QED BY <1>1, <3>1
    <2> HIDE DEF T
    <2> QED BY <1>1, <2>1, <2>2, BoundedInduction
  <1>9. IsAfter(f)
    <2>1. \A b \in 0..N : b = 0 \/ b \in 1..N
      BY <1>1
    <2>2. \A b \in 1..N : f[b] = one(f[b - 1], b)
      <3> SUFFICES ASSUME NEW b \in 1..N PROVE f[b] = one(f[b - 1], b)
        OBVIOUS
      <3>1. OK(f[b - 1], b - 1)
        BY <1>1, <1>8
      <3> QED BY <1>7, <3>1
    <2> QED BY <1>6, <2>1, <2>2 DEF Loop
  <1> DEFINE after == CHOOSE h : IsAfter(h)
  <1>10. IsAfter(after)
    <2> HIDE DEF IsAfter
    <2> QED BY <1>9
  <1>11. BatchSearch(blocks, queries, scan) = after[N]
    BY DEF BatchSearch, one, N, none
  <1> HIDE DEF after
  <1>12. after[0] = none /\ \A b \in 1..N : after[b] = one(after[b - 1], b)
    <2>1. 0 \in 0..N /\ \A b \in 1..N : b \in 0..N /\ b # 0
      BY <1>1
    <2> QED BY <1>10, <2>1
  <1> DEFINE U == {b \in 0..N : OK(after[b], b)}
  <1>13. OK(after[N], N)
    <2>1. 0 \in U
      BY <1>1, <1>2, <1>12
    <2>2. ASSUME NEW b \in 1..N, b - 1 \in U PROVE b \in U
      BY <1>1, <1>3, <1>12, <2>2
    <2>3. 0..N \subseteq U
      <3> HIDE DEF U
      <3> QED BY <1>1, <2>1, <2>2, BoundedInduction
    <2>4. N \in 0..N
      BY <1>1
    <2> QED BY <2>3, <2>4
  <1> DEFINE hits == after[N]
  <1> HIDE DEF hits
  <1>14. SUFFICES ASSUME NEW q \in queries
                  PROVE  /\ hits[q] \in Seq(AllStretches(blocks, q, scan))
                         /\ FirstOf(hits[q], AllStretches(blocks, q, scan), scan.limit)
    BY <1>11 DEF hits
  <1> DEFINE all == AllStretches(blocks, q, scan)
             here == At(N + 1, 1)
  <1>15. Addressed(all) /\ hits[q] \in Seq(all) /\ Gathered(hits[q], all, scan.limit, here)
    BY <1>13, StretchesAre DEF OK, GatheredAll, hits
  <1>16. HasAddress(here) /\ \A x \in all : Before(x, here)
    <2>1. \A x \in all : x.block \in 1..N
      <3>1. \A x \in all : Hit(x.block, x.place, x.last) \in all
        BY StretchesAre
      <3>2. DOMAIN blocks = 1..N
        BY DEF N
      <3> QED BY <3>1, <3>2, StretchesAre
    <2> HIDE DEF all
    <2> QED BY <1>1, <2>1 DEF HasAddress, At, Before
  <1> HIDE DEF all, here
  <1>17. FirstOf(hits[q], all, scan.limit)
    BY <1>15, <1>16, GatheredIsFirst
  <1> QED BY <1>15, <1>17 DEF all

\* An empty query is in every run.
LEMMA MatchesEmpty ==
    ASSUME NEW data \in Seq(Nat), NEW i \in Nat \ {0}, NEW j \in Nat, i <= j, NEW min
    PROVE  Matches(data, i, j, <<>>, min) <=> j - i + 1 >= min
  <1>1. i \in i..j /\ i + Len(<<>>) - 1 <= j
    OBVIOUS
  <1>2. SubSeq(data, i, i + Len(<<>>) - 1) = <<>>
    OBVIOUS
  <1> QED BY <1>1, <1>2 DEF Matches

\* The stretches of a region, in the region and in its block.
LEMMA RegionStretches ==
    ASSUME NEW bytes \in Seq(Nat), NEW from \in Nat \ {0}, NEW size \in Nat \ {0}, NEW min \in Nat,
           from <= RegionEnd(bytes, from, size)
    PROVE  LET end == RegionEnd(bytes, from, size)
               region == SubSeq(bytes, from, end)
           IN /\ region \in Seq(Nat) /\ Len(region) = end - from + 1 /\ end \in Nat
              /\ \A i, j \in 1..Len(region) :
                    (/\ IsStretch(region, 1, Len(region), i, j) /\ Matches(region, i, j, <<>>, min))
                    <=> (/\ IsStretch(bytes, from, end, i + from - 1, j + from - 1)
                         /\ Matches(bytes, i + from - 1, j + from - 1, <<>>, min))
  <1> DEFINE end == RegionEnd(bytes, from, size)
             region == SubSeq(bytes, from, end)
             N == Len(region)
  <1>1. end \in Nat /\ end <= Len(bytes)
    BY DEF RegionEnd
  <1> HIDE DEF end
  <1>2. region \in Seq(Nat) /\ N = end - from + 1 /\ N \in Nat
    BY <1>1 DEF end
  <1>3. \A i \in 1..N : region[i] = bytes[i + from - 1]
    BY <1>1, <1>2
  <1> HIDE DEF region, N
  <1>4. ASSUME NEW i \in 1..N, NEW j \in 1..N
        PROVE  IsStretch(region, 1, N, i, j) <=> IsStretch(bytes, from, end, i + from - 1, j + from - 1)
    <2>1. (i <= j) <=> (i + from - 1 <= j + from - 1)
      BY <1>2
    <2>2. (i = 1) <=> (i + from - 1 = from)
      BY <1>2
    <2>3. (j = N) <=> (j + from - 1 = end)
      BY <1>1, <1>2
    <2>4. i # 1 => region[i - 1] = bytes[i + from - 1 - 1]
      <3> SUFFICES ASSUME i # 1 PROVE region[i - 1] = bytes[i + from - 1 - 1]
        OBVIOUS
      <3>1. i - 1 \in 1..N /\ (i - 1) + from - 1 = i + from - 1 - 1
        BY <1>2
      <3> QED BY <1>3, <3>1
    <2>5. j # N => region[j + 1] = bytes[j + from - 1 + 1]
      <3> SUFFICES ASSUME j # N PROVE region[j + 1] = bytes[j + from - 1 + 1]
        OBVIOUS
      <3>1. j + 1 \in 1..N /\ (j + 1) + from - 1 = j + from - 1 + 1
        BY <1>2
      <3> QED BY <1>3, <3>1
    <2>6. (\A k \in i..j : Printable(region[k])) <=> (\A k \in (i + from - 1)..(j + from - 1) : Printable(bytes[k]))
      <3>1. ASSUME \A k \in i..j : Printable(region[k]), NEW k \in (i + from - 1)..(j + from - 1)
            PROVE  Printable(bytes[k])
        <4>1. k - from + 1 \in i..j /\ k - from + 1 \in 1..N /\ (k - from + 1) + from - 1 = k
          BY <1>2
        <4> QED BY <1>3, <3>1, <4>1
      <3>2. ASSUME \A k \in (i + from - 1)..(j + from - 1) : Printable(bytes[k]), NEW k \in i..j
            PROVE  Printable(region[k])
        <4>1. k + from - 1 \in (i + from - 1)..(j + from - 1) /\ k \in 1..N
          BY <1>2
        <4> QED BY <1>3, <3>2, <4>1
      <3> QED BY <3>1, <3>2
    <2> DEFINE ii == i + from - 1
               jj == j + from - 1
               all == \A k \in i..j : Printable(region[k])
               allOf == \A k \in ii..jj : Printable(bytes[k])
    <2>7. /\ IsStretch(region, 1, N, i, j) <=> /\ i <= j /\ all
                                               /\ (i = 1 \/ ~Printable(region[i - 1]))
                                               /\ (j = N \/ ~Printable(region[j + 1]))
          /\ IsStretch(bytes, from, end, ii, jj) <=> /\ ii <= jj /\ allOf
                                                     /\ (ii = from \/ ~Printable(bytes[ii - 1]))
                                                     /\ (jj = end \/ ~Printable(bytes[jj + 1]))
      BY DEF IsStretch
    <2>8. all <=> allOf
      BY <2>6
    <2> HIDE DEF all, allOf
    <2> QED BY <2>1, <2>2, <2>3, <2>4, <2>5, <2>7, <2>8
  <1>5. ASSUME NEW i \in 1..N, NEW j \in 1..N, i <= j
        PROVE  Matches(region, i, j, <<>>, min) <=> Matches(bytes, i + from - 1, j + from - 1, <<>>, min)
    <2>1. i + from - 1 \in Nat \ {0} /\ j + from - 1 \in Nat /\ i + from - 1 <= j + from - 1
          /\ i \in Nat \ {0} /\ j \in Nat /\ (j + from - 1) - (i + from - 1) + 1 = j - i + 1
      BY <1>2, <1>5
    <2>2. Matches(region, i, j, <<>>, min) <=> j - i + 1 >= min
      BY <1>2, <1>5, <2>1, MatchesEmpty
    <2>3. Matches(bytes, i + from - 1, j + from - 1, <<>>, min) <=> (j + from - 1) - (i + from - 1) + 1 >= min
      BY <2>1, MatchesEmpty
    <2> QED BY <2>1, <2>2, <2>3
  <1>6. ASSUME NEW i \in 1..N, NEW j \in 1..N
        PROVE  (/\ IsStretch(region, 1, N, i, j) /\ Matches(region, i, j, <<>>, min))
               <=> (/\ IsStretch(bytes, from, end, i + from - 1, j + from - 1)
                    /\ Matches(bytes, i + from - 1, j + from - 1, <<>>, min))
    <2>1. CASE i <= j
      BY <1>4, <1>5, <2>1
    <2>2. CASE ~(i <= j)
      BY <1>4, <2>2 DEF IsStretch
    <2> QED BY <2>1, <2>2
  <1> QED BY <1>1, <1>2, <1>6 DEF end, region, N

\* A hit of a region, at its address in the block.
Shifted(h, from) == Hit(1, h.place + from - 1, h.last + from - 1)

\* The scan of a region returns the first stretches of the region.
LEMMA ExtractExact ==
    ASSUME NEW bytes \in Seq(Nat), NEW scan, scan.from \in Nat \ {0}, scan.size \in Nat \ {0},
           scan.limit \in Nat, scan.chunk \in Nat \ {0}, scan.min_length \in Nat
    PROVE  FirstOf(ExtractStrings(bytes, scan.from, scan.size, scan),
                   Stretches(1, bytes, scan.from, RegionEnd(bytes, scan.from, scan.size), <<>>, scan),
                   scan.limit)
  <1> DEFINE from == scan.from
             end == RegionEnd(bytes, from, scan.size)
             region == SubSeq(bytes, from, end)
             blocks == <<region>>
             inside == AllStretches(blocks, <<>>, scan)
             all == Stretches(1, bytes, from, end, <<>>, scan)
             hits == SearchDeep(blocks, <<>>, scan)
             shifted == [i \in DOMAIN hits |-> Shifted(hits[i], from)]
  <1>1. end \in Nat
    BY DEF RegionEnd
  <1>2. region \in Seq(Nat) /\ Len(region) \in Nat /\ (from > end => Len(region) = 0)
    <2> HIDE DEF end
    <2>1. region \in Seq(Nat) /\ Len(region) \in Nat
      <3>1. end <= Len(bytes) /\ end \in Int /\ from \in Int
        BY <1>1 DEF end, RegionEnd
      <3>2. \A i \in from..end : bytes[i] \in Nat
        BY <3>1
      <3> DEFINE first == from
      <3> HIDE DEF first
      <3>3. \A i \in first..end : bytes[i] \in Nat
        BY <3>2 DEF first
      <3>4. SubSeq(bytes, first, end) \in Seq(Nat)
        BY <3>1, <3>3, SubSeqProperties DEF first
      <3>5. region \in Seq(Nat)
        BY <3>4 DEF first
      <3> HIDE DEF region
      <3> QED BY <3>5, LenProperties
    <2>2. from > end => region = <<>>
      BY <1>1
    <2> QED BY <2>1, <2>2
  <1> HIDE DEF end, region
  <1>3. blocks \in Seq(Seq(Nat)) /\ blocks[1] = region /\ DOMAIN blocks = {1}
    BY <1>2
  <1> HIDE DEF blocks
  <1>4. hits \in Seq(inside) /\ FirstOf(hits, inside, scan.limit)
    <2>1. <<>> \in {<<>>}
      OBVIOUS
    <2> QED BY <1>3, <2>1, BatchExact DEF SearchDeep
  <1>5. /\ Addressed(inside) /\ inside \subseteq Hits
        /\ \A x \in inside : x = Hit(1, x.place, x.last)
        /\ \A i, j : Hit(1, i, j) \in inside <=>
              /\ i \in 1..Len(region) /\ j \in 1..Len(region)
              /\ IsStretch(region, 1, Len(region), i, j) /\ Matches(region, i, j, <<>>, scan.min_length)
    <2>1. \A x \in inside : x = Hit(x.block, x.place, x.last) /\ x.block \in DOMAIN blocks
      <3>1. \A x \in inside : x = Hit(x.block, x.place, x.last)
        BY <1>3, StretchesAre
      <3> QED BY <1>3, <3>1, StretchesAre
    <2>2. DOMAIN region = 1..Len(region)
      BY <1>2
    <2> QED BY <1>3, <2>1, <2>2, StretchesAre
  <1>6. \A x : x \in all <=> \E i, j \in from..end :
           /\ x = Hit(1, i, j) /\ IsStretch(bytes, from, end, i, j)
           /\ Matches(bytes, i, j, <<>>, scan.min_length)
    BY DEF Stretches, Hit
  <1> HIDE DEF all, inside, hits
  <1>7. /\ \A x \in inside : Shifted(x, from) \in all
        /\ \A y \in all : \E x \in inside : Shifted(x, from) = y
    <2>1. CASE from > end
      <3>1. all = {}
        BY <1>1, <1>6, <2>1
      <3>2. inside = {}
        BY <1>2, <1>5, <2>1
      <3> QED BY <3>1, <3>2
    <2>2. CASE ~(from > end)
      <3>0. from <= end
        BY <1>1, <2>2
      <3>1. /\ Len(region) = end - from + 1
            /\ \A i, j \in 1..Len(region) :
                    (/\ IsStretch(region, 1, Len(region), i, j) /\ Matches(region, i, j, <<>>, scan.min_length))
                    <=> (/\ IsStretch(bytes, from, end, i + from - 1, j + from - 1)
                         /\ Matches(bytes, i + from - 1, j + from - 1, <<>>, scan.min_length))
        BY <3>0, RegionStretches DEF end, region
      <3>2. ASSUME NEW x \in inside PROVE Shifted(x, from) \in all
        <4> DEFINE i == x.place
                   j == x.last
        <4>1. /\ i \in 1..Len(region) /\ j \in 1..Len(region)
              /\ IsStretch(region, 1, Len(region), i, j) /\ Matches(region, i, j, <<>>, scan.min_length)
          <5>1. Hit(1, i, j) \in inside
            BY <1>5
          <5> HIDE DEF i, j
          <5> QED BY <1>5, <5>1
        <4> HIDE DEF i, j
        <4>2. i + from - 1 \in from..end /\ j + from - 1 \in from..end
          <5>1. Len(region) = end - from + 1 /\ from \in Nat /\ i \in 1..Len(region) /\ j \in 1..Len(region)
            BY <3>1, <4>1
          <5> HIDE DEF from
          <5> QED BY <1>1, <5>1
        <4>3. Shifted(x, from) = Hit(1, i + from - 1, j + from - 1)
          BY DEF Shifted, i, j
        <4> QED BY <1>6, <3>1, <4>1, <4>2, <4>3
      <3>3. ASSUME NEW y \in all PROVE \E x \in inside : Shifted(x, from) = y
        <4>1. PICK i \in from..end, j \in from..end :
                 /\ y = Hit(1, i, j) /\ IsStretch(bytes, from, end, i, j)
                 /\ Matches(bytes, i, j, <<>>, scan.min_length)
          BY <1>6
        <4> DEFINE ii == i - from + 1
                   jj == j - from + 1
        <4>2. /\ ii \in 1..Len(region) /\ jj \in 1..Len(region)
              /\ ii + from - 1 = i /\ jj + from - 1 = j
          <5>1. Len(region) = end - from + 1 /\ from \in Nat
            BY <3>1
          <5> HIDE DEF from
          <5> QED BY <1>1, <5>1
        <4> HIDE DEF ii, jj
        <4>3. IsStretch(region, 1, Len(region), ii, jj) /\ Matches(region, ii, jj, <<>>, scan.min_length)
          BY <3>1, <4>1, <4>2
        <4>4. Hit(1, ii, jj) \in inside
          BY <1>5, <4>2, <4>3
        <4>5. Shifted(Hit(1, ii, jj), from) = y
          BY <4>1, <4>2 DEF Shifted, Hit
        <4> QED BY <4>4, <4>5
      <3> QED BY <3>2, <3>3
    <2> QED BY <2>1, <2>2
  <1>8. \A x, y \in inside : Before(x, y) <=> Before(Shifted(x, from), Shifted(y, from))
    <2>1. \A x \in inside : x.block = 1 /\ x.place \in Nat
      BY <1>5 DEF Hits, Hit
    <2> QED BY <2>1 DEF Shifted, Hit, Before
  <1>9. /\ shifted \in Seq(all) /\ Len(shifted) = Len(hits) /\ DOMAIN shifted = DOMAIN hits
        /\ \A i \in DOMAIN hits : shifted[i] = Shifted(hits[i], from) /\ hits[i] \in inside
    <2>1. DOMAIN hits = 1..Len(hits) /\ Len(hits) \in Nat /\ \A i \in DOMAIN hits : hits[i] \in inside
      BY <1>4
    <2>2. shifted \in [1..Len(hits) -> all]
      BY <1>7, <2>1
    <2> QED BY <2>1, <2>2
  <1> HIDE DEF shifted
  <1>10. Addressed(all) /\ \A y \in all : Before(y, At(2, 1))
    <2>1. \A y \in all : y.block = 1 /\ y.place \in Nat
      BY <1>1, <1>6 DEF Hit
    <2> QED BY <2>1 DEF Addressed, HasAddress, Before, At
  <1>11. Gathered(shifted, all, scan.limit, At(2, 1))
    <2>1. \A i, j \in DOMAIN shifted : i < j => Before(shifted[i], shifted[j])
      BY <1>4, <1>8, <1>9 DEF FirstOf
    <2>2. \A i \in DOMAIN shifted : shifted[i] \in all /\ Before(shifted[i], At(2, 1))
      BY <1>7, <1>9, <1>10
    <2>3. Len(shifted) <= scan.limit
      BY <1>4, <1>9 DEF FirstOf
    <2>4. ASSUME NEW y \in all
          PROVE  \/ \E i \in DOMAIN shifted : shifted[i] = y
                 \/ Len(shifted) = scan.limit /\ \A i \in DOMAIN shifted : Before(shifted[i], y)
      <3>1. PICK x \in inside : Shifted(x, from) = y
        BY <1>7
      <3>2. \/ \E i \in DOMAIN hits : hits[i] = x
            \/ Len(hits) = scan.limit /\ \A i \in DOMAIN hits : Before(hits[i], x)
        BY <1>4 DEF FirstOf
      <3> QED BY <1>8, <1>9, <3>1, <3>2
    <2> QED BY <2>1, <2>2, <2>3, <2>4 DEF Gathered
  <1>12. FirstOf(shifted, all, scan.limit)
    <2>1. HasAddress(At(2, 1))
      BY DEF HasAddress, At
    <2> QED BY <1>9, <1>10, <1>11, <2>1, GatheredIsFirst
  <1>13. ExtractStrings(bytes, from, scan.size, scan) = shifted
    BY DEF ExtractStrings, shifted, Shifted, hits, blocks, region, end
  <1> QED BY <1>12, <1>13 DEF all, end

-----------------------------------------------------------------------------
(* P-code: GetPcode.                                                       *)

\* all_ops has the ops of the blocks.
LEMMA AllOpsAre ==
    ASSUME NEW blocks, blocks \in Seq(Seq(Ops(blocks)))
    PROVE  AllOps(blocks) \in Seq(Ops(blocks)) /\ ToSet(AllOps(blocks)) = Ops(blocks)
  <1> DEFINE O == Ops(blocks)
             N == Len(blocks)
             upTo(b) == UNION {ToSet(blocks[c]) : c \in 1..b}
             S == Seq(O)
             step == [p \in (1..N) \X S |-> p[2] \o blocks[p[1]]]
             IsFlat(h) == h = [i \in 1..N |-> IF i = 1 THEN blocks[i] ELSE h[i - 1] \o blocks[i]]
  <1>1. N \in Nat /\ DOMAIN blocks = 1..N /\ \A b \in 1..N : blocks[b] \in S
    BY SMT
  <1>2. O = upTo(N)
    BY <1>1 DEF Ops
  <1> HIDE DEF N, O
  <1>3. CASE N = 0
    <2>1. blocks = <<>>
      BY <1>1, <1>3 DEF N
    <2>2. AllOps(blocks) = <<>> /\ O = {}
      BY <1>2, <1>3, <2>1 DEF AllOps, FlattenSeq
    <2> QED BY <2>2 DEF ToSet, O
  <1>4. CASE N # 0
    <2>1. step \in [(1..N) \X S -> S]
      <3>1. \A b \in 1..N : \A s \in S : s \o blocks[b] \in S
        BY <1>1, ConcatProperties
      <3> HIDE DEF S
      <3> QED BY <3>1
    <2>2. <<>> \in S
      OBVIOUS
    <2> HIDE DEF step, S
    <2>3. PICK f \in [0..N -> S] : Loop(f, N, <<>>, step)
      BY <1>1, <2>1, <2>2, Iteration
    <2>4. f[0] = <<>> /\ \A b \in 1..N : f[b] = f[b - 1] \o blocks[b]
      <3>1. \A b \in 1..N : b - 1 \in 0..N
        BY <1>1
      <3> QED BY <2>3, <3>1 DEF Loop, step
    <2> DEFINE flat == [b \in 1..N |-> f[b]]
    <2>5. IsFlat(flat)
      <3>1. f[1] = blocks[1]
        <4>1. 1 \in 1..N /\ 1 - 1 = 0
          BY <1>1, <1>4
        <4>2. blocks[1] \in Seq(O)
          BY <1>1, <4>1 DEF S
        <4>3. f[1] = <<>> \o blocks[1]
          BY <2>4, <4>1
        <4> QED BY <4>2, <4>3, ConcatEmptySeq
      <3>2. \A b \in 1..N : b = 1 \/ (b - 1 \in 1..N /\ f[b] = f[b - 1] \o blocks[b])
        <4>1. \A b \in 1..N : b = 1 \/ b - 1 \in 1..N
          <5>1. N \in Nat
            BY <1>1
          <5> QED BY <5>1
        <4> HIDE DEF flat, IsFlat
        <4> QED BY <2>4, <4>1
      <3> QED BY <3>1, <3>2
    <2> DEFINE flatten == CHOOSE h : IsFlat(h)
    <2>6. IsFlat(flatten)
      <3> HIDE DEF IsFlat, flat
      <3> QED BY <2>5
    <2>7. AllOps(blocks) = flatten[N]
      BY <1>4 DEF AllOps, FlattenSeq, N
    <2> HIDE DEF flatten
    <2>8. \A b \in 1..N : flatten[b] = IF b = 1 THEN blocks[b] ELSE flatten[b - 1] \o blocks[b]
      BY <2>6
    <2> DEFINE T == {b \in 0..N : b # 0 => flatten[b] \in Seq(O) /\ ToSet(flatten[b]) = upTo(b)}
    <2>9. 0 \in T
      BY <1>1
    <2>10. ASSUME NEW b \in 1..N, b - 1 \in T PROVE b \in T
      <3>1. blocks[b] \in Seq(O) /\ b \in Nat
        BY <1>1 DEF S
      <3>2. upTo(b) = upTo(b - 1) \union ToSet(blocks[b])
        <4>1. \A c : c \in 1..b <=> (c \in 1..(b - 1) \/ c = b)
          BY <3>1
        <4> QED BY <4>1
      <3>3. CASE b = 1
        <4>1. upTo(b - 1) = {}
          BY <3>3
        <4>2. flatten[b] = blocks[b]
          BY <2>8, <3>3
        <4>3. upTo(b) = ToSet(blocks[b])
          <5> HIDE DEF upTo
          <5> QED BY <3>2, <4>1
        <4>4. b \in 0..N
          BY <1>1
        <4> HIDE DEF upTo
        <4> QED BY <3>1, <4>2, <4>3, <4>4
      <3>4. CASE b # 1
        <4>1. b - 1 # 0 /\ flatten[b - 1] \in Seq(O) /\ ToSet(flatten[b - 1]) = upTo(b - 1)
          BY <2>10, <3>1, <3>4
        <4> DEFINE s == flatten[b - 1]
                   t == blocks[b]
        <4>2. flatten[b] = s \o t
          BY <2>8, <3>4
        <4> HIDE DEF s, t
        <4>3. /\ s \o t \in Seq(O) /\ Len(s \o t) = Len(s) + Len(t) /\ Len(s) \in Nat /\ Len(t) \in Nat
              /\ \A i \in 1..(Len(s) + Len(t)) : (s \o t)[i] = IF i <= Len(s) THEN s[i] ELSE t[i - Len(s)]
          <5>1. s \in Seq(O) /\ t \in Seq(O)
            BY <3>1, <4>1 DEF s, t
          <5>2. Len(s) \in Nat /\ Len(t) \in Nat
            BY <5>1
          <5> QED BY <5>1, <5>2, ConcatProperties
        <4>4. ToSet(s \o t) = ToSet(s) \union ToSet(t)
          <5>0. /\ DOMAIN (s \o t) = 1..(Len(s) + Len(t)) /\ DOMAIN s = 1..Len(s) /\ DOMAIN t = 1..Len(t)
            BY <3>1, <4>1, <4>3 DEF s, t
          <5>1. \A i \in DOMAIN (s \o t) : (s \o t)[i] \in ToSet(s) \union ToSet(t)
            BY <4>3, <5>0 DEF ToSet
          <5>2. \A i \in DOMAIN s : s[i] \in ToSet(s \o t)
            BY <4>3, <5>0 DEF ToSet
          <5>3. ASSUME NEW i \in DOMAIN t PROVE t[i] \in ToSet(s \o t)
            <6>1. i + Len(s) \in DOMAIN (s \o t) /\ (s \o t)[i + Len(s)] = t[i]
              BY <4>3, <5>0
            <6> QED BY <6>1 DEF ToSet
          <5> QED BY <5>1, <5>2, <5>3 DEF ToSet
        <4> HIDE DEF upTo
        <4>5. b \in 0..N
          BY <1>1
        <4> QED BY <3>2, <4>1, <4>2, <4>3, <4>4, <4>5 DEF s, t
      <3> QED BY <3>3, <3>4
    <2>11. N \in T
      <3> HIDE DEF T
      <3>1. N \in 0..N
        BY <1>1
      <3> QED BY <1>1, <2>9, <2>10, <3>1, BoundedInduction
    <2> QED BY <1>2, <1>4, <2>7, <2>11 DEF O
  <1> QED BY <1>3, <1>4

\* The lines of ops, and the tokens that a slice can track.
LinesOf(O) == {o.line : o \in O}
TrackedOf(O, seeds) == seeds \union {o.out : o \in O}
SliceStates(O, seeds) == [keep : SUBSET LinesOf(O), tracked : SUBSET TrackedOf(O, seeds)]

\* What is kept is in every closed set, and what is tracked is the variable and the
\* outputs of what is kept, all of them.
SliceOK(s, blocks, seeds) ==
    /\ s \in SliceStates(Ops(blocks), seeds)
    /\ \A lines : Closed(blocks, seeds, lines) => s.keep \subseteq lines
    /\ \A t \in s.tracked : t \in seeds \/ \E u \in Ops(blocks) : u.line \in s.keep /\ t = u.out /\ t # NoToken
    /\ seeds \subseteq s.tracked
    /\ \A u \in Ops(blocks) : u.line \in s.keep /\ u.out # NoToken => u.out \in s.tracked

\* Ops with the same line are the same.
OneOpALine(blocks) == \A o, u \in Ops(blocks) : o.line = u.line => o = u

\* An op that is looked at keeps what holds of a slice.
LEMMA LookKeeps ==
    ASSUME NEW blocks, OneOpALine(blocks), NEW seeds, NEW o \in Ops(blocks),
           NEW s, SliceOK(s, blocks, seeds)
    PROVE  LET t == Look(s, o, seeds)
           IN /\ SliceOK(t, blocks, seeds) /\ s.keep \subseteq t.keep /\ s.tracked \subseteq t.tracked
              /\ o.line \in t.keep \/ ~(o.out \in seeds \/ o.ins \intersect s.tracked # {})
  <1> DEFINE O == Ops(blocks)
             t == Look(s, o, seeds)
  <1>1. CASE o.line \notin s.keep /\ (o.out \in seeds \/ o.ins \intersect s.tracked # {})
    <2>1. t = [keep |-> s.keep \union {o.line}, tracked |-> s.tracked \union ({o.out} \ {NoToken})]
      BY <1>1 DEF Look
    <2>2. t \in SliceStates(O, seeds)
      BY <2>1 DEF SliceOK, SliceStates, LinesOf, TrackedOf
    <2>3. ASSUME NEW lines, Closed(blocks, seeds, lines) PROVE t.keep \subseteq lines
      <3>1. s.keep \subseteq lines
        BY <2>3 DEF SliceOK
      <3>2. o.line \in lines
        <4>1. CASE o.out \in seeds \/ o.ins \intersect seeds # {}
          BY <2>3, <4>1 DEF Closed
        <4>2. CASE ~(o.out \in seeds \/ o.ins \intersect seeds # {})
          <5>1. PICK x \in o.ins : x \in s.tracked /\ x \notin seeds
            BY <1>1, <4>2
          <5>2. PICK u \in O : u.line \in s.keep /\ x = u.out /\ x # NoToken
            BY <5>1 DEF SliceOK
          <5>3. u.line \in lines /\ u.out # NoToken /\ u.out \in o.ins
            BY <3>1, <5>1, <5>2
          <5> QED BY <2>3, <5>3 DEF Closed
        <4> QED BY <4>1, <4>2
      <3> QED BY <2>1, <3>1, <3>2
    <2>4. \A x \in t.tracked : x \in seeds \/ \E u \in O : u.line \in t.keep /\ x = u.out /\ x # NoToken
      <3>1. \A x \in t.tracked : x \in s.tracked \/ (x = o.out /\ x # NoToken)
        BY <2>1
      <3>2. o.line \in t.keep /\ s.keep \subseteq t.keep
        BY <2>1
      <3> HIDE DEF t
      <3> QED BY <3>1, <3>2 DEF SliceOK
    <2>5. seeds \subseteq t.tracked /\ s.keep \subseteq t.keep /\ s.tracked \subseteq t.tracked /\ o.line \in t.keep
      BY <2>1 DEF SliceOK
    <2>6. \A u \in O : u.line \in t.keep /\ u.out # NoToken => u.out \in t.tracked
      <3> SUFFICES ASSUME NEW u \in O, u.line \in t.keep, u.out # NoToken PROVE u.out \in t.tracked
        OBVIOUS
      <3>1. CASE u.line \in s.keep
        BY <2>5, <3>1 DEF SliceOK
      <3>2. CASE u.line \notin s.keep
        <4>1. u.line = o.line
          BY <2>1, <3>2
        <4>2. u = o
          BY <4>1 DEF OneOpALine
        <4> QED BY <2>1, <4>2
      <3> QED BY <3>1, <3>2
    <2> HIDE DEF t
    <2> QED BY <2>2, <2>3, <2>4, <2>5, <2>6 DEF SliceOK, t
  <1>2. CASE ~(o.line \notin s.keep /\ (o.out \in seeds \/ o.ins \intersect s.tracked # {}))
    <2>1. t = s
      BY <1>2 DEF Look
    <2> QED BY <1>2, <2>1
  <1> QED BY <1>1, <1>2

\* A pass that keeps nothing more has a closed set.
LEMMA PassKeeps ==
    ASSUME NEW blocks, blocks \in Seq(Seq(Ops(blocks))), OneOpALine(blocks), NEW seeds,
           NEW s, SliceOK(s, blocks, seeds)
    PROVE  LET t == Pass(AllOps(blocks), seeds, s)
           IN /\ SliceOK(t, blocks, seeds) /\ s.keep \subseteq t.keep
              /\ t.keep = s.keep => Closed(blocks, seeds, s.keep)
  <1> DEFINE O == Ops(blocks)
             ops == AllOps(blocks)
             N == Len(ops)
             S == SliceStates(O, seeds)
             step == [p \in (1..N) \X S |-> Look(p[2], ops[p[1]], seeds)]
             IsAfter(f) == f = [n \in 0..N |-> IF n = 0 THEN s ELSE Look(f[n - 1], ops[n], seeds)]
             Missed(i) == ops[i].out \in seeds \/ ops[i].ins \intersect s.tracked # {}
             OK(t, n) == /\ SliceOK(t, blocks, seeds) /\ s.keep \subseteq t.keep /\ s.tracked \subseteq t.tracked
                         /\ \A i \in 1..n : ops[i].line \in t.keep \/ ~Missed(i)
  <1>1. ops \in Seq(O) /\ ToSet(ops) = O
    BY AllOpsAre
  <1> HIDE DEF ops
  <1>2. N \in Nat /\ DOMAIN ops = 1..N /\ \A n \in 1..N : ops[n] \in O
    BY <1>1
  <1>3. s \in S
    BY DEF SliceOK
  <1>4. ASSUME NEW t \in S, NEW o \in O PROVE Look(t, o, seeds) \in S
    BY DEF Look, SliceStates, LinesOf, TrackedOf
  <1> HIDE DEF S, N, O
  <1>5. PICK f \in [0..N -> S] : Loop(f, N, s, step)
    <2>1. step \in [(1..N) \X S -> S]
      BY <1>2, <1>4
    <2> HIDE DEF step
    <2> QED BY <1>2, <1>3, <2>1, Iteration
  <1>6. IsAfter(f)
    <2>0. N \in Nat
      BY <1>2
    <2>1. \A n \in 0..N : n = 0 \/ (n \in 1..N /\ n - 1 \in 0..N)
      BY <2>0
    <2>2. \A n \in 1..N : step[<<n, f[n - 1]>>] = Look(f[n - 1], ops[n], seeds)
      BY <2>0
    <2> HIDE DEF step
    <2> QED BY <1>5, <2>1, <2>2 DEF Loop
  <1> DEFINE after == CHOOSE h : IsAfter(h)
  <1>7. IsAfter(after)
    <2> HIDE DEF IsAfter
    <2> QED BY <1>6
  <1>8. Pass(ops, seeds, s) = after[N]
    BY DEF Pass, N
  <1> HIDE DEF after
  <1>9. after[0] = s /\ \A n \in 1..N : after[n] = Look(after[n - 1], ops[n], seeds)
    <2>0. N \in Nat
      BY <1>2
    <2>1. 0 \in 0..N /\ \A n \in 1..N : n \in 0..N /\ n # 0
      BY <2>0
    <2> QED BY <1>7, <2>1
  <1> DEFINE T == {n \in 0..N : OK(after[n], n)}
  <1>10. 0 \in T
    <2>1. 0 \in 0..N /\ 1..0 = {}
      BY <1>2
    <2> HIDE DEF Missed
    <2> QED BY <1>9, <2>1
  <1>11. ASSUME NEW n \in 1..N, n - 1 \in T PROVE n \in T
    <2> DEFINE t == after[n - 1]
               u == after[n]
               o == ops[n]
    <2>1. OK(t, n - 1)
      BY <1>11
    <2>2. u = Look(t, o, seeds) /\ o \in Ops(blocks)
      BY <1>2, <1>9 DEF O
    <2> HIDE DEF t, u
    <2>3. /\ SliceOK(u, blocks, seeds) /\ t.keep \subseteq u.keep /\ t.tracked \subseteq u.tracked
          /\ o.line \in u.keep \/ ~(o.out \in seeds \/ o.ins \intersect t.tracked # {})
      BY <2>1, <2>2, LookKeeps
    <2>4. o.line \in u.keep \/ ~Missed(n)
      BY <2>1, <2>3
    <2> HIDE DEF Missed
    <2>5. \A i \in 1..n : i = n \/ i \in 1..(n - 1)
      <3>1. n \in Nat
        BY <1>2
      <3> QED BY <3>1
    <2>6. \A i \in 1..n : ops[i].line \in u.keep \/ ~Missed(i)
      BY <2>1, <2>3, <2>4, <2>5
    <2>7. n \in 0..N
      BY <1>2
    <2>8. OK(u, n)
      BY <2>1, <2>3, <2>6
    <2> HIDE DEF OK
    <2> QED BY <2>7, <2>8 DEF u
  <1>12. OK(after[N], N)
    <2>1. N \in 0..N /\ N \in Nat
      BY <1>2
    <2>2. N \in T
      <3> HIDE DEF T
      <3> QED BY <1>10, <1>11, <2>1, BoundedInduction
    <2> HIDE DEF OK
    <2> QED BY <2>2
  <1> DEFINE t == after[N]
  <1>13. ASSUME t.keep = s.keep PROVE Closed(blocks, seeds, s.keep)
    <2>1. ASSUME NEW o \in Ops(blocks), o.out \in seeds \/ o.ins \intersect s.tracked # {} PROVE o.line \in s.keep
      <3>1. PICK i \in 1..N : ops[i] = o
        BY <1>1, <1>2 DEF ToSet, O
      <3>2. Missed(i)
        BY <2>1, <3>1
      <3> HIDE DEF Missed
      <3> QED BY <1>12, <1>13, <3>1, <3>2
    <2>2. seeds \subseteq s.tracked
      BY DEF SliceOK
    <2>3. \A o, u \in Ops(blocks) : o.line \in s.keep /\ o.out # NoToken /\ o.out \in u.ins => u.line \in s.keep
      BY <2>1 DEF SliceOK
    <2>4. \A o \in Ops(blocks) : o.out \in seeds \/ o.ins \intersect seeds # {} => o.line \in s.keep
      BY <2>1, <2>2
    <2> QED BY <2>3, <2>4 DEF Closed
  <1>14. SliceOK(t, blocks, seeds) /\ s.keep \subseteq t.keep
    BY <1>12
  <1> HIDE DEF t
  <1> QED BY <1>8, <1>13, <1>14 DEF t, ops

\* There are no more lines than ops.
LEMMA FewLines ==
    ASSUME NEW blocks, blocks \in Seq(Seq(Ops(blocks)))
    PROVE  /\ IsFiniteSet(LinesOf(Ops(blocks)))
           /\ Cardinality(LinesOf(Ops(blocks))) <= Len(AllOps(blocks)) /\ Len(AllOps(blocks)) \in Nat
           /\ Cardinality(LinesOf(Ops(blocks))) \in Nat
  <1> DEFINE ops == AllOps(blocks)
             N == Len(ops)
             lines == LinesOf(Ops(blocks))
             line == [i \in 1..N |-> ops[i].line]
  <1>1. ops \in Seq(Ops(blocks)) /\ ToSet(ops) = Ops(blocks)
    BY AllOpsAre
  <1>2. N \in Nat /\ DOMAIN ops = 1..N
    BY <1>1
  <1> HIDE DEF ops, N
  <1>3. \A l \in lines : \E i \in 1..N : line[i] = l
    BY <1>1, <1>2 DEF LinesOf, ToSet
  <1>4. \A i \in 1..N : line[i] \in lines
    BY <1>1, <1>2 DEF LinesOf, ToSet
  <1> HIDE DEF lines
  <1>5. line \in Surjection(1..N, lines)
    BY <1>3, <1>4 DEF Surjection
  <1>6. IsFiniteSet(1..N) /\ Cardinality(1..N) = N
    <2>1. Cardinality(1..N) = IF 1 > N THEN 0 ELSE N - 1 + 1
      BY <1>2, FS_Interval
    <2> QED BY <1>2, <2>1, FS_Interval
  <1> HIDE DEF line
  <1>7. IsFiniteSet(lines) /\ Cardinality(lines) <= N
    BY <1>5, <1>6, FS_Surjection
  <1>8. Cardinality(lines) \in Nat
    BY <1>7, FS_CardinalityType
  <1> QED BY <1>2, <1>7, <1>8 DEF lines, N, ops

\* A slice is the least set of lines that is closed.
LEMMA ForwardSliceExact ==
    ASSUME NEW blocks, blocks \in Seq(Seq(Ops(blocks))), OneOpALine(blocks), NEW var
    PROVE  /\ ForwardSlice(blocks, var) \subseteq LinesOf(Ops(blocks))
           /\ SliceClosure(blocks, var, ForwardSlice(blocks, var))
  <1> DEFINE ops == AllOps(blocks)
             seeds == Seeds(blocks, var)
             N == Len(ops) + 1
             lines == LinesOf(Ops(blocks))
             states == SliceStates(Ops(blocks), seeds)
             S == [state : {s \in states : SliceOK(s, blocks, seeds)}, over : BOOLEAN]
             first == [state |-> [keep |-> {}, tracked |-> seeds], over |-> FALSE]
             step == [p \in (1..N) \X S |-> PassAgain(p[2], ops, seeds)]
             IsPass(f) == f = [n \in 0..N |-> IF n = 0 THEN first ELSE PassAgain(f[n - 1], ops, seeds)]
             OK(s, n) == IF s.over THEN Closed(blocks, seeds, s.state.keep) ELSE Cardinality(s.state.keep) >= n
  <1>1. /\ N \in Nat /\ IsFiniteSet(lines) /\ Cardinality(lines) <= N - 1 /\ Cardinality(lines) \in Nat
    BY FewLines
  <1>2. first \in S
    BY DEF SliceOK, SliceStates, TrackedOf
  <1>3. ASSUME NEW s \in S, NEW n \in 1..N
        PROVE  LET t == PassAgain(s, ops, seeds) IN t \in S /\ (OK(s, n - 1) => OK(t, n))
    <2> DEFINE t == PassAgain(s, ops, seeds)
               after == Pass(ops, seeds, s.state)
    <2>1. SliceOK(s.state, blocks, seeds) /\ s.over \in BOOLEAN /\ s.state.keep \subseteq lines
      BY DEF SliceOK, SliceStates
    <2>2. CASE s.over
      BY <2>2 DEF PassAgain
    <2>3. CASE ~s.over
      <3>1. /\ SliceOK(after, blocks, seeds) /\ s.state.keep \subseteq after.keep
            /\ after.keep = s.state.keep => Closed(blocks, seeds, s.state.keep)
        BY <2>1, PassKeeps
      <3>2. t = [state |-> after, over |-> s.state.keep = after.keep]
        BY <2>3 DEF PassAgain, NothingChanged
      <3> HIDE DEF after, t
      <3>3. after \in states /\ after.keep \subseteq lines
        BY <3>1 DEF SliceOK, SliceStates
      <3>4. t \in S
        BY <3>1, <3>2, <3>3
      <3>5. CASE s.state.keep = after.keep
        <4>1. t.over = TRUE /\ t.state.keep = s.state.keep
          BY <3>2, <3>5
        <4>2. Closed(blocks, seeds, t.state.keep)
          BY <3>1, <3>5, <4>1
        <4>3. OK(t, n)
          BY <4>1, <4>2
        <4> HIDE DEF OK, S
        <4> QED BY <3>4, <4>3 DEF t
      <3>6. CASE s.state.keep # after.keep
        <4> DEFINE small == s.state.keep
                   big == after.keep
        <4>1. IsFiniteSet(big) /\ small \in SUBSET big /\ small # big
          BY <1>1, <3>1, <3>3, <3>6, FS_Subset
        <4> HIDE DEF small, big, lines
        <4>2. /\ Cardinality(small) <= Cardinality(big) /\ Cardinality(small) # Cardinality(big)
              /\ IsFiniteSet(small)
          BY <4>1, FS_Subset
        <4>3. Cardinality(small) \in Nat /\ Cardinality(big) \in Nat
          BY <4>1, <4>2, FS_CardinalityType
        <4>4. n \in Nat
          BY <1>1
        <4>5. Cardinality(small) >= n - 1 => Cardinality(big) >= n
          BY <4>2, <4>3, <4>4
        <4>6. t.over = FALSE /\ t.state.keep = big
          BY <3>2, <3>6 DEF big
        <4>7. OK(s, n - 1) => OK(t, n)
          BY <2>3, <4>5, <4>6 DEF small
        <4> HIDE DEF OK, S
        <4> QED BY <3>4, <4>7 DEF t
      <3> QED BY <3>5, <3>6
    <2> QED BY <2>1, <2>2, <2>3
  <1> HIDE DEF S, N, first, OK
  <1>4. PICK f \in [0..N -> S] : Loop(f, N, first, step)
    <2>1. step \in [(1..N) \X S -> S]
      BY <1>3
    <2> HIDE DEF step
    <2> QED BY <1>1, <1>2, <2>1, Iteration
  <1>5. IsPass(f)
    <2>0. N \in Nat
      BY <1>1
    <2>1. \A n \in 0..N : n = 0 \/ (n \in 1..N /\ n - 1 \in 0..N)
      BY <2>0
    <2>2. \A n \in 1..N : step[<<n, f[n - 1]>>] = PassAgain(f[n - 1], ops, seeds)
      BY <2>0
    <2> HIDE DEF step
    <2> QED BY <1>4, <2>1, <2>2 DEF Loop
  <1> DEFINE pass == CHOOSE h : IsPass(h)
  <1>6. IsPass(pass)
    <2> HIDE DEF IsPass
    <2> QED BY <1>5
  <1>7. ForwardSlice(blocks, var) = pass[N].state.keep
    BY DEF ForwardSlice, N, first
  <1> HIDE DEF pass
  <1>8. pass[0] = first /\ \A n \in 1..N : pass[n] = PassAgain(pass[n - 1], ops, seeds)
    <2>0. N \in Nat
      BY <1>1
    <2>1. 0 \in 0..N /\ \A n \in 1..N : n \in 0..N /\ n # 0
      BY <2>0
    <2> QED BY <1>6, <2>1
  <1> DEFINE T == {n \in 0..N : pass[n] \in S /\ OK(pass[n], n)}
  <1>9. 0 \in T
    <2>1. OK(first, 0)
      <3>1. Cardinality({}) >= 0
        BY FS_EmptySet
      <3>2. first.over = FALSE /\ first.state.keep = {}
        BY DEF first
      <3> QED BY <3>1, <3>2 DEF OK
    <2> QED BY <1>1, <1>2, <1>8, <2>1
  <1>10. ASSUME NEW n \in 1..N, n - 1 \in T PROVE n \in T
    <2>1. n \in 0..N
      BY <1>1
    <2>2. pass[n - 1] \in S /\ OK(pass[n - 1], n - 1)
      BY <1>10
    <2>3. PassAgain(pass[n - 1], ops, seeds) \in S /\ OK(PassAgain(pass[n - 1], ops, seeds), n)
      BY <1>3, <2>2
    <2> QED BY <1>8, <2>1, <2>3
  <1>11. pass[N] \in S /\ OK(pass[N], N)
    <2>0. N \in Nat
      BY <1>1
    <2>1. N \in 0..N
      BY <2>0
    <2>2. N \in T
      <3> HIDE DEF T
      <3> QED BY <2>0, <1>9, <1>10, <2>1, BoundedInduction
    <2> QED BY <2>2
  <1> DEFINE last == pass[N]
             kept == last.state.keep
  <1> HIDE DEF last
  <1>12. SliceOK(last.state, blocks, seeds) /\ last.over \in BOOLEAN /\ kept \subseteq lines
    BY <1>11 DEF S, last, SliceOK, SliceStates
  <1>13. Closed(blocks, seeds, kept)
    <2>1. CASE last.over
      BY <1>11, <2>1 DEF OK, last
    <2>2. CASE ~last.over
      <3>1. Cardinality(kept) >= N
        BY <1>11, <2>2 DEF OK, last
      <3>2. kept \in SUBSET lines /\ IsFiniteSet(lines)
        BY <1>1, <1>12
      <3> DEFINE small == kept
                 big == lines
      <3> HIDE DEF small, big
      <3>3. Cardinality(small) <= Cardinality(big) /\ IsFiniteSet(small)
        BY <3>2, FS_Subset DEF small, big
      <3>4. Cardinality(small) \in Nat
        BY <3>3, FS_CardinalityType
      <3>5. Cardinality(small) >= N /\ Cardinality(big) <= N - 1 /\ Cardinality(big) \in Nat /\ N \in Nat
        BY <1>1, <3>1 DEF small, big
      <3> QED BY <3>3, <3>4, <3>5
    <2> QED BY <1>12, <2>1, <2>2
  <1>14. \A other \in SUBSET kept : Closed(blocks, seeds, other) => other = kept
    <2>1. \A other : Closed(blocks, seeds, other) => kept \subseteq other
      BY <1>12 DEF SliceOK
    <2> QED BY <2>1
  <1>15. SliceClosure(blocks, var, kept)
    BY <1>13, <1>14 DEF SliceClosure
  <1> QED BY <1>7, <1>12, <1>15 DEF last

\* Lines tell the places of ops apart.
OnePlaceALine(blocks) ==
    \A b, c \in DOMAIN blocks : \A i \in DOMAIN blocks[b], j \in DOMAIN blocks[c] :
       blocks[b][i].line = blocks[c][j].line => b = c /\ i = j

\* What is printed before number n of block b: ops that are kept, from the places
\* before, each once, and no more lines than there may be.
IsBefore(o, blocks, b, n) ==
    \E c \in DOMAIN blocks : \E m \in DOMAIN blocks[c] : o = blocks[c][m] /\ (c < b \/ (c = b /\ m < n))
PrintStates(blocks, limit) == [lines : 0..limit, ops : Seq(Ops(blocks))]
PrintOK(s, blocks, kept, limit, b, n) ==
    /\ s \in PrintStates(blocks, limit)
    /\ \A i \in DOMAIN s.ops : s.ops[i].line \in kept /\ IsBefore(s.ops[i], blocks, b, n)
    /\ \A i, j \in DOMAIN s.ops : s.ops[i].line = s.ops[j].line => i = j

\* Printing an op gives a listing.
LEMMA PrintOpTyped ==
    ASSUME NEW blocks, NEW limit \in Nat, NEW kept, NEW o \in Ops(blocks), NEW s \in PrintStates(blocks, limit)
    PROVE  PrintOp(s, o, kept, limit) \in PrintStates(blocks, limit)
  <1>1. CASE o.line \in kept /\ s.lines < limit
    <2>1. s.lines + 1 \in 0..limit
      BY <1>1 DEF PrintStates
    <2>2. Append(s.ops, o) \in Seq(Ops(blocks))
      BY DEF PrintStates
    <2> QED BY <1>1, <2>1, <2>2 DEF PrintOp, PrintStates
  <1>2. CASE ~(o.line \in kept /\ s.lines < limit)
    BY <1>2 DEF PrintOp
  <1> QED BY <1>1, <1>2

\* Printing an op keeps what holds of the listing before the next op.
LEMMA PrintOpKeeps ==
    ASSUME NEW blocks, blocks \in Seq(Seq(Ops(blocks))), OnePlaceALine(blocks), NEW limit \in Nat, NEW kept,
           NEW b \in DOMAIN blocks, NEW n \in DOMAIN blocks[b], NEW s,
           PrintOK(s, blocks, kept, limit, b, n)
    PROVE  PrintOK(PrintOp(s, blocks[b][n], kept, limit), blocks, kept, limit, b, n + 1)
  <1> DEFINE o == blocks[b][n]
             t == PrintOp(s, o, kept, limit)
  <1>1. b \in Nat /\ n \in Nat /\ o \in Ops(blocks)
    BY DEF Ops, ToSet
  <1>2. s \in PrintStates(blocks, limit) /\ t \in PrintStates(blocks, limit)
    BY <1>1, PrintOpTyped DEF PrintOK
  <1>3. \A u : IsBefore(u, blocks, b, n) => IsBefore(u, blocks, b, n + 1)
    <2>1. \A m \in Nat : m < n => m < n + 1
      BY <1>1
    <2>2. \A c \in DOMAIN blocks : \A m \in DOMAIN blocks[c] : m \in Nat
      OBVIOUS
    <2> QED BY <2>1, <2>2 DEF IsBefore
  <1>4. CASE o.line \in kept /\ s.lines < limit
    <2> DEFINE k == Len(s.ops) + 1
    <2>1. t.ops = Append(s.ops, o)
      BY <1>4 DEF PrintOp
    <2>2. s.ops \in Seq(Ops(blocks))
      BY <1>2 DEF PrintStates
    <2> HIDE DEF t, o
    <2>3. /\ DOMAIN t.ops = 1..k /\ DOMAIN s.ops = 1..(k - 1) /\ k \in Nat \ {0}
          /\ t.ops[k] = o /\ \A i \in DOMAIN s.ops : t.ops[i] = s.ops[i]
      BY <1>1, <2>1, <2>2
    <2>4. \A i \in DOMAIN s.ops : s.ops[i].line # o.line
      <3> SUFFICES ASSUME NEW i \in DOMAIN s.ops, s.ops[i].line = o.line PROVE FALSE
        OBVIOUS
      <3>0. IsBefore(s.ops[i], blocks, b, n)
        BY DEF PrintOK
      <3>a. PICK c \in DOMAIN blocks : \E m \in DOMAIN blocks[c] :
               s.ops[i] = blocks[c][m] /\ (c < b \/ (c = b /\ m < n))
        BY <3>0 DEF IsBefore
      <3>1. PICK m \in DOMAIN blocks[c] : s.ops[i] = blocks[c][m] /\ (c < b \/ (c = b /\ m < n))
        BY <3>a
      <3>2. c = b /\ m = n
        BY <3>1 DEF OnePlaceALine, o
      <3> QED BY <1>1, <3>1, <3>2
    <2>5. IsBefore(o, blocks, b, n + 1)
      BY <1>1 DEF IsBefore, o
    <2> HIDE DEF k
    <2>6. \A i \in DOMAIN t.ops : i = k \/ i \in DOMAIN s.ops
      BY <2>3
    <2>7. \A i \in DOMAIN s.ops : s.ops[i].line \in kept /\ IsBefore(s.ops[i], blocks, b, n + 1)
      BY <1>3 DEF PrintOK
    <2>8. \A i \in DOMAIN t.ops : t.ops[i].line \in kept /\ IsBefore(t.ops[i], blocks, b, n + 1)
      BY <1>4, <2>3, <2>5, <2>6, <2>7
    <2>9. \A i, j \in DOMAIN s.ops : s.ops[i].line = s.ops[j].line => i = j
      BY DEF PrintOK
    <2>10. \A i, j \in DOMAIN t.ops : t.ops[i].line = t.ops[j].line => i = j
      BY <2>3, <2>4, <2>6, <2>9
    <2> QED BY <1>2, <2>8, <2>10 DEF PrintOK, t, o
  <1>5. CASE ~(o.line \in kept /\ s.lines < limit)
    <2>1. t = s
      BY <1>5 DEF PrintOp
    <2> QED BY <1>3, <2>1 DEF PrintOK
  <1> QED BY <1>4, <1>5

\* So does printing the ops of a block.
LEMMA PrintOpsKeeps ==
    ASSUME NEW blocks, blocks \in Seq(Seq(Ops(blocks))), OnePlaceALine(blocks), NEW limit \in Nat, NEW kept,
           NEW b \in DOMAIN blocks, NEW s, PrintOK(s, blocks, kept, limit, b, 1)
    PROVE  PrintOK(PrintOps(s, blocks[b], kept, limit), blocks, kept, limit, b, Len(blocks[b]) + 1)
  <1> DEFINE block == blocks[b]
             N == Len(block)
             S == PrintStates(blocks, limit)
             step == [p \in (1..N) \X S |-> PrintOp(p[2], block[p[1]], kept, limit)]
             IsAfter(f) == f = [n \in 0..N |-> IF n = 0 THEN s ELSE PrintOp(f[n - 1], block[n], kept, limit)]
  <1>1. block \in Seq(Ops(blocks))
    OBVIOUS
  <1>2. N \in Nat /\ DOMAIN block = 1..N /\ \A n \in 1..N : block[n] \in Ops(blocks)
    BY <1>1
  <1>3. s \in S
    BY DEF PrintOK
  <1> HIDE DEF S, N, block
  <1>4. PICK f \in [0..N -> S] : Loop(f, N, s, step)
    <2>1. step \in [(1..N) \X S -> S]
      BY <1>2, PrintOpTyped DEF S
    <2> HIDE DEF step
    <2> QED BY <1>2, <1>3, <2>1, Iteration
  <1>5. IsAfter(f)
    <2>0. N \in Nat
      BY <1>2
    <2>1. \A n \in 0..N : n = 0 \/ (n \in 1..N /\ n - 1 \in 0..N)
      BY <2>0
    <2>2. \A n \in 1..N : step[<<n, f[n - 1]>>] = PrintOp(f[n - 1], block[n], kept, limit)
      BY <2>0
    <2> HIDE DEF step
    <2> QED BY <1>4, <2>1, <2>2 DEF Loop
  <1> DEFINE after == CHOOSE h : IsAfter(h)
  <1>6. IsAfter(after)
    <2> HIDE DEF IsAfter
    <2> QED BY <1>5
  <1>7. PrintOps(s, block, kept, limit) = after[N]
    BY DEF PrintOps, N
  <1> HIDE DEF after
  <1>8. after[0] = s /\ \A n \in 1..N : after[n] = PrintOp(after[n - 1], block[n], kept, limit)
    <2>0. N \in Nat
      BY <1>2
    <2>1. 0 \in 0..N /\ \A n \in 1..N : n \in 0..N /\ n # 0
      BY <2>0
    <2> QED BY <1>6, <2>1
  <1> DEFINE T == {n \in 0..N : PrintOK(after[n], blocks, kept, limit, b, n + 1)}
  <1>9. 0 \in T
    <2>1. 0 \in 0..N /\ 0 + 1 = 1
      BY <1>2
    <2> QED BY <1>8, <2>1
  <1>10. ASSUME NEW n \in 1..N, n - 1 \in T PROVE n \in T
    <2>1. n \in 0..N /\ (n - 1) + 1 = n /\ n \in DOMAIN block
      BY <1>2
    <2>2. PrintOK(after[n - 1], blocks, kept, limit, b, n)
      BY <1>10, <2>1
    <2>3. PrintOK(PrintOp(after[n - 1], block[n], kept, limit), blocks, kept, limit, b, n + 1)
      BY <2>1, <2>2, PrintOpKeeps DEF block
    <2> QED BY <1>8, <2>1, <2>3
  <1>11. N \in T
    <2> HIDE DEF T
    <2>1. N \in 0..N /\ N \in Nat
      BY <1>2
    <2> QED BY <1>9, <1>10, <2>1, BoundedInduction
  <1> QED BY <1>7, <1>11 DEF block, N

\* So does printing a block with its header, which the limit may cut.
LEMMA PrintBlockKeeps ==
    ASSUME NEW blocks, blocks \in Seq(Seq(Ops(blocks))), OnePlaceALine(blocks), NEW limit \in Nat, NEW kept,
           NEW b \in DOMAIN blocks, NEW s, PrintOK(s, blocks, kept, limit, b, 1)
    PROVE  PrintOK(PrintBlock(s, blocks[b], kept, limit), blocks, kept, limit, b + 1, 1)
  <1> DEFINE block == blocks[b]
             t == PrintBlock(s, block, kept, limit)
             header == [s EXCEPT !.lines = @ + 1]
  <1>1. \A r : PrintOK(r, blocks, kept, limit, b, Len(block) + 1) \/ PrintOK(r, blocks, kept, limit, b, 1)
               => PrintOK(r, blocks, kept, limit, b + 1, 1)
    <2>1. b \in Nat /\ \A c \in DOMAIN blocks : c \in Nat
      OBVIOUS
    <2>2. \A u, n : IsBefore(u, blocks, b, n) => IsBefore(u, blocks, b + 1, 1)
      BY <2>1 DEF IsBefore
    <2> QED BY <2>2 DEF PrintOK
  <1>2. CASE (\E o \in ToSet(block) : o.line \in kept) /\ s.lines < limit
    <2>1. t = PrintOps(header, block, kept, limit)
      BY <1>2 DEF PrintBlock
    <2>2. header.ops = s.ops /\ header \in PrintStates(blocks, limit)
      <3>1. s \in PrintStates(blocks, limit) /\ s.lines + 1 \in 0..limit
        BY <1>2 DEF PrintOK, PrintStates
      <3> QED BY <3>1 DEF PrintStates
    <2> HIDE DEF header
    <2>3. PrintOK(header, blocks, kept, limit, b, 1)
      BY <2>2 DEF PrintOK
    <2>4. PrintOK(t, blocks, kept, limit, b, Len(block) + 1)
      BY <2>1, <2>3, PrintOpsKeeps
    <2> QED BY <1>1, <2>4
  <1>3. CASE ~((\E o \in ToSet(block) : o.line \in kept) /\ s.lines < limit)
    <2>1. t = s
      BY <1>3 DEF PrintBlock
    <2> HIDE DEF t
    <2>2. PrintOK(t, blocks, kept, limit, b + 1, 1)
      BY <1>1, <2>1
    <2> QED BY <2>2 DEF t
  <1> QED BY <1>2, <1>3

\* So does the printing of all blocks.
LEMMA PrintedKeeps ==
    ASSUME NEW blocks, blocks \in Seq(Seq(Ops(blocks))), OnePlaceALine(blocks), NEW limit \in Nat, NEW kept
    PROVE  PrintOK(Printed(blocks, kept, limit), blocks, kept, limit, Len(blocks) + 1, 1)
  <1> DEFINE N == Len(blocks)
             S == PrintStates(blocks, limit)
             none == [lines |-> 0, ops |-> <<>>]
             OK(s, b) == PrintOK(s, blocks, kept, limit, b + 1, 1)
             one(s, b) == PrintBlock(s, blocks[b], kept, limit)
             step == [p \in (1..N) \X S |-> IF one(p[2], p[1]) \in S THEN one(p[2], p[1]) ELSE p[2]]
             IsAfter(f) == f = [b \in 0..N |-> IF b = 0 THEN none ELSE one(f[b - 1], b)]
  <1>0. N \in Nat
    OBVIOUS
  <1>1. \A b \in 1..N : b \in DOMAIN blocks /\ b - 1 \in 0..N /\ b \in 0..N /\ b # 0 /\ (b - 1) + 1 = b
    OBVIOUS
  <1>2. OK(none, 0)
    <2>1. none \in S /\ DOMAIN none.ops = {}
      BY DEF PrintStates
    <2> QED BY <2>1 DEF PrintOK
  <1>3. ASSUME NEW b \in 1..N, NEW s, OK(s, b - 1) PROVE OK(one(s, b), b)
    <2>1. b \in DOMAIN blocks /\ PrintOK(s, blocks, kept, limit, b, 1)
      BY <1>1, <1>3
    <2> QED BY <2>1, PrintBlockKeeps
  <1>4. \A s, b : OK(s, b) => s \in S
    BY DEF PrintOK
  <1> HIDE DEF one, S, N, none, OK
  <1>5. PICK f \in [0..N -> S] : Loop(f, N, none, step)
    <2>1. step \in [(1..N) \X S -> S]
      OBVIOUS
    <2> HIDE DEF step
    <2> QED BY <1>0, <1>2, <1>4, <2>1, Iteration
  <1>6. ASSUME NEW b \in 1..N, OK(f[b - 1], b - 1) PROVE f[b] = one(f[b - 1], b) /\ OK(f[b], b)
    <2>1. OK(one(f[b - 1], b), b)
      BY <1>3, <1>6
    <2>2. step[<<b, f[b - 1]>>] = one(f[b - 1], b)
      BY <1>4, <1>6, <2>1
    <2> HIDE DEF step
    <2> QED BY <1>5, <2>1, <2>2 DEF Loop
  <1> HIDE DEF step
  <1> DEFINE T == {b \in 0..N : OK(f[b], b)}
  <1>7. 0..N \subseteq T
    <2>1. 0 \in T
      BY <1>0, <1>2, <1>5 DEF Loop
    <2>2. ASSUME NEW b \in 1..N, b - 1 \in T PROVE b \in T
      <3>1. OK(f[b], b)
        BY <1>6, <2>2
      <3> QED BY <1>1, <3>1
    <2> HIDE DEF T
    <2> QED BY <1>0, <2>1, <2>2, BoundedInduction
  <1>8. IsAfter(f)
    <2>1. \A b \in 0..N : b = 0 \/ b \in 1..N
      BY <1>0
    <2>2. \A b \in 1..N : f[b] = one(f[b - 1], b)
      <3> SUFFICES ASSUME NEW b \in 1..N PROVE f[b] = one(f[b - 1], b)
        OBVIOUS
      <3>1. OK(f[b - 1], b - 1)
        BY <1>1, <1>7
      <3> QED BY <1>6, <3>1
    <2> QED BY <1>5, <2>1, <2>2 DEF Loop
  <1> DEFINE after == CHOOSE h : IsAfter(h)
  <1>9. IsAfter(after)
    <2> HIDE DEF IsAfter
    <2> QED BY <1>8
  <1>10. Printed(blocks, kept, limit) = after[N]
    BY DEF Printed, one, N, none
  <1> HIDE DEF after
  <1>11. after[0] = none /\ \A b \in 1..N : after[b] = one(after[b - 1], b)
    <2>1. 0 \in 0..N
      BY <1>0
    <2> QED BY <1>1, <1>9, <2>1
  <1> DEFINE U == {b \in 0..N : OK(after[b], b)}
  <1>12. OK(after[N], N)
    <2>1. 0 \in U
      BY <1>0, <1>2, <1>11
    <2>2. ASSUME NEW b \in 1..N, b - 1 \in U PROVE b \in U
      BY <1>1, <1>3, <1>11, <2>2
    <2>3. 0..N \subseteq U
      <3> HIDE DEF U
      <3> QED BY <1>0, <2>1, <2>2, BoundedInduction
    <2>4. N \in 0..N
      BY <1>0
    <2> QED BY <2>3, <2>4
  <1> QED BY <1>10, <1>12 DEF OK, N

\* The listing keeps to its limit, and leaves something out exactly when there are
\* more lines than it has ops.
LEMMA ListingExact ==
    ASSUME NEW q \in Listings
    PROVE  LET got == GetPcode(q.blocks, q.var, q.limit)
           IN /\ q.var.name # "" => SliceClosure(q.blocks, q.var, got.kept)
              /\ got.lines <= q.limit
              /\ got.truncated <=> {o.line : o \in ToSet(got.ops)} # got.kept
  <1> DEFINE blocks == q.blocks
             got == GetPcode(blocks, q.var, q.limit)
             kept == got.kept
             O == Ops(blocks)
             printed == Printed(blocks, kept, q.limit)
             n == Len(printed.ops)
             shown == {o.line : o \in ToSet(printed.ops)}
             line == [i \in 1..n |-> printed.ops[i].line]
  <1>1. blocks \in Seq(Seq(O)) /\ OnePlaceALine(blocks) /\ q.limit \in Nat
    BY ListingsAssumption DEF OnePlaceALine
  <1>2. OneOpALine(blocks)
    <2>1. \A o \in O : \E b \in DOMAIN blocks : \E i \in DOMAIN blocks[b] : o = blocks[b][i]
      BY DEF Ops, ToSet
    <2> SUFFICES ASSUME NEW o \in O, NEW u \in O, o.line = u.line PROVE o = u
      BY DEF OneOpALine
    <2>2. PICK b \in DOMAIN blocks : \E i \in DOMAIN blocks[b] : o = blocks[b][i]
      BY <2>1
    <2>3. PICK i \in DOMAIN blocks[b] : o = blocks[b][i]
      BY <2>2
    <2>4. PICK c \in DOMAIN blocks : \E j \in DOMAIN blocks[c] : u = blocks[c][j]
      BY <2>1
    <2>5. PICK j \in DOMAIN blocks[c] : u = blocks[c][j]
      BY <2>4
    <2>6. b = c /\ i = j
      <3> HIDE DEF blocks
      <3> QED BY <1>1, <2>3, <2>5 DEF OnePlaceALine
    <2> QED BY <2>3, <2>5, <2>6
  <1> HIDE DEF blocks, O
  <1>3. kept = IF q.var.name = "" THEN LinesOf(O) ELSE ForwardSlice(blocks, q.var)
    BY DEF GetPcode, LinesOf, O
  <1>4. /\ got.lines = printed.lines /\ got.ops = printed.ops
        /\ got.truncated <=> Cardinality(kept) > n
    BY DEF GetPcode, MoreThanShown
  <1> HIDE DEF got
  <1>5. kept \subseteq LinesOf(O) /\ (q.var.name # "" => SliceClosure(blocks, q.var, kept))
    BY <1>1, <1>2, <1>3, ForwardSliceExact DEF O
  <1>6. IsFiniteSet(kept) /\ Cardinality(kept) \in Nat
    <2>1. IsFiniteSet(LinesOf(O))
      BY <1>1, FewLines DEF O
    <2> QED BY <1>5, <2>1, FS_Subset, FS_CardinalityType
  <1>7. PrintOK(printed, blocks, kept, q.limit, Len(blocks) + 1, 1)
    BY <1>1, PrintedKeeps DEF O
  <1>8. /\ printed.lines \in 0..q.limit /\ printed.ops \in Seq(O)
        /\ \A i \in DOMAIN printed.ops : printed.ops[i].line \in kept
        /\ \A i, j \in DOMAIN printed.ops : printed.ops[i].line = printed.ops[j].line => i = j
    BY <1>7 DEF PrintOK, PrintStates, O
  <1> HIDE DEF printed
  <1>9. n \in Nat /\ DOMAIN printed.ops = 1..n
    BY <1>8
  <1> HIDE DEF n
  <1>10. shown \subseteq kept /\ line \in Bijection(1..n, shown)
    <2>1. \A l \in shown : \E i \in 1..n : line[i] = l
      BY <1>9 DEF ToSet
    <2>2. \A i \in 1..n : line[i] \in shown /\ line[i] \in kept
      BY <1>8, <1>9 DEF ToSet
    <2>3. \A i, j \in 1..n : line[i] = line[j] => i = j
      BY <1>8, <1>9
    <2>4. shown \subseteq kept
      BY <2>1, <2>2
    <2> HIDE DEF shown
    <2>5. line \in [1..n -> shown]
      BY <2>2
    <2> HIDE DEF line
    <2> QED BY <2>1, <2>2, <2>3, <2>4, <2>5 DEF Bijection, Injection, Surjection, IsInjective
  <1>11. Cardinality(shown) = n
    <2>1. IsFiniteSet(1..n) /\ Cardinality(1..n) = IF 1 > n THEN 0 ELSE n - 1 + 1
      BY <1>9, FS_Interval
    <2>2. Cardinality(1..n) = n
      BY <1>9, <2>1
    <2> HIDE DEF shown, line
    <2> QED BY <1>10, <2>1, <2>2, FS_Bijection DEF ExistsBijection
  <1>12. (Cardinality(kept) > n) <=> shown # kept
    <2>1. Cardinality(shown) <= Cardinality(kept) /\ (Cardinality(kept) = Cardinality(shown) => kept = shown)
      <3> HIDE DEF shown
      <3> QED BY <1>6, <1>10, FS_Subset
    <2> HIDE DEF shown
    <2> QED BY <1>6, <1>9, <1>11, <2>1
  <1>13. got.lines <= q.limit
    BY <1>1, <1>4, <1>8
  <1>14. got.truncated <=> {o.line : o \in ToSet(got.ops)} # got.kept
    BY <1>4, <1>12
  <1> QED BY <1>5, <1>13, <1>14 DEF got, blocks

-----------------------------------------------------------------------------
(* Call graphs: Graph.                                                     *)

\* The functions of the program.
FunctionsOf(a) == DOMAIN a.callees

\* A graph that is asked for in one direction.
OneWay(a) ==
    /\ IsFiniteSet(FunctionsOf(a))
    /\ a.callees \in [FunctionsOf(a) -> Seq(FunctionsOf(a))]
    /\ a.callers \in [FunctionsOf(a) -> Seq(FunctionsOf(a))]
    /\ a.root \in FunctionsOf(a) /\ a.depth \in Nat \ {0} /\ a.budget \in Nat \ {0}
    /\ a.direction \in {"callees", "callers"}

\* What is around a function are functions.
LEMMA AroundTyped ==
    ASSUME NEW a, OneWay(a), NEW f \in FunctionsOf(a)
    PROVE  Around(a, f) \in Seq(FunctionsOf(a)) /\ ToSet(Around(a, f)) \subseteq FunctionsOf(a)
  <1>1. Around(a, f) \in Seq(FunctionsOf(a))
    BY DEF OneWay, Around
  <1>2. \A s \in Seq(FunctionsOf(a)) : ToSet(s) \subseteq FunctionsOf(a)
    BY DEF ToSet
  <1> QED BY <1>1, <1>2

\* A level of the neighbourhood is one step wider than the level before.
LEMMA WithinIs ==
    ASSUME NEW a, OneWay(a)
    PROVE  /\ Within(a, 0) = {a.root}
           /\ \A n \in Nat : /\ Within(a, n + 1) = Widened(a, Within(a, n))
                             /\ Within(a, n) \subseteq FunctionsOf(a)
  <1> DEFINE A == SUBSET FunctionsOf(a)
             g == [p \in Nat \X A |-> Widened(a, p[2])]
             IsNear(h) == h = [k \in Nat |-> IF k = 0 THEN {a.root} ELSE Widened(a, h[k - 1])]
             near == CHOOSE h : IsNear(h)
  <1>1. \A S \in A : Widened(a, S) \in A
    <2>1. SUFFICES ASSUME NEW S \in A, NEW x \in Widened(a, S) PROVE x \in FunctionsOf(a)
      OBVIOUS
    <2>2. CASE x \in S
      BY <2>2
    <2>3. CASE x \notin S
      <3>1. PICK f \in S : x \in ToSet(Around(a, f))
        BY <2>1, <2>3 DEF Widened
      <3>2. f \in FunctionsOf(a)
        OBVIOUS
      <3> QED BY <3>1, <3>2, AroundTyped
    <2> QED BY <2>2, <2>3
  <1>2. {a.root} \in A
    BY DEF OneWay
  <1>3. g \in [Nat \X A -> A]
    BY <1>1
  <1>4. \A k \in Nat : \A S \in A : g[<<k, S>>] = Widened(a, S)
    OBVIOUS
  <1> HIDE DEF g, A
  <1>5. PICK h \in [Nat -> A] : Recursion(h, {a.root}, g)
    BY <1>2, <1>3, IterationOverNat
  <1>6. h[0] = {a.root} /\ \A k \in Nat : h[k + 1] = Widened(a, h[k])
    <2>1. h[0] = {a.root} /\ \A k \in Nat : h[k + 1] = g[<<k + 1, h[k]>>]
      BY <1>5 DEF Recursion
    <2>2. \A k \in Nat : k + 1 \in Nat /\ h[k] \in A
      OBVIOUS
    <2>3. \A k \in Nat : g[<<k + 1, h[k]>>] = Widened(a, h[k])
      BY <1>4, <2>2
    <2> QED BY <2>1, <2>3
  <1>7. IsNear(h)
    <2>1. \A k \in Nat : k = 0 \/ (k - 1 \in Nat /\ (k - 1) + 1 = k)
      OBVIOUS
    <2>2. \A k \in Nat : h[k] = IF k = 0 THEN {a.root} ELSE Widened(a, h[k - 1])
      BY <1>6, <2>1
    <2> QED BY <2>2
  <1>8. IsNear(near)
    <2> HIDE DEF IsNear
    <2> QED BY <1>7
  <1>9. \A n : Within(a, n) = near[n]
    BY DEF Within
  <1> HIDE DEF near
  <1>10. near[0] = {a.root} /\ \A k \in Nat : near[k + 1] = Widened(a, near[k])
    <2>1. \A k \in Nat : k + 1 \in Nat /\ k + 1 # 0 /\ (k + 1) - 1 = k
      OBVIOUS
    <2> QED BY <1>8, <2>1
  <1> DEFINE T == {n \in Nat : near[n] \in A}
  <1>11. 0 \in T
    BY <1>2, <1>10
  <1>12. ASSUME NEW n \in Nat, n \in T PROVE n + 1 \in T
    BY <1>1, <1>10, <1>12
  <1>13. Nat \subseteq T
    <2> HIDE DEF T
    <2> QED BY <1>11, <1>12, SetInduction
  <1>14. \A n \in Nat : near[n] \subseteq FunctionsOf(a)
    BY <1>13 DEF A
  <1> QED BY <1>9, <1>10, <1>14

\* The levels grow, and what is around a function of one is in the next.
LEMMA WithinGrows ==
    ASSUME NEW a, OneWay(a), NEW m \in Nat, NEW n \in Nat, m <= n
    PROVE  Within(a, m) \subseteq Within(a, n)
  <1> DEFINE T == {k \in Nat : Within(a, m) \subseteq Within(a, m + k)}
  <1>1. 0 \in T
    OBVIOUS
  <1>2. ASSUME NEW k \in Nat, k \in T PROVE k + 1 \in T
    <2>1. m + k \in Nat /\ m + (k + 1) = (m + k) + 1
      OBVIOUS
    <2>2. Within(a, (m + k) + 1) = Widened(a, Within(a, m + k))
      BY <2>1, WithinIs
    <2>3. Within(a, m + k) \subseteq Within(a, (m + k) + 1)
      BY <2>2 DEF Widened
    <2> QED BY <1>2, <2>1, <2>3
  <1>3. Nat \subseteq T
    <2> HIDE DEF T
    <2> QED BY <1>1, <1>2, SetInduction
  <1>4. n - m \in T /\ m + (n - m) = n
    BY <1>3
  <1> QED BY <1>4

\* What is around a function of one level is in the next.
LEMMA WithinNext ==
    ASSUME NEW a, OneWay(a), NEW n \in Nat, NEW f \in Within(a, n)
    PROVE  ToSet(Around(a, f)) \subseteq Within(a, n + 1)
  <1>1. Within(a, n + 1) = Widened(a, Within(a, n))
    BY WithinIs
  <1> QED BY <1>1 DEF Widened

\* A traversal has a finite number of turns.
LEMMA TurnsFinite ==
    ASSUME NEW a, OneWay(a)
    PROVE  IsFiniteSet(TurnsOf(a)) /\ Turns(a) \in Nat
  <1> DEFINE F == FunctionsOf(a)
             turns(f) == {f} \X (0..Len(Around(a, f)))
             P == {turns(f) : f \in F}
             by == [f \in F |-> turns(f)]
  <1>1. by \in Surjection(F, P)
    BY DEF Surjection
  <1>2. IsFiniteSet(F)
    BY DEF OneWay
  <1>3. \A f \in F : IsFiniteSet(turns(f))
    <2> SUFFICES ASSUME NEW f \in F PROVE IsFiniteSet(turns(f))
      OBVIOUS
    <2>1. Len(Around(a, f)) \in Nat
      BY AroundTyped, LenProperties
    <2>2. IsFiniteSet(0..Len(Around(a, f)))
      BY <2>1, FS_Interval
    <2>3. IsFiniteSet({f})
      BY FS_Singleton
    <2> QED BY <2>2, <2>3, FS_Product
  <1>4. \A S \in P : IsFiniteSet(S)
    <2> HIDE DEF turns
    <2> QED BY <1>3
  <1>5. TurnsOf(a) = UNION P
    BY DEF TurnsOf, FunctionsOf
  <1> HIDE DEF P, by, F
  <1>6. IsFiniteSet(P)
    BY <1>1, <1>2, FS_Surjection
  <1>7. IsFiniteSet(TurnsOf(a))
    BY <1>4, <1>5, <1>6, FS_UNION
  <1> QED BY <1>7, FS_CardinalityType DEF Turns

\* The frames of a stack.
FramesOf(a) == [f : FunctionsOf(a), level : Nat, rest : Seq(FunctionsOf(a))]

\* The states of a traversal.
Traversals(a) == [nodes : SUBSET FunctionsOf(a), edges : SUBSET (FunctionsOf(a) \X FunctionsOf(a)),
                  truncated : BOOLEAN, visited : SUBSET FunctionsOf(a), stack : Seq(FramesOf(a))]

\* A sequence without its last element.
LEMMA FrontOf ==
    ASSUME NEW S, NEW s \in Seq(S), s # <<>>
    PROVE  /\ Len(s) \in Nat \ {0} /\ Last(s) \in S /\ Last(s) = s[Len(s)]
           /\ Front(s) \in Seq(S) /\ Len(Front(s)) = Len(s) - 1
           /\ \A i \in 1..(Len(s) - 1) : Front(s)[i] = s[i]
  <1>1. Len(s) \in Nat \ {0}
    BY EmptySeq
  <1>2. Len(s) \in 1..Len(s) /\ \A i \in 1..(Len(s) - 1) : i \in 1..Len(s)
    BY <1>1
  <1>3. \A i \in 1..Len(s) : s[i] \in S
    BY ElementOfSeq
  <1>4. s[Len(s)] \in S
    BY <1>2, <1>3
  <1> DEFINE n == Len(s) - 1
  <1>5. n \in Int /\ \A i \in 1..n : s[i] \in S
    BY <1>1, <1>2, <1>3
  <1> HIDE DEF n
  <1>6. /\ SubSeq(s, 1, n) \in Seq(S) /\ Len(SubSeq(s, 1, n)) = IF 1 <= n THEN n - 1 + 1 ELSE 0
        /\ \A i \in 1..(n - 1 + 1) : SubSeq(s, 1, n)[i] = s[1 + i - 1]
    BY <1>5, SubSeqProperties
  <1>7. Len(SubSeq(s, 1, n)) = n /\ \A i \in 1..n : SubSeq(s, 1, n)[i] = s[i]
    <2>1. n \in Nat
      BY <1>1 DEF n
    <2>2. n - 1 + 1 = n /\ \A i \in 1..n : 1 + i - 1 = i
      BY <2>1
    <2> QED BY <1>6, <2>1, <2>2
  <1> QED BY <1>1, <1>4, <1>6, <1>7 DEF Front, Last, n

\* The head and the elements of the tail are the elements.
LEMMA HeadAndTail ==
    ASSUME NEW S, NEW s \in Seq(S), s # <<>>
    PROVE  /\ Head(s) \in S /\ Tail(s) \in Seq(S) /\ Len(s) \in Nat \ {0} /\ Len(Tail(s)) = Len(s) - 1
           /\ ToSet(s) = {Head(s)} \union ToSet(Tail(s))
  <1>1. /\ Head(s) \in S /\ Tail(s) \in Seq(S) /\ Len(Tail(s)) = Len(s) - 1
        /\ \A i \in 1..Len(Tail(s)) : Tail(s)[i] = s[i + 1]
    BY HeadTailProperties
  <1>2. Len(s) \in Nat \ {0} /\ DOMAIN s = 1..Len(s) /\ DOMAIN Tail(s) = 1..(Len(s) - 1)
    BY <1>1, EmptySeq, LenProperties
  <1>3. Head(s) = s[1]
    OBVIOUS
  <1>4. \A i \in 1..Len(s) : i = 1 \/ (i - 1 \in 1..(Len(s) - 1) /\ (i - 1) + 1 = i)
    BY <1>2
  <1>5. \A i \in 1..(Len(s) - 1) : i + 1 \in 1..Len(s) /\ Tail(s)[i] = s[i + 1]
    BY <1>1, <1>2
  <1>6. 1 \in 1..Len(s)
    BY <1>2
  <1>7. ToSet(s) \subseteq {Head(s)} \union ToSet(Tail(s))
    <2> SUFFICES ASSUME NEW i \in 1..Len(s) PROVE s[i] \in {Head(s)} \union ToSet(Tail(s))
      BY <1>2 DEF ToSet
    <2>1. CASE i = 1
      BY <1>3, <2>1
    <2>2. CASE i # 1
      <3>1. i - 1 \in DOMAIN Tail(s) /\ Tail(s)[i - 1] = s[i]
        BY <1>2, <1>4, <1>5, <2>2
      <3> QED BY <3>1 DEF ToSet
    <2> QED BY <2>1, <2>2
  <1>8. {Head(s)} \union ToSet(Tail(s)) \subseteq ToSet(s)
    BY <1>2, <1>3, <1>5, <1>6 DEF ToSet
  <1> QED BY <1>1, <1>2, <1>7, <1>8

\* The end of a loop takes its frame away.
LEMMA ReturnIs ==
    ASSUME NEW a, OneWay(a), NEW t \in Traversals(a), t.stack # <<>>
    PROVE  LET n == Len(t.stack)
               u == Return(t)
           IN /\ n \in Nat \ {0} /\ t.stack[n] \in FramesOf(a)
              /\ u \in Traversals(a) /\ Len(u.stack) = n - 1
              /\ \A i \in 1..(n - 1) : u.stack[i] = t.stack[i]
              /\ u.nodes = t.nodes /\ u.edges = t.edges /\ u.truncated = t.truncated /\ u.visited = t.visited
  <1>1. t.stack \in Seq(FramesOf(a))
    BY DEF Traversals
  <1>2. Return(t) = [nodes |-> t.nodes, edges |-> t.edges, truncated |-> t.truncated, visited |-> t.visited,
                     stack |-> Front(t.stack)]
    BY DEF Return, Traversals
  <1>3. /\ Len(t.stack) \in Nat \ {0} /\ t.stack[Len(t.stack)] \in FramesOf(a)
        /\ Front(t.stack) \in Seq(FramesOf(a)) /\ Len(Front(t.stack)) = Len(t.stack) - 1
        /\ \A i \in 1..(Len(t.stack) - 1) : Front(t.stack)[i] = t.stack[i]
    BY <1>1, FrontOf
  <1>4. Return(t) \in Traversals(a)
    BY <1>2, <1>3 DEF Traversals
  <1> QED BY <1>2, <1>3, <1>4

\* A visit adds the next function to the nodes, takes it out of the loop, and puts
\* its own loop on top when it enters it.
IsVisit(a, t, u) ==
    LET n == Len(t.stack)
        top == t.stack[n]
        g == Head(top.rest)
        enters == top.level < a.depth /\ g \notin t.visited
    IN /\ n \in Nat \ {0} /\ top \in FramesOf(a) /\ g \in FunctionsOf(a) /\ u \in Traversals(a)
       /\ u.nodes = t.nodes \union {g} /\ u.edges = t.edges \union {Edge(a, top.f, g)}
       /\ u.truncated = t.truncated
       /\ u.visited = IF enters THEN t.visited \union {g} ELSE t.visited
       /\ Len(u.stack) = IF enters THEN n + 1 ELSE n
       /\ \A i \in 1..(n - 1) : u.stack[i] = t.stack[i]
       /\ u.stack[n] = [f |-> top.f, level |-> top.level, rest |-> Tail(top.rest)]
       /\ enters => u.stack[n + 1] = Frame(a, g, top.level + 1)

\* Visit does that.
LEMMA VisitIs ==
    ASSUME NEW a, OneWay(a), NEW t \in Traversals(a), t.stack # <<>>, t.stack[Len(t.stack)].rest # <<>>
    PROVE  IsVisit(a, t, Visit(a, t))
  <1> DEFINE n == Len(t.stack)
             top == t.stack[n]
             g == Head(top.rest)
             enters == top.level < a.depth /\ g \notin t.visited
             u == Visit(a, t)
             on == [t.stack EXCEPT ![n].rest = Tail(@)]
             less == [f |-> top.f, level |-> top.level, rest |-> Tail(top.rest)]
             F == FunctionsOf(a)
  <1>1. t.stack \in Seq(FramesOf(a))
    BY DEF Traversals
  <1>2. n \in Nat \ {0} /\ top \in FramesOf(a) /\ Last(t.stack) = top
    BY <1>1, FrontOf
  <1>3. g \in F /\ Tail(top.rest) \in Seq(F)
    BY <1>2, HeadAndTail DEF FramesOf
  <1>4. less \in FramesOf(a)
    BY <1>2, <1>3 DEF FramesOf
  <1>5. on = [t.stack EXCEPT ![n] = less]
    <2>1. \A r \in FramesOf(a) : [r EXCEPT !.rest = Tail(@)] = [f |-> r.f, level |-> r.level, rest |-> Tail(r.rest)]
      <3> SUFFICES ASSUME NEW r \in FramesOf(a)
                   PROVE  [r EXCEPT !.rest = Tail(@)] = [f |-> r.f, level |-> r.level, rest |-> Tail(r.rest)]
        OBVIOUS
      <3> DEFINE tail == Tail(r.rest)
      <3>1. [r EXCEPT !.rest = Tail(@)] = [r EXCEPT !.rest = tail]
        OBVIOUS
      <3> HIDE DEF tail
      <3>2. [r EXCEPT !.rest = tail] = [f |-> r.f, level |-> r.level, rest |-> tail]
        BY DEF FramesOf
      <3> QED BY <3>1, <3>2 DEF tail
    <2>2. [top EXCEPT !.rest = Tail(@)] = less
      <3> HIDE DEF top
      <3> QED BY <1>2, <2>1
    <2> HIDE DEF less
    <2> QED BY <2>2
  <1>6. on \in Seq(FramesOf(a)) /\ Len(on) = n /\ \A i \in 1..n : on[i] = IF i = n THEN less ELSE t.stack[i]
    <2>1. n \in 1..Len(t.stack)
      BY <1>2
    <2> DEFINE s == t.stack
               new == [s EXCEPT ![n] = less]
    <2>2. s \in Seq(FramesOf(a)) /\ n = Len(s) /\ on = new
      BY <1>1, <1>5
    <2> HIDE DEF less, s, on, n
    <2>3. new \in Seq(FramesOf(a)) /\ Len(new) = Len(s) /\ \A i \in 1..Len(s) : new[i] = IF i = n THEN less ELSE s[i]
      BY <1>4, <2>1, <2>2, ExceptSeq DEF s
    <2> HIDE DEF new
    <2> QED BY <2>2, <2>3 DEF s
  <1>7. Frame(a, g, top.level + 1) \in FramesOf(a)
    BY <1>2, <1>3, AroundTyped DEF Frame, FramesOf
  <1> DEFINE stack == IF enters THEN Append(on, Frame(a, g, top.level + 1)) ELSE on
             visited == IF enters THEN t.visited \union {g} ELSE t.visited
  <1>8. u = [nodes |-> t.nodes \union {g}, edges |-> t.edges \union {Edge(a, top.f, g)},
             truncated |-> t.truncated, visited |-> visited, stack |-> stack]
    BY <1>2 DEF Visit, Deeper
  <1>9. /\ Append(on, Frame(a, g, top.level + 1)) \in Seq(FramesOf(a))
        /\ Len(Append(on, Frame(a, g, top.level + 1))) = n + 1
        /\ \A i \in 1..n : Append(on, Frame(a, g, top.level + 1))[i] = on[i]
        /\ Append(on, Frame(a, g, top.level + 1))[n + 1] = Frame(a, g, top.level + 1)
    <2> HIDE DEF on, g
    <2> QED BY <1>6, <1>7, AppendProperties
  <1>10. Edge(a, top.f, g) \in F \X F
    BY <1>2, <1>3 DEF Edge, FramesOf
  <1>11. top.level \in Nat /\ n \in 1..n /\ \A i \in 1..(n - 1) : i \in 1..n /\ i # n
    BY <1>2 DEF FramesOf
  <1> HIDE DEF on, less, top, g, n
  <1>12. stack \in Seq(FramesOf(a)) /\ Len(stack) = IF enters THEN n + 1 ELSE n
    BY <1>6, <1>9
  <1>13. \A i \in 1..n : stack[i] = on[i]
    BY <1>9
  <1>14. enters => stack[n + 1] = Frame(a, g, top.level + 1)
    BY <1>9
  <1>15. u \in Traversals(a)
    <2>1. visited \subseteq F /\ t.nodes \union {g} \subseteq F /\ t.edges \union {Edge(a, top.f, g)} \subseteq F \X F
          /\ t.truncated \in BOOLEAN
      BY <1>3, <1>10 DEF Traversals
    <2> HIDE DEF visited, stack
    <2> QED BY <1>8, <1>12, <2>1 DEF Traversals
  <1>16. (\A i \in 1..(n - 1) : stack[i] = t.stack[i]) /\ stack[n] = less
    <2> HIDE DEF stack
    <2> QED BY <1>6, <1>11, <1>13
  <1>17. /\ u.nodes = t.nodes \union {g} /\ u.edges = t.edges \union {Edge(a, top.f, g)}
         /\ u.truncated = t.truncated /\ u.visited = visited /\ u.stack = stack
    <2> HIDE DEF visited, stack
    <2> QED BY <1>8
  <1> HIDE DEF stack, u
  <1> QED BY <1>2, <1>3, <1>12, <1>14, <1>15, <1>16, <1>17 DEF IsVisit, n, top, g, less, u

\* A frame at place i of the stack is a function that is visited, i - 1 steps away
\* from the root, with the rest of what is around it.
FrameOK(a, frame, i, visited) ==
    /\ frame.level = i - 1 /\ frame.level <= a.depth
    /\ frame.f \in visited /\ frame.f \in Within(a, frame.level)
    /\ ToSet(frame.rest) \subseteq ToSet(Around(a, frame.f)) /\ Len(frame.rest) <= Len(Around(a, frame.f))
    /\ i = 1 => frame.f = a.root

StackOK(a, t) ==
    /\ \A i \in 1..Len(t.stack) : FrameOK(a, t.stack[i], i, t.visited)
    /\ \A i, j \in 1..Len(t.stack) : t.stack[i].f = t.stack[j].f => i = j

\* An edge of the direction, between nodes.
CallHere(a, e, nodes) ==
    \E f \in FunctionsOf(a) : \E g \in ToSet(Around(a, f)) : e = Edge(a, f, g) /\ f \in nodes /\ g \in nodes

\* What a traversal has that went on from t0.
Sound(a, t0, t) ==
    /\ t0.nodes \subseteq t.nodes /\ a.root \in t.nodes
    /\ t.nodes \subseteq t0.nodes \union Within(a, a.depth + 1)
    /\ t.visited \subseteq t.nodes
    /\ \A e \in t.edges : e \in t0.edges \/ CallHere(a, e, t.nodes)
    /\ Cardinality(t.nodes) <= a.budget /\ Cardinality(t.edges) <= a.budget
    /\ t0.truncated => t.truncated

\* g is still to come in the loop of f.
Waiting(t, f, g) == \E i \in 1..Len(t.stack) : t.stack[i].f = f /\ g \in ToSet(t.stack[i].rest)

\* Of a function that is visited nothing is left out, and what is around the root is
\* visited, unless it is still to come.
Complete(a, t) ==
    /\ a.root \in t.visited
    /\ \A f \in t.visited : \A g \in ToSet(Around(a, f)) : g \in t.nodes \/ Waiting(t, f, g)
    /\ \A g \in ToSet(Around(a, a.root)) : g \in t.visited \/ Waiting(t, a.root, g)

TraversalOK(a, t0, t) ==
    /\ t \in Traversals(a) /\ StackOK(a, t) /\ Sound(a, t0, t)
    /\ ~t.truncated => Complete(a, t)

\* The end of a loop keeps what holds of the stack.
LEMMA ReturnKeepsStack ==
    ASSUME NEW a, OneWay(a), NEW t \in Traversals(a), t.stack # <<>>, StackOK(a, t)
    PROVE  StackOK(a, Return(t))
  <1> DEFINE n == Len(t.stack)
             u == Return(t)
  <1>1. /\ n \in Nat \ {0} /\ Len(u.stack) = n - 1 /\ u.visited = t.visited
        /\ \A i \in 1..(n - 1) : u.stack[i] = t.stack[i]
    BY ReturnIs
  <1>2. \A i \in 1..(n - 1) : i \in 1..n
    BY <1>1
  <1> HIDE DEF u, n
  <1>3. \A i \in 1..(n - 1) : FrameOK(a, u.stack[i], i, u.visited)
    BY <1>1, <1>2 DEF StackOK, n
  <1>4. \A i, j \in 1..(n - 1) : u.stack[i].f = u.stack[j].f => i = j
    BY <1>1, <1>2 DEF StackOK, n
  <1> QED BY <1>1, <1>3, <1>4 DEF StackOK, u

\* A loop that is over leaves nothing out.
LEMMA ReturnKeepsComplete ==
    ASSUME NEW a, OneWay(a), NEW t \in Traversals(a), t.stack # <<>>, t.stack[Len(t.stack)].rest = <<>>,
           Complete(a, t)
    PROVE  Complete(a, Return(t))
  <1> DEFINE n == Len(t.stack)
             u == Return(t)
  <1>1. /\ n \in Nat \ {0} /\ Len(u.stack) = n - 1 /\ u.visited = t.visited /\ u.nodes = t.nodes
        /\ \A i \in 1..(n - 1) : u.stack[i] = t.stack[i]
    BY ReturnIs
  <1> HIDE DEF u
  <1>2. ASSUME NEW f, NEW g, Waiting(t, f, g) PROVE Waiting(u, f, g)
    <2>1. PICK i \in 1..n : t.stack[i].f = f /\ g \in ToSet(t.stack[i].rest)
      BY <1>2 DEF Waiting
    <2>2. ToSet(<<>>) = {}
      BY DEF ToSet
    <2>3. i # n
      BY <2>1, <2>2
    <2>4. i \in 1..(n - 1)
      BY <1>1, <2>3
    <2> QED BY <1>1, <2>1, <2>4 DEF Waiting
  <1> QED BY <1>1, <1>2 DEF Complete, u

\* A visit keeps what holds of the stack.
LEMMA VisitKeepsStack ==
    ASSUME NEW a, OneWay(a), NEW t \in Traversals(a), t.stack # <<>>, t.stack[Len(t.stack)].rest # <<>>,
           StackOK(a, t)
    PROVE  StackOK(a, Visit(a, t))
  <1> DEFINE n == Len(t.stack)
             top == t.stack[n]
             g == Head(top.rest)
             enters == top.level < a.depth /\ g \notin t.visited
             u == Visit(a, t)
             less == [f |-> top.f, level |-> top.level, rest |-> Tail(top.rest)]
  <1>1. /\ n \in Nat \ {0} /\ top \in FramesOf(a) /\ g \in FunctionsOf(a)
        /\ u.visited = IF enters THEN t.visited \union {g} ELSE t.visited
        /\ Len(u.stack) = IF enters THEN n + 1 ELSE n
        /\ \A i \in 1..(n - 1) : u.stack[i] = t.stack[i]
        /\ u.stack[n] = less
        /\ enters => u.stack[n + 1] = Frame(a, g, top.level + 1)
    <2>1. IsVisit(a, t, u)
      BY VisitIs
    <2> HIDE DEF u
    <2> QED BY <2>1 DEF IsVisit
  <1> HIDE DEF u
  <1>2. n \in 1..n /\ \A i \in 1..n : i = n \/ i \in 1..(n - 1)
    BY <1>1
  <1>3. FrameOK(a, top, n, t.visited)
    BY <1>2 DEF StackOK
  <1>4. t.visited \subseteq u.visited
    BY <1>1
  <1>5. /\ Len(top.rest) \in Nat \ {0} /\ Len(Tail(top.rest)) = Len(top.rest) - 1
        /\ ToSet(top.rest) = {g} \union ToSet(Tail(top.rest))
    <2>1. top.rest \in Seq(FunctionsOf(a)) /\ top.rest # <<>>
      BY <1>1 DEF FramesOf
    <2> HIDE DEF top
    <2> QED BY <2>1, HeadAndTail
  <1> HIDE DEF top, g, n
  <1>6. FrameOK(a, less, n, u.visited)
    <2>0. top.f \in FunctionsOf(a)
      BY <1>1 DEF FramesOf
    <2>1. Len(Around(a, top.f)) \in Nat
      BY <2>0, AroundTyped, LenProperties
    <2>2. Len(less.rest) <= Len(Around(a, less.f))
      BY <1>3, <1>5, <2>1 DEF FrameOK
    <2>3. ToSet(less.rest) \subseteq ToSet(Around(a, less.f))
      BY <1>3, <1>5 DEF FrameOK
    <2> QED BY <1>3, <1>4, <2>2, <2>3 DEF FrameOK
  <1>7. \A i \in 1..(n - 1) : FrameOK(a, u.stack[i], i, u.visited)
    <2> SUFFICES ASSUME NEW i \in 1..(n - 1) PROVE FrameOK(a, u.stack[i], i, u.visited)
      OBVIOUS
    <2>1. i \in 1..n
      BY <1>1
    <2>2. FrameOK(a, t.stack[i], i, t.visited)
      BY <2>1 DEF StackOK, n
    <2> QED BY <1>1, <1>4, <2>2 DEF FrameOK
  <1>8. \A i \in 1..n : FrameOK(a, u.stack[i], i, u.visited)
    BY <1>1, <1>2, <1>6, <1>7
  <1>9. \A i \in 1..n : u.stack[i].f = t.stack[i].f /\ t.stack[i].f \in t.visited
    <2>1. \A i \in 1..n : t.stack[i].f \in t.visited
      BY DEF StackOK, FrameOK, n
    <2>2. u.stack[n].f = t.stack[n].f
      BY <1>1 DEF top
    <2> QED BY <1>1, <1>2, <2>1, <2>2
  <1>10. \A i, j \in 1..n : u.stack[i].f = u.stack[j].f => i = j
    BY <1>9 DEF StackOK, n
  <1>11. CASE ~enters
    BY <1>1, <1>8, <1>10, <1>11 DEF StackOK, u
  <1>12. CASE enters
    <2> DEFINE new == Frame(a, g, top.level + 1)
    <2>1. new.f = g /\ new.level = top.level + 1 /\ new.rest = Around(a, g)
      BY DEF Frame
    <2>2. top.level \in Nat /\ top.level = n - 1 /\ top.f \in Within(a, top.level)
          /\ g \in ToSet(Around(a, top.f))
      BY <1>1, <1>3, <1>5 DEF FrameOK, FramesOf
    <2>3. g \in Within(a, top.level + 1)
      BY <2>2, WithinNext
    <2>4. /\ g \in u.visited /\ u.stack[n + 1] = new /\ Len(u.stack) = n + 1
          /\ g \notin t.visited /\ top.level < a.depth
      BY <1>1, <1>12
    <2>5. n + 1 # 1 /\ top.level + 1 = (n + 1) - 1 /\ top.level + 1 <= a.depth
      BY <1>1, <2>2, <2>4 DEF OneWay
    <2>6. Len(Around(a, g)) \in Nat
      BY <1>1, AroundTyped, LenProperties
    <2> HIDE DEF new
    <2>7. FrameOK(a, new, n + 1, u.visited)
      BY <2>1, <2>3, <2>4, <2>5, <2>6 DEF FrameOK
    <2>8. \A i \in 1..(n + 1) : i = n + 1 \/ i \in 1..n
      BY <1>1
    <2>9. \A i \in 1..(n + 1) : FrameOK(a, u.stack[i], i, u.visited)
      BY <1>8, <2>4, <2>7, <2>8
    <2>10. \A i \in 1..n : u.stack[i].f # g
      BY <1>9, <2>4
    <2>11. \A i, j \in 1..(n + 1) : u.stack[i].f = u.stack[j].f => i = j
      BY <1>10, <2>1, <2>4, <2>8, <2>10
    <2> QED BY <2>4, <2>9, <2>11 DEF StackOK, u
  <1> QED BY <1>11, <1>12

\* What a traversal has is finite.
LEMMA TraversalFinite ==
    ASSUME NEW a, OneWay(a), NEW t \in Traversals(a)
    PROVE  IsFiniteSet(t.nodes) /\ IsFiniteSet(t.edges)
  <1> DEFINE F == FunctionsOf(a)
             pairs == F \X F
             nodes == t.nodes
             edges == t.edges
  <1>1. IsFiniteSet(F)
    BY DEF OneWay
  <1>2. IsFiniteSet(pairs)
    BY <1>1, FS_Product
  <1>3. nodes \in SUBSET F /\ edges \in SUBSET pairs
    BY DEF Traversals
  <1> HIDE DEF nodes, edges, F, pairs
  <1>4. IsFiniteSet(nodes) /\ IsFiniteSet(edges)
    BY <1>1, <1>2, <1>3, FS_Subset
  <1> QED BY <1>4 DEF nodes, edges

\* A set with room takes one more.
LEMMA RoomForOne ==
    ASSUME NEW S, IsFiniteSet(S), NEW x, NEW budget \in Nat, ~(Cardinality(S) >= budget)
    PROVE  Cardinality(S \union {x}) <= budget
  <1>1. Cardinality(S) \in Nat
    BY FS_CardinalityType
  <1>2. Cardinality(S \union {x}) = IF x \in S THEN Cardinality(S) ELSE Cardinality(S) + 1
    BY FS_AddElement
  <1> QED BY <1>1, <1>2

\* A visit within the budget keeps what a traversal has.
LEMMA VisitKeepsSound ==
    ASSUME NEW a, OneWay(a), NEW t0, NEW t \in Traversals(a), t.stack # <<>>,
           t.stack[Len(t.stack)].rest # <<>>, ~Exhausted(a, t), StackOK(a, t), Sound(a, t0, t)
    PROVE  Sound(a, t0, Visit(a, t))
  <1> DEFINE n == Len(t.stack)
             top == t.stack[n]
             g == Head(top.rest)
             enters == top.level < a.depth /\ g \notin t.visited
             u == Visit(a, t)
  <1>1. /\ n \in Nat \ {0} /\ top \in FramesOf(a) /\ g \in FunctionsOf(a)
        /\ u.nodes = t.nodes \union {g} /\ u.edges = t.edges \union {Edge(a, top.f, g)}
        /\ u.truncated = t.truncated
        /\ u.visited = IF enters THEN t.visited \union {g} ELSE t.visited
    <2>1. IsVisit(a, t, u)
      BY VisitIs
    <2> HIDE DEF u
    <2> QED BY <2>1 DEF IsVisit
  <1> HIDE DEF u
  <1>2. n \in 1..n
    BY <1>1
  <1>3. FrameOK(a, top, n, t.visited)
    BY <1>2 DEF StackOK
  <1>4. ToSet(top.rest) = {g} \union ToSet(Tail(top.rest))
    <2>1. top.rest \in Seq(FunctionsOf(a)) /\ top.rest # <<>>
      BY <1>1 DEF FramesOf
    <2> HIDE DEF top
    <2> QED BY <2>1, HeadAndTail
  <1> HIDE DEF top, g, n
  <1>5. top.f \in t.visited /\ top.f \in FunctionsOf(a) /\ g \in ToSet(Around(a, top.f))
    BY <1>1, <1>3, <1>4 DEF FrameOK, FramesOf
  <1>6. g \in Within(a, a.depth + 1)
    <2>1. top.level \in Nat /\ top.level <= a.depth /\ top.f \in Within(a, top.level) /\ a.depth \in Nat
      BY <1>1, <1>3 DEF FrameOK, FramesOf, OneWay
    <2>2. g \in Within(a, top.level + 1)
      BY <1>5, <2>1, WithinNext
    <2>3. Within(a, top.level + 1) \subseteq Within(a, a.depth + 1)
      <3> DEFINE m == top.level + 1
                 k == a.depth + 1
      <3>1. m \in Nat /\ k \in Nat /\ m <= k
        BY <2>1
      <3> HIDE DEF m, k
      <3>2. Within(a, m) \subseteq Within(a, k)
        BY <3>1, WithinGrows
      <3> QED BY <3>2 DEF m, k
    <2> QED BY <2>2, <2>3
  <1>7. u.nodes \subseteq t0.nodes \union Within(a, a.depth + 1)
    BY <1>1, <1>6 DEF Sound
  <1>8. CallHere(a, Edge(a, top.f, g), u.nodes)
    <2>1. top.f \in u.nodes /\ g \in u.nodes
      BY <1>1, <1>5 DEF Sound
    <2> QED BY <1>5, <2>1 DEF CallHere
  <1>9. \A e : CallHere(a, e, t.nodes) => CallHere(a, e, u.nodes)
    BY <1>1 DEF CallHere
  <1>10. \A e \in u.edges : e \in t0.edges \/ CallHere(a, e, u.nodes)
    BY <1>1, <1>8, <1>9 DEF Sound
  <1>11. Cardinality(u.nodes) <= a.budget /\ Cardinality(u.edges) <= a.budget
    <2>1. IsFiniteSet(t.nodes) /\ IsFiniteSet(t.edges)
      BY TraversalFinite
    <2>2. ~(Cardinality(t.nodes) >= a.budget) /\ ~(Cardinality(t.edges) >= a.budget) /\ a.budget \in Nat
      BY DEF Exhausted, OneWay
    <2>3. Cardinality(t.nodes \union {g}) <= a.budget
      BY <2>1, <2>2, RoomForOne
    <2>4. Cardinality(t.edges \union {Edge(a, top.f, g)}) <= a.budget
      BY <2>1, <2>2, RoomForOne
    <2> QED BY <1>1, <2>3, <2>4
  <1>12. u.visited \subseteq u.nodes /\ t0.nodes \subseteq u.nodes /\ a.root \in u.nodes /\ (t0.truncated => u.truncated)
    BY <1>1 DEF Sound
  <1> QED BY <1>7, <1>10, <1>11, <1>12 DEF Sound, u

\* A visit leaves nothing out.
LEMMA VisitKeepsComplete ==
    ASSUME NEW a, OneWay(a), NEW t \in Traversals(a), t.stack # <<>>,
           t.stack[Len(t.stack)].rest # <<>>, StackOK(a, t), Complete(a, t)
    PROVE  Complete(a, Visit(a, t))
  <1> DEFINE n == Len(t.stack)
             top == t.stack[n]
             g == Head(top.rest)
             enters == top.level < a.depth /\ g \notin t.visited
             u == Visit(a, t)
  <1>1. /\ n \in Nat \ {0} /\ top \in FramesOf(a)
        /\ u.nodes = t.nodes \union {g}
        /\ u.visited = IF enters THEN t.visited \union {g} ELSE t.visited
        /\ Len(u.stack) = IF enters THEN n + 1 ELSE n
        /\ \A i \in 1..(n - 1) : u.stack[i] = t.stack[i]
        /\ u.stack[n] = [f |-> top.f, level |-> top.level, rest |-> Tail(top.rest)]
        /\ enters => u.stack[n + 1] = Frame(a, g, top.level + 1)
    <2>1. IsVisit(a, t, u)
      BY VisitIs
    <2> HIDE DEF u
    <2> QED BY <2>1 DEF IsVisit
  <1> HIDE DEF u
  <1>2. n \in 1..n /\ (\A i \in 1..n : i = n \/ i \in 1..(n - 1)) /\ \A i \in 1..n : i \in 1..Len(u.stack)
    BY <1>1
  <1>3. ToSet(top.rest) = {g} \union ToSet(Tail(top.rest))
    <2>1. top.rest \in Seq(FunctionsOf(a)) /\ top.rest # <<>>
      BY <1>1 DEF FramesOf
    <2> HIDE DEF top
    <2> QED BY <2>1, HeadAndTail
  <1>4. FrameOK(a, top, n, t.visited)
    BY <1>2 DEF StackOK
  <1>5. t.stack[1].f = a.root
    <2>1. 1 \in 1..Len(t.stack)
      BY <1>1
    <2> QED BY <2>1 DEF StackOK, FrameOK
  <1>6. top = t.stack[n]
    OBVIOUS
  <1>7. ASSUME NEW f, NEW h, Waiting(t, f, h) PROVE Waiting(u, f, h) \/ (f = top.f /\ h = g)
    <2>1. PICK i \in 1..n : t.stack[i].f = f /\ h \in ToSet(t.stack[i].rest)
      BY <1>7 DEF Waiting
    <2> HIDE DEF g, top, n
    <2>2. CASE i = n
      <3>1. f = top.f /\ (h = g \/ h \in ToSet(Tail(top.rest)))
        BY <1>3, <1>6, <2>1, <2>2
      <3>2. u.stack[n].f = top.f /\ u.stack[n].rest = Tail(top.rest) /\ n \in 1..Len(u.stack)
        BY <1>1, <1>2
      <3> QED BY <3>1, <3>2 DEF Waiting
    <2>3. CASE i # n
      <3>1. i \in 1..(n - 1) /\ i \in 1..Len(u.stack)
        BY <1>2, <2>3
      <3>2. u.stack[i] = t.stack[i]
        BY <1>1, <3>1
      <3> QED BY <2>1, <3>1, <3>2 DEF Waiting
    <2> QED BY <2>2, <2>3
  <1>8. ASSUME NEW f \in u.visited, NEW h \in ToSet(Around(a, f)) PROVE h \in u.nodes \/ Waiting(u, f, h)
    <2>1. CASE f \in t.visited
      <3>1. h \in t.nodes \/ Waiting(t, f, h)
        BY <1>8, <2>1 DEF Complete
      <3> HIDE DEF g, top, n
      <3> QED BY <1>1, <1>7, <3>1
    <2>2. CASE f \notin t.visited
      <3> HIDE DEF g, top, n
      <3>1. enters /\ f = g
        BY <1>1, <1>8, <2>2
      <3>2. Len(u.stack) = n + 1 /\ u.stack[n + 1] = Frame(a, f, top.level + 1) /\ n + 1 \in 1..(n + 1)
        BY <1>1, <3>1
      <3>3. u.stack[n + 1].f = f /\ u.stack[n + 1].rest = Around(a, f)
        BY <3>2 DEF Frame
      <3> QED BY <1>8, <3>2, <3>3 DEF Waiting
    <2> QED BY <2>1, <2>2
  <1>9. ASSUME NEW h \in ToSet(Around(a, a.root)) PROVE h \in u.visited \/ Waiting(u, a.root, h)
    <2>1. h \in t.visited \/ Waiting(t, a.root, h)
      BY <1>9 DEF Complete
    <2>2. t.visited \subseteq u.visited
      BY <1>1
    <2>3. CASE Waiting(t, a.root, h) /\ a.root = top.f /\ h = g
      <3>1. n = 1
        <4>1. 1 \in 1..n /\ t.stack[1].f = top.f
          BY <1>1, <1>5, <2>3
        <4> HIDE DEF g
        <4>2. 1 \in 1..Len(t.stack) /\ n \in 1..Len(t.stack) /\ t.stack[1].f = t.stack[n].f
          BY <1>2, <4>1
        <4> QED BY <4>2 DEF StackOK
      <3>2. top.level = n - 1
        BY <1>4 DEF FrameOK
      <3>3. top.level = 0 /\ top.level < a.depth
        <4> HIDE DEF g, top, n
        <4> QED BY <3>1, <3>2 DEF OneWay
      <3> HIDE DEF g, top, n
      <3> QED BY <1>1, <2>3, <3>3
    <2> HIDE DEF g, top, n
    <2> QED BY <1>7, <2>1, <2>2, <2>3
  <1>10. a.root \in u.visited
    BY <1>1 DEF Complete
  <1> QED BY <1>8, <1>9, <1>10 DEF Complete, u

\* The turns that are left: those of functions not visited yet, and of every loop on
\* the stack those for what is still to come and its end.
Left(a, t) == {p \in TurnsOf(a) : \/ p[1] \notin t.visited
                                  \/ \E i \in 1..Len(t.stack) : /\ t.stack[i].f = p[1]
                                                                /\ p[2] <= Len(t.stack[i].rest)}

\* The turn that the loop on top is at.
TopTurn(t) == <<t.stack[Len(t.stack)].f, Len(t.stack[Len(t.stack)].rest)>>

\* A loop on top of the stack has a turn left.
LEMMA TopIsLeft ==
    ASSUME NEW a, OneWay(a), NEW t \in Traversals(a), t.stack # <<>>, StackOK(a, t)
    PROVE  TopTurn(t) \in Left(a, t)
  <1> DEFINE n == Len(t.stack)
             top == t.stack[n]
             k == Len(top.rest)
  <1>1. n \in Nat \ {0} /\ top \in FramesOf(a)
    BY ReturnIs
  <1>2. n \in 1..n
    BY <1>1
  <1>3. FrameOK(a, top, n, t.visited)
    BY <1>2 DEF StackOK
  <1>4. top.f \in FunctionsOf(a) /\ top.rest \in Seq(FunctionsOf(a))
    BY <1>1 DEF FramesOf
  <1>5. k \in Nat /\ Len(Around(a, top.f)) \in Nat /\ k <= Len(Around(a, top.f))
    <2>1. k \in Nat
      BY <1>4, LenProperties
    <2>2. Len(Around(a, top.f)) \in Nat
      BY <1>4, AroundTyped, LenProperties
    <2> QED BY <1>3, <2>1, <2>2 DEF FrameOK
  <1> HIDE DEF k, top, n
  <1>6. <<top.f, k>> \in {top.f} \X (0..Len(Around(a, top.f)))
    BY <1>5
  <1>7. <<top.f, k>> \in TurnsOf(a)
    BY <1>4, <1>6 DEF TurnsOf, FunctionsOf
  <1>8. k <= Len(top.rest)
    BY <1>5 DEF k
  <1> DEFINE p == <<top.f, k>>
  <1>9. p[1] = t.stack[n].f /\ p[2] <= Len(t.stack[n].rest) /\ n \in 1..Len(t.stack)
    BY <1>2, <1>8 DEF top, n
  <1>10. TopTurn(t) = p
    BY DEF TopTurn, k, top, n
  <1>11. p \in TurnsOf(a)
    BY <1>7
  <1> HIDE DEF p
  <1> QED BY <1>9, <1>10, <1>11 DEF Left

\* The end of a loop takes the turn on top.
LEMMA ReturnTakesTurn ==
    ASSUME NEW a, OneWay(a), NEW t \in Traversals(a), t.stack # <<>>, StackOK(a, t),
           NEW u, u.visited = Return(t).visited, u.stack = Return(t).stack
    PROVE  Left(a, u) \subseteq Left(a, t) \ {TopTurn(t)}
  <1> DEFINE n == Len(t.stack)
  <1>1. /\ n \in Nat \ {0} /\ Len(u.stack) = n - 1 /\ u.visited = t.visited
        /\ \A i \in 1..(n - 1) : u.stack[i] = t.stack[i]
    BY ReturnIs
  <1> SUFFICES ASSUME NEW p \in Left(a, u) PROVE p \in Left(a, t) /\ p[1] # t.stack[n].f
    BY DEF TopTurn
  <1>2. n \in 1..n /\ \A i \in 1..(n - 1) : i \in 1..n /\ i # n
    BY <1>1
  <1>3. t.stack[n].f \in t.visited
    BY <1>2 DEF StackOK, FrameOK
  <1>4. p \in TurnsOf(a)
    BY DEF Left
  <1>5. CASE p[1] \notin u.visited
    BY <1>1, <1>3, <1>4, <1>5 DEF Left
  <1>6. CASE p[1] \in u.visited
    <2>1. PICK i \in 1..(n - 1) : u.stack[i].f = p[1] /\ p[2] <= Len(u.stack[i].rest)
      BY <1>1, <1>6 DEF Left
    <2>2. i \in 1..n /\ i # n /\ t.stack[i].f = p[1] /\ p[2] <= Len(t.stack[i].rest)
      BY <1>1, <1>2, <2>1
    <2>3. t.stack[i].f # t.stack[n].f
      BY <1>2, <2>2 DEF StackOK
    <2> QED BY <1>4, <2>2, <2>3 DEF Left
  <1> QED BY <1>5, <1>6

\* So does a visit; the turns of a function that is entered were left before.
LEMMA VisitTakesTurn ==
    ASSUME NEW a, OneWay(a), NEW t \in Traversals(a), t.stack # <<>>,
           t.stack[Len(t.stack)].rest # <<>>, StackOK(a, t)
    PROVE  Left(a, Visit(a, t)) \subseteq Left(a, t) \ {TopTurn(t)}
  <1> DEFINE n == Len(t.stack)
             top == t.stack[n]
             g == Head(top.rest)
             enters == top.level < a.depth /\ g \notin t.visited
             u == Visit(a, t)
  <1>1. /\ n \in Nat \ {0} /\ top \in FramesOf(a)
        /\ u.visited = IF enters THEN t.visited \union {g} ELSE t.visited
        /\ Len(u.stack) = IF enters THEN n + 1 ELSE n
        /\ \A i \in 1..(n - 1) : u.stack[i] = t.stack[i]
        /\ u.stack[n] = [f |-> top.f, level |-> top.level, rest |-> Tail(top.rest)]
        /\ enters => u.stack[n + 1] = Frame(a, g, top.level + 1)
    <2>1. IsVisit(a, t, u)
      BY VisitIs
    <2> HIDE DEF u
    <2> QED BY <2>1 DEF IsVisit
  <1> HIDE DEF u
  <1>2. n \in 1..n /\ \A i \in 1..(n - 1) : i \in 1..n /\ i # n
    BY <1>1
  <1>3. Len(top.rest) \in Nat \ {0} /\ Len(Tail(top.rest)) = Len(top.rest) - 1
    <2>1. top.rest \in Seq(FunctionsOf(a)) /\ top.rest # <<>>
      BY <1>1 DEF FramesOf
    <2> HIDE DEF top
    <2> QED BY <2>1, HeadAndTail
  <1>4. top.f \in t.visited /\ top = t.stack[n]
    BY <1>2 DEF StackOK, FrameOK
  <1>5. TopTurn(t) = <<top.f, Len(top.rest)>>
    BY DEF TopTurn
  <1> SUFFICES ASSUME NEW p \in Left(a, u)
               PROVE  p \in Left(a, t) /\ (p[1] # top.f \/ p[2] # Len(top.rest))
    BY <1>5 DEF u
  <1> HIDE DEF top, g, n
  <1>6. p \in TurnsOf(a)
    BY DEF Left
  <1>7. p[2] \in Nat
    <2>1. PICK f \in FunctionsOf(a) : p \in {f} \X (0..Len(Around(a, f)))
      BY <1>6 DEF TurnsOf, FunctionsOf
    <2>2. Len(Around(a, f)) \in Nat
      BY AroundTyped, LenProperties
    <2> QED BY <2>1, <2>2
  <1>8. CASE p[1] \notin t.visited
    BY <1>4, <1>6, <1>8 DEF Left
  <1>9. CASE p[1] \in t.visited
    <2>1. p[1] \in u.visited
      BY <1>1, <1>9
    <2>2. \E i \in 1..Len(u.stack) : u.stack[i].f = p[1] /\ p[2] <= Len(u.stack[i].rest)
      BY <2>1 DEF Left
    <2>3. PICK i \in 1..Len(u.stack) : u.stack[i].f = p[1] /\ p[2] <= Len(u.stack[i].rest)
      BY <2>2
    <2>4. i \in 1..(n - 1) \/ i = n \/ (enters /\ i = n + 1)
      BY <1>1, <2>3
    <2>5. CASE i \in 1..(n - 1)
      <3>1. i \in 1..n /\ i # n /\ t.stack[i].f = p[1] /\ p[2] <= Len(t.stack[i].rest)
        BY <1>1, <1>2, <2>3, <2>5
      <3>2. t.stack[i].f # top.f
        BY <1>2, <1>4, <3>1 DEF StackOK, n
      <3> QED BY <1>6, <3>1, <3>2 DEF Left, n
    <2>6. CASE i = n
      <3>1. top.f = p[1] /\ p[2] <= Len(Tail(top.rest))
        <4>1. u.stack[n].f = top.f /\ u.stack[n].rest = Tail(top.rest)
          BY <1>1
        <4> QED BY <2>3, <2>6, <4>1
      <3>2. p[2] <= Len(top.rest) /\ p[2] # Len(top.rest)
        BY <1>3, <1>7, <3>1
      <3>3. n \in 1..Len(t.stack) /\ t.stack[n].f = p[1] /\ p[2] <= Len(t.stack[n].rest)
        BY <1>2, <1>4, <3>1, <3>2 DEF n
      <3> QED BY <1>6, <3>2, <3>3 DEF Left
    <2>7. CASE enters /\ i = n + 1
      <3>1. u.stack[i].f = g /\ g \notin t.visited
        BY <1>1, <2>7 DEF Frame
      <3> QED BY <1>9, <2>3, <3>1
    <2> QED BY <2>4, <2>5, <2>6, <2>7
  <1> QED BY <1>8, <1>9

\* Every step keeps what holds of a traversal, and takes a turn.
LEMMA StepKeeps ==
    ASSUME NEW a, OneWay(a), NEW t0, NEW t, TraversalOK(a, t0, t)
    PROVE  /\ TraversalOK(a, t0, Step(a, t))
           /\ t.stack # <<>> => /\ TopTurn(t) \in Left(a, t)
                                /\ Left(a, Step(a, t)) \subseteq Left(a, t) \ {TopTurn(t)}
           /\ t.stack = <<>> => Step(a, t) = t
  <1> DEFINE rest == t.stack[Len(t.stack)].rest
  <1>1. t \in Traversals(a) /\ StackOK(a, t) /\ Sound(a, t0, t) /\ (~t.truncated => Complete(a, t))
    BY DEF TraversalOK
  <1>2. CASE t.stack = <<>>
    <2>1. Step(a, t) = t
      BY <1>2 DEF Step
    <2> QED BY <1>2, <2>1
  <1>3. ASSUME t.stack # <<>> PROVE TopTurn(t) \in Left(a, t)
    BY <1>1, <1>3, TopIsLeft
  <1>4. CASE t.stack # <<>> /\ rest = <<>>
    <2>1. Step(a, t) = Return(t)
      BY <1>4 DEF Step, Last
    <2>2. /\ Return(t) \in Traversals(a) /\ Return(t).nodes = t.nodes /\ Return(t).edges = t.edges
          /\ Return(t).truncated = t.truncated /\ Return(t).visited = t.visited
      BY <1>1, <1>4, ReturnIs
    <2>3. StackOK(a, Return(t))
      BY <1>1, <1>4, ReturnKeepsStack
    <2>4. Sound(a, t0, Return(t))
      BY <1>1, <2>2 DEF Sound
    <2>5. ~Return(t).truncated => Complete(a, Return(t))
      BY <1>1, <1>4, <2>2, ReturnKeepsComplete
    <2>6. Left(a, Return(t)) \subseteq Left(a, t) \ {TopTurn(t)}
      BY <1>1, <1>4, ReturnTakesTurn
    <2>7. TraversalOK(a, t0, Return(t))
      BY <2>2, <2>3, <2>4, <2>5 DEF TraversalOK
    <2> QED BY <1>3, <1>4, <2>1, <2>6, <2>7
  <1>5. CASE t.stack # <<>> /\ rest # <<>> /\ Exhausted(a, t)
    <2> DEFINE u == [Return(t) EXCEPT !.truncated = TRUE]
    <2>1. Step(a, t) = u
      BY <1>5 DEF Step, Last
    <2>2. /\ Return(t) \in Traversals(a) /\ Return(t).nodes = t.nodes /\ Return(t).edges = t.edges
          /\ Return(t).visited = t.visited
      BY <1>1, <1>5, ReturnIs
    <2>3. /\ u \in Traversals(a) /\ u.nodes = t.nodes /\ u.edges = t.edges /\ u.truncated = TRUE
          /\ u.visited = Return(t).visited /\ u.stack = Return(t).stack
      BY <2>2 DEF Traversals
    <2>4. StackOK(a, Return(t))
      BY <1>1, <1>5, ReturnKeepsStack
    <2> HIDE DEF u
    <2>5. StackOK(a, u)
      BY <2>3, <2>4 DEF StackOK
    <2>6. Sound(a, t0, u)
      BY <1>1, <2>2, <2>3 DEF Sound
    <2>7. Left(a, u) \subseteq Left(a, t) \ {TopTurn(t)}
      BY <1>1, <1>5, <2>3, ReturnTakesTurn
    <2>8. TraversalOK(a, t0, u)
      BY <2>3, <2>5, <2>6 DEF TraversalOK
    <2> QED BY <1>3, <1>5, <2>1, <2>7, <2>8
  <1>6. CASE t.stack # <<>> /\ rest # <<>> /\ ~Exhausted(a, t)
    <2>1. Step(a, t) = Visit(a, t)
      BY <1>6 DEF Step, Last
    <2>2. Visit(a, t) \in Traversals(a) /\ Visit(a, t).truncated = t.truncated
      <3>1. IsVisit(a, t, Visit(a, t))
        BY <1>1, <1>6, VisitIs
      <3> QED BY <3>1 DEF IsVisit
    <2>3. StackOK(a, Visit(a, t))
      BY <1>1, <1>6, VisitKeepsStack
    <2>4. Sound(a, t0, Visit(a, t))
      BY <1>1, <1>6, VisitKeepsSound
    <2>5. ~Visit(a, t).truncated => Complete(a, Visit(a, t))
      BY <1>1, <1>6, <2>2, VisitKeepsComplete
    <2>6. Left(a, Visit(a, t)) \subseteq Left(a, t) \ {TopTurn(t)}
      BY <1>1, <1>6, VisitTakesTurn
    <2>7. TraversalOK(a, t0, Visit(a, t))
      BY <2>2, <2>3, <2>4, <2>5 DEF TraversalOK
    <2> QED BY <1>3, <1>6, <2>1, <2>6, <2>7
  <1> HIDE DEF rest
  <1> QED BY <1>2, <1>4, <1>5, <1>6

\* What a traversal can go on from.
Ready(a, t0) ==
    /\ t0 \in Traversals(a) /\ (t0.nodes = {} \/ a.root \in t0.nodes)
    /\ Cardinality(t0.nodes) <= a.budget /\ Cardinality(t0.edges) <= a.budget

\* A traversal begins with the root, and all that is around it to come.
LEMMA StartOK ==
    ASSUME NEW a, OneWay(a), NEW t0, Ready(a, t0)
    PROVE  TraversalOK(a, t0, Start(a, t0))
  <1> DEFINE t == Start(a, t0)
             frame == Frame(a, a.root, 0)
  <1>1. t = [nodes |-> t0.nodes \union {a.root}, edges |-> t0.edges, truncated |-> t0.truncated,
             visited |-> {a.root}, stack |-> <<frame>>]
    BY DEF Start, Cleared
  <1>2. a.root \in FunctionsOf(a) /\ a.depth \in Nat /\ a.budget \in Nat \ {0}
    BY DEF OneWay
  <1>3. /\ Around(a, a.root) \in Seq(FunctionsOf(a)) /\ Len(Around(a, a.root)) \in Nat
        /\ frame = [f |-> a.root, level |-> 0, rest |-> Around(a, a.root)]
    <2>1. Around(a, a.root) \in Seq(FunctionsOf(a))
      BY <1>2, AroundTyped
    <2> QED BY <2>1, LenProperties DEF Frame
  <1>4. frame \in FramesOf(a) /\ frame.f = a.root /\ frame.level = 0 /\ frame.rest = Around(a, a.root)
    BY <1>2, <1>3 DEF FramesOf
  <1> HIDE DEF frame, t
  <1>5. /\ t.nodes = t0.nodes \union {a.root} /\ t.edges = t0.edges /\ t.truncated = t0.truncated
        /\ t.visited = {a.root} /\ t.stack = <<frame>>
    BY <1>1
  <1>6. t \in Traversals(a)
    BY <1>1, <1>2, <1>4 DEF Traversals, Ready
  <1>7. Len(t.stack) = 1 /\ t.stack[1] = frame /\ 1..1 = {1}
    BY <1>5
  <1>8. a.root \in Within(a, 0) /\ Within(a, 0) \subseteq Within(a, a.depth + 1)
    <2> DEFINE k == a.depth + 1
    <2>1. k \in Nat /\ 0 \in Nat /\ 0 <= k
      BY <1>2
    <2> HIDE DEF k
    <2>2. Within(a, 0) \subseteq Within(a, k)
      BY <2>1, WithinGrows
    <2> QED BY <2>2, WithinIs DEF k
  <1>9. StackOK(a, t)
    <2>1. FrameOK(a, frame, 1, {a.root})
      BY <1>2, <1>3, <1>4, <1>8 DEF FrameOK
    <2> QED BY <1>5, <1>7, <2>1 DEF StackOK
  <1>10. Sound(a, t0, t)
    <2>1. Cardinality(t.nodes) <= a.budget
      <3>1. CASE t0.nodes = {}
        <4>1. t.nodes = {a.root}
          BY <1>5, <3>1
        <4> QED BY <1>2, <4>1, FS_Singleton, SMTT(30)
      <3>2. CASE t0.nodes # {}
        <4>1. t.nodes = t0.nodes
          BY <1>5, <3>2 DEF Ready
        <4> QED BY <4>1 DEF Ready
      <3> QED BY <3>1, <3>2
    <2> QED BY <1>5, <1>8, <2>1 DEF Sound, Ready
  <1>11. Complete(a, t)
    <2>1. \A g \in ToSet(Around(a, a.root)) : Waiting(t, a.root, g)
      BY <1>4, <1>7 DEF Waiting
    <2> QED BY <1>5, <2>1 DEF Complete
  <1> QED BY <1>6, <1>9, <1>10, <1>11 DEF TraversalOK, t

\* Of a complete traversal that is over nothing within two steps is missing.
LEMMA OverIsComplete ==
    ASSUME NEW a, OneWay(a), NEW t0, NEW t, TraversalOK(a, t0, t), t.stack = <<>>, ~t.truncated
    PROVE  Within(a, 2) \subseteq t.nodes
  <1>1. Complete(a, t) /\ t.visited \subseteq t.nodes
    BY DEF TraversalOK, Sound
  <1>2. \A f, g : ~Waiting(t, f, g)
    <2>1. 1..Len(t.stack) = {}
      OBVIOUS
    <2> QED BY <2>1 DEF Waiting
  <1>3. Within(a, 0) = {a.root} /\ Within(a, 1) = Widened(a, Within(a, 0)) /\ Within(a, 2) = Widened(a, Within(a, 1))
    <2>1. 0 + 1 = 1 /\ 1 + 1 = 2 /\ 0 \in Nat /\ 1 \in Nat
      OBVIOUS
    <2>2. Within(a, 0 + 1) = Widened(a, Within(a, 0)) /\ Within(a, 1 + 1) = Widened(a, Within(a, 1))
      BY <2>1, WithinIs
    <2> QED BY <2>1, <2>2, WithinIs
  <1>4. Within(a, 1) \subseteq t.visited
    BY <1>1, <1>2, <1>3 DEF Widened, Complete
  <1>5. \A f \in t.visited : ToSet(Around(a, f)) \subseteq t.nodes
    BY <1>1, <1>2 DEF Complete
  <1> QED BY <1>1, <1>3, <1>4, <1>5 DEF Widened

\* A traversal comes to its end, has what it may have, and all that it must have.
LEMMA TraverseExact ==
    ASSUME NEW a, OneWay(a), NEW t0, Ready(a, t0)
    PROVE  /\ Traverse(a, t0) \in Traversals(a) /\ Sound(a, t0, Traverse(a, t0))
           /\ ~Traverse(a, t0).truncated => Within(a, 2) \subseteq Traverse(a, t0).nodes
  <1> DEFINE N == Turns(a)
             S == {t \in Traversals(a) : TraversalOK(a, t0, t)}
             first == Start(a, t0)
             step == [p \in (1..N) \X S |-> Step(a, p[2])]
             IsAfter(f) == f = [n \in 0..N |-> IF n = 0 THEN first ELSE Step(a, f[n - 1])]
             OK(t, n) == t.stack = <<>> \/ Cardinality(Left(a, t)) + n <= N
  <1>1. N \in Nat /\ IsFiniteSet(TurnsOf(a)) /\ N = Cardinality(TurnsOf(a))
    BY TurnsFinite DEF Turns
  <1>2. first \in S
    BY StartOK DEF TraversalOK
  <1>3. \A t \in S : Step(a, t) \in S
    BY StepKeeps DEF TraversalOK
  <1>4. \A t : Left(a, t) \subseteq TurnsOf(a)
    BY DEF Left
  <1>5. \A t : IsFiniteSet(Left(a, t)) /\ Cardinality(Left(a, t)) \in Nat /\ Cardinality(Left(a, t)) <= N
    <2> SUFFICES ASSUME NEW t PROVE IsFiniteSet(Left(a, t)) /\ Cardinality(Left(a, t)) \in Nat
                                    /\ Cardinality(Left(a, t)) <= N
      OBVIOUS
    <2> DEFINE left == Left(a, t)
    <2>1. left \in SUBSET TurnsOf(a)
      BY <1>4
    <2> HIDE DEF left
    <2>2. IsFiniteSet(left) /\ Cardinality(left) <= Cardinality(TurnsOf(a))
      BY <1>1, <2>1, FS_Subset
    <2> QED BY <1>1, <2>2, FS_CardinalityType DEF left
  <1>6. ASSUME NEW t \in S, NEW n \in 1..N, OK(t, n - 1) PROVE OK(Step(a, t), n)
    <2>1. CASE t.stack = <<>>
      <3>1. Step(a, t) = t
        BY <2>1, StepKeeps
      <3> QED BY <2>1, <3>1
    <2>2. CASE t.stack # <<>>
      <3> DEFINE small == Left(a, Step(a, t))
                 big == Left(a, t)
                 less == big \ {TopTurn(t)}
      <3>1. TopTurn(t) \in big /\ small \subseteq less
        BY <2>2, StepKeeps
      <3>2. IsFiniteSet(big) /\ Cardinality(big) \in Nat /\ Cardinality(small) \in Nat
        BY <1>5
      <3>3. IsFiniteSet(less) /\ Cardinality(less) = Cardinality(big) - 1
        BY <3>1, <3>2, FS_RemoveElement
      <3>4. Cardinality(big) + (n - 1) <= N
        BY <1>6, <2>2
      <3> HIDE DEF small, big, less
      <3>5. Cardinality(small) <= Cardinality(less)
        BY <3>1, <3>3, FS_Subset
      <3>6. n \in Nat /\ N \in Nat
        BY <1>1
      <3>7. Cardinality(small) + n <= N
        BY <3>2, <3>3, <3>4, <3>5, <3>6
      <3> QED BY <3>7 DEF small
    <2> QED BY <2>1, <2>2
  <1> HIDE DEF S, N, first, OK
  <1>7. PICK f \in [0..N -> S] : Loop(f, N, first, step)
    <2>1. step \in [(1..N) \X S -> S]
      BY <1>3
    <2> HIDE DEF step
    <2> QED BY <1>1, <1>2, <2>1, Iteration
  <1>8. IsAfter(f)
    <2>0. N \in Nat
      BY <1>1
    <2>1. \A n \in 0..N : n = 0 \/ (n \in 1..N /\ n - 1 \in 0..N)
      BY <2>0
    <2>2. \A n \in 1..N : step[<<n, f[n - 1]>>] = Step(a, f[n - 1])
      BY <2>0
    <2> HIDE DEF step
    <2> QED BY <1>7, <2>1, <2>2 DEF Loop
  <1> DEFINE after == CHOOSE h : IsAfter(h)
  <1>9. IsAfter(after)
    <2> HIDE DEF IsAfter
    <2> QED BY <1>8
  <1>10. Traverse(a, t0) = after[N]
    BY DEF Traverse, N, first
  <1> HIDE DEF after
  <1>11. after[0] = first /\ \A n \in 1..N : after[n] = Step(a, after[n - 1])
    <2>0. N \in Nat
      BY <1>1
    <2>1. 0 \in 0..N /\ \A n \in 1..N : n \in 0..N /\ n # 0
      BY <2>0
    <2> QED BY <1>9, <2>1
  <1> DEFINE T == {n \in 0..N : after[n] \in S /\ OK(after[n], n)}
  <1>12. 0 \in T
    <2>1. OK(first, 0)
      <3>1. Cardinality(Left(a, first)) \in Nat /\ Cardinality(Left(a, first)) <= N
        BY <1>5
      <3> QED BY <3>1 DEF OK
    <2> QED BY <1>1, <1>2, <1>11, <2>1
  <1>13. ASSUME NEW n \in 1..N, n - 1 \in T PROVE n \in T
    <2>1. n \in 0..N
      BY <1>1
    <2>2. after[n - 1] \in S /\ OK(after[n - 1], n - 1)
      BY <1>13
    <2>3. Step(a, after[n - 1]) \in S /\ OK(Step(a, after[n - 1]), n)
      BY <1>3, <1>6, <2>2
    <2> QED BY <1>11, <2>1, <2>3
  <1>14. after[N] \in S /\ OK(after[N], N)
    <2>0. N \in Nat
      BY <1>1
    <2>1. N \in 0..N
      BY <2>0
    <2>2. N \in T
      <3> HIDE DEF T
      <3> QED BY <2>0, <1>12, <1>13, <2>1, BoundedInduction
    <2> QED BY <2>2
  <1> DEFINE t == after[N]
  <1> HIDE DEF t
  <1>15. t \in Traversals(a) /\ TraversalOK(a, t0, t)
    BY <1>14 DEF S, t
  <1>16. t.stack = <<>>
    <2> SUFFICES ASSUME t.stack # <<>> PROVE FALSE
      OBVIOUS
    <2>1. Cardinality(Left(a, t)) + N <= N
      BY <1>14 DEF OK, t
    <2>2. Cardinality(Left(a, t)) = 0
      BY <1>1, <1>5, <2>1
    <2>3. Left(a, t) = {}
      BY <1>5, <2>2, FS_EmptySet
    <2>4. TopTurn(t) \in Left(a, t)
      BY <1>15, StepKeeps
    <2> QED BY <2>3, <2>4
  <1>17. Sound(a, t0, t) /\ (~t.truncated => Within(a, 2) \subseteq t.nodes)
    BY <1>15, <1>16, OverIsComplete DEF TraversalOK
  <1> QED BY <1>10, <1>15, <1>17 DEF t

\* A graph in one direction is one of the two.
LEMMA TowardsIs ==
    ASSUME NEW q \in Graphs, NEW d \in {"callees", "callers"}
    PROVE  LET a == Towards(q, d)
           IN /\ OneWay(a) /\ a.callees = q.callees /\ a.callers = q.callers /\ a.root = q.root
              /\ a.depth = q.depth /\ a.budget = q.budget /\ a.direction = d
              /\ q.direction = d => a = q
  <1> DEFINE F == DOMAIN q.callees
             a == Towards(q, d)
  <1>1. /\ IsFiniteSet(F)
        /\ q \in [callees : [F -> Seq(F)], callers : [F -> Seq(F)], root : F, depth : Nat \ {0},
                  budget : Nat \ {0}, direction : {"callees", "callers", "both"}]
    BY GraphsAssumption
  <1>2. /\ a.callees = q.callees /\ a.callers = q.callers /\ a.root = q.root /\ a.depth = q.depth
        /\ a.budget = q.budget /\ a.direction = d
    BY <1>1 DEF Towards
  <1>3. ASSUME q.direction = d PROVE a = q
    BY <1>1, <1>3 DEF Towards
  <1>4. /\ q.callees \in [F -> Seq(F)] /\ q.callers \in [F -> Seq(F)] /\ q.root \in F
        /\ q.depth \in Nat \ {0} /\ q.budget \in Nat \ {0}
    BY <1>1
  <1> HIDE DEF a
  <1>5. FunctionsOf(a) = F
    BY <1>2 DEF FunctionsOf
  <1>6. OneWay(a)
    BY <1>1, <1>2, <1>4, <1>5 DEF OneWay
  <1> QED BY <1>2, <1>3, <1>6 DEF a

\* Nothing is a beginning.
LEMMA UnvisitedReady ==
    ASSUME NEW a, OneWay(a)
    PROVE  Ready(a, Unvisited)
  <1>1. Unvisited \in Traversals(a)
    BY DEF Unvisited, Traversals
  <1>2. Cardinality({}) = 0
    BY FS_EmptySet
  <1> QED BY <1>1, <1>2 DEF Ready, Unvisited, OneWay

\* An edge of a direction that is asked for is a call.
LEMMA EdgeIsCall ==
    ASSUME NEW q \in Graphs, NEW d \in Directions(q), d \in {"callees", "callers"},
           NEW e, NEW nodes, CallHere(Towards(q, d), e, nodes)
    PROVE  IsCall(q, e[1], e[2]) /\ {e[1], e[2]} \subseteq nodes
  <1> DEFINE a == Towards(q, d)
  <1>1. a.callees = q.callees /\ a.callers = q.callers /\ a.direction = d
    BY TowardsIs
  <1> HIDE DEF a
  <1>2. PICK f \in FunctionsOf(a) : \E g \in ToSet(Around(a, f)) : e = Edge(a, f, g) /\ f \in nodes /\ g \in nodes
    BY DEF CallHere, a
  <1>3. PICK g \in ToSet(Around(a, f)) : e = Edge(a, f, g) /\ f \in nodes /\ g \in nodes
    BY <1>2
  <1>4. CASE d = "callees"
    <2>1. e = <<f, g>> /\ g \in ToSet(q.callees[f])
      BY <1>1, <1>3, <1>4 DEF Edge, Around
    <2>2. "callees" \in Directions(q)
      BY <1>4
    <2> QED BY <1>3, <2>1, <2>2 DEF IsCall
  <1>5. CASE d = "callers"
    <2>1. e = <<g, f>> /\ g \in ToSet(q.callers[f])
      BY <1>1, <1>3, <1>5 DEF Edge, Around
    <2>2. "callers" \in Directions(q)
      BY <1>5
    <2> QED BY <1>3, <2>1, <2>2 DEF IsCall
  <1> QED BY <1>4, <1>5

\* GraphExact of a query and its answer.
GraphOK(q, t) ==
    /\ ~t.truncated => WithinAsked(q, 2) \subseteq t.nodes
    /\ t.nodes \subseteq WithinAsked(q, q.depth + 1)
    /\ \A e \in t.edges : IsCall(q, e[1], e[2]) /\ {e[1], e[2]} \subseteq t.nodes
    /\ Cardinality(t.nodes) <= q.budget /\ Cardinality(t.edges) <= q.budget

\* The graph of one direction, and of both: the callers come second, and keep what
\* the callees have found.
LEMMA GraphIsExact ==
    ASSUME NEW q \in Graphs
    PROVE  GraphOK(q, Graph(q))
  <1>1. q.direction \in {"callees", "callers", "both"}
    BY GraphsAssumption
  <1>2. Unvisited.nodes = {} /\ Unvisited.edges = {} /\ Unvisited.truncated = FALSE
    BY DEF Unvisited
  <1>3. CASE q.direction # "both"
    <2> DEFINE d == q.direction
               t == Graph(q)
    <2>1. d \in {"callees", "callers"} /\ Directions(q) = {d}
      BY <1>1, <1>3 DEF Directions
    <2>2. OneWay(q) /\ Towards(q, d) = q
      BY <2>1, TowardsIs
    <2>3. t = Traverse(q, Unvisited)
      BY <1>3 DEF Graph
    <2>4. Sound(q, Unvisited, t) /\ (~t.truncated => Within(q, 2) \subseteq t.nodes)
      BY <2>2, <2>3, UnvisitedReady, TraverseExact
    <2>5. \A n : WithinAsked(q, n) = Within(q, n)
      BY <2>1, <2>2 DEF WithinAsked
    <2> HIDE DEF t
    <2>6. \A e \in t.edges : IsCall(q, e[1], e[2]) /\ {e[1], e[2]} \subseteq t.nodes
      <3> SUFFICES ASSUME NEW e \in t.edges PROVE IsCall(q, e[1], e[2]) /\ {e[1], e[2]} \subseteq t.nodes
        OBVIOUS
      <3>1. CallHere(q, e, t.nodes)
        BY <1>2, <2>4 DEF Sound
      <3>2. d \in Directions(q) /\ CallHere(Towards(q, d), e, t.nodes)
        BY <2>1, <2>2, <3>1
      <3> HIDE DEF d
      <3> QED BY <2>1, <3>2, EdgeIsCall
    <2> QED BY <1>2, <2>4, <2>5, <2>6 DEF GraphOK, Sound, t
  <1>4. CASE q.direction = "both"
    <2> DEFINE a == Towards(q, "callees")
               b == Towards(q, "callers")
               t == Traverse(a, Unvisited)
               u == Traverse(b, t)
    <2>1. Directions(q) = {"callees", "callers"}
      BY <1>4 DEF Directions
    <2>2. /\ OneWay(a) /\ OneWay(b) /\ a.root = q.root /\ b.root = q.root /\ a.depth = q.depth /\ b.depth = q.depth
          /\ a.budget = q.budget /\ b.budget = q.budget /\ a.callees = q.callees /\ b.callees = q.callees
      BY TowardsIs
    <2>3. Graph(q) = u
      BY <1>4 DEF Graph
    <2>4. \A n : WithinAsked(q, n) = Within(a, n) \union Within(b, n)
      BY <2>1 DEF WithinAsked
    <2> HIDE DEF a, b
    <2>5. /\ t \in Traversals(a) /\ Sound(a, Unvisited, t)
          /\ ~t.truncated => Within(a, 2) \subseteq t.nodes
      BY <2>2, UnvisitedReady, TraverseExact
    <2> HIDE DEF t
    <2>6. Ready(b, t)
      <3>1. FunctionsOf(a) = FunctionsOf(b)
        BY <2>2 DEF FunctionsOf
      <3>2. t \in Traversals(b)
        BY <2>5, <3>1 DEF Traversals, FramesOf
      <3> QED BY <2>2, <2>5, <3>2 DEF Ready, Sound
    <2>7. Sound(b, t, u) /\ (~u.truncated => Within(b, 2) \subseteq u.nodes)
      BY <2>2, <2>6, TraverseExact
    <2> HIDE DEF u
    <2>8. ~u.truncated => WithinAsked(q, 2) \subseteq u.nodes
      BY <2>4, <2>5, <2>7 DEF Sound
    <2>9. u.nodes \subseteq WithinAsked(q, q.depth + 1)
      BY <1>2, <2>2, <2>4, <2>5, <2>7 DEF Sound
    <2>10. \A e \in u.edges : IsCall(q, e[1], e[2]) /\ {e[1], e[2]} \subseteq u.nodes
      <3> SUFFICES ASSUME NEW e \in u.edges PROVE IsCall(q, e[1], e[2]) /\ {e[1], e[2]} \subseteq u.nodes
        OBVIOUS
      <3>1. e \in t.edges \/ CallHere(b, e, u.nodes)
        BY <2>7 DEF Sound
      <3>2. CASE e \in t.edges
        <4>1. CallHere(a, e, t.nodes)
          BY <1>2, <2>5, <3>2 DEF Sound
        <4>2. t.nodes \subseteq u.nodes
          BY <2>7 DEF Sound
        <4>3. IsCall(q, e[1], e[2]) /\ {e[1], e[2]} \subseteq t.nodes
          BY <2>1, <4>1, EdgeIsCall DEF a
        <4> QED BY <4>2, <4>3
      <3>3. CASE CallHere(b, e, u.nodes)
        BY <2>1, <3>3, EdgeIsCall DEF b
      <3> QED BY <3>1, <3>2, <3>3
    <2>11. Cardinality(u.nodes) <= q.budget /\ Cardinality(u.edges) <= q.budget
      BY <2>2, <2>7 DEF Sound
    <2> QED BY <2>3, <2>8, <2>9, <2>10, <2>11 DEF GraphOK
  <1> QED BY <1>3, <1>4

-----------------------------------------------------------------------------
(* The queries.                                                            *)

\* The answer is the one that the algorithm computes from the query.
AnswerIs ==
    \/ kind = "graph" /\ answer = <<Graph(ask)>>
    \/ kind = "scan" /\ answer = <<[deep |-> SearchDeep(ask.blocks, ask.query, ask),
                                    batch |-> BatchSearch(ask.blocks, ask.queries, ask),
                                    blob |-> ExtractStrings(ask.blocks[1], ask.from, ask.size, ask)]>>
    \/ kind = "bytes" /\ answer = <<FindBytes(ask.blocks, ask.needle, ask.limit)>>
    \/ kind = "pcode" /\ answer = <<GetPcode(ask.blocks, ask.var, ask.limit)>>
    \/ kind = "transfer" /\ answer = <<[names |-> Renamed(ask), stats |-> Stats(ask)]>>
    \/ kind = "lookup" /\ answer = <<FindOnDisk(ask.disk, ask)>>

\* The query stays, and its answer is none or the one computed.
Inv == Asked /\ (answer = <<>> \/ AnswerIs)

\* A query is answered once, with what its algorithm computes.
LEMMA Computed == Spec => []Inv
  <1>1. Init => Inv
    BY DEF Init, Inv
  <1>2. Inv /\ [Next]_vars => Inv'
    <2> SUFFICES ASSUME Inv, [Next]_vars PROVE Inv'
      OBVIOUS
    <2>1. CASE UNCHANGED vars
      BY <2>1 DEF Inv, Asked, AnswerIs, vars
    <2>2. CASE Next
      <3>1. kind' = kind /\ ask' = ask
        BY <2>2 DEF Next, Answer, CallGraphQuery, SearchQuery, BytesQuery, PcodeQuery, TransferQuery, LookupQuery
      <3>2. Asked'
        BY <3>1 DEF Inv, Asked
      <3>3. AnswerIs'
        BY <2>2 DEF AnswerIs, Next, Answer, CallGraphQuery, SearchQuery, BytesQuery, PcodeQuery, TransferQuery,
                    LookupQuery
      <3> QED BY <3>2, <3>3 DEF Inv
    <2> QED BY <2>1, <2>2
  <1> QED BY <1>1, <1>2, PTL DEF Spec

\* get_call_graph has all that is two calls away unless its budget cuts it, and nothing
\* that is too far away, no call or beyond the budget, for every program.
THEOREM GraphsAreExact == Spec => []GraphExact
  <1>1. Inv => GraphExact
    <2> SUFFICES ASSUME Inv, kind = "graph", answer # <<>> PROVE GraphExact
      BY DEF GraphExact, Answered
    <2>1. ask \in Graphs /\ Result = Graph(ask)
      BY DEF Inv, Asked, AnswerIs, Result
    <2>2. GraphOK(ask, Result)
      BY <2>1, GraphIsExact
    <2> QED BY <2>2 DEF GraphExact, GraphOK
  <1> QED BY <1>1, Computed, PTL

\* The slice of get_pcode is the least closed set of ops, and its listing is cut
\* exactly when it says so, for every function.
THEOREM SlicesAreExact == Spec => []SliceExact
  <1>1. Inv => SliceExact
    <2> SUFFICES ASSUME Inv, kind = "pcode", answer # <<>> PROVE SliceExact
      BY DEF SliceExact, Answered
    <2>1. ask \in Listings /\ Result = GetPcode(ask.blocks, ask.var, ask.limit)
      BY DEF Inv, Asked, AnswerIs, Result
    <2> QED BY <2>1, ListingExact DEF SliceExact
  <1> QED BY <1>1, Computed, PTL

\* transfer_analysis names functions of Ghidra's at the only place of their bytes, and
\* leaves nothing to the next run, for every pair of binaries.
THEOREM TransfersAreUnique == Spec => []TransferUnique
  <1>1. Inv => TransferUnique
    <2> SUFFICES ASSUME Inv, kind = "transfer", answer # <<>> PROVE TransferUnique
      BY DEF TransferUnique, Answered
    <2>1. ask \in Transferals /\ Result = [names |-> Renamed(ask), stats |-> Stats(ask)]
      BY DEF Inv, Asked, AnswerIs, Result
    <2>2. Result.names = Renamed(ask)
      BY <2>1
    <2> QED BY <2>1, <2>2, TransferIsUnique DEF TransferUnique
  <1> QED BY <1>1, Computed, PTL

\* _find_on_disk does not depend on the order of the directory, for every disk.
THEOREM LookupsAreOrderFree == Spec => []LookupOrderFree
  <1>1. Inv => LookupOrderFree
    <2> SUFFICES ASSUME Inv, kind = "lookup", answer # <<>> PROVE LookupOrderFree
      BY DEF LookupOrderFree, Answered
    <2>1. ask \in Lookups /\ Result = FindOnDisk(ask.disk, ask)
      BY DEF Inv, Asked, AnswerIs, Result
    <2> QED BY <2>1, LookupIsOrderFree DEF LookupOrderFree
  <1> QED BY <1>1, Computed, PTL

\* The searches of memory return the first of all the results there are, for every
\* memory, chunk size and limit.
THEOREM SearchesAreExact == Spec => []SearchExact
  <1>1. ASSUME Inv, kind = "scan", answer # <<>>
        PROVE  LET bytes == ask.blocks[1]
                   end == RegionEnd(bytes, ask.from, ask.size)
               IN /\ FirstOf(Result.deep, AllStretches(ask.blocks, ask.query, ask), ask.limit)
                  /\ \A q \in ask.queries :
                       FirstOf(Result.batch[q], AllStretches(ask.blocks, q, ask), ask.limit)
                  /\ FirstOf(Result.blob, Stretches(1, bytes, ask.from, end, <<>>, ask), ask.limit)
    <2>1. ask \in Scans
      BY <1>1 DEF Inv, Asked
    <2>2. Result = [deep |-> SearchDeep(ask.blocks, ask.query, ask),
                    batch |-> BatchSearch(ask.blocks, ask.queries, ask),
                    blob |-> ExtractStrings(ask.blocks[1], ask.from, ask.size, ask)]
      BY <1>1 DEF Inv, AnswerIs, Result
    <2>3. /\ ask.blocks \in Seq(Seq(Nat)) /\ ask.blocks # <<>>
          /\ ask.limit \in Nat /\ ask.chunk \in Nat \ {0} /\ ask.from \in Nat \ {0} /\ ask.size \in Nat \ {0}
          /\ ask.min_length \in Nat
      BY <2>1, ScansAssumption
    <2>4. ask.blocks[1] \in Seq(Nat)
      BY <2>3
    <2>5. FirstOf(SearchDeep(ask.blocks, ask.query, ask), AllStretches(ask.blocks, ask.query, ask), ask.limit)
      <3>1. ask.query \in {ask.query}
        OBVIOUS
      <3> QED BY <2>3, <3>1, BatchExact DEF SearchDeep
    <2>6. \A q \in ask.queries : FirstOf(BatchSearch(ask.blocks, ask.queries, ask)[q],
                                         AllStretches(ask.blocks, q, ask), ask.limit)
      BY <2>3, BatchExact
    <2>7. FirstOf(ExtractStrings(ask.blocks[1], ask.from, ask.size, ask),
                  Stretches(1, ask.blocks[1], ask.from, RegionEnd(ask.blocks[1], ask.from, ask.size), <<>>, ask),
                  ask.limit)
      BY <2>3, <2>4, ExtractExact
    <2>8. /\ Result.deep = SearchDeep(ask.blocks, ask.query, ask)
          /\ Result.batch = BatchSearch(ask.blocks, ask.queries, ask)
          /\ Result.blob = ExtractStrings(ask.blocks[1], ask.from, ask.size, ask)
      BY <2>2
    <2> QED BY <2>5, <2>6, <2>7, <2>8
  <1>2. ASSUME Inv, kind = "bytes", answer # <<>>
        PROVE  FirstOf(Result, AllPlaces(ask.blocks, ask.needle), ask.limit)
    <2>1. ask \in Patterns /\ Result = FindBytes(ask.blocks, ask.needle, ask.limit)
      BY <1>2 DEF Inv, Asked, AnswerIs, Result
    <2>2. ask.blocks \in Seq(Seq(Nat)) /\ ask.limit \in Nat
      BY <2>1, PatternsAssumption
    <2> QED BY <2>1, <2>2, FindBytesExact
  <1>3. Inv => SearchExact
    BY <1>1, <1>2 DEF SearchExact, Answered
  <1> QED BY <1>3, Computed, PTL

=============================================================================
