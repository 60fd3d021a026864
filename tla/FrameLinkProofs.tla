---------------------------- MODULE FrameLinkProofs ----------------------------
(***************************************************************************)
(* Proofs about FrameLink, for every set of requests, every length of      *)
(* packets, queues and payloads, and all noise: the parser has room for    *)
(* every byte, finds what was sent in the order it was sent in, and loses  *)
(* no frame that arrived whole.                                            *)
(*                                                                         *)
(* scan is a recursive function.  That it is one at all, and not a CHOOSE  *)
(* of nothing, follows from Recursion: each round of its loop leaves a     *)
(* shorter buffer.  What holds of every scan is then shown by induction on *)
(* the length of the buffer, with sets in the place of formulas.           *)
(***************************************************************************)
EXTENDS FrameLink, SequenceTheorems, FiniteSetTheorems, WellFoundedInduction, TLAPS

(***************************************************************************)
(* Induction and recursion, over sets.                                     *)
(***************************************************************************)
\* A set of naturals has a least one.
LEMMA NatLeast ==
  ASSUME NEW T, T \subseteq Nat, T # {}
  PROVE  \E x \in T : \A y \in T : x <= y
<1>1. PICK x \in T : \A y \in T : ~(<<y, x>> \in OpToRel(<, Nat))
  BY NatLessThanWellFounded, WFMin
<1>2. ASSUME NEW y \in T PROVE x <= y
  <2>1. ~(<<y, x>> \in OpToRel(<, Nat))
    BY <1>1
  <2>2. ~(y < x)
    BY <2>1 DEF OpToRel
  <2>3. QED
    BY <2>2
<1>3. QED
  BY <1>2

\* A set with 0 and the successor of each number in it has all numbers.
LEMMA NatAll ==
  ASSUME NEW S, 0 \in S, \A n \in Nat : n \in S => n + 1 \in S
  PROVE  \A n \in Nat : n \in S
<1> SUFFICES ASSUME NEW n \in Nat, n \notin S PROVE FALSE
  OBVIOUS
<1> DEFINE T == {k \in Nat : k \notin S}
<1>1. PICK x \in T : \A y \in T : x <= y
  <2>1. T \subseteq Nat /\ T # {}
    OBVIOUS
  <2> HIDE DEF T
  <2>2. QED
    BY <2>1, NatLeast
<1>2. x # 0 /\ x \in Nat /\ x - 1 \in Nat /\ ~(x <= x - 1)
  BY <1>1
<1>3. x - 1 \in S
  BY <1>1, <1>2
<1>4. QED
  BY <1>1, <1>2, <1>3

\* What F makes of a function at a place depends on its values at lesser places only.
Descends(X, V, m, F) ==
  /\ V # {} /\ m \in [X -> Nat] /\ F \in [[X -> V] -> [X -> V]]
  /\ \A x \in X : \A f, g \in [X -> V] :
       (\A y \in X : m[y] < m[x] => f[y] = g[y]) => F[f][x] = F[g][x]

HasFixpoint(X, V, F) == \E f \in [X -> V] : f = F[f]

\* So F has a fixpoint: solutions below every n fit together into one for all.
LEMMA Recursion ==
  ASSUME NEW X, NEW V, NEW m, NEW F, Descends(X, V, m, F)
  PROVE  HasFixpoint(X, V, F)
<1> USE DEF Descends, HasFixpoint
<1> PICK v : v \in V
  OBVIOUS
<1> DEFINE Sol(n) == {f \in [X -> V] : \A x \in X : m[x] < n => f[x] = F[f][x]}
<1>1. \A n \in Nat : Sol(n) # {}
  <2> DEFINE S == {n \in Nat : Sol(n) # {}}
  <2>1. 0 \in S
    <3>1. [x \in X |-> v] \in Sol(0)
      OBVIOUS
    <3>2. QED
      BY <3>1
  <2>2. ASSUME NEW n \in Nat, n \in S PROVE n + 1 \in S
    <3>1. PICK f : f \in Sol(n)
      BY <2>2
    <3>2. f \in [X -> V] /\ F[f] \in [X -> V] /\ \A x \in X : m[x] < n => f[x] = F[f][x]
      BY <3>1
    <3> DEFINE g == [x \in X |-> IF m[x] < n THEN f[x] ELSE F[f][x]]
    <3>3. g \in [X -> V]
      BY <3>2
    <3>4. ASSUME NEW x \in X, m[x] < n + 1 PROVE g[x] = F[g][x]
      <4>1. \A y \in X : m[y] < m[x] => f[y] = g[y]
        BY <3>4
      <4>2. F[f][x] = F[g][x]
        BY <3>2, <3>3, <4>1
      <4>3. g[x] = F[f][x]
        BY <3>2
      <4>4. QED
        BY <4>2, <4>3
    <3>5. g \in Sol(n + 1) /\ n + 1 \in Nat
      BY <3>3, <3>4
    <3> HIDE DEF g, Sol
    <3>6. QED
      BY <3>5
  <2> HIDE DEF S
  <2>3. \A n \in Nat : n \in S
    BY <2>1, <2>2, NatAll
  <2>4. QED
    BY <2>3 DEF S
<1>2. ASSUME NEW n \in Nat, NEW f \in Sol(n), NEW g \in Sol(n), NEW x \in X, m[x] < n
      PROVE  f[x] = g[x]
  <2> SUFFICES ASSUME f[x] # g[x] PROVE FALSE
    OBVIOUS
  <2> DEFINE T == {k \in Nat : k < n /\ \E y \in X : m[y] = k /\ f[y] # g[y]}
  <2>1. T \subseteq Nat /\ T # {}
    BY <1>2
  <2>2. PICK k \in T : \A j \in T : k <= j
    <3> HIDE DEF T
    <3>1. QED
      BY <2>1, NatLeast
  <2>3. PICK y \in X : m[y] = k /\ f[y] # g[y]
    BY <2>2
  <2>4. \A z \in X : m[z] < m[y] => f[z] = g[z]
    <3> SUFFICES ASSUME NEW z \in X, m[z] < m[y], f[z] # g[z] PROVE FALSE
      OBVIOUS
    <3>1. m[z] \in T /\ ~(k <= m[z])
      BY <2>2, <2>3
    <3>2. QED
      BY <2>2, <3>1
  <2>5. F[f][y] = F[g][y]
    BY <2>4
  <2>6. f[y] = F[f][y] /\ g[y] = F[g][y]
    BY <2>2, <2>3
  <2>7. QED
    BY <2>3, <2>5, <2>6
<1>3. \A n \in Nat : (CHOOSE f : f \in Sol(n)) \in Sol(n)
  BY <1>1, Zenon
<1> DEFINE h == [n \in Nat |-> CHOOSE f : f \in Sol(n)]
<1>4. \A n \in Nat : h[n] \in Sol(n)
  BY <1>3
<1> HIDE DEF h
<1> DEFINE G == [x \in X |-> h[m[x] + 1][x]]
<1>5. \A n \in Nat : h[n] \in [X -> V]
  BY <1>4
<1>6. G \in [X -> V]
  BY <1>5
<1>7. ASSUME NEW x \in X PROVE G[x] = F[G][x]
  <2> DEFINE f == h[m[x] + 1]
  <2>1. f \in Sol(m[x] + 1) /\ f \in [X -> V] /\ m[x] \in Nat /\ m[x] < m[x] + 1
    BY <1>4
  <2>2. ASSUME NEW y \in X, m[y] < m[x] PROVE G[y] = f[y]
    <3>1. m[y] + 1 \in Nat /\ m[y] < m[y] + 1 /\ m[y] \in Nat
      OBVIOUS
    <3>2. f \in Sol(m[y] + 1)
      BY <2>1, <2>2, <3>1
    <3>3. h[m[y] + 1] \in Sol(m[y] + 1)
      BY <1>4, <3>1
    <3> HIDE DEF Sol, f
    <3>4. h[m[y] + 1][y] = f[y]
      BY <1>2, <3>1, <3>2, <3>3
    <3>5. QED
      BY <3>4
  <2>3. F[G][x] = F[f][x]
    BY <1>6, <2>1, <2>2
  <2>4. f[x] = F[f][x]
    BY <2>1
  <2>5. G[x] = f[x]
    OBVIOUS
  <2>6. QED
    BY <2>3, <2>4, <2>5
<1>8. F[G] \in [X -> V]
  BY <1>6
<1> HIDE DEF G
<1>9. G = F[G]
  BY <1>6, <1>7, <1>8
<1>10. QED
  BY <1>6, <1>9

\* The domain of Scanned.
Parsing == [rest : Seq(Token), ids : Seq(Nat)]

LEMMA DropType ==
  ASSUME NEW S, NEW s \in Seq(S), NEW n \in 0 .. Len(s)
  PROVE  /\ Drop(s, n) \in Seq(S) /\ Len(Drop(s, n)) = Len(s) - n
         /\ \A i \in 1 .. Len(s) - n : Drop(s, n)[i] = s[n + i]
<1>1. n + 1 \in Int /\ Len(s) \in Int /\ \A i \in n + 1 .. Len(s) : s[i] \in S
  BY ElementOfSeq
<1>2. /\ SubSeq(s, n + 1, Len(s)) \in Seq(S)
      /\ Len(SubSeq(s, n + 1, Len(s))) = IF n + 1 <= Len(s) THEN Len(s) - (n + 1) + 1 ELSE 0
      /\ \A i \in 1 .. Len(s) - (n + 1) + 1 : SubSeq(s, n + 1, Len(s))[i] = s[n + 1 + i - 1]
  BY <1>1, SubSeqProperties
<1>3. QED
  BY <1>2 DEF Drop

\* The place where the hunt for a magic ends.
LEMMA HuntedPlace ==
  ASSUME NEW s \in Seq(Token), s # << >>
  PROVE  \E i \in 1 .. Len(s) :
           /\ Hunted(s) = Drop(s, i - 1)
           /\ MagicAt(s, i) \/ i = Len(s)
           /\ \A j \in 1 .. i - 1 : ~MagicAt(s, j)
<1> DEFINE Stop(i) == MagicAt(s, i) \/ i = Len(s)
           T == {i \in 1 .. Len(s) : Stop(i)}
<1>1. Len(s) \in Nat \ {0} /\ DOMAIN s = 1 .. Len(s)
  BY EmptySeq, LenProperties
<1>2. T \subseteq Nat /\ T # {}
  BY <1>1
<1>3. PICK i \in T : \A j \in T : i <= j
  <2> HIDE DEF T
  <2>1. QED
    BY <1>2, NatLeast
<1>4. \E k \in DOMAIN s :
        /\ MagicAt(s, k) \/ k = Len(s)
        /\ \A j \in 1 .. (k - 1) : ~MagicAt(s, j)
  <2>1. i \in DOMAIN s /\ (MagicAt(s, i) \/ i = Len(s))
    BY <1>1, <1>3
  <2>2. ASSUME NEW j \in 1 .. (i - 1) PROVE ~MagicAt(s, j)
    <3>1. j \in 1 .. Len(s) /\ ~(i <= j)
      BY <1>1, <2>1
    <3>2. QED
      BY <1>3, <3>1
  <2>3. QED
    BY <2>1, <2>2
<1> DEFINE c == CHOOSE k \in DOMAIN s :
                  /\ MagicAt(s, k) \/ k = Len(s)
                  /\ \A j \in 1 .. (k - 1) : ~MagicAt(s, j)
<1>5. c \in DOMAIN s /\ (MagicAt(s, c) \/ c = Len(s)) /\ \A j \in 1 .. (c - 1) : ~MagicAt(s, j)
  BY <1>4, Zenon
<1>6. Hunted(s) = Drop(s, c - 1)
  BY Zenon DEF Hunted
<1>7. QED
  BY <1>1, <1>5, <1>6

LEMMA HuntedType ==
  ASSUME NEW s \in Seq(Token)
  PROVE  \E d \in 0 .. Len(s) : Hunted(s) = Drop(s, d)
<1>1. CASE s = << >>
  <2>1. Hunted(s) = s /\ Len(s) = 0 /\ Drop(s, 0) = s
    BY <1>1 DEF Hunted, Drop
  <2>2. QED
    BY <2>1
<1>2. CASE s # << >>
  <2>1. PICK i \in 1 .. Len(s) : Hunted(s) = Drop(s, i - 1)
    BY <1>2, HuntedPlace
  <2>2. i - 1 \in 0 .. Len(s)
    BY <2>1, LenProperties
  <2>3. QED
    BY <2>1, <2>2
<1>3. QED
  BY <1>1, <1>2

\* Where scan returns, and what it goes on with where it does not.
Returns(p) ==
  LET h == Hunted(p.rest)
  IN  Len(h) < Overhead \/ (~FalseSync(h) /\ Len(h) < Total(h))

Returned(p) == [rest |-> Hunted(p.rest), ids |-> p.ids]

Skips(h) == FalseSync(h) \/ ~Intact(h)

Next(p) ==
  LET h == Hunted(p.rest)
  IN  IF Skips(h) THEN [rest |-> Drop(h, 2), ids |-> p.ids]
      ELSE [rest |-> Drop(h, Total(h)), ids |-> Append(p.ids, h[3].id)]

\* One round of scan's loop.
Round(f, p) == IF Returns(p) THEN Returned(p) ELSE f[Next(p)]

LEMMA HeadFacts ==
  ASSUME NEW p \in Parsing
  PROVE  /\ p.rest \in Seq(Token) /\ p.ids \in Seq(Nat)
         /\ Hunted(p.rest) \in Seq(Token)
         /\ Len(Hunted(p.rest)) \in Nat /\ Len(Hunted(p.rest)) <= Len(p.rest)
<1>1. p.rest \in Seq(Token) /\ p.ids \in Seq(Nat) /\ Len(p.rest) \in Nat
  BY LenProperties DEF Parsing
<1>2. PICK d \in 0 .. Len(p.rest) : Hunted(p.rest) = Drop(p.rest, d)
  BY <1>1, HuntedType
<1>3. Drop(p.rest, d) \in Seq(Token) /\ Len(Drop(p.rest, d)) = Len(p.rest) - d
  BY <1>1, DropType
<1>4. QED
  BY <1>1, <1>2, <1>3

\* The header in a buffer long enough to hold one.
LEMMA HeaderFacts ==
  ASSUME NEW h \in Seq(Token), Len(h) >= Overhead
  PROVE  /\ h[3] \in Token /\ h[3].plen \in Nat /\ h[3].id \in Nat
         /\ Total(h) \in Nat /\ Total(h) >= Overhead
         /\ FalseSync(h) \in BOOLEAN /\ Intact(h) \in BOOLEAN
<1>1. Len(h) \in Nat /\ 3 \in 1 .. Len(h)
  BY LenProperties DEF Overhead
<1>2. h[3] \in Token
  BY <1>1, ElementOfSeq
<1>3. h[3].plen \in Nat /\ h[3].id \in Nat
  BY <1>2 DEF Token
<1>4. QED
  BY <1>2, <1>3 DEF Total, Overhead, FalseSync, Intact

LEMMA NextType ==
  ASSUME NEW p \in Parsing, ~Returns(p)
  PROVE  Next(p) \in Parsing /\ Len(Next(p).rest) < Len(p.rest) /\ Len(Next(p).rest) \in Nat
<1> DEFINE h == Hunted(p.rest)
<1>1. h \in Seq(Token) /\ Len(h) \in Nat /\ Len(h) <= Len(p.rest) /\ Len(p.rest) \in Nat
      /\ p.ids \in Seq(Nat)
  BY HeadFacts, LenProperties
<1>2. Len(h) >= Overhead /\ (FalseSync(h) \/ Len(h) >= Total(h))
  <2>1. ~(Len(h) < Overhead \/ (~FalseSync(h) /\ Len(h) < Total(h)))
    BY DEF Returns
  <2>2. Len(h) >= Overhead
    <3>1. ~(Len(h) < Overhead)
      BY <2>1, Zenon
    <3> HIDE DEF h
    <3>2. QED
      BY <1>1, <3>1 DEF Overhead
  <2> HIDE DEF h
  <2>3. Total(h) \in Nat
    BY <1>1, <2>2, HeaderFacts
  <2>4. QED
    BY <1>1, <2>1, <2>2, <2>3
<1> HIDE DEF h
<1>3. h[3].id \in Nat /\ Total(h) \in Nat /\ Total(h) >= Overhead
  BY <1>1, <1>2, HeaderFacts
<1>4. CASE Skips(h)
  <2>1. Next(p) = [rest |-> Drop(h, 2), ids |-> p.ids]
    BY <1>4 DEF Next, h
  <2>2. 2 \in 0 .. Len(h)
    BY <1>1, <1>2 DEF Overhead
  <2>3. Drop(h, 2) \in Seq(Token) /\ Len(Drop(h, 2)) = Len(h) - 2
    BY <1>1, <2>2, DropType
  <2>4. QED
    BY <1>1, <1>2, <2>1, <2>3 DEF Parsing, Overhead
<1>5. CASE ~Skips(h)
  <2>1. Next(p) = [rest |-> Drop(h, Total(h)), ids |-> Append(p.ids, h[3].id)]
    BY <1>5 DEF Next, h
  <2>2. Total(h) \in 0 .. Len(h)
    BY <1>1, <1>2, <1>3, <1>5 DEF Overhead, Skips
  <2>3. Drop(h, Total(h)) \in Seq(Token) /\ Len(Drop(h, Total(h))) = Len(h) - Total(h)
    BY <1>1, <2>2, DropType
  <2>4. Append(p.ids, h[3].id) \in Seq(Nat)
    BY <1>1, <1>3
  <2>5. QED
    BY <1>1, <1>2, <1>3, <2>1, <2>2, <2>3, <2>4 DEF Parsing, Overhead
<1>6. QED
  BY <1>4, <1>5

\* The body of Scanned is a round of the loop.
Looped(f, p) ==
  LET h == Hunted(p.rest)
      Again(rest, ids) == f[[rest |-> rest, ids |-> ids]]
  IN  CASE Len(h) < Overhead -> [rest |-> h, ids |-> p.ids]
        [] Len(h) >= Overhead /\ FalseSync(h) -> Again(Drop(h, 2), p.ids)
        [] Len(h) >= Overhead /\ ~FalseSync(h) ->
             CASE Len(h) < Total(h) -> [rest |-> h, ids |-> p.ids]
               [] Len(h) >= Total(h) /\ Intact(h) ->
                    Again(Drop(h, Total(h)), Append(p.ids, h[3].id))
               [] Len(h) >= Total(h) /\ ~Intact(h) -> Again(PastBad(h), p.ids)

LEMMA LoopedIsRound ==
  ASSUME NEW p \in Parsing, NEW f
  PROVE  Looped(f, p) = Round(f, p)
<1> DEFINE h == Hunted(p.rest)
<1>1. h \in Seq(Token) /\ Len(h) \in Nat
  BY HeadFacts
<1> DEFINE A(rest, ids) == f[[rest |-> rest, ids |-> ids]]
<1>2. Looped(f, p) =
        CASE Len(h) < Overhead -> [rest |-> h, ids |-> p.ids]
          [] Len(h) >= Overhead /\ FalseSync(h) -> A(Drop(h, 2), p.ids)
          [] Len(h) >= Overhead /\ ~FalseSync(h) ->
               CASE Len(h) < Total(h) -> [rest |-> h, ids |-> p.ids]
                 [] Len(h) >= Total(h) /\ Intact(h) ->
                      A(Drop(h, Total(h)), Append(p.ids, h[3].id))
                 [] Len(h) >= Total(h) /\ ~Intact(h) -> A(PastBad(h), p.ids)
  BY Zenon DEF Looped
<1>3. Round(f, p) =
        IF Len(h) < Overhead \/ (~FalseSync(h) /\ Len(h) < Total(h))
          THEN [rest |-> h, ids |-> p.ids]
          ELSE f[IF Skips(h) THEN [rest |-> Drop(h, 2), ids |-> p.ids]
                 ELSE [rest |-> Drop(h, Total(h)), ids |-> Append(p.ids, h[3].id)]]
  BY Zenon DEF Round, Returns, Returned, Next
<1> HIDE DEF h
<1>4. CASE Len(h) < Overhead
  <2>1. ~(Len(h) >= Overhead)
    BY <1>1, <1>4 DEF Overhead
  <2>2. Looped(f, p) = [rest |-> h, ids |-> p.ids]
    BY <1>2, <1>4, <2>1, Zenon
  <2>3. Round(f, p) = [rest |-> h, ids |-> p.ids]
    BY <1>3, <1>4, Zenon
  <2>4. QED
    BY <2>2, <2>3
<1>5. CASE Len(h) >= Overhead /\ FalseSync(h)
  <2>1. Skips(h) /\ ~(Len(h) < Overhead)
    BY <1>1, <1>5 DEF Skips, Overhead
  <2>2. QED
    BY <1>1, <1>2, <1>3, <1>5, <2>1 DEF Overhead
<1>6. CASE Len(h) >= Overhead /\ ~FalseSync(h)
  <2>1. Total(h) \in Nat /\ ~(Len(h) < Overhead) /\ (Skips(h) <=> ~Intact(h))
    BY <1>1, <1>6, HeaderFacts DEF Overhead, Skips
  <2>2. Looped(f, p) =
          CASE Len(h) < Total(h) -> [rest |-> h, ids |-> p.ids]
            [] Len(h) >= Total(h) /\ Intact(h) ->
                 A(Drop(h, Total(h)), Append(p.ids, h[3].id))
            [] Len(h) >= Total(h) /\ ~Intact(h) -> A(PastBad(h), p.ids)
    BY <1>2, <1>6, <2>1
  <2>3. CASE Len(h) < Total(h)
    BY <1>1, <1>3, <1>6, <2>1, <2>2, <2>3
  <2>4. CASE Len(h) >= Total(h) /\ Intact(h)
    BY <1>1, <1>3, <1>6, <2>1, <2>2, <2>4
  <2>5. CASE Len(h) >= Total(h) /\ ~Intact(h)
    BY <1>1, <1>3, <1>6, <2>1, <2>2, <2>5 DEF PastBad
  <2>6. QED
    BY <1>1, <2>1, <2>3, <2>4, <2>5
<1>7. QED
  BY <1>1, <1>4, <1>5, <1>6 DEF Overhead

\* scan comes to an end: every round it does not return from leaves a shorter buffer.
LEMMA ScanRound ==
  /\ Scanned \in [Parsing -> Parsing]
  /\ \A p \in Parsing : Scanned[p] = IF Returns(p) THEN Returned(p) ELSE Scanned[Next(p)]
<1> DEFINE m == [p \in Parsing |-> Len(p.rest)]
           F == [f \in [Parsing -> Parsing] |-> [p \in Parsing |-> Looped(f, p)]]
<1>1. m \in [Parsing -> Nat]
  BY HeadFacts, LenProperties
<1>2. \A p \in Parsing : Returned(p) \in Parsing
  BY HeadFacts DEF Returned, Parsing
<1>3. ASSUME NEW f \in [Parsing -> Parsing], NEW p \in Parsing
      PROVE  Looped(f, p) \in Parsing
  <2>1. Round(f, p) \in Parsing
    BY <1>2, <1>3, NextType DEF Round
  <2>2. QED
    BY <2>1, LoopedIsRound
<1>4. F \in [[Parsing -> Parsing] -> [Parsing -> Parsing]]
  BY <1>3
<1>5. ASSUME NEW p \in Parsing, NEW f \in [Parsing -> Parsing], NEW g \in [Parsing -> Parsing],
             \A q \in Parsing : m[q] < m[p] => f[q] = g[q]
      PROVE  F[f][p] = F[g][p]
  <2>1. Round(f, p) = Round(g, p)
    <3>1. CASE Returns(p)
      BY <3>1 DEF Round
    <3>2. CASE ~Returns(p)
      <4>1. Next(p) \in Parsing /\ m[Next(p)] < m[p]
        BY <3>2, NextType
      <4>2. f[Next(p)] = g[Next(p)]
        BY <1>5, <4>1
      <4>3. QED
        BY <3>2, <4>2 DEF Round
    <3>3. QED
      BY <3>1, <3>2
  <2>2. F[f][p] = Looped(f, p) /\ F[g][p] = Looped(g, p)
    OBVIOUS
  <2>3. QED
    BY <2>1, <2>2, LoopedIsRound
<1>6. [rest |-> << >>, ids |-> << >>] \in Parsing
  BY EmptySeq DEF Parsing
<1>7. \E f \in [Parsing -> Parsing] : f = F[f]
  <2> HIDE DEF m, F
  <2>1. Descends(Parsing, Parsing, m, F)
    BY <1>1, <1>4, <1>5, <1>6 DEF Descends
  <2>2. HasFixpoint(Parsing, Parsing, F)
    BY <2>1, Recursion
  <2>3. QED
    BY <2>2 DEF HasFixpoint
<1>8. \E f : f = [p \in Parsing |-> Looped(f, p)]
  BY <1>7
<1>9. Scanned = CHOOSE f : f = [p \in Parsing |-> Looped(f, p)]
  BY Zenon DEF Scanned, Looped, Parsing
<1>10. Scanned = [p \in Parsing |-> Looped(Scanned, p)]
  BY <1>8, <1>9, Zenon
<1>11. ASSUME NEW p \in Parsing
       PROVE  Scanned[p] = IF Returns(p) THEN Returned(p) ELSE Scanned[Next(p)]
  <2>1. Scanned[p] = Looped(Scanned, p)
    BY <1>10, Zenon
  <2>2. QED
    BY <2>1, LoopedIsRound DEF Round
<1>12. ASSUME NEW p \in Parsing PROVE Scanned[p] \in Parsing
  <2> DEFINE T == {n \in Nat : \E q \in Parsing : m[q] = n /\ Scanned[q] \notin Parsing}
  <2> SUFFICES ASSUME Scanned[p] \notin Parsing PROVE FALSE
    OBVIOUS
  <2>1. T \subseteq Nat /\ m[p] \in T
    BY <1>1
  <2>2. PICK n \in T : \A k \in T : n <= k
    <3> HIDE DEF T
    <3>1. QED
      BY <2>1, NatLeast
  <2>3. PICK q \in Parsing : m[q] = n /\ Scanned[q] \notin Parsing
    BY <2>2
  <2>4. ~Returns(q) /\ Scanned[Next(q)] \notin Parsing
    BY <1>2, <1>11, <2>3
  <2>5. Next(q) \in Parsing /\ m[Next(q)] < m[q]
    BY <2>4, NextType
  <2>6. m[Next(q)] \in T
    BY <1>1, <2>4, <2>5
  <2>7. ~(n <= m[Next(q)])
    BY <1>1, <2>3, <2>5
  <2>8. QED
    BY <2>2, <2>6, <2>7
<1>13. Scanned \in [Parsing -> Parsing]
  <2>1. Scanned = [p \in Parsing |-> Scanned[p]]
    BY <1>10, Zenon
  <2>2. QED
    BY <1>12, <2>1
<1>14. QED
  BY <1>11, <1>13

\* What holds where scan returns, and before a round if it holds after it, holds of
\* every scan.
LEMMA ScanInduction ==
  ASSUME NEW G,
         \A p \in Parsing : Returns(p) => <<p, Returned(p)>> \in G,
         \A p \in Parsing :
           ~Returns(p) /\ <<Next(p), Scanned[Next(p)]>> \in G => <<p, Scanned[Next(p)]>> \in G
  PROVE  \A p \in Parsing : <<p, Scanned[p]>> \in G
<1> SUFFICES ASSUME NEW p \in Parsing, <<p, Scanned[p]>> \notin G PROVE FALSE
  OBVIOUS
<1> DEFINE T == {n \in Nat : \E q \in Parsing : Len(q.rest) = n /\ <<q, Scanned[q]>> \notin G}
<1>1. T \subseteq Nat /\ Len(p.rest) \in T
  BY HeadFacts, LenProperties
<1>2. PICK n \in T : \A k \in T : n <= k
  <2> HIDE DEF T
  <2>1. QED
    BY <1>1, NatLeast
<1>3. PICK q \in Parsing : Len(q.rest) = n /\ <<q, Scanned[q]>> \notin G
  BY <1>2
<1>4. ~Returns(q) /\ Scanned[q] = Scanned[Next(q)]
  BY <1>3, ScanRound
<1>5. Next(q) \in Parsing /\ Len(Next(q).rest) < Len(q.rest) /\ Len(Next(q).rest) \in Nat
  BY <1>4, NextType
<1>6. <<Next(q), Scanned[Next(q)]>> \notin G
  BY <1>3, <1>4
<1>7. Len(Next(q).rest) \in T
  BY <1>5, <1>6
<1>8. ~(n <= Len(Next(q).rest))
  BY <1>2, <1>3, <1>5
<1>9. QED
  BY <1>2, <1>7, <1>8

\* The buffer scan is given: a full one has lost its front.
Fuller(p, token) ==
  [rest |-> Append(IF Len(p.rest) = Capacity THEN Drop(p.rest, 1) ELSE p.rest, token),
   ids |-> p.ids]

LEMMA FedType ==
  ASSUME NEW p \in Parsing, NEW token \in Token
  PROVE  /\ Fuller(p, token) \in Parsing
         /\ Fed(p, token) = Scanned[Fuller(p, token)]
         /\ Fed(p, token) \in Parsing
<1> DEFINE room == IF Len(p.rest) = Capacity THEN Drop(p.rest, 1) ELSE p.rest
<1>1. p.rest \in Seq(Token) /\ p.ids \in Seq(Nat) /\ Len(p.rest) \in Nat
  BY HeadFacts, LenProperties
<1>2. Capacity \in Nat /\ Capacity > 0
  BY LinkAssumption DEF Capacity, Overhead
<1>3. room \in Seq(Token)
  <2>1. CASE Len(p.rest) = Capacity
    <3>1. 1 \in 0 .. Len(p.rest)
      BY <1>2, <2>1
    <3>2. Drop(p.rest, 1) \in Seq(Token)
      BY <1>1, <3>1, DropType
    <3>3. QED
      BY <2>1, <3>2
  <2>2. CASE Len(p.rest) # Capacity
    BY <1>1, <2>2
  <2>3. QED
    BY <2>1, <2>2
<1>4. Fuller(p, token) = [rest |-> Append(room, token), ids |-> p.ids]
  BY DEF Fuller
<1> HIDE DEF room
<1>5. Fuller(p, token) \in Parsing
  BY <1>1, <1>3, <1>4 DEF Parsing
<1>6. Fed(p, token) = Scanned[Fuller(p, token)]
  BY Zenon DEF Fed, Fuller, Scan
<1>7. QED
  BY <1>5, <1>6, ScanRound

LEMMA MaxFacts ==
  ASSUME NEW n \in Nat, NEW T \in SUBSET (1 .. n), T # {}
  PROVE  Max(T) \in T /\ \A y \in T : y <= Max(T)
<1> DEFINE D == {k \in Nat : n - k \in T}
<1>1. D \subseteq Nat /\ D # {}
  <2>1. PICK y \in T : TRUE
    OBVIOUS
  <2>2. n - y \in D
    BY <2>1
  <2>3. QED
    BY <2>2
<1>2. PICK k \in D : \A j \in D : k <= j
  <2> HIDE DEF D
  <2>1. QED
    BY <1>1, NatLeast
<1>3. ASSUME NEW y \in T PROVE n - k >= y
  <2>1. n - y \in D
    OBVIOUS
  <2>2. k <= n - y
    BY <1>2, <2>1
  <2>3. QED
    BY <1>2, <2>2
<1>4. \E x \in T : \A y \in T : x >= y
  BY <1>2, <1>3
<1>5. Max(T) \in T /\ \A y \in T : Max(T) >= y
  BY <1>4, Zenon DEF Max
<1>6. QED
  BY <1>5

\* Feeding tokens one by one: p[k] is the parser's state after k of them.
LEMMA FedSteps ==
  ASSUME NEW b \in Parsing, NEW s \in Seq(Token)
  PROVE  \E p \in [0 .. Len(s) -> Parsing] :
           /\ p[0] = b /\ FedAll(b, s) = p[Len(s)]
           /\ \A k \in 1 .. Len(s) : p[k] = Fed(p[k - 1], s[k])
<1> DEFINE n == Len(s)
           X == SUBSET (1 .. n)
           m == [T \in X |-> IF T = {} THEN 0 ELSE Max(T)]
           Body(f, T) == IF T = {} THEN b ELSE Fed(f[T \ {Max(T)}], s[Max(T)])
           F == [f \in [X -> Parsing] |-> [T \in X |-> Body(f, T)]]
<1>1. n \in Nat /\ DOMAIN s = 1 .. n
  BY LenProperties
<1>2. ASSUME NEW T \in X, T # {}
      PROVE  /\ Max(T) \in 1 .. n /\ T \ {Max(T)} \in X
             /\ m[T \ {Max(T)}] < m[T] /\ s[Max(T)] \in Token
  <2>1. Max(T) \in T /\ \A y \in T : y <= Max(T)
    BY <1>1, <1>2, MaxFacts
  <2>2. Max(T) \in 1 .. n /\ T \ {Max(T)} \in X
    BY <2>1
  <2>3. s[Max(T)] \in Token
    BY <2>2, ElementOfSeq
  <2>4. m[T] = Max(T) /\ Max(T) \in Nat /\ Max(T) > 0
    BY <1>2, <2>2
  <2> DEFINE U == T \ {Max(T)}
  <2>5. CASE U = {}
    <3>1. m[U] = 0
      BY <2>2, <2>5
    <3>2. QED
      BY <2>2, <2>3, <2>4, <3>1
  <2>6. CASE U # {}
    <3>1. U \in X /\ m[U] = Max(U)
      BY <2>2, <2>6
    <3>2. Max(U) \in U
      <4> HIDE DEF U
      <4>1. QED
        BY <1>1, <2>6, <3>1, MaxFacts
    <3>3. Max(U) \in T /\ Max(U) # Max(T) /\ Max(U) \in Nat
      BY <3>2, <2>2
    <3>4. Max(U) <= Max(T)
      BY <2>1, <3>3
    <3>5. m[U] < m[T]
      BY <2>4, <3>1, <3>3, <3>4
    <3>6. QED
      BY <2>2, <2>3, <3>5
  <2>7. QED
    BY <2>5, <2>6
<1>3. m \in [X -> Nat]
  <2>1. ASSUME NEW T \in X PROVE m[T] \in Nat
    <3>1. CASE T = {}
      BY <3>1
    <3>2. CASE T # {}
      <4>1. Max(T) \in 1 .. n
        BY <1>2, <3>2
      <4>2. m[T] = Max(T)
        BY <3>2
      <4>3. QED
        BY <4>1, <4>2
    <3>3. QED
      BY <3>1, <3>2
  <2>2. QED
    BY <2>1
<1>4. ASSUME NEW f \in [X -> Parsing], NEW T \in X PROVE Body(f, T) \in Parsing
  <2>1. CASE T = {}
    BY <2>1
  <2>2. CASE T # {}
    <3>1. f[T \ {Max(T)}] \in Parsing /\ s[Max(T)] \in Token
      BY <1>2, <2>2
    <3>2. Fed(f[T \ {Max(T)}], s[Max(T)]) \in Parsing
      BY <3>1, FedType
    <3>3. QED
      BY <2>2, <3>2
  <2>3. QED
    BY <2>1, <2>2
<1>5. ASSUME NEW T \in X, NEW f \in [X -> Parsing], NEW g \in [X -> Parsing],
             \A U \in X : m[U] < m[T] => f[U] = g[U]
      PROVE  Body(f, T) = Body(g, T)
  <2>1. CASE T = {}
    BY <2>1
  <2>2. CASE T # {}
    <3>1. T \ {Max(T)} \in X /\ m[T \ {Max(T)}] < m[T]
      BY <1>2, <2>2
    <3>2. f[T \ {Max(T)}] = g[T \ {Max(T)}]
      BY <1>5, <3>1
    <3>3. QED
      BY <2>2, <3>2
  <2>3. QED
    BY <2>1, <2>2
<1>6. \E f \in [X -> Parsing] : f = [T \in X |-> Body(f, T)]
  <2> HIDE DEF m, X, Body
  <2>1. F \in [[X -> Parsing] -> [X -> Parsing]]
    BY <1>4
  <2>2. Descends(X, Parsing, m, F)
    BY <1>3, <1>5, <2>1 DEF Descends
  <2>3. HasFixpoint(X, Parsing, F)
    <3> HIDE DEF F
    <3>1. QED
      BY <2>2, Recursion
  <2>4. QED
    BY <2>3 DEF HasFixpoint
<1> DEFINE iter == CHOOSE f : f = [T \in X |-> Body(f, T)]
<1>7. iter = [T \in X |-> Body(iter, T)]
  <2> HIDE DEF X, Body
  <2>1. QED
    BY <1>6, Zenon
<1>8. FedAll(b, s) = iter[1 .. n]
  <2>1. FedAll(b, s) =
          (CHOOSE f : f = [T \in SUBSET (DOMAIN s) |->
             IF T = {} THEN b ELSE Fed(f[T \ {Max(T)}], s[Max(T)])])[DOMAIN s]
    BY Zenon DEF FedAll, FoldLeft, MapThenFoldSet
  <2>2. QED
    BY <1>1, <2>1, Zenon
<1> HIDE DEF iter
<1> DEFINE p == [k \in 0 .. n |-> iter[1 .. k]]
<1>9. p[0] = b
  <2>1. 1 .. 0 = {} /\ {} \in X /\ 0 \in 0 .. n
    BY <1>1
  <2>2. iter[{}] = Body(iter, {})
    BY <1>7, <2>1
  <2>3. QED
    BY <2>1, <2>2
<1>10. ASSUME NEW k \in 1 .. n PROVE p[k] = Fed(p[k - 1], s[k])
  <2>1. /\ 1 .. k \in X /\ 1 .. k # {} /\ 1 .. (k - 1) = (1 .. k) \ {k}
        /\ k \in 0 .. n /\ k - 1 \in 0 .. n
    <3>1. k \in Nat /\ 1 <= k /\ k <= n
      BY <1>1
    <3>2. 1 .. k \subseteq 1 .. n /\ k \in 1 .. k
      BY <1>1, <3>1
    <3>3. 1 .. (k - 1) = (1 .. k) \ {k}
      BY <3>1
    <3>4. k \in 0 .. n /\ k - 1 \in 0 .. n
      BY <1>1, <3>1
    <3>5. QED
      BY <3>2, <3>3, <3>4
  <2>2. Max(1 .. k) = k
    <3>1. Max(1 .. k) \in 1 .. k /\ \A y \in 1 .. k : y <= Max(1 .. k)
      BY <1>1, <2>1, MaxFacts
    <3>2. k \in 1 .. k
      BY <1>1
    <3>3. QED
      BY <1>1, <3>1, <3>2
  <2>3. iter[1 .. k] = Body(iter, 1 .. k)
    <3> HIDE DEF Body, X
    <3>1. QED
      BY <1>7, <2>1
  <2>4. iter[1 .. k] = Fed(iter[1 .. (k - 1)], s[k])
    BY <2>1, <2>2, <2>3
  <2>5. QED
    BY <2>1, <2>4
<1>11. ASSUME NEW k \in 0 .. n PROVE p[k] \in Parsing
  <2> DEFINE S == {j \in Nat : j <= n => p[j] \in Parsing}
  <2>1. 0 \in S
    BY <1>9
  <2>2. ASSUME NEW j \in Nat, j \in S PROVE j + 1 \in S
    <3>1. CASE j + 1 <= n
      <4>1. j + 1 \in 1 .. n /\ (j + 1) - 1 = j /\ p[j] \in Parsing
        BY <1>1, <2>2, <3>1
      <4>2. p[j + 1] = Fed(p[j], s[j + 1]) /\ s[j + 1] \in Token
        BY <1>10, <4>1, ElementOfSeq
      <4>3. p[j + 1] \in Parsing
        BY <4>1, <4>2, FedType
      <4>4. QED
        BY <4>3
    <3>2. CASE ~(j + 1 <= n)
      BY <3>2
    <3>3. QED
      BY <3>1, <3>2
  <2> HIDE DEF S
  <2>3. \A j \in Nat : j \in S
    BY <2>1, <2>2, NatAll
  <2>4. k \in Nat /\ k <= n /\ k \in S
    BY <1>1, <2>3
  <2>5. QED
    BY <2>4, Zenon DEF S
<1>12. p \in [0 .. n -> Parsing] /\ n \in 0 .. n /\ p[n] = iter[1 .. n]
  BY <1>1, <1>11
<1>13. QED
  <2> HIDE DEF p
  <2>1. p \in [0 .. Len(s) -> Parsing] /\ p[0] = b /\ FedAll(b, s) = p[Len(s)]
    BY <1>8, <1>9, <1>12
  <2>2. \A k \in 1 .. Len(s) : p[k] = Fed(p[k - 1], s[k])
    BY <1>10
  <2>3. QED
    BY <2>1, <2>2

\* Scan returns only with a buffer that has room.
LEMMA ScanLeavesRoom ==
  \A p \in Parsing : Len(Scanned[p].rest) < Capacity
<1> DEFINE G == {c \in Parsing \X Parsing : Len(c[2].rest) < Capacity}
<1>1. Capacity \in Nat /\ Capacity > Overhead /\ Capacity = MAX_PAYLOAD + Overhead
      /\ Overhead \in Nat /\ MAX_PAYLOAD \in Nat
  BY LinkAssumption DEF Capacity, Overhead
<1>2. ASSUME NEW p \in Parsing, Returns(p) PROVE <<p, Returned(p)>> \in G
  <2> DEFINE h == Hunted(p.rest)
  <2>1. h \in Seq(Token) /\ Len(h) \in Nat /\ p.ids \in Seq(Nat)
    BY HeadFacts
  <2>2. Len(h) < Overhead \/ (~FalseSync(h) /\ Len(h) < Total(h))
    BY <1>2, Zenon DEF Returns
  <2>3. Returned(p) = [rest |-> h, ids |-> p.ids]
    BY Zenon DEF Returned
  <2> HIDE DEF h
  <2>4. Len(h) < Capacity
    <3>1. CASE Len(h) < Overhead
      BY <1>1, <2>1, <3>1
    <3>2. CASE Len(h) >= Overhead
      <4>1. ~FalseSync(h) /\ Len(h) < Total(h)
        BY <1>1, <2>1, <2>2, <3>2
      <4>2. h[3].plen \in Nat /\ Total(h) \in Nat
        BY <2>1, <3>2, HeaderFacts
      <4>3. h[3].plen <= MAX_PAYLOAD
        BY <1>1, <4>1, <4>2 DEF FalseSync
      <4>4. Total(h) <= Capacity
        BY <1>1, <4>2, <4>3 DEF Total
      <4>5. QED
        BY <1>1, <2>1, <4>1, <4>2, <4>4
    <3>3. QED
      BY <1>1, <2>1, <3>1, <3>2
  <2>5. Returned(p) \in Parsing /\ Returned(p).rest = h
    BY <2>1, <2>3 DEF Parsing
  <2>6. QED
    BY <2>4, <2>5
<1>3. ASSUME NEW p \in Parsing, ~Returns(p), <<Next(p), Scanned[Next(p)]>> \in G
      PROVE  <<p, Scanned[Next(p)]>> \in G
  BY <1>3
<1> HIDE DEF G
<1>4. \A p \in Parsing : <<p, Scanned[p]>> \in G
  BY <1>2, <1>3, ScanInduction
<1>5. QED
  BY <1>4 DEF G

\* However the tokens come, the buffer has room after the last of them.
LEMMA FedAllLeavesRoom ==
  ASSUME NEW b \in Parsing, Len(b.rest) < Capacity, NEW s \in Seq(Token)
  PROVE  FedAll(b, s) \in Parsing /\ Len(FedAll(b, s).rest) < Capacity
<1>1. PICK p \in [0 .. Len(s) -> Parsing] :
        /\ p[0] = b /\ FedAll(b, s) = p[Len(s)]
        /\ \A k \in 1 .. Len(s) : p[k] = Fed(p[k - 1], s[k])
  BY FedSteps
<1>2. Len(s) \in Nat
  BY LenProperties
<1>3. CASE Len(s) = 0
  BY <1>1, <1>3
<1>4. CASE Len(s) # 0
  <2> DEFINE n == Len(s)
  <2>1. n \in 1 .. n /\ n - 1 \in 0 .. n
    BY <1>2, <1>4
  <2>2. p[n] = Fed(p[n - 1], s[n]) /\ p[n - 1] \in Parsing /\ s[n] \in Token
    BY <1>1, <2>1, ElementOfSeq
  <2>3. Fuller(p[n - 1], s[n]) \in Parsing /\ p[n] = Scanned[Fuller(p[n - 1], s[n])]
        /\ p[n] \in Parsing
    BY <2>2, FedType
  <2>4. Len(p[n].rest) < Capacity
    BY <2>3, ScanLeavesRoom
  <2>5. QED
    BY <1>1, <2>3, <2>4
<1>5. QED
  BY <1>3, <1>4

(***************************************************************************)
(* The buffer has room between reads.                                      *)
(***************************************************************************)
RoomInv == wire \in Seq(Token) /\ BufferHasRoom

\* The shape of a frame.
LEMMA EncodedShape ==
  ASSUME NEW r \in Requests
  PROVE  /\ r \in Nat /\ Payload[r] \in Seq(Token) /\ Len(Payload[r]) \in Nat
         /\ Header(r, Len(Payload[r])) \in Token /\ Crc(r) \in Token
         /\ Encoded(r) \in Seq(Token) /\ Len(Encoded(r)) = Len(Payload[r]) + Overhead
         /\ Encoded(r)[1] = Tok("E") /\ Encoded(r)[2] = Tok("K")
         /\ Encoded(r)[3] = Header(r, Len(Payload[r]))
         /\ \A i \in 1 .. Len(Payload[r]) : Encoded(r)[3 + i] = Payload[r][i]
         /\ Encoded(r)[Len(Encoded(r))] = Crc(r)
<1>1. Payload[r] \in Seq(Token) /\ r \in Nat /\ Len(Payload[r]) \in Nat
  <2>1. Len(Payload) \in Nat
    BY LinkAssumption, LenProperties
  <2>2. r \in 1 .. Len(Payload) /\ r \in Nat
    BY <2>1 DEF Requests
  <2>3. Payload[r] \in Seq(Token)
    BY <2>2, LinkAssumption, ElementOfSeq
  <2>4. QED
    BY <2>2, <2>3, LenProperties
<1> DEFINE head == MAGIC \o <<Header(r, Len(Payload[r]))>>
<1>2. Tok("E") \in Token /\ Tok("K") \in Token /\ Header(r, Len(Payload[r])) \in Token
      /\ Crc(r) \in Token
  BY <1>1 DEF Tok, Header, Crc, Token
<1>3. head \in Seq(Token) /\ Len(head) = 3
      /\ head[1] = Tok("E") /\ head[2] = Tok("K") /\ head[3] = Header(r, Len(Payload[r]))
  <2> DEFINE h == Header(r, Len(Payload[r]))
  <2>1. /\ MAGIC \in Seq(Token) /\ Len(MAGIC) = 2
        /\ MAGIC[1] = Tok("E") /\ MAGIC[2] = Tok("K")
    BY <1>2 DEF MAGIC
  <2>2. <<h>> \in Seq(Token) /\ Len(<<h>>) = 1 /\ <<h>>[1] = h
    BY <1>2
  <2>3. head = MAGIC \o <<h>>
    OBVIOUS
  <2> HIDE DEF head, h
  <2>4. /\ head \in Seq(Token) /\ Len(head) = Len(MAGIC) + Len(<<h>>)
        /\ \A i \in 1 .. Len(MAGIC) + Len(<<h>>) :
             head[i] = IF i <= Len(MAGIC) THEN MAGIC[i] ELSE <<h>>[i - Len(MAGIC)]
    BY <2>1, <2>2, <2>3, ConcatProperties
  <2>5. head[1] = MAGIC[1] /\ head[2] = MAGIC[2] /\ head[3] = h
    BY <2>1, <2>2, <2>4
  <2>6. QED
    BY <2>1, <2>2, <2>4, <2>5 DEF h
<1> HIDE DEF head
<1> DEFINE body == head \o Payload[r]
<1>4. body \in Seq(Token) /\ Len(body) = 3 + Len(Payload[r])
      /\ \A i \in 1 .. Len(body) : body[i] = IF i <= 3 THEN head[i] ELSE Payload[r][i - 3]
  <2>1. /\ body \in Seq(Token) /\ Len(body) = Len(head) + Len(Payload[r])
        /\ \A i \in 1 .. Len(head) + Len(Payload[r]) :
             body[i] = IF i <= Len(head) THEN head[i] ELSE Payload[r][i - Len(head)]
    BY <1>1, <1>3, ConcatProperties
  <2> HIDE DEF body
  <2>2. QED
    BY <1>1, <1>3, <2>1
<1>5. Encoded(r) = body \o <<Crc(r)>>
  BY DEF Encoded, body, head
<1> HIDE DEF body
<1> DEFINE tail == <<Crc(r)>>
<1>6. tail \in Seq(Token) /\ Len(tail) = 1 /\ tail[1] = Crc(r) /\ Encoded(r) = body \o tail
  BY <1>2, <1>5
<1> HIDE DEF tail
<1> DEFINE e == body \o tail
<1>7. /\ e \in Seq(Token) /\ Len(e) = Len(body) + Len(tail)
      /\ \A i \in 1 .. Len(body) + Len(tail) :
           e[i] = IF i <= Len(body) THEN body[i] ELSE tail[i - Len(body)]
  BY <1>4, <1>6, ConcatProperties
<1> HIDE DEF e
<1>8. Encoded(r) = e
  BY <1>6 DEF e
<1>9. Len(body) \in Nat /\ Len(e) = Len(body) + 1
  BY <1>1, <1>4, <1>6, <1>7
<1>10. e[Len(body) + 1] = Crc(r)
  <2>1. e[Len(body) + 1] = tail[(Len(body) + 1) - Len(body)]
    BY <1>6, <1>7, <1>9
  <2>2. QED
    BY <1>6, <1>9, <2>1
<1>11. \A i \in 1 .. Len(body) : e[i] = body[i]
  BY <1>6, <1>7, <1>9
<1>12. e[1] = head[1] /\ e[2] = head[2] /\ e[3] = head[3]
  BY <1>1, <1>4, <1>11
<1>13. \A i \in 1 .. Len(Payload[r]) : e[3 + i] = Payload[r][i]
  <2>1. ASSUME NEW i \in 1 .. Len(Payload[r]) PROVE e[3 + i] = Payload[r][i]
    <3>1. 3 + i \in 1 .. Len(body) /\ ~(3 + i <= 3) /\ (3 + i) - 3 = i
      BY <1>1, <1>4
    <3>2. e[3 + i] = body[3 + i] /\ body[3 + i] = Payload[r][(3 + i) - 3]
      BY <1>4, <1>11, <3>1
    <3>3. QED
      BY <3>1, <3>2
  <2>2. QED
    BY <2>1
<1>14. Len(e) = Len(Payload[r]) + Overhead /\ e[Len(e)] = Crc(r)
  BY <1>1, <1>4, <1>9, <1>10 DEF Overhead
<1>15. QED
  BY <1>1, <1>2, <1>3, <1>7, <1>8, <1>12, <1>13, <1>14

\* Its checksum comes last.
LEMMA EncodedCrc ==
  ASSUME NEW r \in Requests, NEW i \in 1 .. Len(Encoded(r)), Encoded(r)[i].kind = "crc"
  PROVE  i = Len(Encoded(r)) /\ Encoded(r)[i] = Crc(r)
<1>1. /\ Payload[r] \in Seq(Token) /\ Len(Payload[r]) \in Nat
      /\ Len(Encoded(r)) = Len(Payload[r]) + 4
      /\ Encoded(r)[1] = Tok("E") /\ Encoded(r)[2] = Tok("K")
      /\ Encoded(r)[3] = Header(r, Len(Payload[r]))
      /\ \A j \in 1 .. Len(Payload[r]) : Encoded(r)[3 + j] = Payload[r][j]
      /\ Encoded(r)[Len(Encoded(r))] = Crc(r)
  BY EncodedShape DEF Overhead
<1>2. i # 1 /\ i # 2 /\ i # 3
  BY <1>1 DEF Tok, Header
<1>3. ~(i \in 4 .. Len(Payload[r]) + 3)
  <2> SUFFICES ASSUME i \in 4 .. Len(Payload[r]) + 3 PROVE FALSE
    OBVIOUS
  <2>1. i - 3 \in 1 .. Len(Payload[r]) /\ 3 + (i - 3) = i
    BY <1>1
  <2>2. Encoded(r)[i] = Payload[r][i - 3]
    BY <1>1, <2>1
  <2>3. Payload[r][i - 3].kind # "crc"
    BY <1>1, <2>1, ChecksumAssumption, LenProperties DEF NoChecksum
  <2>4. QED
    BY <2>2, <2>3
<1>4. QED
  BY <1>1, <1>2, <1>3

LEMMA RoomInit == LInit => RoomInv
<1> SUFFICES ASSUME LInit PROVE RoomInv
  OBVIOUS
<1>1. wire = << >> /\ buf = << >>
  BY DEF LInit
<1>2. Len(buf) = 0 /\ << >> \in Seq(Token) /\ Capacity > 0
  BY <1>1, LinkAssumption DEF Capacity, Overhead
<1>3. QED
  BY <1>1, <1>2, LinkAssumption DEF RoomInv, BufferHasRoom, Capacity, Overhead

LEMMA RoomNext == RoomInv /\ [LNext]_lvars => RoomInv'
<1> SUFFICES ASSUME RoomInv, [LNext]_lvars PROVE RoomInv'
  OBVIOUS
<1>1. wire \in Seq(Token) /\ buf \in Seq(Token) /\ Len(buf) < Capacity
  BY DEF RoomInv, BufferHasRoom
<1>2. ASSUME UNCHANGED <<wire, buf>> PROVE RoomInv'
  BY <1>1, <1>2 DEF RoomInv, BufferHasRoom
<1>3. ASSUME wire' \in Seq(Token), buf' = buf PROVE RoomInv'
  BY <1>1, <1>3 DEF RoomInv, BufferHasRoom
<1>4. CASE Connect
  BY <1>2, <1>4 DEF Connect
<1>5. ASSUME NEW n \in 1 .. PACKET, Read(n) PROVE RoomInv'
  <2> DEFINE b == [rest |-> buf, ids |-> << >>]
             s == SubSeq(wire, 1, n)
  <2>1. /\ n <= Len(wire) /\ wire' = Drop(wire, n) /\ packet' = s
        /\ buf' = FedAll(b, packet').rest
    BY <1>5, Zenon DEF Read
  <2>2. n \in 0 .. Len(wire) /\ Len(wire) \in Nat
    BY <1>1, <2>1, LinkAssumption, LenProperties
  <2>3. wire' \in Seq(Token)
    BY <1>1, <2>1, <2>2, DropType
  <2>4. s \in Seq(Token)
    <3>1. \A i \in 1 .. n : wire[i] \in Token
      BY <1>1, <2>2, ElementOfSeq
    <3>2. QED
      BY <2>2, <3>1, SubSeqProperties
  <2>5. b \in Parsing /\ b.rest = buf
    BY <1>1, EmptySeq DEF Parsing
  <2> HIDE DEF b, s
  <2>6. FedAll(b, s) \in Parsing /\ Len(FedAll(b, s).rest) < Capacity
    BY <1>1, <2>4, <2>5, FedAllLeavesRoom
  <2>7. FedAll(b, s).rest \in Seq(Token)
    BY <2>6 DEF Parsing
  <2>8. QED
    BY <2>1, <2>3, <2>6, <2>7 DEF RoomInv, BufferHasRoom
<1>6. CASE WriteAnswer
  BY <1>2, <1>6 DEF WriteAnswer
<1>7. CASE Send
  <2>1. wire' = wire \o Encoded(req) /\ req \in Requests /\ buf' = buf
    BY <1>7 DEF Send
  <2>2. Encoded(req) \in Seq(Token)
    BY <2>1, EncodedShape
  <2>3. wire' \in Seq(Token)
    BY <1>1, <2>1, <2>2, ConcatProperties
  <2>4. QED
    BY <1>3, <2>1, <2>3
<1>8. ASSUME NEW burst \in Bursts, Noise(burst) PROVE RoomInv'
  <2>1. wire' = wire \o burst /\ buf' = buf /\ burst \in Seq(Token)
    BY <1>8, LinkAssumption DEF Noise
  <2>2. wire' \in Seq(Token)
    BY <1>1, <2>1, ConcatProperties
  <2>3. QED
    BY <1>3, <2>1, <2>2
<1>9. CASE Break
  BY <1>3, <1>9, EmptySeq DEF Break
<1>10. CASE UNCHANGED lvars
  BY <1>2, <1>10 DEF lvars
<1>11. QED
  BY <1>4, <1>5, <1>6, <1>7, <1>8, <1>9, <1>10 DEF LNext, SomeRead

\* The parser is never full when a byte comes (lib.rs:92-97), for every set of
\* requests, however long, every noise and every way to cut the stream.
THEOREM RoomForEveryByte == LSpec => []BufferHasRoom
<1>1. RoomInv => BufferHasRoom
  BY DEF RoomInv
<1>2. QED
  BY <1>1, RoomInit, RoomNext, PTL DEF LSpec

(***************************************************************************)
(* Checksums pass through the link in the order of the requests they were  *)
(* sent for, and nothing is found that was not sent.                       *)
(***************************************************************************)
IsCrc(t) == t.kind = "crc"

\* p's frames, and behind them the checksums in its buffer, are in order from lo on.
InOrder(p, lo) ==
  /\ \A i \in 1 .. Len(p.ids) : p.ids[i] \in Requests /\ p.ids[i] >= lo
  /\ \A i, j \in 1 .. Len(p.ids) : i <= j => p.ids[i] <= p.ids[j]
  /\ \A i \in 1 .. Len(p.rest) : IsCrc(p.rest[i]) =>
       /\ p.rest[i].id >= lo
       /\ \A j \in 1 .. Len(p.ids) : p.ids[j] <= p.rest[i].id
  /\ \A i, j \in 1 .. Len(p.rest) :
       i <= j /\ IsCrc(p.rest[i]) /\ IsCrc(p.rest[j]) => p.rest[i].id <= p.rest[j].id

Under(p, hi) ==
  /\ \A i \in 1 .. Len(p.ids) : p.ids[i] <= hi
  /\ \A i \in 1 .. Len(p.rest) : IsCrc(p.rest[i]) => p.rest[i].id <= hi

Keeps(p, q) ==
  \A n \in Nat : (InOrder(p, n) => InOrder(q, n)) /\ (Under(p, n) => Under(q, n))

\* q is p without the front of its buffer, which may have ended in a frame.
Shed(p, q) ==
  \E e \in 0 .. Len(p.rest) :
    /\ Len(q.rest) = Len(p.rest) - e
    /\ \A i \in 1 .. Len(p.rest) - e : q.rest[i] = p.rest[e + i]
    /\ \/ q.ids = p.ids
       \/ /\ e > 0
          /\ \E r \in Requests : p.rest[e] = Crc(r) /\ q.ids = Append(p.ids, r)

LEMMA CrcFacts ==
  ASSUME NEW p \in Parsing
  PROVE  /\ Len(p.rest) \in Nat /\ Len(p.ids) \in Nat
         /\ \A i \in 1 .. Len(p.rest) : p.rest[i] \in Token /\ p.rest[i].id \in Nat
         /\ \A i \in 1 .. Len(p.ids) : p.ids[i] \in Nat
<1>1. p.rest \in Seq(Token) /\ p.ids \in Seq(Nat)
  BY HeadFacts
<1>2. Len(p.rest) \in Nat /\ Len(p.ids) \in Nat
  BY <1>1, LenProperties
<1>3. \A i \in 1 .. Len(p.rest) : p.rest[i] \in Token
  BY <1>1, ElementOfSeq
<1>4. \A i \in 1 .. Len(p.ids) : p.ids[i] \in Nat
  BY <1>1, ElementOfSeq
<1>5. QED
  BY <1>2, <1>3, <1>4 DEF Token

LEMMA ShedKeepsOrder ==
  ASSUME NEW p \in Parsing, NEW q \in Parsing, Shed(p, q), NEW n \in Nat, InOrder(p, n)
  PROVE  InOrder(q, n)
<1>1. PICK e \in 0 .. Len(p.rest) :
        /\ Len(q.rest) = Len(p.rest) - e
        /\ \A i \in 1 .. Len(p.rest) - e : q.rest[i] = p.rest[e + i]
        /\ \/ q.ids = p.ids
           \/ /\ e > 0
              /\ \E r \in Requests : p.rest[e] = Crc(r) /\ q.ids = Append(p.ids, r)
  BY Zenon DEF Shed
<1>2. Len(p.rest) \in Nat /\ Len(p.ids) \in Nat /\ p.ids \in Seq(Nat) /\ e \in Nat
      /\ \A i \in 1 .. Len(p.rest) : p.rest[i].id \in Nat
  BY CrcFacts, HeadFacts
<1>3. \A i \in 1 .. Len(q.rest) :
        e + i \in 1 .. Len(p.rest) /\ q.rest[i] = p.rest[e + i] /\ e <= e + i
  BY <1>1, <1>2
<1>4. ASSUME NEW i \in 1 .. Len(q.rest), NEW j \in 1 .. Len(q.rest),
             i <= j, IsCrc(q.rest[i]), IsCrc(q.rest[j])
      PROVE  q.rest[i].id <= q.rest[j].id
  <2>1. e + i \in 1 .. Len(p.rest) /\ e + j \in 1 .. Len(p.rest) /\ e + i <= e + j
    BY <1>2, <1>3, <1>4
  <2>2. p.rest[e + i].id <= p.rest[e + j].id
    BY <1>3, <1>4, <2>1 DEF InOrder
  <2>3. QED
    BY <1>3, <2>2
<1>5. ASSUME NEW i \in 1 .. Len(q.rest), IsCrc(q.rest[i])
      PROVE  /\ q.rest[i].id >= n
             /\ \A j \in 1 .. Len(p.ids) : p.ids[j] <= q.rest[i].id
  BY <1>3, <1>5 DEF InOrder
<1>6. CASE q.ids = p.ids
  BY <1>4, <1>5, <1>6 DEF InOrder
<1>7. ASSUME e > 0, NEW r \in Requests, p.rest[e] = Crc(r), q.ids = Append(p.ids, r)
      PROVE  InOrder(q, n)
  <2>1. e \in 1 .. Len(p.rest) /\ IsCrc(p.rest[e]) /\ p.rest[e].id = r /\ r \in Nat
    BY <1>2, <1>7 DEF IsCrc, Crc, Requests
  <2>2. r >= n /\ \A j \in 1 .. Len(p.ids) : p.ids[j] <= r
    BY <2>1 DEF InOrder
  <2>3. Len(q.ids) = Len(p.ids) + 1
        /\ \A j \in 1 .. Len(q.ids) : q.ids[j] = IF j <= Len(p.ids) THEN p.ids[j] ELSE r
    BY <1>2, <1>7, <2>1
  <2>4. \A j \in 1 .. Len(p.ids) + 1 : j <= Len(p.ids) => j \in 1 .. Len(p.ids)
    BY <1>2
  <2>5. \A j \in 1 .. Len(q.ids) : q.ids[j] \in Requests /\ q.ids[j] >= n /\ q.ids[j] <= r
    <3>1. ASSUME NEW j \in 1 .. Len(q.ids)
          PROVE  q.ids[j] \in Requests /\ q.ids[j] >= n /\ q.ids[j] <= r
      <4>1. CASE j <= Len(p.ids)
        <5>1. q.ids[j] = p.ids[j] /\ j \in 1 .. Len(p.ids)
          BY <2>3, <2>4, <4>1
        <5>2. QED
          BY <2>2, <5>1 DEF InOrder
      <4>2. CASE ~(j <= Len(p.ids))
        BY <2>1, <2>2, <2>3, <4>2
      <4>3. QED
        BY <4>1, <4>2
    <3>2. QED
      BY <3>1
  <2>6. ASSUME NEW i \in 1 .. Len(q.ids), NEW j \in 1 .. Len(q.ids), i <= j
        PROVE  q.ids[i] <= q.ids[j]
    <3>1. CASE j <= Len(p.ids)
      <4>1. i \in 1 .. Len(p.ids) /\ j \in 1 .. Len(p.ids)
        BY <1>2, <2>3, <2>6, <3>1
      <4>2. q.ids[i] = p.ids[i] /\ q.ids[j] = p.ids[j]
        BY <2>3, <4>1
      <4>3. QED
        BY <2>6, <4>1, <4>2 DEF InOrder
    <3>2. CASE ~(j <= Len(p.ids))
      <4>1. q.ids[j] = r
        BY <2>3, <3>2
      <4>2. QED
        BY <2>5, <4>1
    <3>3. QED
      BY <3>1, <3>2
  <2>7. ASSUME NEW i \in 1 .. Len(q.rest), IsCrc(q.rest[i])
        PROVE  r <= q.rest[i].id
    <3>1. e + i \in 1 .. Len(p.rest) /\ q.rest[i] = p.rest[e + i] /\ e <= e + i
      BY <1>3
    <3>2. p.rest[e].id <= p.rest[e + i].id
      BY <2>1, <2>7, <3>1 DEF InOrder
    <3>3. QED
      BY <2>1, <3>1, <3>2
  <2>8. ASSUME NEW i \in 1 .. Len(q.rest), IsCrc(q.rest[i]), NEW j \in 1 .. Len(q.ids)
        PROVE  q.ids[j] <= q.rest[i].id
    <3>1. CASE j <= Len(p.ids)
      <4>1. q.ids[j] = p.ids[j] /\ j \in 1 .. Len(p.ids)
        BY <2>3, <2>4, <3>1
      <4>2. QED
        BY <1>5, <2>8, <4>1
    <3>2. CASE ~(j <= Len(p.ids))
      <4>1. q.ids[j] = r
        BY <2>3, <3>2
      <4>2. QED
        BY <2>7, <2>8, <4>1
    <3>3. QED
      BY <3>1, <3>2
  <2>9. QED
    BY <1>4, <1>5, <2>5, <2>6, <2>8, Zenon DEF InOrder
<1>8. QED
  BY <1>1, <1>6, <1>7

LEMMA ShedKeepsUnder ==
  ASSUME NEW p \in Parsing, NEW q \in Parsing, Shed(p, q), NEW n \in Nat, Under(p, n)
  PROVE  Under(q, n)
<1>1. PICK e \in 0 .. Len(p.rest) :
        /\ Len(q.rest) = Len(p.rest) - e
        /\ \A i \in 1 .. Len(p.rest) - e : q.rest[i] = p.rest[e + i]
        /\ \/ q.ids = p.ids
           \/ /\ e > 0
              /\ \E r \in Requests : p.rest[e] = Crc(r) /\ q.ids = Append(p.ids, r)
  BY Zenon DEF Shed
<1>2. Len(p.rest) \in Nat /\ Len(p.ids) \in Nat /\ p.ids \in Seq(Nat) /\ e \in Nat
  BY CrcFacts, HeadFacts
<1>3. \A i \in 1 .. Len(q.rest) : e + i \in 1 .. Len(p.rest) /\ q.rest[i] = p.rest[e + i]
  BY <1>1, <1>2
<1>4. \A i \in 1 .. Len(q.rest) : IsCrc(q.rest[i]) => q.rest[i].id <= n
  BY <1>3 DEF Under
<1>5. CASE q.ids = p.ids
  BY <1>4, <1>5 DEF Under
<1>6. ASSUME e > 0, NEW r \in Requests, p.rest[e] = Crc(r), q.ids = Append(p.ids, r)
      PROVE  Under(q, n)
  <2>1. e \in 1 .. Len(p.rest) /\ IsCrc(p.rest[e]) /\ p.rest[e].id = r /\ r \in Nat
    BY <1>2, <1>6 DEF IsCrc, Crc, Requests
  <2>2. r <= n
    BY <2>1 DEF Under
  <2>3. Len(q.ids) = Len(p.ids) + 1
        /\ \A j \in 1 .. Len(q.ids) : q.ids[j] = IF j <= Len(p.ids) THEN p.ids[j] ELSE r
    BY <1>2, <1>6, <2>1
  <2>4. ASSUME NEW j \in 1 .. Len(q.ids) PROVE q.ids[j] <= n
    <3>1. CASE j <= Len(p.ids)
      <4>1. q.ids[j] = p.ids[j] /\ j \in 1 .. Len(p.ids)
        BY <1>2, <2>3, <3>1
      <4>2. QED
        BY <4>1 DEF Under
    <3>2. CASE ~(j <= Len(p.ids))
      BY <2>2, <2>3, <3>2
    <3>3. QED
      BY <3>1, <3>2
  <2>5. QED
    BY <1>4, <2>4 DEF Under
<1>7. QED
  BY <1>1, <1>5, <1>6

LEMMA ShedKeeps ==
  ASSUME NEW p \in Parsing, NEW q \in Parsing, Shed(p, q)
  PROVE  Keeps(p, q)
BY ShedKeepsOrder, ShedKeepsUnder DEF Keeps

\* Dropping more from the front of a buffer that has lost its front already.
LEMMA DropTwice ==
  ASSUME NEW s \in Seq(Token), NEW d \in 0 .. Len(s), NEW c \in 0 .. Len(s) - d
  PROVE  /\ d + c \in 0 .. Len(s)
         /\ Len(Drop(Drop(s, d), c)) = Len(s) - (d + c)
         /\ \A i \in 1 .. Len(s) - (d + c) : Drop(Drop(s, d), c)[i] = s[d + c + i]
<1> DEFINE t == Drop(s, d)
<1>1. Len(s) \in Nat
  BY LenProperties
<1>2. t \in Seq(Token) /\ Len(t) = Len(s) - d /\ \A i \in 1 .. Len(s) - d : t[i] = s[d + i]
  BY DropType
<1> HIDE DEF t
<1>3. c \in 0 .. Len(t)
  BY <1>1, <1>2
<1>4. Len(Drop(t, c)) = Len(t) - c /\ \A i \in 1 .. Len(t) - c : Drop(t, c)[i] = t[c + i]
  BY <1>2, <1>3, DropType
<1>5. ASSUME NEW i \in 1 .. Len(s) - (d + c) PROVE Drop(t, c)[i] = s[d + c + i]
  <2>1. i \in 1 .. Len(t) - c /\ c + i \in 1 .. Len(s) - d /\ d + (c + i) = d + c + i
    BY <1>1, <1>2
  <2>2. Drop(t, c)[i] = t[c + i] /\ t[c + i] = s[d + (c + i)]
    BY <1>2, <1>4, <2>1
  <2>3. QED
    BY <2>1, <2>2
<1>6. d + c \in 0 .. Len(s) /\ Len(Drop(t, c)) = Len(s) - (d + c)
  BY <1>1, <1>2, <1>4
<1>7. QED
  BY <1>5, <1>6 DEF t

LEMMA ReturnedSheds ==
  ASSUME NEW p \in Parsing
  PROVE  Shed(p, Returned(p)) /\ Returned(p) \in Parsing
<1>1. p.rest \in Seq(Token) /\ p.ids \in Seq(Nat) /\ Hunted(p.rest) \in Seq(Token)
  BY HeadFacts
<1>2. PICK d \in 0 .. Len(p.rest) : Hunted(p.rest) = Drop(p.rest, d)
  BY <1>1, HuntedType
<1>3. Returned(p).rest = Drop(p.rest, d) /\ Returned(p).ids = p.ids
  BY <1>2 DEF Returned
<1>4. /\ Len(Drop(p.rest, d)) = Len(p.rest) - d
      /\ \A i \in 1 .. Len(p.rest) - d : Drop(p.rest, d)[i] = p.rest[d + i]
  BY <1>1, DropType
<1>5. Returned(p) \in Parsing
  BY <1>1 DEF Returned, Parsing
<1>6. QED
  BY <1>3, <1>4, <1>5 DEF Shed

\* An intact frame ends in its checksum.
LEMMA IntactEnds ==
  ASSUME NEW h \in Seq(Token), Len(h) >= Overhead, Len(h) >= Total(h), Intact(h)
  PROVE  h[3].id \in Requests /\ Total(h) \in 1 .. Len(h) /\ h[Total(h)] = Crc(h[3].id)
<1> DEFINE n == Total(h)
           r == h[3].id
<1>1. n \in Nat /\ n >= Overhead /\ Len(h) \in Nat
  BY HeaderFacts, LenProperties
<1>2. n \in 1 .. Len(h) /\ r \in Requests /\ SubSeq(h, 1, n) = Encoded(r)
  BY <1>1 DEF Intact, Overhead
<1>3. \A i \in 1 .. n : h[i] \in Token
  <2> HIDE DEF n
  <2>1. QED
    BY <1>1, <1>2, ElementOfSeq
<1> HIDE DEF n, r
<1>4. /\ Len(SubSeq(h, 1, n)) = IF 1 <= n THEN n - 1 + 1 ELSE 0
      /\ \A i \in 1 .. n - 1 + 1 : SubSeq(h, 1, n)[i] = h[1 + i - 1]
  BY <1>1, <1>3, SubSeqProperties
<1>5. Len(Encoded(r)) = n /\ Encoded(r)[n] = h[n]
  BY <1>1, <1>2, <1>4
<1>6. Encoded(r)[Len(Encoded(r))] = Crc(r)
  BY <1>2, EncodedShape
<1>7. QED
  BY <1>2, <1>5, <1>6 DEF n, r

LEMMA NextSheds ==
  ASSUME NEW p \in Parsing, ~Returns(p)
  PROVE  Shed(p, Next(p))
<1> DEFINE h == Hunted(p.rest)
<1>1. h \in Seq(Token) /\ Len(h) \in Nat /\ p.rest \in Seq(Token) /\ Len(p.rest) \in Nat
  BY HeadFacts, LenProperties
<1>2. PICK d \in 0 .. Len(p.rest) : h = Drop(p.rest, d)
  BY <1>1, HuntedType
<1>3. ~(Len(h) < Overhead) /\ (FalseSync(h) \/ ~(Len(h) < Total(h)))
  BY Zenon DEF Returns
<1>4. Next(p) = IF Skips(h) THEN [rest |-> Drop(h, 2), ids |-> p.ids]
                ELSE [rest |-> Drop(h, Total(h)), ids |-> Append(p.ids, h[3].id)]
  BY Zenon DEF Next
<1>5. Len(h) = Len(p.rest) - d /\ \A i \in 1 .. Len(p.rest) - d : h[i] = p.rest[d + i]
  BY <1>1, <1>2, DropType
<1> HIDE DEF h
<1>6. Len(h) >= Overhead /\ Total(h) \in Nat /\ (FalseSync(h) \/ Len(h) >= Total(h))
  <2>1. Len(h) >= Overhead
    BY <1>1, <1>3 DEF Overhead
  <2>2. Total(h) \in Nat
    BY <1>1, <2>1, HeaderFacts
  <2>3. QED
    BY <1>1, <1>3, <2>1, <2>2
<1>7. CASE Skips(h)
  <2>1. Next(p).rest = Drop(h, 2) /\ Next(p).ids = p.ids
    BY <1>4, <1>7
  <2>2. 2 \in 0 .. Len(p.rest) - d
    BY <1>1, <1>5, <1>6 DEF Overhead
  <2>3. /\ d + 2 \in 0 .. Len(p.rest)
        /\ Len(Drop(h, 2)) = Len(p.rest) - (d + 2)
        /\ \A i \in 1 .. Len(p.rest) - (d + 2) : Drop(h, 2)[i] = p.rest[d + 2 + i]
    BY <1>1, <1>2, <2>2, DropTwice
  <2>4. QED
    BY <2>1, <2>3 DEF Shed
<1>8. CASE ~Skips(h)
  <2> DEFINE n == Total(h)
             r == h[3].id
  <2>1. Next(p).rest = Drop(h, n) /\ Next(p).ids = Append(p.ids, r)
    BY <1>4, <1>8
  <2>2. Intact(h) /\ Len(h) >= n
    BY <1>6, <1>8 DEF Skips
  <2>3. r \in Requests /\ n \in 1 .. Len(h) /\ h[n] = Crc(r)
    BY <1>1, <1>6, <2>2, IntactEnds
  <2> HIDE DEF n, r
  <2>4. n \in 0 .. Len(p.rest) - d /\ n \in 1 .. Len(p.rest) - d
    BY <1>1, <1>5, <2>3
  <2>5. /\ d + n \in 0 .. Len(p.rest)
        /\ Len(Drop(h, n)) = Len(p.rest) - (d + n)
        /\ \A i \in 1 .. Len(p.rest) - (d + n) : Drop(h, n)[i] = p.rest[d + n + i]
    BY <1>1, <1>2, <2>4, DropTwice
  <2>6. d + n > 0 /\ p.rest[d + n] = Crc(r)
    BY <1>5, <2>3, <2>4
  <2>7. QED
    BY <2>1, <2>3, <2>5, <2>6 DEF Shed
<1>9. QED
  BY <1>7, <1>8

\* Scan keeps the order, and finds no more than was there.
LEMMA ScanKeeps == \A p \in Parsing : Keeps(p, Scanned[p])
<1> DEFINE G == {c \in Parsing \X Parsing : Keeps(c[1], c[2])}
<1>1. ASSUME NEW p \in Parsing, Returns(p) PROVE <<p, Returned(p)>> \in G
  BY ReturnedSheds, ShedKeeps
<1>2. ASSUME NEW p \in Parsing, ~Returns(p), <<Next(p), Scanned[Next(p)]>> \in G
      PROVE  <<p, Scanned[Next(p)]>> \in G
  <2>1. Next(p) \in Parsing /\ Scanned[Next(p)] \in Parsing
    BY <1>2, NextType, ScanRound
  <2>2. Keeps(p, Next(p)) /\ Keeps(Next(p), Scanned[Next(p)])
    BY <1>2, <2>1, NextSheds, ShedKeeps
  <2>3. Keeps(p, Scanned[Next(p)])
    BY <2>2, Zenon DEF Keeps
  <2>4. QED
    BY <2>1, <2>3
<1> HIDE DEF G
<1>3. \A p \in Parsing : <<p, Scanned[p]>> \in G
  BY <1>1, <1>2, ScanInduction
<1>4. QED
  BY <1>3 DEF G

\* A token takes its place behind what is there.
Appends(f, q, token) ==
  /\ f.ids = q.ids /\ Len(f.rest) = Len(q.rest) + 1
  /\ f.rest[Len(q.rest) + 1] = token
  /\ \A i \in 1 .. Len(q.rest) : f.rest[i] = q.rest[i]

LEMMA FullerAppends ==
  ASSUME NEW p \in Parsing, NEW token \in Token
  PROVE  \E q \in Parsing : Shed(p, q) /\ Appends(Fuller(p, token), q, token)
<1> DEFINE room == IF Len(p.rest) = Capacity THEN Drop(p.rest, 1) ELSE p.rest
           q == [rest |-> room, ids |-> p.ids]
<1>1. p.rest \in Seq(Token) /\ p.ids \in Seq(Nat) /\ Len(p.rest) \in Nat
  BY HeadFacts, LenProperties
<1>2. q \in Parsing /\ Shed(p, q)
  <2>1. CASE Len(p.rest) = Capacity
    <3>1. 1 \in 0 .. Len(p.rest)
      BY <2>1, <1>1, LinkAssumption DEF Capacity, Overhead
    <3>2. /\ Drop(p.rest, 1) \in Seq(Token) /\ Len(Drop(p.rest, 1)) = Len(p.rest) - 1
          /\ \A i \in 1 .. Len(p.rest) - 1 : Drop(p.rest, 1)[i] = p.rest[1 + i]
      BY <1>1, <3>1, DropType
    <3>3. q.rest = Drop(p.rest, 1) /\ q.ids = p.ids /\ q = [rest |-> Drop(p.rest, 1), ids |-> p.ids]
      BY <2>1
    <3> HIDE DEF q
    <3>4. QED
      BY <1>1, <3>1, <3>2, <3>3 DEF Shed, Parsing
  <2>2. CASE Len(p.rest) # Capacity
    <3>1. q.rest = p.rest /\ q.ids = p.ids /\ q = [rest |-> p.rest, ids |-> p.ids]
      BY <2>2
    <3>2. 0 \in 0 .. Len(p.rest) /\ Len(p.rest) = Len(p.rest) - 0
          /\ \A i \in 1 .. Len(p.rest) - 0 : p.rest[i] = p.rest[0 + i]
      BY <1>1
    <3> HIDE DEF q
    <3>3. QED
      BY <1>1, <3>1, <3>2 DEF Shed, Parsing
  <2>3. QED
    BY <2>1, <2>2
<1>3. Fuller(p, token) = [rest |-> Append(q.rest, token), ids |-> q.ids]
  BY DEF Fuller
<1> HIDE DEF q
<1>4. q.rest \in Seq(Token) /\ Len(q.rest) \in Nat
  BY <1>2, HeadFacts, LenProperties
<1>5. Appends(Fuller(p, token), q, token)
  BY <1>3, <1>4 DEF Appends
<1>6. QED
  BY <1>2, <1>5

LEMMA FullerOrder ==
  ASSUME NEW p \in Parsing, NEW token \in Token, NEW n \in Nat, InOrder(p, n),
         IsCrc(token) => token.id >= n /\ Under(p, token.id)
  PROVE  InOrder(Fuller(p, token), n)
<1> DEFINE f == Fuller(p, token)
<1>1. PICK q \in Parsing : Shed(p, q) /\ Appends(f, q, token)
  BY FullerAppends
<1> HIDE DEF f
<1>2. InOrder(q, n) /\ (IsCrc(token) => Under(q, token.id))
  BY <1>1, ShedKeepsOrder, ShedKeepsUnder DEF Token
<1>3. q.rest \in Seq(Token) /\ Len(q.rest) \in Nat /\ q.ids \in Seq(Nat)
  BY HeadFacts, LenProperties
<1>4. /\ f.ids = q.ids /\ Len(f.rest) = Len(q.rest) + 1
      /\ f.rest[Len(q.rest) + 1] = token
      /\ \A i \in 1 .. Len(q.rest) : f.rest[i] = q.rest[i]
  BY <1>1 DEF Appends
<1>5. ASSUME NEW i \in 1 .. Len(f.rest), IsCrc(f.rest[i])
      PROVE  f.rest[i].id >= n /\ \A j \in 1 .. Len(f.ids) : f.ids[j] <= f.rest[i].id
  <2>1. CASE i = Len(q.rest) + 1
    BY <1>2, <1>4, <1>5, <2>1 DEF Under
  <2>2. CASE i # Len(q.rest) + 1
    <3>1. i \in 1 .. Len(q.rest)
      BY <1>3, <1>4, <2>2
    <3>2. QED
      BY <1>2, <1>4, <1>5, <3>1 DEF InOrder
  <2>3. QED
    BY <2>1, <2>2
<1>6. ASSUME NEW i \in 1 .. Len(f.rest), NEW j \in 1 .. Len(f.rest),
             i <= j, IsCrc(f.rest[i]), IsCrc(f.rest[j])
      PROVE  f.rest[i].id <= f.rest[j].id
  <2>1. CASE j # Len(q.rest) + 1
    <3>1. i \in 1 .. Len(q.rest) /\ j \in 1 .. Len(q.rest)
      BY <1>3, <1>4, <1>6, <2>1
    <3>2. QED
      BY <1>2, <1>4, <1>6, <3>1 DEF InOrder
  <2>2. CASE j = Len(q.rest) + 1 /\ i # j
    <3>1. i \in 1 .. Len(q.rest)
      BY <1>3, <1>4, <2>2
    <3>2. f.rest[j] = token /\ f.rest[i] = q.rest[i]
      BY <1>4, <2>2, <3>1
    <3>3. QED
      BY <1>2, <1>6, <3>1, <3>2 DEF Under
  <2>3. CASE j = Len(q.rest) + 1 /\ i = j
    BY <1>4, <2>3 DEF Token
  <2>4. QED
    BY <2>1, <2>2, <2>3
<1>7. QED
  <2>1. /\ \A i \in 1 .. Len(f.ids) : f.ids[i] \in Requests /\ f.ids[i] >= n
        /\ \A i, j \in 1 .. Len(f.ids) : i <= j => f.ids[i] <= f.ids[j]
    BY <1>2, <1>4 DEF InOrder
  <2>2. InOrder(f, n)
    BY <1>5, <1>6, <2>1, Zenon DEF InOrder
  <2>3. QED
    BY <2>2 DEF f

LEMMA FullerUnder ==
  ASSUME NEW p \in Parsing, NEW token \in Token, NEW n \in Nat, Under(p, n),
         IsCrc(token) => token.id <= n
  PROVE  Under(Fuller(p, token), n)
<1> DEFINE f == Fuller(p, token)
<1>1. PICK q \in Parsing : Shed(p, q) /\ Appends(f, q, token)
  BY FullerAppends
<1> HIDE DEF f
<1>2. Under(q, n) /\ Len(q.rest) \in Nat
  BY <1>1, CrcFacts, ShedKeepsUnder
<1>3. /\ f.ids = q.ids /\ Len(f.rest) = Len(q.rest) + 1
      /\ f.rest[Len(q.rest) + 1] = token
      /\ \A i \in 1 .. Len(q.rest) : f.rest[i] = q.rest[i]
  BY <1>1 DEF Appends
<1>4. ASSUME NEW i \in 1 .. Len(f.rest), IsCrc(f.rest[i]) PROVE f.rest[i].id <= n
  <2>1. CASE i = Len(q.rest) + 1
    BY <1>3, <1>4, <2>1
  <2>2. CASE i # Len(q.rest) + 1
    <3>1. i \in 1 .. Len(q.rest)
      BY <1>2, <1>3, <2>2
    <3>2. QED
      BY <1>2, <1>3, <1>4, <3>1 DEF Under
  <2>3. QED
    BY <2>1, <2>2
<1>5. Under(f, n)
  BY <1>2, <1>3, <1>4 DEF Under
<1>6. QED
  BY <1>5 DEF f

LEMMA FedKeeps ==
  ASSUME NEW p \in Parsing, NEW token \in Token, NEW n \in Nat
  PROVE  /\ InOrder(p, n) /\ (IsCrc(token) => token.id >= n /\ Under(p, token.id))
              => InOrder(Fed(p, token), n)
         /\ Under(p, n) /\ (IsCrc(token) => token.id <= n) => Under(Fed(p, token), n)
<1> DEFINE f == Fuller(p, token)
<1>1. f \in Parsing /\ Fed(p, token) = Scanned[f]
  BY FedType
<1>2. InOrder(p, n) /\ (IsCrc(token) => token.id >= n /\ Under(p, token.id)) => InOrder(f, n)
  BY FullerOrder
<1>3. Under(p, n) /\ (IsCrc(token) => token.id <= n) => Under(f, n)
  BY FullerUnder
<1> HIDE DEF f
<1>4. (InOrder(f, n) => InOrder(Scanned[f], n)) /\ (Under(f, n) => Under(Scanned[f], n))
  BY <1>1, ScanKeeps DEF Keeps
<1>5. QED
  BY <1>1, <1>2, <1>3, <1>4

\* The checksums in a stream are in order from lo on.
Rising(s, lo) ==
  /\ \A i \in 1 .. Len(s) : IsCrc(s[i]) => s[i].id >= lo
  /\ \A i, j \in 1 .. Len(s) : i <= j /\ IsCrc(s[i]) /\ IsCrc(s[j]) => s[i].id <= s[j].id

\* Every checksum in s is at least as high as what b holds.
Follows(b, s) == \A i \in 1 .. Len(s) : IsCrc(s[i]) => Under(b, s[i].id)

Below(s, hi) == \A i \in 1 .. Len(s) : IsCrc(s[i]) => s[i].id <= hi

LEMMA FedAllKeeps ==
  ASSUME NEW b \in Parsing, NEW s \in Seq(Token), NEW lo \in Nat,
         InOrder(b, lo), Rising(s, lo), Follows(b, s)
  PROVE  /\ InOrder(FedAll(b, s), lo)
         /\ \A hi \in Nat : Under(b, hi) /\ Below(s, hi) => Under(FedAll(b, s), hi)
<1>1. PICK p \in [0 .. Len(s) -> Parsing] :
        /\ p[0] = b /\ FedAll(b, s) = p[Len(s)]
        /\ \A k \in 1 .. Len(s) : p[k] = Fed(p[k - 1], s[k])
  BY FedSteps
<1>2. Len(s) \in Nat
  BY LenProperties
<1> DEFINE Upto(k, hi) == \A i \in 1 .. k : IsCrc(s[i]) => s[i].id <= hi
           Kept(k) == /\ InOrder(p[k], lo)
                      /\ \A hi \in Nat : Under(b, hi) /\ Upto(k, hi) => Under(p[k], hi)
           S == {k \in Nat : k <= Len(s) => Kept(k)}
<1>3. 0 \in S
  BY <1>1
<1>4. ASSUME NEW k \in Nat, k \in S PROVE k + 1 \in S
  <2> SUFFICES ASSUME k + 1 <= Len(s) PROVE Kept(k + 1)
    OBVIOUS
  <2>1. k + 1 \in 1 .. Len(s) /\ k \in 0 .. Len(s) /\ k <= Len(s) /\ (k + 1) - 1 = k
    BY <1>2
  <2> DEFINE t == s[k + 1]
  <2>2. p[k + 1] = Fed(p[k], t) /\ p[k] \in Parsing /\ t \in Token
    BY <1>1, <2>1, ElementOfSeq
  <2>3. Kept(k)
    BY <1>4, <2>1
  <2>4. IsCrc(t) => t.id >= lo /\ Under(p[k], t.id)
    <3> SUFFICES ASSUME IsCrc(t) PROVE t.id >= lo /\ Under(p[k], t.id)
      OBVIOUS
    <3>1. t.id \in Nat /\ t.id >= lo
      BY <2>1, <2>2 DEF Rising, Token
    <3>2. Under(b, t.id)
      BY <2>1 DEF Follows
    <3>3. Upto(k, t.id)
      <4>1. ASSUME NEW i \in 1 .. k, IsCrc(s[i]) PROVE s[i].id <= t.id
        <5>1. i \in 1 .. Len(s) /\ i <= k + 1
          BY <1>2, <2>1
        <5>2. QED
          BY <2>1, <4>1, <5>1 DEF Rising
      <4>2. QED
        BY <4>1
    <3> HIDE DEF t, Upto
    <3>4. QED
      BY <2>3, <3>1, <3>2, <3>3
  <2> HIDE DEF t
  <2>5. InOrder(p[k + 1], lo)
    BY <2>2, <2>3, <2>4, FedKeeps
  <2>6. ASSUME NEW hi \in Nat, Under(b, hi), Upto(k + 1, hi) PROVE Under(p[k + 1], hi)
    <3>1. Upto(k, hi)
      BY <2>6, <2>1
    <3>2. IsCrc(t) => t.id <= hi
      <4>1. k + 1 \in 1 .. (k + 1)
        BY <2>1
      <4>2. QED
        BY <2>6, <4>1 DEF t
    <3>3. Under(p[k], hi)
      BY <2>3, <2>6, <3>1
    <3>4. QED
      BY <2>2, <3>2, <3>3, FedKeeps
  <2>7. QED
    BY <2>5, <2>6
<1> HIDE DEF S
<1>5. \A k \in Nat : k \in S
  BY <1>3, <1>4, NatAll
<1>6. Kept(Len(s))
  BY <1>2, <1>5 DEF S
<1>7. QED
  BY <1>1, <1>6 DEF Below

(***************************************************************************)
(* Checksums in the buffer and on the wire are in the order of the requests*)
(* they were sent for: none before the last request handled, none after the*)
(* one the host is at.                                                     *)
(***************************************************************************)
Held == [rest |-> buf, ids |-> << >>]

OrderInv ==
  /\ wire \in Seq(Token) /\ buf \in Seq(Token)
  /\ req \in Nat /\ last \in Nat /\ last <= req
  /\ InOrder(Held, last) /\ Under(Held, req)
  /\ Rising(wire, last) /\ Below(wire, req) /\ Follows(Held, wire)

LEMMA HeldType == ASSUME buf \in Seq(Token) PROVE Held \in Parsing /\ Held.rest = buf /\ Len(Held.ids) = 0
BY EmptySeq DEF Held, Parsing

LEMMA OrderInit == LInit => OrderInv
<1> SUFFICES ASSUME LInit PROVE OrderInv
  OBVIOUS
<1>1. wire = << >> /\ buf = << >> /\ req = 1 /\ last = 0
  BY DEF LInit
<1>2. wire \in Seq(Token) /\ buf \in Seq(Token) /\ Len(wire) = 0 /\ Len(buf) = 0
  BY <1>1
<1>3. Len(Held.rest) = 0 /\ Len(Held.ids) = 0
  BY <1>2, HeldType
<1>4. InOrder(Held, last) /\ Under(Held, req)
  BY <1>3 DEF InOrder, Under
<1>5. Rising(wire, last) /\ Below(wire, req) /\ Follows(Held, wire)
  BY <1>2 DEF Rising, Below, Follows
<1>6. QED
  BY <1>1, <1>2, <1>4, <1>5 DEF OrderInv

\* Anything put on the wire whose checksums are of the host's request keeps the order.
LEMMA SentBehind ==
  ASSUME OrderInv, NEW s \in Seq(Token),
         \A i \in 1 .. Len(s) : IsCrc(s[i]) => s[i].id = req,
         wire' = wire \o s, UNCHANGED <<buf, req, last>>
  PROVE  OrderInv'
<1> USE DEF OrderInv
<1>1. wire \in Seq(Token) /\ Len(wire) \in Nat /\ Len(s) \in Nat
  BY LenProperties
<1> DEFINE w == wire \o s
<1>2. /\ w \in Seq(Token) /\ Len(w) = Len(wire) + Len(s)
      /\ \A i \in 1 .. Len(wire) + Len(s) :
           w[i] = IF i <= Len(wire) THEN wire[i] ELSE s[i - Len(wire)]
  BY <1>1, ConcatProperties
<1>3. wire' = w
  OBVIOUS
<1> HIDE DEF w
<1>4. ASSUME NEW i \in 1 .. Len(w)
      PROVE  \/ i \in 1 .. Len(wire) /\ w[i] = wire[i]
             \/ i > Len(wire) /\ (IsCrc(w[i]) => w[i].id = req)
  <2>1. CASE i <= Len(wire)
    BY <1>1, <1>2, <2>1
  <2>2. CASE ~(i <= Len(wire))
    <3>1. i - Len(wire) \in 1 .. Len(s) /\ w[i] = s[i - Len(wire)]
      BY <1>1, <1>2, <2>2
    <3>2. QED
      BY <1>1, <2>2, <3>1
  <2>3. QED
    BY <2>1, <2>2
<1>5. Below(w, req)
  <2>1. ASSUME NEW i \in 1 .. Len(w), IsCrc(w[i]) PROVE w[i].id <= req
    <3>1. CASE i \in 1 .. Len(wire) /\ w[i] = wire[i]
      BY <2>1, <3>1 DEF Below
    <3>2. CASE w[i].id = req
      BY <3>2
    <3>3. QED
      BY <1>4, <2>1, <3>1, <3>2
  <2>2. QED
    BY <2>1 DEF Below
<1>6. Rising(w, last)
  <2>1. ASSUME NEW i \in 1 .. Len(w), IsCrc(w[i]) PROVE w[i].id >= last
    BY <1>4, <2>1 DEF Rising
  <2>2. ASSUME NEW i \in 1 .. Len(w), NEW j \in 1 .. Len(w), i <= j, IsCrc(w[i]), IsCrc(w[j])
        PROVE  w[i].id <= w[j].id
    <3>1. CASE j \in 1 .. Len(wire) /\ w[j] = wire[j]
      <4>1. i \in 1 .. Len(wire) /\ w[i] = wire[i]
        BY <1>1, <1>2, <2>2, <3>1
      <4>2. QED
        BY <2>2, <3>1, <4>1 DEF Rising
    <3>2. CASE w[j].id = req
      <4>1. w[i].id <= req
        BY <2>2, <1>5 DEF Below
      <4>2. QED
        BY <3>2, <4>1
    <3>3. QED
      BY <1>4, <2>2, <3>1, <3>2
  <2>3. QED
    BY <2>1, <2>2 DEF Rising
<1>7. Follows(Held, w)
  BY <1>4 DEF Follows
<1>8. Held' = Held
  BY DEF Held
<1>9. QED
  BY <1>2, <1>3, <1>5, <1>6, <1>7, <1>8

\* What a read finds, and leaves, is in order.
LEMMA ReadInOrder ==
  ASSUME OrderInv, NEW n \in 1 .. PACKET, Read(n)
  PROVE  /\ OrderInv'
         /\ \A i \in 1 .. Len(found') : found'[i] \in Requests /\ found'[i] >= last
         /\ \A i, j \in 1 .. Len(found') : i <= j => found'[i] <= found'[j]
         /\ found' \in Seq(Nat)
<1> DEFINE s == SubSeq(wire, 1, n)
           q == FedAll(Held, s)
<1>1. /\ n <= Len(wire) /\ wire' = Drop(wire, n) /\ packet' = s
      /\ buf' = q.rest /\ found' = q.ids
      /\ out' = Handled(found') /\ req' = req
      /\ last' = IF found' = << >> THEN last ELSE out'[Len(out')]
  BY Zenon DEF Read, Held
<1>2. /\ wire \in Seq(Token) /\ buf \in Seq(Token) /\ req \in Nat /\ last \in Nat
      /\ last <= req /\ InOrder(Held, last) /\ Under(Held, req)
      /\ Rising(wire, last) /\ Below(wire, req) /\ Follows(Held, wire)
  BY DEF OrderInv
<1>3. n \in 1 .. Len(wire) /\ n \in 0 .. Len(wire) /\ Len(wire) \in Nat /\ n \in Nat
  BY <1>1, <1>2, LenProperties, LinkAssumption
<1>4. s \in Seq(Token) /\ Len(s) = n /\ \A i \in 1 .. n : s[i] = wire[i]
  <2>1. \A i \in 1 .. n : wire[i] \in Token
    BY <1>2, <1>3, ElementOfSeq
  <2>2. /\ SubSeq(wire, 1, n) \in Seq(Token)
        /\ Len(SubSeq(wire, 1, n)) = IF 1 <= n THEN n - 1 + 1 ELSE 0
        /\ \A i \in 1 .. n - 1 + 1 : SubSeq(wire, 1, n)[i] = wire[1 + i - 1]
    BY <1>3, <2>1, SubSeqProperties
  <2>3. QED
    BY <1>3, <2>2
<1> DEFINE w == Drop(wire, n)
<1>5. w \in Seq(Token) /\ Len(w) = Len(wire) - n /\ \A i \in 1 .. Len(wire) - n : w[i] = wire[n + i]
  BY <1>2, <1>3, DropType
<1> HIDE DEF s, w
<1>6. Rising(s, last) /\ Follows(Held, s) /\ Below(s, req)
  <2>1. \A i \in 1 .. Len(s) : i \in 1 .. Len(wire) /\ s[i] = wire[i]
    BY <1>3, <1>4
  <2>2. QED
    BY <1>2, <2>1 DEF Rising, Follows, Below
<1>7. \A i \in 1 .. Len(w) : n + i \in 1 .. Len(wire) /\ w[i] = wire[n + i] /\ w[i] \in Token
  BY <1>3, <1>5, ElementOfSeq
<1>8. \A i \in 1 .. Len(w) : IsCrc(w[i]) => Below(s, w[i].id)
  <2>1. ASSUME NEW i \in 1 .. Len(w), IsCrc(w[i]), NEW j \in 1 .. Len(s), IsCrc(s[j])
        PROVE  s[j].id <= w[i].id
    <3>1. j \in 1 .. Len(wire) /\ s[j] = wire[j] /\ j <= n + i
      BY <1>3, <1>4
    <3>2. QED
      BY <1>2, <1>7, <2>1, <3>1 DEF Rising
  <2>2. QED
    BY <2>1 DEF Below
<1>9. Held \in Parsing
  BY <1>2, HeldType
<1> HIDE DEF q
<1>10. /\ q \in Parsing
       /\ InOrder(q, last)
       /\ \A hi \in Nat : Under(Held, hi) /\ Below(s, hi) => Under(q, hi)
  <2>1. PICK p \in [0 .. Len(s) -> Parsing] : FedAll(Held, s) = p[Len(s)]
    BY <1>4, <1>9, FedSteps
  <2>2. q \in Parsing
    BY <1>3, <1>4, <2>1 DEF q
  <2>3. InOrder(FedAll(Held, s), last)
        /\ \A hi \in Nat : Under(Held, hi) /\ Below(s, hi) => Under(FedAll(Held, s), hi)
    BY <1>2, <1>4, <1>6, <1>9, FedAllKeeps
  <2>4. QED
    BY <2>2, <2>3 DEF q
<1>11. Under(q, req)
  BY <1>2, <1>6, <1>10
<1>12. Follows(q, w)
  <2>1. ASSUME NEW i \in 1 .. Len(w), IsCrc(w[i]) PROVE Under(q, w[i].id)
    <3>1. w[i].id \in Nat
      BY <1>7 DEF Token
    <3>2. Under(Held, w[i].id)
      BY <1>2, <1>7, <2>1 DEF Follows
    <3>3. QED
      BY <1>8, <1>10, <2>1, <3>1, <3>2
  <2>2. QED
    BY <2>1 DEF Follows
<1>13. q.rest \in Seq(Token) /\ q.ids \in Seq(Nat) /\ Len(q.ids) \in Nat /\ Len(q.rest) \in Nat
       /\ Held' = [rest |-> q.rest, ids |-> << >>] /\ Held'.rest = q.rest /\ Len(Held'.ids) = 0
  <2>1. q.rest \in Seq(Token) /\ q.ids \in Seq(Nat)
    BY <1>10 DEF Parsing
  <2>2. Held' = [rest |-> q.rest, ids |-> << >>]
    BY <1>1 DEF Held
  <2>3. QED
    BY <2>1, <2>2, LenProperties, EmptySeq
\* The last request handled is one of those found.
<1>14. \/ last' = last
       \/ \E m \in 1 .. Len(q.ids) : last' = q.ids[m]
  <2>1. CASE q.ids = << >>
    BY <1>1, <2>1
  <2>2. CASE q.ids # << >>
    <3> DEFINE m == IF Len(q.ids) < QUEUE THEN Len(q.ids) ELSE QUEUE
    <3>1. m \in 1 .. Len(q.ids) /\ m \in Nat
      BY <1>13, <2>2, EmptySeq, LinkAssumption
    <3>2. out' = SubSeq(q.ids, 1, m)
      BY <1>1 DEF Handled
    <3> HIDE DEF m
    <3>3. \A i \in 1 .. m : q.ids[i] \in Nat
      BY <1>13, <3>1, ElementOfSeq
    <3>4. /\ Len(SubSeq(q.ids, 1, m)) = IF 1 <= m THEN m - 1 + 1 ELSE 0
          /\ \A i \in 1 .. m - 1 + 1 : SubSeq(q.ids, 1, m)[i] = q.ids[1 + i - 1]
      BY <3>1, <3>3, SubSeqProperties
    <3>5. Len(out') = m /\ out'[m] = q.ids[m]
      BY <3>1, <3>2, <3>4
    <3>6. last' = q.ids[m]
      BY <1>1, <2>2, <3>5
    <3>7. QED
      BY <3>1, <3>6
  <2>3. QED
    BY <2>1, <2>2
<1>15. last' \in Nat /\ last' >= last /\ last' <= req
  BY <1>2, <1>10, <1>11, <1>13, <1>14, ElementOfSeq DEF InOrder, Under
<1>16. InOrder(Held', last')
  <2>1. \A i \in 1 .. Len(q.rest) : IsCrc(q.rest[i]) => q.rest[i].id >= last'
    BY <1>10, <1>14, <1>13, <1>15 DEF InOrder
  <2>2. QED
    BY <1>10, <1>13, <2>1 DEF InOrder
<1>17. Under(Held', req)
  BY <1>11, <1>13 DEF Under
<1>18. Rising(w, last')
  <2>1. ASSUME NEW i \in 1 .. Len(w), IsCrc(w[i]) PROVE w[i].id >= last'
    <3>1. Under(q, w[i].id)
      BY <1>12, <2>1 DEF Follows
    <3>2. w[i].id >= last
      BY <1>2, <1>7, <2>1 DEF Rising
    <3>3. QED
      BY <1>14, <3>1, <3>2 DEF Under
  <2>2. ASSUME NEW i \in 1 .. Len(w), NEW j \in 1 .. Len(w), i <= j, IsCrc(w[i]), IsCrc(w[j])
        PROVE  w[i].id <= w[j].id
    <3>1. n + i <= n + j
      BY <1>3, <2>2
    <3>2. QED
      BY <1>2, <1>7, <2>2, <3>1 DEF Rising
  <2>3. QED
    BY <2>1, <2>2 DEF Rising
<1>19. Below(w, req) /\ Follows(Held', w)
  <2>1. Below(w, req)
    BY <1>2, <1>7 DEF Below
  <2>2. ASSUME NEW i \in 1 .. Len(w), IsCrc(w[i]) PROVE Under(Held', w[i].id)
    <3>1. Under(q, w[i].id)
      BY <1>12, <2>2 DEF Follows
    <3>2. QED
      BY <1>13, <3>1 DEF Under
  <2>3. QED
    BY <2>1, <2>2 DEF Follows
<1>20. OrderInv'
  <2>1. wire' = w /\ buf' = q.rest /\ req' = req
    BY <1>1 DEF w, q
  <2>2. QED
    BY <1>2, <1>5, <1>13, <1>15, <1>16, <1>17, <1>18, <1>19, <2>1 DEF OrderInv
<1>21. found' = q.ids
  BY <1>1 DEF q
<1>22. QED
  BY <1>10, <1>13, <1>20, <1>21 DEF InOrder

\* What a step of the link finds.
FoundInOrder ==
  \A i \in DOMAIN found' :
    /\ found'[i] \in Requests /\ found'[i] >= last
    /\ \A j \in 1 .. i : found'[j] <= found'[i]

LEMMA OrderNext == OrderInv /\ LNext => OrderInv' /\ FoundInOrder
<1> SUFFICES ASSUME OrderInv, LNext PROVE OrderInv' /\ FoundInOrder
  OBVIOUS
<1>1. ASSUME found' = << >> PROVE FoundInOrder
  BY <1>1 DEF FoundInOrder
<1>2. ASSUME UNCHANGED <<wire, buf, last>>, req' \in Nat, req' >= req PROVE OrderInv'
  <2>1. Held' = Held
    BY <1>2 DEF Held
  <2>2. /\ wire \in Seq(Token) /\ buf \in Seq(Token) /\ req \in Nat /\ last \in Nat
        /\ last <= req /\ InOrder(Held, last) /\ Under(Held, req)
        /\ Rising(wire, last) /\ Below(wire, req) /\ Follows(Held, wire)
    BY DEF OrderInv
  <2>3. Under(Held, req')
    <3>1. Held \in Parsing
      BY <2>2, HeldType
    <3>2. /\ \A i \in 1 .. Len(Held.ids) : Held.ids[i] \in Nat
          /\ \A i \in 1 .. Len(Held.rest) : Held.rest[i].id \in Nat
      BY <3>1, CrcFacts
    <3> HIDE DEF Held
    <3>3. ASSUME NEW k \in Nat, k <= req PROVE k <= req'
      BY <1>2, <2>2, <3>3
    <3>4. Under(Held, req)
      BY <2>2
    <3>5. QED
      BY <3>2, <3>3, <3>4, Zenon DEF Under
  <2>4. Below(wire, req')
    <3>1. \A i \in 1 .. Len(wire) : wire[i] \in Token
      BY <2>2, ElementOfSeq
    <3>2. \A i \in 1 .. Len(wire) : wire[i].id \in Nat
      BY <3>1 DEF Token
    <3>3. ASSUME NEW k \in Nat, k <= req PROVE k <= req'
      BY <1>2, <2>2, <3>3
    <3>4. Below(wire, req)
      BY <2>2
    <3>5. QED
      BY <3>2, <3>3, <3>4, Zenon DEF Below
  <2>5. QED
    BY <1>2, <2>1, <2>2, <2>3, <2>4 DEF OrderInv
<1>3. req \in Nat
  BY DEF OrderInv
<1>4. CASE Connect
  BY <1>1, <1>2, <1>3, <1>4 DEF Connect, NothingRead
<1>5. ASSUME NEW n \in 1 .. PACKET, Read(n) PROVE OrderInv' /\ FoundInOrder
  <2>1. /\ OrderInv'
        /\ \A i \in 1 .. Len(found') : found'[i] \in Requests /\ found'[i] >= last
        /\ \A i, j \in 1 .. Len(found') : i <= j => found'[i] <= found'[j]
        /\ found' \in Seq(Nat)
    BY <1>5, ReadInOrder
  <2>2. DOMAIN found' = 1 .. Len(found') /\ Len(found') \in Nat
    BY <2>1, LenProperties
  <2>3. QED
    BY <2>1, <2>2 DEF FoundInOrder
<1>6. CASE WriteAnswer
  <2>1. req' = (IF Head(out) = req THEN req + 1 ELSE req) /\ found' = << >>
        /\ UNCHANGED <<wire, buf, last>>
    BY <1>6 DEF WriteAnswer, NothingRead
  <2>2. QED
    BY <1>1, <1>2, <1>3, <2>1
<1>7. CASE Send
  <2>1. /\ wire' = wire \o Encoded(req) /\ req \in Requests /\ found' = << >>
        /\ UNCHANGED <<buf, req, last>>
    BY <1>7 DEF Send, NothingRead
  <2>2. Encoded(req) \in Seq(Token)
        /\ \A i \in 1 .. Len(Encoded(req)) : IsCrc(Encoded(req)[i]) => Encoded(req)[i].id = req
    <3>1. /\ Encoded(req) \in Seq(Token)
          /\ \A i \in 1 .. Len(Encoded(req)) :
               Encoded(req)[i].kind = "crc" => Encoded(req)[i] = Crc(req)
      BY <2>1, EncodedShape, EncodedCrc
    <3>2. Crc(req).id = req
      BY DEF Crc
    <3>3. QED
      BY <3>1, <3>2 DEF IsCrc
  <2>3. OrderInv'
    BY <2>1, <2>2, SentBehind
  <2>4. QED
    BY <1>1, <2>1, <2>3
<1>8. ASSUME NEW burst \in Bursts, Noise(burst) PROVE OrderInv' /\ FoundInOrder
  <2>1. /\ wire' = wire \o burst /\ found' = << >> /\ UNCHANGED <<buf, req, last>>
    BY <1>8 DEF Noise, NothingRead
  <2>2. burst \in Seq(Token) /\ \A i \in 1 .. Len(burst) : ~IsCrc(burst[i])
    BY LinkAssumption, ChecksumAssumption, LenProperties DEF NoChecksum, IsCrc
  <2>3. OrderInv'
    BY <2>1, <2>2, SentBehind
  <2>4. QED
    BY <1>1, <2>1, <2>3
<1>9. CASE Break
  <2>1. wire' = << >> /\ found' = << >> /\ UNCHANGED <<buf, req, last>>
    BY <1>9 DEF Break, NothingRead
  <2>2. wire' \in Seq(Token) /\ Len(wire') = 0
    BY <2>1
  <2>3. Rising(wire', last) /\ Below(wire', req) /\ Follows(Held, wire')
    BY <2>2 DEF Rising, Below, Follows
  <2>4. Held' = Held
    BY <2>1 DEF Held
  <2>5. OrderInv'
    BY <2>1, <2>2, <2>3, <2>4 DEF OrderInv
  <2>6. QED
    BY <1>1, <2>1, <2>5
<1>10. QED
  BY <1>4, <1>5, <1>6, <1>7, <1>8, <1>9 DEF LNext, SomeRead

LEMMA OrderStutter == OrderInv /\ UNCHANGED lvars => OrderInv'
<1> SUFFICES ASSUME OrderInv, UNCHANGED lvars PROVE OrderInv'
  OBVIOUS
<1>1. UNCHANGED <<wire, buf, req, last>>
  BY DEF lvars, history
<1>2. Held' = Held
  BY <1>1 DEF Held
<1>3. QED
  BY <1>1, <1>2 DEF OrderInv

\* The frames a read finds are frames that were sent, in the order they were sent in
\* (lib.rs:73-74), whatever lies between them and wherever a packet ends.
THEOREM FramesInOrder == LSpec => GenuineInOrder
<1>1. OrderInv /\ [LNext]_lvars => OrderInv'
  BY OrderNext, OrderStutter
<1>2. OrderInv /\ [LNext]_lvars => [FoundInOrder]_lvars
  BY OrderNext
<1>3. LInit /\ [][LNext]_lvars => [][FoundInOrder]_lvars
  BY OrderInit, <1>1, <1>2, PTL
<1>4. QED
  BY <1>3, PTL DEF LSpec, GenuineInOrder, FoundInOrder

(***************************************************************************)
(* No frame is lost.                                                       *)
(***************************************************************************)
\* Frame r ends at place e of s.
FrameAt(s, e, r) ==
  /\ Len(Encoded(r)) <= e
  /\ \A j \in 1 .. Len(Encoded(r)) : s[e - Len(Encoded(r)) + j] = Encoded(r)[j]

\* What s holds from place i on, up to place m, may be frame r or its beginning.
Matches(s, m, i, r) ==
  \A j \in 1 .. Len(Encoded(r)) : i + j - 1 <= m => s[i + j - 1] = Encoded(r)[j]

MayStart(s, m, i) == \E r \in Requests : Matches(s, m, i, r)

\* Frame r has begun at place i of s and goes on behind place m.
UnderWay(s, m, i) ==
  \E r \in Requests : i + Len(Encoded(r)) - 1 > m /\ Matches(s, m, i, r)

LEMMA FrameIs ==
  ASSUME NEW s \in Seq(Token), NEW e \in 1 .. Len(s),
         NEW r \in Requests, Len(Encoded(r)) <= e
  PROVE  SubSeq(s, e + 1 - Len(Encoded(r)), e) = Encoded(r) <=> FrameAt(s, e, r)
<1> DEFINE f == Encoded(r)
           n == Len(f)
           b == e + 1 - n
           t == SubSeq(s, b, e)
<1>1. Len(s) \in Nat
  BY LenProperties
<1>2. f \in Seq(Token) /\ n \in Nat /\ n >= 1
  BY EncodedShape DEF Overhead
<1>3. b \in Int /\ e \in Int /\ b >= 1
  BY <1>1, <1>2
<1> HIDE DEF f
<1>4. \A i \in b .. e : s[i] \in Token
  <2>1. \A i \in b .. e : i \in 1 .. Len(s)
    BY <1>1, <1>3
  <2>2. QED
    BY <2>1, ElementOfSeq
<1>5. /\ SubSeq(s, b, e) \in Seq(Token)
      /\ Len(SubSeq(s, b, e)) = IF b <= e THEN e - b + 1 ELSE 0
      /\ \A i \in 1 .. e - b + 1 : SubSeq(s, b, e)[i] = s[b + i - 1]
  <2> HIDE DEF b
  <2>1. QED
    BY <1>3, <1>4, SubSeqProperties
<1>6. t \in Seq(Token) /\ Len(t) = n /\ \A i \in 1 .. n : t[i] = s[e - n + i]
  <2>1. e - b + 1 = n /\ b <= e
    BY <1>1, <1>2
  <2>2. Len(t) = n /\ \A i \in 1 .. n : t[i] = s[b + i - 1]
    BY <1>5, <2>1
  <2>3. \A i \in 1 .. n : b + i - 1 = e - n + i
    BY <1>1, <1>2
  <2>4. QED
    BY <1>5, <2>2, <2>3
<1> HIDE DEF t, b, n
<1>7. t = f <=> \A i \in 1 .. n : s[e - n + i] = f[i]
  <2>1. ASSUME \A i \in 1 .. n : s[e - n + i] = f[i] PROVE t = f
    <3>1. Len(t) = Len(f) /\ \A i \in 1 .. Len(t) : t[i] = f[i]
      BY <1>6, <2>1 DEF n
    <3>2. QED
      BY <1>2, <1>6, <3>1, SeqEqual
  <2>2. ASSUME t = f PROVE \A i \in 1 .. n : s[e - n + i] = f[i]
    BY <1>6, <2>2
  <2>3. QED
    BY <2>1, <2>2
<1>8. QED
  BY <1>7 DEF FrameAt, f, n, t, b

LEMMA EndsAre ==
  ASSUME NEW s \in Seq(Token)
  PROVE  Ends(s) = {e \in 1 .. Len(s) : \E r \in Requests : FrameAt(s, e, r)}
<1>1. DOMAIN s = 1 .. Len(s)
  BY LenProperties
<1>2. \A e \in 1 .. Len(s), r \in Requests :
        Len(Encoded(r)) <= e =>
          (SubSeq(s, e + 1 - Len(Encoded(r)), e) = Encoded(r) <=> FrameAt(s, e, r))
  BY FrameIs
<1>3. QED
  BY <1>1, <1>2 DEF Ends, FrameAt

\* t is s without its first e tokens.
Behind(s, t, e) ==
  /\ e \in 0 .. Len(s) /\ Len(t) = Len(s) - e
  /\ \A i \in 1 .. Len(s) - e : t[i] = s[e + i]

\* A frame that begins behind the first e tokens.
LEMMA FrameBehind ==
  ASSUME NEW s \in Seq(Token), NEW t \in Seq(Token), NEW e \in Nat, Behind(s, t, e),
         NEW r \in Requests, NEW y \in 1 .. Len(t), Len(Encoded(r)) <= y
  PROVE  FrameAt(t, y, r) <=> FrameAt(s, e + y, r)
<1> DEFINE n == Len(Encoded(r))
<1>1. n \in Nat /\ Len(s) \in Nat /\ Len(t) \in Nat /\ y \in Nat
  BY EncodedShape, LenProperties
<1>2. ASSUME NEW j \in 1 .. n PROVE t[y - n + j] = s[(e + y) - n + j]
  <2>1. y - n + j \in 1 .. Len(s) - e /\ e + (y - n + j) = (e + y) - n + j
    BY <1>1 DEF Behind
  <2>2. QED
    BY <2>1 DEF Behind
<1>3. n <= e + y
  BY <1>1
<1>4. QED
  BY <1>2, <1>3 DEF FrameAt

LEMMA FrameBehindFits ==
  ASSUME NEW s, NEW e, NEW r \in Requests, FrameAt(s, e, r)
  PROVE  Len(Encoded(r)) <= e /\ Len(Encoded(r)) \in Nat /\ Len(Encoded(r)) >= 4
BY EncodedShape DEF FrameAt, Overhead

Shifted(A, e) == {e + y : y \in A}

LEMMA EndsBehind ==
  ASSUME NEW s \in Seq(Token), NEW t \in Seq(Token), NEW e \in Nat, Behind(s, t, e)
  PROVE  Shifted(Ends(t), e) \subseteq Ends(s)
<1>1. Len(s) \in Nat /\ Len(t) = Len(s) - e
  BY LenProperties DEF Behind
<1>2. ASSUME NEW y \in Ends(t) PROVE e + y \in Ends(s)
  <2>1. PICK r \in Requests : y \in 1 .. Len(t) /\ FrameAt(t, y, r)
    BY EndsAre
  <2>2. FrameAt(s, e + y, r)
    BY <2>1, FrameBehindFits, FrameBehind
  <2>3. e + y \in 1 .. Len(s)
    BY <1>1, <2>1
  <2>4. QED
    BY <2>2, <2>3, EndsAre
<1>3. QED
  BY <1>2 DEF Shifted

\* A frame begins at the place its length says.
LEMMA FrameMatches ==
  ASSUME NEW s \in Seq(Token), NEW e \in 1 .. Len(s), NEW r \in Requests, FrameAt(s, e, r),
         NEW m \in Nat
  PROVE  Matches(s, m, e - Len(Encoded(r)) + 1, r) /\ e - Len(Encoded(r)) + 1 \in 1 .. e
<1> DEFINE n == Len(Encoded(r))
<1>1. n \in Nat /\ n >= 1 /\ n <= e /\ e \in Nat
  BY FrameBehindFits, LenProperties
<1>2. \A j \in 1 .. n : (e - n + 1) + j - 1 = e - n + j
  BY <1>1
<1>3. Matches(s, m, e - n + 1, r)
  BY <1>2 DEF Matches, FrameAt
<1>4. QED
  BY <1>1, <1>3

\* Where no frame may start, dropping loses none.
LEMMA NothingStarts ==
  ASSUME NEW s \in Seq(Token), NEW t \in Seq(Token), NEW e \in Nat, Behind(s, t, e),
         \A i \in 1 .. e : ~MayStart(s, Len(s), i)
  PROVE  /\ Ends(s) = Shifted(Ends(t), e)
         /\ \A i \in 1 .. e : ~UnderWay(s, Len(s), i)
<1>1. Len(s) \in Nat /\ Len(t) = Len(s) - e /\ Len(t) \in Nat
  BY LenProperties DEF Behind
<1>2. ASSUME NEW x \in Ends(s) PROVE x \in Shifted(Ends(t), e)
  <2>1. PICK r \in Requests : x \in 1 .. Len(s) /\ FrameAt(s, x, r)
    BY EndsAre
  <2> DEFINE n == Len(Encoded(r))
             i == x - n + 1
  <2>2. Matches(s, Len(s), i, r) /\ i \in 1 .. x
    BY <1>1, <2>1, FrameMatches
  <2>3. n \in Nat /\ n >= 1 /\ x \in Nat
    BY <1>1, <2>1, FrameBehindFits
  <2>4. ~(i \in 1 .. e)
    BY <2>2 DEF MayStart
  <2>5. x - e \in 1 .. Len(t) /\ n <= x - e /\ e + (x - e) = x
    BY <1>1, <2>1, <2>2, <2>3, <2>4
  <2>6. FrameAt(t, x - e, r)
    BY <2>1, <2>5, FrameBehind
  <2>7. x - e \in Ends(t)
    BY <2>5, <2>6, EndsAre
  <2>8. QED
    BY <2>5, <2>7 DEF Shifted
<1>3. \A i \in 1 .. e : ~UnderWay(s, Len(s), i)
  BY DEF MayStart, UnderWay
<1>4. QED
  BY <1>2, <1>3, EndsBehind

\* Within a frame no other may start.
LEMMA FrameAlone ==
  ASSUME NEW s \in Seq(Token), NEW e \in 1 .. Len(s), NEW r0 \in Requests, FrameAt(s, e, r0),
         NEW i \in e - Len(Encoded(r0)) + 1 .. e, NEW r \in Requests, Matches(s, Len(s), i, r)
  PROVE  r = r0 /\ i = e - Len(Encoded(r0)) + 1
<1> DEFINE n0 == Len(Encoded(r0))
           n == Len(Encoded(r))
<1>1. /\ n0 \in Nat /\ n0 >= 1 /\ n0 <= e /\ n \in Nat /\ n >= 1 /\ e \in Nat /\ i \in Nat
      /\ e <= Len(s) /\ Len(s) \in Nat
      /\ Encoded(r0)[n0] = Crc(r0) /\ Encoded(r)[n] = Crc(r)
  <2>1. n0 \in Nat /\ n0 >= 1 /\ n0 <= e
    BY FrameBehindFits
  <2>2. /\ Encoded(r) \in Seq(Token) /\ Len(Encoded(r)) = Len(Payload[r]) + 4
        /\ Len(Payload[r]) \in Nat /\ Encoded(r)[n] = Crc(r) /\ Encoded(r0)[n0] = Crc(r0)
    BY EncodedShape DEF Overhead
  <2>3. Len(s) \in Nat
    BY LenProperties
  <2> HIDE DEF n0, n
  <2>4. n \in Nat /\ n >= 1
    BY <2>2 DEF n
  <2>5. e \in Nat /\ e <= Len(s) /\ i \in Nat
    BY <2>1, <2>3 DEF n0
  <2>6. QED
    BY <2>1, <2>2, <2>3, <2>4, <2>5
<1>2. \A j \in 1 .. n0 : s[e - n0 + j] = Encoded(r0)[j]
  BY DEF FrameAt
<1>3. s[e] = Crc(r0)
  <2>1. e - n0 + n0 = e /\ n0 \in 1 .. n0
    BY <1>1
  <2>2. s[e - n0 + n0] = Encoded(r0)[n0]
    BY <1>2, <2>1
  <2>3. QED
    BY <1>1, <2>1, <2>2
<1>4. CASE i + n - 1 >= e
  <2> DEFINE j == e - i + 1
  <2>1. j \in 1 .. n /\ i + j - 1 = e
    BY <1>1, <1>4
  <2>2. Encoded(r)[j] = Crc(r0)
    BY <1>1, <1>3, <2>1 DEF Matches
  <2>3. Encoded(r)[j].kind = "crc"
    BY <2>2 DEF Crc
  <2> HIDE DEF j
  <2>4. j = n /\ Encoded(r)[j] = Crc(r)
    BY <2>1, <2>3, EncodedCrc
  <2>5. r = r0
    BY <2>2, <2>4 DEF Crc
  <2>6. i = e - n0 + 1
    BY <1>1, <2>1, <2>4, <2>5
  <2>7. QED
    BY <2>5, <2>6
<1>5. CASE i + n - 1 < e
  <2> DEFINE j == i + n - 1 - (e - n0)
  <2>1. j \in 1 .. n0 /\ j < n0 /\ e - n0 + j = i + n - 1 /\ n \in 1 .. n /\ i + n - 1 <= Len(s)
    BY <1>1, <1>5
  <2>2. s[i + n - 1] = Crc(r)
    BY <1>1, <2>1 DEF Matches
  <2>3. s[i + n - 1] = Encoded(r0)[j]
    BY <1>2, <2>1
  <2>4. Encoded(r0)[j].kind = "crc"
    BY <2>2, <2>3 DEF Crc
  <2> HIDE DEF j
  <2>5. j = n0
    BY <2>1, <2>4, EncodedCrc
  <2>6. QED
    BY <1>1, <2>1, <2>5
<1>6. QED
  BY <1>1, <1>4, <1>5

\* Dropping a whole frame that begins where a frame may first start loses that one only.
LEMMA FrameTaken ==
  ASSUME NEW s \in Seq(Token), NEW t \in Seq(Token), NEW e \in 1 .. Len(s), Behind(s, t, e),
         NEW r0 \in Requests, FrameAt(s, e, r0),
         \A i \in 1 .. e - Len(Encoded(r0)) : ~MayStart(s, Len(s), i)
  PROVE  /\ Ends(s) = Shifted(Ends(t), e) \cup {e} /\ e \notin Shifted(Ends(t), e)
         /\ \A i \in 1 .. e : ~UnderWay(s, Len(s), i)
<1> DEFINE n0 == Len(Encoded(r0))
<1>1. Len(s) \in Nat /\ Len(t) = Len(s) - e /\ Len(t) \in Nat /\ e \in Nat
  BY LenProperties DEF Behind
<1>2. n0 \in Nat /\ n0 >= 1 /\ n0 <= e
  BY FrameBehindFits
<1>3. ASSUME NEW i \in 1 .. e, NEW r \in Requests, Matches(s, Len(s), i, r)
      PROVE  r = r0 /\ i = e - n0 + 1
  <2>1. ~(i \in 1 .. e - n0)
    BY <1>3 DEF MayStart
  <2>2. i \in e - n0 + 1 .. e
    BY <1>1, <1>2, <2>1
  <2>3. QED
    BY <1>3, <2>2, FrameAlone
<1>4. ASSUME NEW i \in 1 .. e PROVE ~UnderWay(s, Len(s), i)
  <2> SUFFICES ASSUME UnderWay(s, Len(s), i) PROVE FALSE
    OBVIOUS
  <2>1. PICK r \in Requests : i + Len(Encoded(r)) - 1 > Len(s) /\ Matches(s, Len(s), i, r)
    BY DEF UnderWay
  <2>2. r = r0 /\ i = e - n0 + 1
    BY <1>3, <2>1
  <2>3. i + n0 - 1 > Len(s)
    BY <2>1, <2>2
  <2>4. QED
    BY <1>1, <1>2, <2>2, <2>3
<1>5. ASSUME NEW x \in Ends(s), x # e PROVE x \in Shifted(Ends(t), e)
  <2>1. PICK r \in Requests : x \in 1 .. Len(s) /\ FrameAt(s, x, r)
    BY EndsAre
  <2> DEFINE n == Len(Encoded(r))
             i == x - n + 1
  <2>2. Matches(s, Len(s), i, r) /\ i \in 1 .. x
    BY <1>1, <2>1, FrameMatches
  <2>3. n \in Nat /\ n >= 1 /\ x \in Nat
    BY <1>1, <2>1, FrameBehindFits
  <2>4. i > e
    <3> SUFFICES ASSUME ~(i > e) PROVE FALSE
      OBVIOUS
    <3>1. i \in 1 .. e
      BY <1>1, <2>2, <2>3
    <3>2. r = r0 /\ i = e - n0 + 1
      BY <1>3, <2>2, <3>1
    <3>3. n = n0
      BY <3>2
    <3> HIDE DEF n, n0
    <3>4. x = e
      BY <1>1, <1>2, <2>3, <3>2, <3>3
    <3>5. QED
      BY <1>5, <3>4
  <2>5. x - e \in 1 .. Len(t) /\ n <= x - e /\ e + (x - e) = x
    BY <1>1, <2>1, <2>2, <2>3, <2>4
  <2>6. FrameAt(t, x - e, r)
    BY <1>1, <2>1, <2>5, FrameBehind
  <2>7. x - e \in Ends(t)
    BY <2>5, <2>6, EndsAre
  <2>8. QED
    BY <2>5, <2>7 DEF Shifted
<1>6. e \in Ends(s)
  BY EndsAre
<1>7. Shifted(Ends(t), e) \subseteq Ends(s)
  BY <1>1, EndsBehind
<1>8. e \notin Shifted(Ends(t), e)
  <2>1. \A y \in Ends(t) : y >= 1 /\ y \in Nat
    BY <1>1, EndsAre
  <2>2. \A y \in Ends(t) : e + y # e
    BY <1>1, <2>1
  <2>3. QED
    BY <2>2 DEF Shifted
<1>9. QED
  BY <1>4, <1>5, <1>6, <1>7, <1>8

LEMMA EndsFinite ==
  ASSUME NEW s \in Seq(Token)
  PROVE  /\ Ends(s) \subseteq 1 .. Len(s) /\ Ends(s) \subseteq Nat
         /\ IsFiniteSet(Ends(s)) /\ Cardinality(Ends(s)) \in Nat
<1>1. Len(s) \in Nat
  BY LenProperties
<1>2. Ends(s) \subseteq 1 .. Len(s)
  BY EndsAre
<1>3. IsFiniteSet(1 .. Len(s))
  BY <1>1, FS_Interval
<1>4. IsFiniteSet(Ends(s))
  BY <1>2, <1>3, FS_Subset
<1>5. QED
  BY <1>1, <1>2, <1>4, FS_CardinalityType

LEMMA ShiftedCount ==
  ASSUME NEW A \in SUBSET Nat, IsFiniteSet(A), NEW e \in Nat
  PROVE  IsFiniteSet(Shifted(A, e)) /\ Cardinality(Shifted(A, e)) = Cardinality(A)
<1> DEFINE B == Shifted(A, e)
           f == [y \in A |-> e + y]
<1>1. f \in [A -> B]
  BY DEF Shifted
<1>2. \A y, z \in A : f[y] = f[z] => y = z
  <2>1. ASSUME NEW y \in A, NEW z \in A, f[y] = f[z] PROVE y = z
    <3>1. e + y = e + z /\ y \in Nat /\ z \in Nat
      BY <2>1
    <3>2. QED
      BY <3>1
  <2>2. QED
    BY <2>1
<1>3. \A b \in B : \E y \in A : f[y] = b
  BY DEF Shifted
<1> HIDE DEF f, B
<1>4. f \in Bijection(A, B)
  BY <1>1, <1>2, <1>3 DEF Bijection, Injection, Surjection, IsInjective
<1>5. ExistsBijection(A, B)
  BY <1>4 DEF ExistsBijection
<1>6. IsFiniteSet(B) /\ Cardinality(B) = Cardinality(A)
  BY <1>5, FS_Bijection
<1>7. QED
  BY <1>6 DEF B

\* q is p without the front of its buffer: no frame starts there that is still to come,
\* and one that was there has been found.
Lossless(p, q) ==
  \E e \in 0 .. Len(p.rest) :
    /\ Behind(p.rest, q.rest, e)
    /\ \A i \in 1 .. e : ~UnderWay(p.rest, Len(p.rest), i)
    /\ Len(q.ids) + Cardinality(Ends(q.rest)) = Len(p.ids) + Cardinality(Ends(p.rest))

LEMMA UnderWayBehind ==
  ASSUME NEW s \in Seq(Token), NEW t \in Seq(Token), NEW e \in Nat, Behind(s, t, e),
         NEW i \in 1 .. Len(t), UnderWay(s, Len(s), e + i)
  PROVE  UnderWay(t, Len(t), i)
<1>1. Len(s) \in Nat /\ Len(t) \in Nat /\ Len(t) = Len(s) - e /\ i \in Nat /\ i >= 1
  BY LenProperties DEF Behind
<1>2. PICK r \in Requests :
        e + i + Len(Encoded(r)) - 1 > Len(s) /\ Matches(s, Len(s), e + i, r)
  BY DEF UnderWay
<1>3. Len(Encoded(r)) \in Nat
  BY EncodedShape, LenProperties
<1>4. ASSUME NEW j \in 1 .. Len(Encoded(r)), i + j - 1 <= Len(t)
      PROVE  t[i + j - 1] = Encoded(r)[j]
  <2>1. /\ i + j - 1 \in 1 .. Len(s) - e /\ e + (i + j - 1) = e + i + j - 1
        /\ e + i + j - 1 <= Len(s)
    BY <1>1, <1>3, <1>4
  <2>2. t[i + j - 1] = s[e + (i + j - 1)]
    BY <2>1 DEF Behind
  <2>3. s[e + i + j - 1] = Encoded(r)[j]
    BY <1>2, <2>1 DEF Matches
  <2>4. QED
    BY <2>1, <2>2, <2>3
<1>5. i + Len(Encoded(r)) - 1 > Len(t)
  BY <1>1, <1>2, <1>3
<1>6. QED
  BY <1>4, <1>5 DEF UnderWay, Matches

LEMMA LosslessTwice ==
  ASSUME NEW p \in Parsing, NEW q \in Parsing, NEW u \in Parsing,
         Lossless(p, q), Lossless(q, u)
  PROVE  Lossless(p, u)
<1>1. PICK e \in 0 .. Len(p.rest) :
        /\ Behind(p.rest, q.rest, e)
        /\ \A i \in 1 .. e : ~UnderWay(p.rest, Len(p.rest), i)
        /\ Len(q.ids) + Cardinality(Ends(q.rest)) = Len(p.ids) + Cardinality(Ends(p.rest))
  BY Zenon DEF Lossless
<1>2. PICK c \in 0 .. Len(q.rest) :
        /\ Behind(q.rest, u.rest, c)
        /\ \A i \in 1 .. c : ~UnderWay(q.rest, Len(q.rest), i)
        /\ Len(u.ids) + Cardinality(Ends(u.rest)) = Len(q.ids) + Cardinality(Ends(q.rest))
  BY Zenon DEF Lossless
<1>3. /\ p.rest \in Seq(Token) /\ q.rest \in Seq(Token) /\ u.rest \in Seq(Token)
      /\ Len(p.rest) \in Nat /\ Len(q.rest) \in Nat /\ Len(u.rest) \in Nat
      /\ e \in Nat /\ c \in Nat
  BY HeadFacts, LenProperties
<1>4. Len(q.rest) = Len(p.rest) - e /\ Len(u.rest) = Len(q.rest) - c
  BY <1>1, <1>2 DEF Behind
<1>5. e + c \in 0 .. Len(p.rest) /\ Len(u.rest) = Len(p.rest) - (e + c)
  BY <1>3, <1>4
<1>6. ASSUME NEW i \in 1 .. Len(p.rest) - (e + c) PROVE u.rest[i] = p.rest[(e + c) + i]
  <2>1. /\ i \in 1 .. Len(q.rest) - c /\ c + i \in 1 .. Len(p.rest) - e
        /\ e + (c + i) = (e + c) + i
    BY <1>3, <1>4
  <2>2. u.rest[i] = q.rest[c + i] /\ q.rest[c + i] = p.rest[e + (c + i)]
    BY <1>1, <1>2, <2>1 DEF Behind
  <2>3. QED
    BY <2>1, <2>2
<1>7. ASSUME NEW i \in 1 .. e + c PROVE ~UnderWay(p.rest, Len(p.rest), i)
  <2>1. CASE i <= e
    <3>1. i \in 1 .. e
      BY <1>3, <2>1
    <3>2. QED
      BY <1>1, <3>1
  <2>2. CASE ~(i <= e)
    <3>1. i - e \in 1 .. c /\ i - e \in 1 .. Len(q.rest) /\ e + (i - e) = i
      BY <1>3, <2>2
    <3>2. ~UnderWay(q.rest, Len(q.rest), i - e)
      BY <1>2, <3>1
    <3>3. ~UnderWay(p.rest, Len(p.rest), e + (i - e))
      BY <1>1, <1>3, <3>1, <3>2, UnderWayBehind
    <3>4. QED
      BY <3>1, <3>3
  <2>3. QED
    BY <2>1, <2>2
<1>8. Behind(p.rest, u.rest, e + c)
  BY <1>5, <1>6 DEF Behind
<1>9. QED
  BY <1>1, <1>2, <1>5, <1>7, <1>8 DEF Lossless

LEMMA DropBehind ==
  ASSUME NEW s \in Seq(Token), NEW n \in 0 .. Len(s)
  PROVE  Drop(s, n) \in Seq(Token) /\ Behind(s, Drop(s, n), n) /\ n \in Nat
BY DropType, LenProperties DEF Behind

\* Where no frame may start, a buffer may be dropped.
LEMMA DropLossless ==
  ASSUME NEW p \in Parsing, NEW e \in 0 .. Len(p.rest),
         \A i \in 1 .. e : ~MayStart(p.rest, Len(p.rest), i)
  PROVE  Lossless(p, [rest |-> Drop(p.rest, e), ids |-> p.ids])
<1> DEFINE s == p.rest
           t == Drop(s, e)
           q == [rest |-> t, ids |-> p.ids]
<1>1. s \in Seq(Token)
  BY HeadFacts
<1> HIDE DEF s
<1>2. t \in Seq(Token) /\ Behind(s, t, e) /\ e \in Nat
  BY <1>1, DropBehind DEF s
<1> HIDE DEF t
<1>3. Ends(s) = Shifted(Ends(t), e) /\ \A i \in 1 .. e : ~UnderWay(s, Len(s), i)
  BY <1>1, <1>2, NothingStarts DEF s
<1>4. Cardinality(Ends(s)) = Cardinality(Ends(t))
  BY <1>2, <1>3, EndsFinite, ShiftedCount
<1>5. q.rest = t /\ q.ids = p.ids
  OBVIOUS
<1> HIDE DEF q
<1>6. Lossless(p, q)
  BY <1>2, <1>3, <1>4, <1>5 DEF Lossless, s
<1>7. QED
  BY <1>6 DEF q, t, s

\* The hunt for a magic drops no place where a frame may start.
LEMMA HuntLossless ==
  ASSUME NEW p \in Parsing
  PROVE  Lossless(p, Returned(p))
<1> DEFINE s == p.rest
<1>1. s \in Seq(Token) /\ Len(s) \in Nat
  BY HeadFacts, LenProperties
<1>2. PICK d \in 0 .. Len(s) :
        Hunted(s) = Drop(s, d) /\ \A i \in 1 .. d : i < Len(s) /\ ~MagicAt(s, i)
  <2> HIDE DEF s
  <2>1. CASE s = << >>
    <3>1. Len(s) = 0 /\ Hunted(s) = Drop(s, 0)
      BY <2>1 DEF Hunted, Drop
    <3>2. QED
      BY <3>1
  <2>2. CASE s # << >>
    <3>1. PICK i \in 1 .. Len(s) :
            Hunted(s) = Drop(s, i - 1) /\ \A j \in 1 .. i - 1 : ~MagicAt(s, j)
      BY <1>1, <2>2, HuntedPlace
    <3>2. i - 1 \in 0 .. Len(s) /\ \A j \in 1 .. i - 1 : j < Len(s)
      BY <1>1
    <3>3. QED
      BY <3>1, <3>2
  <2>3. QED
    BY <2>1, <2>2
<1>3. ASSUME NEW i \in 1 .. d PROVE ~MayStart(s, Len(s), i)
  <2> SUFFICES ASSUME NEW r \in Requests, Matches(s, Len(s), i, r) PROVE FALSE
    BY DEF MayStart
  <2>1. /\ Len(Encoded(r)) \in Nat /\ Len(Encoded(r)) >= 2
        /\ Encoded(r)[1] = Tok("E") /\ Encoded(r)[2] = Tok("K")
    <3>1. Len(Payload[r]) \in Nat /\ Len(Encoded(r)) = Len(Payload[r]) + 4
      BY EncodedShape DEF Overhead
    <3>2. QED
      BY <3>1, EncodedShape
  <2>2. i < Len(s) /\ ~MagicAt(s, i) /\ i \in Nat
    BY <1>2
  <2>3. /\ 1 \in 1 .. Len(Encoded(r)) /\ 2 \in 1 .. Len(Encoded(r))
        /\ i + 1 - 1 <= Len(s) /\ i + 2 - 1 <= Len(s) /\ i + 1 - 1 = i /\ i + 2 - 1 = i + 1
    BY <1>1, <2>1, <2>2
  <2>4. s[i] = Tok("E") /\ s[i + 1] = Tok("K")
    BY <2>1, <2>3 DEF Matches
  <2>5. MAGIC[1] = Tok("E") /\ MAGIC[2] = Tok("K")
    BY DEF MAGIC
  <2>6. QED
    BY <2>2, <2>4, <2>5 DEF MagicAt
<1>4. Returned(p) = [rest |-> Drop(s, d), ids |-> p.ids]
  BY <1>2 DEF Returned
<1>5. QED
  BY <1>3, <1>4, DropLossless

\* A buffer long enough for a header starts with a magic, after the hunt.
LEMMA HuntedMagic ==
  ASSUME NEW s \in Seq(Token), Len(Hunted(s)) >= Overhead
  PROVE  Hunted(s)[1] = Tok("E") /\ Hunted(s)[2] = Tok("K")
<1> DEFINE h == Hunted(s)
<1>1. Len(s) \in Nat
  BY LenProperties
<1>2. s # << >>
  BY DEF Hunted, Overhead
<1>3. PICK i \in 1 .. Len(s) : h = Drop(s, i - 1) /\ (MagicAt(s, i) \/ i = Len(s))
  BY <1>2, HuntedPlace
<1>4. i - 1 \in 0 .. Len(s)
  BY <1>1
<1>5. Len(h) = Len(s) - (i - 1) /\ \A k \in 1 .. Len(s) - (i - 1) : h[k] = s[i - 1 + k]
  BY <1>3, <1>4, DropType
<1> HIDE DEF h
<1>6. Len(h) >= 4
  BY DEF h, Overhead
<1>7. /\ i # Len(s) /\ 1 \in 1 .. Len(s) - (i - 1) /\ 2 \in 1 .. Len(s) - (i - 1)
      /\ i - 1 + 1 = i /\ i - 1 + 2 = i + 1
  BY <1>1, <1>5, <1>6
<1>8. h[1] = s[i] /\ h[2] = s[i + 1] /\ MagicAt(s, i)
  BY <1>3, <1>5, <1>7
<1>9. QED
  BY <1>8 DEF MagicAt, MAGIC, h

\* A header that is in the buffer decides whether a frame starts there.
LEMMA NoFrameHere ==
  ASSUME NEW h \in Seq(Token), Len(h) >= Overhead, h[2] = Tok("K"),
         FalseSync(h) \/ (Len(h) >= Total(h) /\ ~Intact(h))
  PROVE  \A i \in 1 .. 2 : ~MayStart(h, Len(h), i)
<1> SUFFICES ASSUME NEW i \in 1 .. 2, NEW r \in Requests, Matches(h, Len(h), i, r) PROVE FALSE
  BY DEF MayStart
<1> DEFINE n == Len(Encoded(r))
<1>1. /\ r \in Nat /\ Len(Payload[r]) \in Nat /\ n = Len(Payload[r]) + Overhead
      /\ Encoded(r)[1] = Tok("E") /\ Encoded(r)[3] = Header(r, Len(Payload[r]))
  BY EncodedShape
<1>2. n \in Nat /\ n >= 4 /\ Len(h) \in Nat /\ Len(h) >= 4
  BY <1>1, LenProperties DEF Overhead
<1> HIDE DEF n
<1>3. \A j \in 1 .. n : i + j - 1 <= Len(h) => h[i + j - 1] = Encoded(r)[j]
  BY DEF Matches, n
<1>4. CASE i = 2
  <2>1. 1 \in 1 .. n /\ i + 1 - 1 = 2 /\ 2 <= Len(h)
    BY <1>2, <1>4
  <2>2. h[2] = Tok("E")
    BY <1>1, <1>3, <2>1
  <2>3. QED
    BY <2>2 DEF Tok
<1>5. CASE i = 1
  <2>1. \A j \in 1 .. n : j <= Len(h) => h[j] = Encoded(r)[j]
    <3>1. ASSUME NEW j \in 1 .. n, j <= Len(h) PROVE h[j] = Encoded(r)[j]
      <4>1. i + j - 1 = j
        BY <1>2, <1>5
      <4>2. QED
        BY <1>3, <3>1, <4>1
    <3>2. QED
      BY <3>1
  <2>2. 3 \in 1 .. n /\ 3 <= Len(h)
    BY <1>2
  <2>3. h[3] = Header(r, Len(Payload[r]))
    BY <1>1, <2>1, <2>2
  <2>4. h[3].kind = "header" /\ h[3].plen = Len(Payload[r]) /\ h[3].id = r
    BY <2>3 DEF Header
  <2>5. Len(Payload[r]) <= MAX_PAYLOAD /\ MAX_PAYLOAD \in Nat
    BY LinkAssumption
  <2>6. ~FalseSync(h)
    BY <1>1, <2>4, <2>5 DEF FalseSync
  <2>7. Total(h) = n
    BY <1>1, <2>4 DEF Total
  <2>8. n <= Len(h) /\ n \in 1 .. Len(h) /\ ~Intact(h)
    BY <1>2, <2>6, <2>7
  <2>9. FrameAt(h, n, r)
    <3>1. ASSUME NEW j \in 1 .. n PROVE h[n - n + j] = Encoded(r)[j]
      <4>1. n - n + j = j /\ j <= Len(h)
        BY <1>2, <2>8
      <4>2. QED
        BY <2>1, <4>1
    <3>2. n <= n
      BY <1>2
    <3>3. QED
      BY <3>1, <3>2 DEF FrameAt, n
  <2>10. SubSeq(h, n + 1 - n, n) = Encoded(r)
    <3>1. Len(Encoded(r)) <= n
      BY <1>2 DEF n
    <3>2. SubSeq(h, n + 1 - Len(Encoded(r)), n) = Encoded(r)
      BY <2>8, <2>9, <3>1, FrameIs
    <3>3. QED
      BY <3>2 DEF n
  <2>11. n + 1 - n = 1
    BY <1>2
  <2>12. Intact(h)
    BY <2>4, <2>7, <2>10, <2>11 DEF Intact
  <2>13. QED
    BY <2>8, <2>12
<1>6. QED
  BY <1>4, <1>5

\* An intact frame at the front of the buffer is taken, and nothing else.
LEMMA TakeLossless ==
  ASSUME NEW p \in Parsing, Len(p.rest) >= Overhead, Len(p.rest) >= Total(p.rest),
         Intact(p.rest)
  PROVE  Lossless(p, [rest |-> Drop(p.rest, Total(p.rest)),
                      ids |-> Append(p.ids, p.rest[3].id)])
<1> DEFINE h == p.rest
           e == Total(h)
           r0 == h[3].id
           t == Drop(h, e)
           q == [rest |-> t, ids |-> Append(p.ids, r0)]
<1>1. h \in Seq(Token) /\ p.ids \in Seq(Nat)
  BY HeadFacts
<1> HIDE DEF h
<1>2. r0 \in Requests /\ e \in 1 .. Len(h)
  BY <1>1, IntactEnds DEF h
<1>3. SubSeq(h, 1, e) = Encoded(r0)
  BY DEF Intact, h
<1>4. Len(h) \in Nat
  BY <1>1, LenProperties
<1> HIDE DEF e, r0
<1>5. Len(Encoded(r0)) = e
  <2>1. \A i \in 1 .. e : h[i] \in Token
    BY <1>1, <1>2, <1>4, ElementOfSeq
  <2>2. Len(SubSeq(h, 1, e)) = IF 1 <= e THEN e - 1 + 1 ELSE 0
    BY <1>2, <2>1, SubSeqProperties
  <2>3. QED
    BY <1>2, <1>3, <2>2
<1>6. FrameAt(h, e, r0)
  <2>1. Len(Encoded(r0)) <= e /\ e + 1 - Len(Encoded(r0)) = 1
    BY <1>2, <1>5
  <2>2. SubSeq(h, e + 1 - Len(Encoded(r0)), e) = Encoded(r0)
    BY <1>3, <2>1
  <2>3. QED
    BY <1>1, <1>2, <2>1, <2>2, FrameIs
<1>7. t \in Seq(Token) /\ Behind(h, t, e) /\ e \in Nat
  <2>1. e \in 0 .. Len(h)
    BY <1>2, <1>4
  <2>2. QED
    BY <1>1, <2>1, DropBehind
<1>8. \A i \in 1 .. e - Len(Encoded(r0)) : ~MayStart(h, Len(h), i)
  BY <1>2, <1>5
<1> HIDE DEF t
<1>9. /\ Ends(h) = Shifted(Ends(t), e) \cup {e} /\ e \notin Shifted(Ends(t), e)
      /\ \A i \in 1 .. e : ~UnderWay(h, Len(h), i)
  BY <1>1, <1>2, <1>6, <1>7, <1>8, FrameTaken
<1>10. /\ IsFiniteSet(Shifted(Ends(t), e))
       /\ Cardinality(Shifted(Ends(t), e)) = Cardinality(Ends(t))
       /\ Cardinality(Ends(t)) \in Nat
  BY <1>7, EndsFinite, ShiftedCount
<1>11. Cardinality(Ends(h)) = Cardinality(Ends(t)) + 1
  <2> DEFINE A == Shifted(Ends(t), e)
  <2>1. IsFiniteSet(A) /\ Ends(h) = A \cup {e} /\ e \notin A
    BY <1>9, <1>10
  <2>2. Cardinality(A \cup {e}) = IF e \in A THEN Cardinality(A) ELSE Cardinality(A) + 1
    <3> HIDE DEF A
    <3>1. QED
      BY <2>1, FS_AddElement
  <2>3. QED
    BY <1>10, <2>1, <2>2
<1>12. q.rest = t /\ Len(q.ids) = Len(p.ids) + 1 /\ Len(p.ids) \in Nat
  <2>1. r0 \in Nat
    BY <1>2, EncodedShape
  <2>2. QED
    BY <1>1, <2>1, LenProperties
<1> HIDE DEF q
<1>13. e \in 0 .. Len(h) /\ Len(q.ids) + Cardinality(Ends(t)) = Len(p.ids) + Cardinality(Ends(h))
  BY <1>2, <1>4, <1>10, <1>11, <1>12
<1>14. Lossless(p, q)
  BY <1>7, <1>9, <1>12, <1>13 DEF Lossless, h
<1>15. QED
  BY <1>14 DEF q, t, e, r0, h

LEMMA RoundLossless ==
  ASSUME NEW p \in Parsing, ~Returns(p)
  PROVE  Lossless(p, Next(p))
<1> DEFINE h == Hunted(p.rest)
           u == Returned(p)
<1>1. p.rest \in Seq(Token) /\ h \in Seq(Token) /\ Len(h) \in Nat
  BY HeadFacts
<1>2. u \in Parsing /\ Lossless(p, u)
  BY ReturnedSheds, HuntLossless
<1>3. u.rest = h /\ u.ids = p.ids
  BY DEF Returned
<1>4. ~(Len(h) < Overhead) /\ (FalseSync(h) \/ ~(Len(h) < Total(h)))
  BY Zenon DEF Returns
<1>5. Next(p) = IF Skips(h) THEN [rest |-> Drop(h, 2), ids |-> p.ids]
                ELSE [rest |-> Drop(h, Total(h)), ids |-> Append(p.ids, h[3].id)]
  BY Zenon DEF Next
<1>6. Len(h) >= Overhead => h[2] = Tok("K")
  BY <1>1, HuntedMagic
<1> HIDE DEF h, u
<1>7. Len(h) >= Overhead /\ Total(h) \in Nat /\ (FalseSync(h) \/ Len(h) >= Total(h))
  <2>1. Len(h) >= Overhead
    BY <1>1, <1>4 DEF Overhead
  <2>2. Total(h) \in Nat
    BY <1>1, <2>1, HeaderFacts
  <2>3. QED
    BY <1>1, <1>4, <2>1, <2>2
<1>8. Lossless(u, Next(p))
  <2>1. CASE Skips(h)
    <3>1. FalseSync(h) \/ (Len(h) >= Total(h) /\ ~Intact(h))
      BY <1>7, <2>1 DEF Skips
    <3>2. \A i \in 1 .. 2 : ~MayStart(h, Len(h), i)
      BY <1>1, <1>6, <1>7, <3>1, NoFrameHere
    <3>3. 2 \in 0 .. Len(u.rest)
      BY <1>1, <1>3, <1>7 DEF Overhead
    <3>4. Lossless(u, [rest |-> Drop(u.rest, 2), ids |-> u.ids])
      BY <1>2, <1>3, <3>2, <3>3, DropLossless
    <3>5. QED
      BY <1>3, <1>5, <2>1, <3>4
  <2>2. CASE ~Skips(h)
    <3>1. Intact(h) /\ Len(h) >= Total(h)
      BY <1>7, <2>2 DEF Skips
    <3>2. Lossless(u, [rest |-> Drop(u.rest, Total(u.rest)),
                       ids |-> Append(u.ids, u.rest[3].id)])
      BY <1>2, <1>3, <1>7, <3>1, TakeLossless
    <3>3. QED
      BY <1>3, <1>5, <2>2, <3>2
  <2>3. QED
    BY <2>1, <2>2
<1>9. QED
  BY <1>2, <1>8, NextType, LosslessTwice

LEMMA ScanLossless == \A p \in Parsing : Lossless(p, Scanned[p])
<1> DEFINE G == {c \in Parsing \X Parsing : Lossless(c[1], c[2])}
<1>1. ASSUME NEW p \in Parsing, Returns(p) PROVE <<p, Returned(p)>> \in G
  BY ReturnedSheds, HuntLossless
<1>2. ASSUME NEW p \in Parsing, ~Returns(p), <<Next(p), Scanned[Next(p)]>> \in G
      PROVE  <<p, Scanned[Next(p)]>> \in G
  <2>1. Next(p) \in Parsing /\ Scanned[Next(p)] \in Parsing
    BY <1>2, NextType, ScanRound
  <2>2. Lossless(p, Next(p)) /\ Lossless(Next(p), Scanned[Next(p)])
    BY <1>2, RoundLossless
  <2>3. Lossless(p, Scanned[Next(p)])
    BY <2>1, <2>2, LosslessTwice
  <2>4. QED
    BY <2>1, <2>3
<1> HIDE DEF G
<1>3. \A p \in Parsing : <<p, Scanned[p]>> \in G
  BY <1>1, <1>2, ScanInduction
<1>4. QED
  BY <1>3 DEF G

(***************************************************************************)
(* The buffer is what the parser still needs of the stream: after m tokens *)
(* of it no frame is under way that began before the buffer.               *)
(***************************************************************************)
Tracks(stream, m, s) ==
  \E o \in 0 .. m :
    /\ Len(s) = m - o /\ \A i \in 1 .. m - o : s[i] = stream[o + i]
    /\ \A i \in 1 .. o : ~UnderWay(stream, m, i)

LEMMA TracksOn ==
  ASSUME NEW stream \in Seq(Token), NEW m \in 0 .. Len(stream),
         NEW p \in Parsing, NEW q \in Parsing, Tracks(stream, m, p.rest), Lossless(p, q)
  PROVE  Tracks(stream, m, q.rest)
<1>1. PICK o \in 0 .. m :
        /\ Len(p.rest) = m - o /\ \A i \in 1 .. m - o : p.rest[i] = stream[o + i]
        /\ \A i \in 1 .. o : ~UnderWay(stream, m, i)
  BY Zenon DEF Tracks
<1>2. PICK e \in 0 .. Len(p.rest) :
        /\ Behind(p.rest, q.rest, e)
        /\ \A i \in 1 .. e : ~UnderWay(p.rest, Len(p.rest), i)
  BY Zenon DEF Lossless
<1>3. m \in Nat /\ o \in Nat /\ e \in Nat /\ o <= m /\ e <= m - o
  BY <1>1, LenProperties
<1>4. o + e \in 0 .. m /\ Len(q.rest) = m - (o + e)
  BY <1>1, <1>2, <1>3 DEF Behind
<1>5. ASSUME NEW i \in 1 .. m - (o + e) PROVE q.rest[i] = stream[(o + e) + i]
  <2>1. /\ i \in 1 .. Len(p.rest) - e /\ e + i \in 1 .. m - o
        /\ o + (e + i) = (o + e) + i
    BY <1>1, <1>3
  <2>2. q.rest[i] = p.rest[e + i] /\ p.rest[e + i] = stream[o + (e + i)]
    BY <1>1, <1>2, <2>1 DEF Behind
  <2>3. QED
    BY <2>1, <2>2
<1>6. ASSUME NEW i \in 1 .. o + e PROVE ~UnderWay(stream, m, i)
  <2> SUFFICES ASSUME ~(i <= o), UnderWay(stream, m, i) PROVE FALSE
    BY <1>1, <1>3
  <2> DEFINE k == i - o
  <2>1. k \in 1 .. e /\ k \in Nat /\ i = o + k /\ i \in Nat
    BY <1>3
  <2>2. PICK r \in Requests : i + Len(Encoded(r)) - 1 > m /\ Matches(stream, m, i, r)
    BY DEF UnderWay
  <2>3. Len(Encoded(r)) \in Nat
    BY EncodedShape, LenProperties
  <2> HIDE DEF k
  <2>4. ASSUME NEW j \in 1 .. Len(Encoded(r)), k + j - 1 <= Len(p.rest)
        PROVE  p.rest[k + j - 1] = Encoded(r)[j]
    <3>1. k + j - 1 \in 1 .. m - o /\ i + j - 1 <= m /\ o + (k + j - 1) = i + j - 1
      BY <1>1, <1>3, <2>1, <2>3, <2>4
    <3>2. stream[i + j - 1] = Encoded(r)[j]
      BY <2>2, <3>1 DEF Matches
    <3>3. p.rest[k + j - 1] = stream[o + (k + j - 1)]
      BY <1>1, <3>1
    <3>4. QED
      BY <3>1, <3>2, <3>3
  <2>5. k + Len(Encoded(r)) - 1 > Len(p.rest)
    BY <1>1, <1>3, <2>1, <2>2, <2>3
  <2>6. UnderWay(p.rest, Len(p.rest), k)
    BY <2>4, <2>5 DEF UnderWay, Matches
  <2>7. QED
    BY <1>2, <2>1, <2>6
<1>7. QED
  BY <1>4, <1>5, <1>6 DEF Tracks

\* The next token of the stream completes a frame in the buffer if it does in the stream.
Longer(stream, m, s, t) == t = Append(s, stream[m + 1])

Counted(stream, m, s, t) ==
  /\ Tracks(stream, m + 1, t)
  /\ Cardinality(Ends(t)) =
       Cardinality(Ends(s)) + (IF m + 1 \in Ends(stream) THEN 1 ELSE 0)

LEMMA TracksToken ==
  ASSUME NEW stream \in Seq(Token), NEW m \in Nat, m < Len(stream),
         NEW s \in Seq(Token), Tracks(stream, m, s),
         NEW t \in Seq(Token), Longer(stream, m, s, t)
  PROVE  Counted(stream, m, s, t)
<1> SUFFICES /\ Tracks(stream, m + 1, t)
             /\ Cardinality(Ends(t)) =
                  Cardinality(Ends(s)) + (IF m + 1 \in Ends(stream) THEN 1 ELSE 0)
  BY DEF Counted
<1>1. PICK o \in 0 .. m :
        /\ Len(s) = m - o /\ \A i \in 1 .. m - o : s[i] = stream[o + i]
        /\ \A i \in 1 .. o : ~UnderWay(stream, m, i)
  BY Zenon DEF Tracks
<1> DEFINE n == Len(s)
<1>2. n \in Nat /\ o \in Nat /\ m = o + n /\ Len(stream) \in Nat /\ m + 1 \in 1 .. Len(stream)
  BY <1>1, LenProperties
<1>3. Len(t) = n + 1 /\ t[n + 1] = stream[m + 1] /\ \A i \in 1 .. n : t[i] = s[i]
  <2>1. stream[m + 1] \in Token /\ t = Append(s, stream[m + 1])
    BY <1>2, ElementOfSeq DEF Longer
  <2>2. QED
    BY <1>2, <2>1
<1> HIDE DEF n
<1>4. \A i \in 1 .. n + 1 : t[i] = stream[o + i]
  <2>1. ASSUME NEW i \in 1 .. n + 1 PROVE t[i] = stream[o + i]
    <3>1. CASE i = n + 1
      BY <1>2, <1>3, <3>1
    <3>2. CASE i # n + 1
      <4>1. i \in 1 .. n /\ i \in 1 .. m - o
        BY <1>2, <3>2
      <4>2. QED
        BY <1>1, <1>3, <4>1
    <3>3. QED
      BY <3>1, <3>2
  <2>2. QED
    BY <2>1
<1>5. ASSUME NEW i \in 1 .. o PROVE ~UnderWay(stream, m + 1, i)
  <2> SUFFICES ASSUME UnderWay(stream, m + 1, i) PROVE FALSE
    OBVIOUS
  <2>1. PICK r \in Requests : i + Len(Encoded(r)) - 1 > m + 1 /\ Matches(stream, m + 1, i, r)
    BY DEF UnderWay
  <2>2. Len(Encoded(r)) \in Nat
    BY EncodedShape, LenProperties
  <2>3. i + Len(Encoded(r)) - 1 > m
    BY <2>1, <2>2, <1>2
  <2>4. \A j \in 1 .. Len(Encoded(r)) : i + j - 1 <= m => i + j - 1 <= m + 1
    BY <1>2, <2>2
  <2>5. Matches(stream, m, i, r)
    BY <2>1, <2>4 DEF Matches
  <2>6. QED
    BY <1>1, <2>3, <2>5 DEF UnderWay
<1>6. Tracks(stream, m + 1, t)
  <2>1. o \in 0 .. m + 1
    BY <1>2
  <2>2. m + 1 - o = n + 1
    BY <1>2
  <2>3. Len(t) = m + 1 - o /\ \A i \in 1 .. m + 1 - o : t[i] = stream[o + i]
    BY <1>3, <1>4, <2>2
  <2>4. QED
    <3>1. \A i \in 1 .. o : ~UnderWay(stream, m + 1, i)
      BY <1>5
    <3>2. QED
      BY <2>1, <2>3, <3>1 DEF Tracks
<1>7. ASSUME NEW e \in 1 .. n, NEW r \in Requests PROVE FrameAt(t, e, r) <=> FrameAt(s, e, r)
  <2> DEFINE k == Len(Encoded(r))
  <2>1. k \in Nat
    BY EncodedShape, LenProperties
  <2> SUFFICES ASSUME k <= e PROVE FrameAt(t, e, r) <=> FrameAt(s, e, r)
    BY DEF FrameAt
  <2>2. \A j \in 1 .. k : e - k + j \in 1 .. n
    BY <1>2, <2>1
  <2>3. \A j \in 1 .. k : t[e - k + j] = s[e - k + j]
    BY <1>3, <2>2
  <2>4. QED
    BY <2>3 DEF FrameAt
<1>8. ASSUME NEW r \in Requests PROVE FrameAt(t, n + 1, r) <=> FrameAt(stream, m + 1, r)
  <2> DEFINE k == Len(Encoded(r))
  <2>1. k \in Nat /\ k >= 1
    <3>1. Len(Payload[r]) \in Nat /\ k = Len(Payload[r]) + 4
      BY EncodedShape DEF Overhead
    <3>2. QED
      BY <3>1
  <2> DEFINE x == n + 1
  <2>2. x \in Nat /\ x = n + 1
    BY <1>2
  <2> HIDE DEF x
  <2>3. ASSUME k <= x PROVE \A j \in 1 .. k : t[x - k + j] = stream[m + 1 - k + j]
    <3>1. ASSUME NEW j \in 1 .. k PROVE t[x - k + j] = stream[m + 1 - k + j]
      <4>1. x - k + j \in 1 .. x /\ o + (x - k + j) = m + 1 - k + j
        BY <1>2, <2>1, <2>3, <2>2
      <4>2. QED
        BY <1>4, <2>2, <4>1
    <3>2. QED
      BY <3>1
  <2>4. ASSUME FrameAt(t, x, r) PROVE FrameAt(stream, m + 1, r)
    <3>1. k <= x /\ k <= m + 1
      BY <1>2, <2>1, <2>4, <2>2 DEF FrameAt
    <3>2. \A j \in 1 .. k : t[x - k + j] = stream[m + 1 - k + j]
      BY <2>3, <3>1
    <3>3. \A j \in 1 .. k : t[x - k + j] = Encoded(r)[j]
      BY <1>2, <2>1, <2>4, <2>2 DEF FrameAt
    <3>4. \A j \in 1 .. k : stream[m + 1 - k + j] = Encoded(r)[j]
      BY <3>2, <3>3
    <3>5. QED
      BY <3>1, <3>4 DEF FrameAt
  <2>5. ASSUME FrameAt(stream, m + 1, r) PROVE FrameAt(t, x, r)
    <3> DEFINE i == m + 1 - k + 1
    <3>1. Matches(stream, m, i, r) /\ i \in 1 .. m + 1
      BY <1>2, <2>5, FrameMatches
    <3>2. i + k - 1 > m
      BY <1>2, <2>1
    <3>3. UnderWay(stream, m, i)
      BY <3>1, <3>2 DEF UnderWay
    <3>4. ~(i \in 1 .. o)
      BY <1>1, <3>3
    <3>5. k <= x
      BY <1>2, <2>1, <2>2, <3>1, <3>4
    <3>6. \A j \in 1 .. k : t[x - k + j] = stream[m + 1 - k + j]
      BY <2>3, <3>5
    <3>7. \A j \in 1 .. k : stream[m + 1 - k + j] = Encoded(r)[j]
      BY <2>5 DEF FrameAt
    <3>8. \A j \in 1 .. k : t[x - k + j] = Encoded(r)[j]
      BY <3>6, <3>7
    <3>9. QED
      BY <3>5, <3>8 DEF FrameAt
  <2>6. QED
    BY <2>4, <2>5 DEF x
<1>9. /\ \A e \in 1 .. n : e \in Ends(t) <=> e \in Ends(s)
      /\ n + 1 \in Ends(t) <=> m + 1 \in Ends(stream)
  <2>1. \A e \in 1 .. n : e \in 1 .. Len(t) /\ e \in 1 .. Len(s)
    BY <1>2, <1>3 DEF n
  <2>2. n + 1 \in 1 .. Len(t)
    BY <1>2, <1>3
  <2>3. \A e \in 1 .. n : e \in Ends(t) <=> e \in Ends(s)
    <3>1. ASSUME NEW e \in 1 .. n PROVE e \in Ends(t) <=> e \in Ends(s)
      <4>1. e \in Ends(t) <=> \E r \in Requests : FrameAt(t, e, r)
        BY <2>1, EndsAre
      <4>2. e \in Ends(s) <=> \E r \in Requests : FrameAt(s, e, r)
        BY <2>1, EndsAre
      <4>3. QED
        BY <1>7, <4>1, <4>2
    <3>2. QED
      BY <3>1
  <2>4. n + 1 \in Ends(t) <=> m + 1 \in Ends(stream)
    BY <1>2, <1>8, <2>2, EndsAre
  <2>5. QED
    BY <2>3, <2>4
<1>10. Ends(s) \subseteq 1 .. n /\ Ends(t) \subseteq 1 .. n + 1
  BY <1>3, EndsFinite DEF n
<1>11. n + 1 \notin Ends(s) /\ IsFiniteSet(Ends(s)) /\ Cardinality(Ends(s)) \in Nat
  BY <1>2, <1>10, EndsFinite
<1>12. CASE m + 1 \in Ends(stream)
  <2>1. Ends(t) = Ends(s) \cup {n + 1}
    <3>1. \A e \in 1 .. n + 1 : e = n + 1 \/ e \in 1 .. n
      BY <1>2
    <3>2. \A e \in 1 .. n : e \in 1 .. n + 1
      BY <1>2
    <3>3. QED
      BY <1>9, <1>10, <1>12, <3>1, <3>2
  <2>2. Cardinality(Ends(s) \cup {n + 1}) =
          IF n + 1 \in Ends(s) THEN Cardinality(Ends(s)) ELSE Cardinality(Ends(s)) + 1
    BY <1>11, FS_AddElement
  <2>3. QED
    BY <1>6, <1>11, <1>12, <2>1, <2>2
<1>13. CASE m + 1 \notin Ends(stream)
  <2>1. Ends(t) = Ends(s)
    <3>1. \A e \in 1 .. n + 1 : e = n + 1 \/ e \in 1 .. n
      BY <1>2
    <3>2. QED
      BY <1>9, <1>10, <1>13, <3>1
  <2>2. QED
    BY <1>6, <1>11, <1>13, <2>1
<1>14. QED
  BY <1>12, <1>13

\* The frames that end in a stretch of a stream.
Between(stream, a, m) == {e \in Ends(stream) : a < e /\ e <= m}

LEMMA BetweenNext ==
  ASSUME NEW stream \in Seq(Token), NEW a \in Nat, NEW m \in Nat, a <= m
  PROVE  /\ Cardinality(Between(stream, a, m)) \in Nat
         /\ Cardinality(Between(stream, a, m + 1)) =
              Cardinality(Between(stream, a, m)) + (IF m + 1 \in Ends(stream) THEN 1 ELSE 0)
<1> DEFINE B == Between(stream, a, m)
<1>1. Ends(stream) \subseteq Nat /\ IsFiniteSet(Ends(stream))
  BY EndsFinite
<1>2. B \subseteq Ends(stream)
  BY DEF Between
<1>3. IsFiniteSet(B)
  BY <1>1, <1>2, FS_Subset
<1>4. m + 1 \notin B
  BY DEF Between
<1>5. Between(stream, a, m + 1) = IF m + 1 \in Ends(stream) THEN B \cup {m + 1} ELSE B
  BY <1>1 DEF Between
<1> HIDE DEF B
<1>6. Cardinality(B) \in Nat
  BY <1>3, FS_CardinalityType
<1>7. Cardinality(B \cup {m + 1}) = IF m + 1 \in B THEN Cardinality(B) ELSE Cardinality(B) + 1
  BY <1>3, FS_AddElement
<1>8. QED
  BY <1>4, <1>5, <1>6, <1>7 DEF B

LEMMA FedTracks ==
  ASSUME NEW stream \in Seq(Token), NEW m \in Nat, m < Len(stream),
         NEW p \in Parsing, Len(p.rest) < Capacity, Tracks(stream, m, p.rest)
  PROVE  LET q == Fed(p, stream[m + 1])
         IN  /\ q \in Parsing /\ Len(q.rest) < Capacity /\ Tracks(stream, m + 1, q.rest)
             /\ Len(q.ids) + Cardinality(Ends(q.rest)) =
                  Len(p.ids) + Cardinality(Ends(p.rest))
                    + (IF m + 1 \in Ends(stream) THEN 1 ELSE 0)
<1> DEFINE token == stream[m + 1]
           f == Fuller(p, token)
           q == Fed(p, token)
<1>1. p.rest \in Seq(Token) /\ p.ids \in Seq(Nat) /\ Len(p.rest) \in Nat /\ Len(stream) \in Nat
  BY HeadFacts, LenProperties
<1>2. m + 1 \in 0 .. Len(stream) /\ token \in Token
  <2>1. m + 1 \in 1 .. Len(stream)
    BY <1>1
  <2>2. QED
    BY <2>1, ElementOfSeq
<1>3. f \in Parsing /\ q = Scanned[f] /\ q \in Parsing
  <2> HIDE DEF token
  <2>1. QED
    BY <1>2, FedType
<1>4. f.rest = Append(p.rest, token) /\ f.ids = p.ids
  <2>1. Len(p.rest) # Capacity
    BY <1>1, LinkAssumption DEF Capacity, Overhead
  <2>2. QED
    BY <2>1 DEF Fuller
<1> HIDE DEF f, q
<1>5. f.rest \in Seq(Token)
  BY <1>3, HeadFacts
<1>6. /\ Tracks(stream, m + 1, f.rest)
      /\ Cardinality(Ends(f.rest)) =
           Cardinality(Ends(p.rest)) + (IF m + 1 \in Ends(stream) THEN 1 ELSE 0)
  <2> DEFINE s == p.rest
             t == f.rest
  <2>1. /\ s \in Seq(Token) /\ t \in Seq(Token) /\ t = Append(s, stream[m + 1])
        /\ Tracks(stream, m, s)
    BY <1>1, <1>4, <1>5
  <2> HIDE DEF s, t, token
  <2>2. /\ Tracks(stream, m + 1, t)
        /\ Cardinality(Ends(t)) =
             Cardinality(Ends(s)) + (IF m + 1 \in Ends(stream) THEN 1 ELSE 0)
    <3>1. Longer(stream, m, s, t)
      BY <2>1 DEF Longer
    <3>2. Counted(stream, m, s, t)
      BY <2>1, <3>1, TracksToken
    <3>3. QED
      BY <3>2 DEF Counted
  <2>3. QED
    BY <2>2 DEF s, t
<1>7. Lossless(f, q)
  BY <1>3, ScanLossless
<1>8. Tracks(stream, m + 1, q.rest)
  BY <1>2, <1>3, <1>6, <1>7, TracksOn
<1>9. Len(q.ids) + Cardinality(Ends(q.rest)) = Len(f.ids) + Cardinality(Ends(f.rest))
  BY <1>7 DEF Lossless
<1>10. Len(q.rest) < Capacity
  BY <1>3, ScanLeavesRoom
<1>11. Len(p.ids) \in Nat /\ Cardinality(Ends(p.rest)) \in Nat
  BY <1>1, EndsFinite, LenProperties
<1>12. Len(q.ids) + Cardinality(Ends(q.rest)) =
         Len(p.ids) + Cardinality(Ends(p.rest)) + (IF m + 1 \in Ends(stream) THEN 1 ELSE 0)
  BY <1>4, <1>6, <1>9, <1>11
<1>13. QED
  BY <1>3, <1>8, <1>10, <1>12 DEF q, token

\* A read's frames are those that end in it, but for those that wait, before and after.
LEMMA FedAllCounts ==
  ASSUME NEW stream \in Seq(Token), NEW s \in Seq(Token), NEW a \in Nat,
         Len(stream) = a + Len(s), \A k \in 1 .. Len(s) : s[k] = stream[a + k],
         NEW b \in Parsing, Len(b.rest) < Capacity, Tracks(stream, a, b.rest)
  PROVE  /\ Tracks(stream, Len(stream), FedAll(b, s).rest)
         /\ Len(FedAll(b, s).ids) + Cardinality(Ends(FedAll(b, s).rest)) =
              Len(b.ids) + Cardinality(Ends(b.rest))
                + Cardinality(Between(stream, a, Len(stream)))
<1>1. PICK p \in [0 .. Len(s) -> Parsing] :
        /\ p[0] = b /\ FedAll(b, s) = p[Len(s)]
        /\ \A k \in 1 .. Len(s) : p[k] = Fed(p[k - 1], s[k])
  BY FedSteps
<1>2. Len(s) \in Nat /\ Len(stream) \in Nat
  BY LenProperties
<1> DEFINE Load(q) == Len(q.ids) + Cardinality(Ends(q.rest))
           Fits(k) ==
             /\ Len(p[k].rest) < Capacity /\ Tracks(stream, a + k, p[k].rest)
             /\ Load(p[k]) = Load(b) + Cardinality(Between(stream, a, a + k))
           S == {k \in Nat : k <= Len(s) => Fits(k)}
<1>3. Load(b) \in Nat
  BY HeadFacts, LenProperties, EndsFinite
<1>4. 0 \in S
  <2>1. Between(stream, a, a) = {}
    <3>1. \A e \in Ends(stream) : ~(a < e /\ e <= a)
      BY EndsFinite
    <3>2. QED
      BY <3>1 DEF Between
  <2>2. Cardinality(Between(stream, a, a)) = 0
    BY <2>1, FS_EmptySet
  <2>3. Load(b) = Load(b) + Cardinality(Between(stream, a, a)) /\ a + 0 = a
    <3> HIDE DEF Load
    <3>1. QED
      BY <1>3, <2>2
  <2> HIDE DEF Load
  <2>4. Fits(0)
    BY <1>1, <2>3
  <2> HIDE DEF Fits
  <2>5. QED
    BY <2>4
<1>5. ASSUME NEW k \in Nat, k \in S PROVE k + 1 \in S
  <2> SUFFICES ASSUME k + 1 <= Len(s) PROVE Fits(k + 1)
    OBVIOUS
  <2>1. /\ k + 1 \in 1 .. Len(s) /\ k \in 0 .. Len(s) /\ k <= Len(s) /\ (k + 1) - 1 = k
        /\ a + k \in Nat /\ a + k < Len(stream) /\ a <= a + k /\ a + (k + 1) = (a + k) + 1
    BY <1>2
  <2>2. Fits(k) /\ p[k] \in Parsing
    BY <1>5, <2>1
  <2>3. p[k + 1] = Fed(p[k], stream[(a + k) + 1])
    BY <1>1, <2>1
  <2> DEFINE m == a + k
             q == p[k + 1]
  <2>4. /\ Len(q.rest) < Capacity /\ Tracks(stream, m + 1, q.rest)
        /\ Load(q) = Load(p[k]) + (IF m + 1 \in Ends(stream) THEN 1 ELSE 0)
    <3>1. m \in Nat /\ m < Len(stream) /\ Tracks(stream, m, p[k].rest)
          /\ Len(p[k].rest) < Capacity /\ q = Fed(p[k], stream[m + 1])
      BY <2>1, <2>2, <2>3
    <3> HIDE DEF m, q
    <3>2. /\ Len(q.rest) < Capacity /\ Tracks(stream, m + 1, q.rest)
          /\ Len(q.ids) + Cardinality(Ends(q.rest)) =
               Len(p[k].ids) + Cardinality(Ends(p[k].rest))
                 + (IF m + 1 \in Ends(stream) THEN 1 ELSE 0)
      BY <2>2, <3>1, FedTracks
    <3>3. QED
      BY <3>2
  <2>5. /\ Cardinality(Between(stream, a, m)) \in Nat
        /\ Cardinality(Between(stream, a, m + 1)) =
             Cardinality(Between(stream, a, m)) + (IF m + 1 \in Ends(stream) THEN 1 ELSE 0)
    <3> HIDE DEF m
    <3>1. m \in Nat /\ a <= m
      BY <2>1 DEF m
    <3>2. QED
      BY <3>1, BetweenNext
  <2>6. Load(p[k]) = Load(b) + Cardinality(Between(stream, a, m))
    BY <2>2
  <2>7. a + (k + 1) = m + 1
    BY <2>1
  <2> HIDE DEF Load, m, q
  <2>8. Load(q) = Load(b) + Cardinality(Between(stream, a, m + 1))
    BY <1>3, <2>4, <2>5, <2>6
  <2>9. QED
    BY <2>4, <2>7, <2>8 DEF q
<1> HIDE DEF S
<1>6. \A k \in Nat : k \in S
  BY <1>4, <1>5, NatAll
<1>7. Fits(Len(s))
  <2>1. Len(s) \in S /\ Len(s) <= Len(s)
    BY <1>2, <1>6
  <2> HIDE DEF Fits
  <2>2. QED
    BY <2>1 DEF S
<1>8. QED
  BY <1>1, <1>7

(***************************************************************************)
(* The parser is where the stream is, as far as the history remembers it.  *)
(***************************************************************************)
TrackInv ==
  /\ RoomInv
  /\ recent \in Seq(Token) /\ packet \in Seq(Token)
  /\ Tracks(recent \o packet, Len(recent \o packet), buf)

\* A stretch of the stream that is no shorter than a full buffer is enough to tell.
LEMMA RecentEnough ==
  ASSUME NEW s \in Seq(Token), NEW b \in Seq(Token), Len(b) < Capacity, Tracks(s, Len(s), b)
  PROVE  /\ LastOf(s, Capacity) \in Seq(Token)
         /\ Tracks(LastOf(s, Capacity), Len(LastOf(s, Capacity)), b)
<1>1. Len(s) \in Nat /\ Len(b) \in Nat /\ Capacity \in Nat /\ Capacity >= 1
  BY LenProperties, LinkAssumption DEF Capacity, Overhead
<1>2. CASE Len(s) <= Capacity
  BY <1>2 DEF LastOf
<1>3. CASE ~(Len(s) <= Capacity)
  <2> DEFINE c == Len(s) - Capacity
             t == Drop(s, c)
  <2>1. LastOf(s, Capacity) = t
    BY <1>3 DEF LastOf
  <2>2. c \in 0 .. Len(s) /\ c \in Nat /\ Len(s) - c = Capacity
    BY <1>1, <1>3
  <2> HIDE DEF c
  <2>3. t \in Seq(Token) /\ Len(t) = Capacity /\ \A i \in 1 .. Capacity : t[i] = s[c + i]
    BY <2>2, DropType
  <2> HIDE DEF t
  <2>4. PICK o \in 0 .. Len(s) :
          /\ Len(b) = Len(s) - o /\ \A i \in 1 .. Len(s) - o : b[i] = s[o + i]
          /\ \A i \in 1 .. o : ~UnderWay(s, Len(s), i)
    BY Zenon DEF Tracks
  <2>5. o - c \in 0 .. Capacity /\ Len(b) = Capacity - (o - c) /\ o \in Nat
    BY <1>1, <2>2, <2>4
  <2>6. ASSUME NEW i \in 1 .. Capacity - (o - c) PROVE b[i] = t[(o - c) + i]
    <3>1. /\ i \in 1 .. Len(s) - o /\ (o - c) + i \in 1 .. Capacity
          /\ c + ((o - c) + i) = o + i
      BY <1>1, <2>2, <2>5
    <3>2. b[i] = s[o + i] /\ t[(o - c) + i] = s[c + ((o - c) + i)]
      BY <2>3, <2>4, <3>1
    <3>3. QED
      BY <3>1, <3>2
  <2>7. ASSUME NEW i \in 1 .. o - c PROVE ~UnderWay(t, Capacity, i)
    <3> SUFFICES ASSUME UnderWay(t, Capacity, i) PROVE FALSE
      OBVIOUS
    <3>1. PICK r \in Requests : i + Len(Encoded(r)) - 1 > Capacity /\ Matches(t, Capacity, i, r)
      BY DEF UnderWay
    <3>2. Len(Encoded(r)) \in Nat
      BY EncodedShape, LenProperties
    <3>3. ASSUME NEW j \in 1 .. Len(Encoded(r)), (c + i) + j - 1 <= Len(s)
          PROVE  s[(c + i) + j - 1] = Encoded(r)[j]
      <4>1. /\ i + j - 1 \in 1 .. Capacity /\ i + j - 1 <= Capacity
            /\ c + (i + j - 1) = (c + i) + j - 1
        BY <1>1, <2>2, <2>5, <3>2, <3>3
      <4>2. t[i + j - 1] = Encoded(r)[j] /\ t[i + j - 1] = s[c + (i + j - 1)]
        BY <2>3, <3>1, <4>1 DEF Matches
      <4>3. QED
        BY <4>1, <4>2
    <3>4. (c + i) + Len(Encoded(r)) - 1 > Len(s) /\ c + i \in 1 .. o
      BY <1>1, <2>2, <2>5, <3>1, <3>2
    <3>5. UnderWay(s, Len(s), c + i)
      BY <3>3, <3>4 DEF UnderWay, Matches
    <3>6. QED
      BY <2>4, <3>4, <3>5
  <2>8. Tracks(t, Capacity, b)
    BY <2>5, <2>6, <2>7 DEF Tracks
  <2>9. QED
    BY <2>1, <2>3, <2>8
<1>4. QED
  BY <1>2, <1>3

\* What comes after place m of a stream is not looked at.
LEMMA TracksPrefix ==
  ASSUME NEW s \in Seq(Token), NEW t \in Seq(Token), NEW b, Tracks(s, Len(s), b)
  PROVE  Tracks(s \o t, Len(s), b)
<1> DEFINE w == s \o t
           m == Len(s)
<1>1. m \in Nat /\ Len(t) \in Nat
  BY LenProperties
<1>2. \A i \in 1 .. m : w[i] = s[i]
  <2>1. \A i \in 1 .. Len(s) + Len(t) : (s \o t)[i] = IF i <= Len(s) THEN s[i] ELSE t[i - Len(s)]
    BY ConcatProperties
  <2>2. QED
    BY <1>1, <2>1
<1> HIDE DEF w, m
<1>3. PICK o \in 0 .. m :
        /\ Len(b) = m - o /\ \A i \in 1 .. m - o : b[i] = s[o + i]
        /\ \A i \in 1 .. o : ~UnderWay(s, m, i)
  BY Zenon DEF Tracks, m
<1>4. ASSUME NEW i \in 1 .. m - o PROVE b[i] = w[o + i]
  <2>1. o + i \in 1 .. m
    BY <1>1
  <2>2. QED
    BY <1>2, <1>3, <2>1
<1>5. ASSUME NEW i \in 1 .. o PROVE ~UnderWay(w, m, i)
  <2> SUFFICES ASSUME UnderWay(w, m, i) PROVE FALSE
    OBVIOUS
  <2>1. PICK r \in Requests : i + Len(Encoded(r)) - 1 > m /\ Matches(w, m, i, r)
    BY DEF UnderWay
  <2>2. ASSUME NEW j \in 1 .. Len(Encoded(r)), i + j - 1 <= m PROVE s[i + j - 1] = Encoded(r)[j]
    <3>1. i + j - 1 \in 1 .. m
      <4>1. Len(Encoded(r)) \in Nat
        BY EncodedShape, LenProperties
      <4>2. QED
        BY <1>1, <2>2, <4>1
    <3>2. QED
      BY <1>2, <2>1, <2>2, <3>1 DEF Matches
  <2>3. UnderWay(s, m, i)
    BY <2>1, <2>2 DEF UnderWay, Matches
  <2>4. QED
    BY <1>3, <2>3
<1>6. Tracks(w, m, b)
  BY <1>3, <1>4, <1>5 DEF Tracks
<1>7. QED
  BY <1>6 DEF w, m

\* What a step of the link finds, and what it leaves to be found.
NoneLost ==
  LET completed == {e \in Ends(recent' \o packet') : e > Len(recent')}
  IN  Len(found') + Cardinality(Ends(buf')) = Cardinality(Ends(buf)) + Cardinality(completed)

LEMMA TrackInit == LInit => TrackInv
<1> SUFFICES ASSUME LInit PROVE TrackInv
  OBVIOUS
<1>1. recent = << >> /\ packet = << >> /\ buf = << >>
  BY DEF LInit
<1>2. recent \in Seq(Token) /\ packet \in Seq(Token) /\ buf \in Seq(Token) /\ Len(buf) = 0
  BY <1>1
<1>3. recent \o packet = << >> /\ Len(recent \o packet) = 0
  BY <1>1
<1>4. Tracks(<< >>, 0, buf)
  <2> DEFINE stream == << >>
  <2> HIDE DEF stream
  <2>1. 0 \in 0 .. 0 /\ Len(buf) = 0 - 0
    BY <1>2
  <2>2. /\ \A i \in 1 .. 0 - 0 : buf[i] = stream[0 + i]
        /\ \A i \in 1 .. 0 : ~UnderWay(stream, 0, i)
    OBVIOUS
  <2>3. Tracks(stream, 0, buf)
    BY Zenon, <2>1, <2>2 DEF Tracks
  <2>4. QED
    BY <2>3 DEF stream
<1>5. QED
  BY <1>2, <1>3, <1>4, RoomInit DEF TrackInv

\* The history goes on from where the step before left it.
LEMMA TrackedBefore ==
  ASSUME TrackInv, recent' = LastOf(recent \o packet, Capacity)
  PROVE  recent' \in Seq(Token) /\ Tracks(recent', Len(recent'), buf)
<1> DEFINE s == recent \o packet
<1>1. s \in Seq(Token) /\ buf \in Seq(Token) /\ Len(buf) < Capacity /\ Tracks(s, Len(s), buf)
  BY ConcatProperties DEF TrackInv, RoomInv, BufferHasRoom
<1> HIDE DEF s
<1>2. LastOf(s, Capacity) \in Seq(Token) /\ Tracks(LastOf(s, Capacity), Len(LastOf(s, Capacity)), buf)
  BY <1>1, RecentEnough
<1>3. QED
  BY <1>2 DEF s

LEMMA QuietLosesNone ==
  ASSUME TrackInv, RoomInv', recent' = LastOf(recent \o packet, Capacity),
         packet' = << >>, found' = << >>, buf' = buf
  PROVE  TrackInv' /\ NoneLost
<1>1. recent' \in Seq(Token) /\ Tracks(recent', Len(recent'), buf')
  BY TrackedBefore
<1>2. recent' \o packet' = recent' /\ packet' \in Seq(Token)
  BY <1>1, ConcatEmptySeq
<1>3. TrackInv'
  BY <1>1, <1>2 DEF TrackInv
<1>4. {e \in Ends(recent') : e > Len(recent')} = {}
  BY <1>1, LenProperties DEF Ends
<1>5. Len(found') = 0 /\ Cardinality({}) = 0 /\ Cardinality(Ends(buf)) \in Nat
  <2>1. buf \in Seq(Token)
    BY DEF TrackInv, RoomInv, BufferHasRoom
  <2>2. QED
    BY <2>1, EndsFinite, FS_EmptySet
<1>6. NoneLost
  <2> DEFINE C == {e \in Ends(recent' \o packet') : e > Len(recent')}
  <2>1. C = {}
    <3>1. Ends(recent' \o packet') = Ends(recent')
      BY <1>2
    <3>2. QED
      BY <1>4, <3>1
  <2> HIDE DEF C
  <2>2. Cardinality(C) = 0
    BY <1>5, <2>1
  <2>3. Len(found') + Cardinality(Ends(buf')) = Cardinality(Ends(buf)) + Cardinality(C)
    BY <1>5, <2>2
  <2>4. QED
    BY <2>3 DEF NoneLost, C
<1>7. QED
  BY <1>3, <1>6

LEMMA ReadLosesNone ==
  ASSUME TrackInv, RoomInv', NEW n \in 1 .. PACKET, Read(n)
  PROVE  TrackInv' /\ NoneLost
<1> DEFINE b == [rest |-> buf, ids |-> << >>]
           w == recent' \o packet'
           a == Len(recent')
           parsed == FedAll(b, packet')
<1>1. wire \in Seq(Token) /\ buf \in Seq(Token) /\ Len(buf) < Capacity
  BY DEF TrackInv, RoomInv, BufferHasRoom
<1>2. /\ n <= Len(wire) /\ packet' = SubSeq(wire, 1, n)
      /\ recent' = LastOf(recent \o packet, Capacity)
      /\ buf' = parsed.rest /\ found' = parsed.ids
  BY Zenon DEF Read
<1>3. recent' \in Seq(Token) /\ Tracks(recent', a, buf)
  BY <1>2, TrackedBefore
<1>4. packet' \in Seq(Token)
  <2>1. n \in 0 .. Len(wire) /\ Len(wire) \in Nat
    BY <1>1, <1>2, LinkAssumption, LenProperties
  <2>2. \A i \in 1 .. n : wire[i] \in Token
    BY <1>1, <2>1, ElementOfSeq
  <2>3. QED
    BY <1>2, <2>1, <2>2, SubSeqProperties
<1>5. b \in Parsing /\ b.rest = buf /\ Len(b.ids) = 0
  BY <1>1, EmptySeq DEF Parsing
<1>6. /\ w \in Seq(Token) /\ a \in Nat /\ Len(packet') \in Nat
      /\ Len(w) = a + Len(packet')
      /\ \A k \in 1 .. Len(packet') : packet'[k] = w[a + k]
  <2>1. a \in Nat /\ Len(packet') \in Nat
    BY <1>3, <1>4, LenProperties
  <2>2. /\ w \in Seq(Token) /\ Len(w) = a + Len(packet')
        /\ \A i \in 1 .. a + Len(packet') :
             w[i] = IF i <= a THEN recent'[i] ELSE packet'[i - a]
    BY <1>3, <1>4, ConcatProperties
  <2> HIDE DEF w, a
  <2>3. ASSUME NEW k \in 1 .. Len(packet') PROVE packet'[k] = w[a + k]
    <3>1. a + k \in 1 .. a + Len(packet') /\ ~(a + k <= a) /\ (a + k) - a = k
      BY <2>1
    <3>2. QED
      BY <2>2, <3>1
  <2>4. QED
    BY <2>1, <2>2, <2>3
<1>7. Tracks(w, a, b.rest)
  BY <1>3, <1>4, <1>5, TracksPrefix
<1> HIDE DEF b, w, a
<1> DEFINE s == packet'
<1>8. s \in Seq(Token) /\ Len(w) = a + Len(s) /\ \A k \in 1 .. Len(s) : s[k] = w[a + k]
  BY <1>4, <1>6
<1> HIDE DEF s
<1>9. /\ Tracks(w, Len(w), FedAll(b, s).rest)
      /\ Len(FedAll(b, s).ids) + Cardinality(Ends(FedAll(b, s).rest)) =
           Len(b.ids) + Cardinality(Ends(b.rest)) + Cardinality(Between(w, a, Len(w)))
  BY <1>1, <1>5, <1>6, <1>7, <1>8, FedAllCounts
<1>10. TrackInv'
  BY <1>2, <1>3, <1>4, <1>9 DEF TrackInv, w, s
<1>11. Between(w, a, Len(w)) = {e \in Ends(w) : e > a}
  <2>1. \A e \in Ends(w) : e \in Nat /\ e <= Len(w)
    BY <1>6, LenProperties DEF Ends
  <2>2. QED
    BY <1>6, <2>1 DEF Between
<1>12. Cardinality(Ends(buf)) \in Nat /\ Cardinality(Between(w, a, Len(w))) \in Nat
  <2>1. Cardinality(Ends(buf)) \in Nat
    BY <1>1, EndsFinite
  <2>2. IsFiniteSet(Between(w, a, Len(w)))
    BY <1>6, EndsFinite, FS_Subset DEF Between
  <2>3. QED
    BY <2>1, <2>2, FS_CardinalityType
<1>13. Len(found') + Cardinality(Ends(buf')) =
         Cardinality(Ends(buf)) + Cardinality(Between(w, a, Len(w)))
  BY <1>2, <1>5, <1>9, <1>12 DEF s
<1>14. NoneLost
  BY <1>11, <1>13 DEF NoneLost, w, a
<1>15. QED
  BY <1>10, <1>14

LEMMA TrackNext == TrackInv /\ LNext => TrackInv' /\ NoneLost
<1> SUFFICES ASSUME TrackInv, LNext PROVE TrackInv' /\ NoneLost
  OBVIOUS
<1>1. RoomInv'
  BY RoomNext DEF TrackInv
<1>2. ASSUME NothingRead, buf' = buf PROVE TrackInv' /\ NoneLost
  BY <1>1, <1>2, QuietLosesNone DEF NothingRead
<1>3. CASE Connect
  BY <1>2, <1>3 DEF Connect
<1>4. ASSUME NEW n \in 1 .. PACKET, Read(n) PROVE TrackInv' /\ NoneLost
  BY <1>1, <1>4, ReadLosesNone
<1>5. CASE WriteAnswer
  BY <1>2, <1>5 DEF WriteAnswer
<1>6. CASE Send
  BY <1>2, <1>6 DEF Send
<1>7. ASSUME NEW burst \in Bursts, Noise(burst) PROVE TrackInv' /\ NoneLost
  BY <1>2, <1>7 DEF Noise
<1>8. CASE Break
  BY <1>2, <1>8 DEF Break
<1>9. QED
  BY <1>3, <1>4, <1>5, <1>6, <1>7, <1>8 DEF LNext, SomeRead

LEMMA TrackStutter == TrackInv /\ UNCHANGED lvars => TrackInv'
<1> SUFFICES ASSUME TrackInv, UNCHANGED lvars PROVE TrackInv'
  OBVIOUS
<1>1. UNCHANGED <<recent, packet, buf>>
  BY DEF lvars, history
<1>2. RoomInv'
  BY RoomNext DEF TrackInv
<1>3. QED
  BY <1>1, <1>2 DEF TrackInv

\* Each frame that comes in whole is found by the read it ends in, or waits in the
\* buffer: skipping noise and bad frames (lib.rs:104-143) costs none of them.
THEOREM NoFrameLost == LSpec => FramesFoundOrHeld
<1>1. TrackInv /\ [LNext]_lvars => TrackInv'
  BY TrackNext, TrackStutter
<1>2. TrackInv /\ [LNext]_lvars => [NoneLost]_lvars
  BY TrackNext
<1>3. LInit /\ [][LNext]_lvars => [][NoneLost]_lvars
  BY TrackInit, <1>1, <1>2, PTL
<1>4. QED
  BY <1>3, PTL DEF LSpec, FramesFoundOrHeld, NoneLost
================================================================================
