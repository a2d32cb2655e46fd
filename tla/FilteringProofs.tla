--------------------------- MODULE FilteringProofs ---------------------------
(***************************************************************************)
(* What the filtering loop returns, for every sequence and every set, and  *)
(* the induction it takes.  The induction theorems of the library have an  *)
(* operator as a parameter; here induction is over a set of numbers, from  *)
(* the well-foundedness of <, which the provers can instantiate.           *)
(***************************************************************************)
EXTENDS Filtering, Integers, WellFoundedInduction, TLAPS

(* Every set of natural numbers has a least one.                           *)
LEMMA LeastNumber ==
    ASSUME NEW T, T \subseteq Nat, T # {}
    PROVE  \E x \in T : \A y \in T : x <= y
  <1>1. IsWellFoundedOn(OpToRel(<, Nat), Nat)
    BY NatLessThanWellFounded
  <1>2. PICK R : R = OpToRel(<, Nat)
    OBVIOUS
  <1>3. \A x, y \in Nat : x < y <=> <<x, y>> \in R
    BY <1>2 DEF OpToRel
  <1>4. PICK x \in T : \A y \in T : ~(<<y, x>> \in R)
    BY <1>1, <1>2, WFMin
  <1>5. ASSUME NEW y \in T
        PROVE  x <= y
    <2>1. x \in Nat /\ y \in Nat
      OBVIOUS
    <2>2. <<y, x>> \notin R
      BY <1>4
    <2>3. ~(y < x)
      BY <2>1, <2>2, <1>3, Zenon
    <2>. QED  BY <2>1, <2>3
  <1>. QED  BY <1>5

(* Induction up to a number: a set that holds 0 and with each smaller      *)
(* number the next one holds all of them.                                  *)
LEMMA InductionTo ==
    ASSUME NEW n \in Nat, NEW T, 0 \in T,
           \A m \in 0..n : m \in T /\ m < n => m + 1 \in T
    PROVE  0..n \subseteq T
  <1>. SUFFICES ASSUME (0..n) \ T # {}
                PROVE  FALSE
    OBVIOUS
  <1>1. (0..n) \ T \subseteq Nat
    OBVIOUS
  <1>2. PICK m \in (0..n) \ T : \A k \in (0..n) \ T : m <= k
    BY <1>1, LeastNumber
  <1>3. m # 0 /\ m \in Nat
    BY <1>2
  <1>4. m - 1 \in 0..n /\ m - 1 < m /\ m - 1 < n
    BY <1>2, <1>3
  <1>5. m - 1 \in T
    BY <1>2, <1>4
  <1>6. (m - 1) + 1 \in T
    BY <1>4, <1>5
  <1>. QED  BY <1>2, <1>3, <1>6

-----------------------------------------------------------------------------

(* One round of the loop, and a function that records the first m of them. *)
Round(g, s, S, i) ==
    IF i = 0 THEN <<>> ELSE IF s[i] \in S THEN g[i - 1] ELSE Append(g[i - 1], s[i])

Records(g, s, S, m) == g = [i \in 0..m |-> Round(g, s, S, i)]

(* A record of m rounds extends to one of m + 1.                           *)
LEMMA RecordGrows ==
    ASSUME NEW s, NEW S, NEW m \in Nat, NEW g, Records(g, s, S, m)
    PROVE  \E h : Records(h, s, S, m + 1)
  <1>1. PICK h : h = [i \in 0..m + 1 |-> IF i <= m THEN g[i] ELSE Round(g, s, S, m + 1)]
    OBVIOUS
  <1>2. ASSUME NEW i \in 0..m + 1
        PROVE  h[i] = Round(h, s, S, i)
    <2>1. CASE i = 0
      BY <1>1, <2>1 DEF Records, Round
    <2>2. CASE i \in 1..m
      <3>1. h[i] = g[i] /\ h[i - 1] = g[i - 1] /\ i # 0
        BY <1>1, <2>2
      <3>2. g[i] = Round(g, s, S, i)
        BY <2>2 DEF Records
      <3>. QED  BY <3>1, <3>2 DEF Round
    <2>3. CASE i = m + 1
      <3>1. h[i] = Round(g, s, S, i) /\ h[i - 1] = g[i - 1] /\ i # 0
        BY <1>1, <2>3
      <3>. QED  BY <3>1 DEF Round
    <2>. QED  BY <2>1, <2>2, <2>3
  <1>3. h = [i \in 0..m + 1 |-> h[i]]
    BY <1>1
  <1>4. h = [i \in 0..m + 1 |-> Round(h, s, S, i)]
    BY <1>2, <1>3, Zenon
  <1>. QED  BY <1>4 DEF Records

(* The recursion of Kept has a solution: each round is what it says.       *)
LEMMA KeptRecords ==
    ASSUME NEW s, NEW S, Len(s) \in Nat
    PROVE  Records(Kept(s, S), s, S, Len(s))
  <1>0. PICK n \in Nat : n = Len(s)
    OBVIOUS
  <1>1. PICK T : T = {m \in 0..n : \E g : Records(g, s, S, m)}
    OBVIOUS
  <1>2. 0 \in T
    <2>1. [i \in 0..0 |-> <<>>] = [i \in 0..0 |-> Round([j \in 0..0 |-> <<>>], s, S, i)]
      BY DEF Round
    <2>2. Records([i \in 0..0 |-> <<>>], s, S, 0)
      BY <2>1 DEF Records
    <2>. QED  BY <2>2, <1>1
  <1>3. ASSUME NEW m \in 0..n, m \in T, m < n
        PROVE  m + 1 \in T
    <2>1. m + 1 \in 0..n /\ m \in Nat
      BY <1>3
    <2>. QED  BY <2>1, <1>1, <1>3, RecordGrows
  <1>4. 0..n \subseteq T
    BY <1>2, <1>3, InductionTo
  <1>5. \E g : Records(g, s, S, Len(s))
    BY <1>0, <1>1, <1>4
  <1>6. Records(CHOOSE g : Records(g, s, S, Len(s)), s, S, Len(s))
    BY <1>5
  <1>7. Kept(s, S) = CHOOSE g : Records(g, s, S, Len(s))
    BY Zenon DEF Kept, Records, Round
  <1>. QED  BY <1>6, <1>7

(* The rounds of the loop, as the proofs below use them.                   *)
LEMMA KeptRounds ==
    ASSUME NEW E, NEW s \in Seq(E), NEW S
    PROVE  /\ Kept(s, S)[0] = <<>>
           /\ \A i \in 1..Len(s) :
                Kept(s, S)[i] = IF s[i] \in S THEN Kept(s, S)[i - 1]
                                ELSE Append(Kept(s, S)[i - 1], s[i])
  <1>1. Len(s) \in Nat
    OBVIOUS
  <1>2. PICK k : k = Kept(s, S)
    OBVIOUS
  <1>3. Records(k, s, S, Len(s))
    BY <1>1, <1>2, KeptRecords
  <1>4. \A i \in 0..Len(s) : k[i] = Round(k, s, S, i)
    BY <1>3 DEF Records
  <1>5. k[0] = <<>>
    BY <1>1, <1>4 DEF Round
  <1>6. ASSUME NEW i \in 1..Len(s)
        PROVE  k[i] = IF s[i] \in S THEN k[i - 1] ELSE Append(k[i - 1], s[i])
    <2>1. i \in 0..Len(s) /\ i # 0
      BY <1>1
    <2>. QED  BY <2>1, <1>4 DEF Round
  <1>. QED  BY <1>2, <1>5, <1>6

-----------------------------------------------------------------------------

(* The loop keeps elements of the sequence that are not in the set, and    *)
(* all of those; if the elements of the sequence are in an order, so are   *)
(* the kept ones.                                                          *)
KeptRight(k, s, S, E, i) ==
    /\ k \in Seq(E)
    /\ \A j \in 1..Len(k) : k[j] \notin S /\ \E h \in 1..i : k[j] = s[h]
    /\ \A h \in 1..i : s[h] \notin S => \E j \in 1..Len(k) : k[j] = s[h]

LEMMA RoundRight ==
    ASSUME NEW E, NEW s \in Seq(E), NEW S, NEW i \in 0..Len(s), i < Len(s),
           NEW k, KeptRight(k, s, S, E, i),
           NEW k2, k2 = IF s[i + 1] \in S THEN k ELSE Append(k, s[i + 1])
    PROVE  KeptRight(k2, s, S, E, i + 1)
  <1>0. i + 1 \in 1..Len(s) /\ i \in Nat /\ s[i + 1] \in E
    OBVIOUS
  <1>1. CASE s[i + 1] \in S
    <2>1. k2 = k
      BY <1>1
    <2>2. \A h \in 1..i : h \in 1..i + 1
      BY <1>0
    <2>3. \A h \in 1..i + 1 : h \in 1..i \/ h = i + 1
      BY <1>0
    <2>. QED  BY <1>1, <2>1, <2>2, <2>3, Zenon DEF KeptRight
  <1>2. CASE s[i + 1] \notin S
    <2>1. k2 = Append(k, s[i + 1])
      BY <1>2
    <2>2. k2 \in Seq(E) /\ Len(k2) = Len(k) + 1 /\ k2[Len(k) + 1] = s[i + 1]
          /\ Len(k) \in Nat /\ \A j \in 1..Len(k) : k2[j] = k[j]
      BY <1>0, <2>1 DEF KeptRight
    <2>3. ASSUME NEW j \in 1..Len(k2)
          PROVE  k2[j] \notin S /\ \E h \in 1..i + 1 : k2[j] = s[h]
      <3>1. CASE j = Len(k) + 1
        BY <3>1, <2>2, <1>2, <1>0
      <3>2. CASE j \in 1..Len(k)
        <4>1. PICK h \in 1..i : k[j] = s[h]
          BY <3>2 DEF KeptRight
        <4>2. k[j] \notin S
          BY <3>2 DEF KeptRight
        <4>3. h \in 1..i + 1
          BY <1>0
        <4>. QED  BY <4>1, <4>2, <4>3, <3>2, <2>2
      <3>. QED  BY <3>1, <3>2, <2>2
    <2>4. ASSUME NEW h \in 1..i + 1, s[h] \notin S
          PROVE  \E j \in 1..Len(k2) : k2[j] = s[h]
      <3>1. CASE h = i + 1
        <4>1. Len(k) + 1 \in 1..Len(k2)
          BY <2>2
        <4>. QED  BY <4>1, <3>1, <2>2
      <3>2. CASE h \in 1..i
        <4>1. PICK j \in 1..Len(k) : k[j] = s[h]
          BY <3>2, <2>4 DEF KeptRight
        <4>2. j \in 1..Len(k2)
          BY <2>2
        <4>. QED  BY <4>1, <4>2, <2>2
      <3>. QED  BY <3>1, <3>2, <1>0
    <2>. QED  BY <2>2, <2>3, <2>4 DEF KeptRight
  <1>. QED  BY <1>1, <1>2

LEMMA KeptIsRight ==
    ASSUME NEW E, NEW s \in Seq(E), NEW S
    PROVE  \A i \in 0..Len(s) : KeptRight(Kept(s, S)[i], s, S, E, i)
  <1>0. PICK n \in Nat : n = Len(s)
    OBVIOUS
  <1>1. PICK k : k = Kept(s, S)
    OBVIOUS
  <1>2. PICK T : T = {i \in 0..n : KeptRight(k[i], s, S, E, i)}
    OBVIOUS
  <1>3. 0 \in T
    <2>1. k[0] = <<>>
      BY <1>1, KeptRounds
    <2>2. KeptRight(k[0], s, S, E, 0)
      BY <2>1 DEF KeptRight
    <2>. QED  BY <2>2, <1>2
  <1>4. ASSUME NEW m \in 0..n, m \in T, m < n
        PROVE  m + 1 \in T
    <2>1. m + 1 \in 1..Len(s) /\ m + 1 \in 0..n /\ (m + 1) - 1 = m /\ m \in 0..Len(s)
      BY <1>4, <1>0
    <2>2. k[m + 1] = IF s[m + 1] \in S THEN k[(m + 1) - 1] ELSE Append(k[(m + 1) - 1], s[m + 1])
      BY <2>1, <1>1, KeptRounds
    <2>3. KeptRight(k[m], s, S, E, m)
      BY <1>2, <1>4
    <2>4. KeptRight(k[m + 1], s, S, E, m + 1)
      BY <2>1, <2>2, <2>3, <1>4, <1>0, RoundRight
    <2>. QED  BY <2>1, <2>4, <1>2
  <1>5. 0..n \subseteq T
    BY <1>3, <1>4, InductionTo
  <1>. QED  BY <1>0, <1>1, <1>2, <1>5

(* What is left is a sequence of the same elements, without those of the   *)
(* set and with all the others.                                            *)
THEOREM OmittingMembers ==
    ASSUME NEW E, NEW s \in Seq(E), NEW S
    PROVE  /\ Omitting(s, S) \in Seq(E)
           /\ \A j \in 1..Len(Omitting(s, S)) :
                Omitting(s, S)[j] \notin S /\ \E h \in 1..Len(s) : Omitting(s, S)[j] = s[h]
           /\ \A h \in 1..Len(s) :
                s[h] \notin S => \E j \in 1..Len(Omitting(s, S)) : Omitting(s, S)[j] = s[h]
  <1>1. Len(s) \in 0..Len(s)
    OBVIOUS
  <1>. QED  BY <1>1, KeptIsRight DEF Omitting, KeptRight

-----------------------------------------------------------------------------

Ordered(s, R) == \A i, j \in 1..Len(s) : i < j => <<s[i], s[j]>> \in R

(* An order of the sequence is an order of what is left of it.             *)
THEOREM OmittingOrdered ==
    ASSUME NEW E, NEW s \in Seq(E), NEW S, NEW R, Ordered(s, R)
    PROVE  Ordered(Omitting(s, S), R)
  <1>0. PICK n \in Nat : n = Len(s)
    OBVIOUS
  <1>1. PICK k : k = Kept(s, S)
    OBVIOUS
  <1>2. PICK T : T = {i \in 0..n : Ordered(k[i], R)}
    OBVIOUS
  <1>3. 0 \in T
    <2>1. k[0] = <<>>
      BY <1>1, KeptRounds
    <2>2. Ordered(k[0], R)
      BY <2>1 DEF Ordered
    <2>. QED  BY <2>2, <1>2
  <1>4. ASSUME NEW m \in 0..n, m \in T, m < n
        PROVE  m + 1 \in T
    <2>1. m + 1 \in 1..Len(s) /\ m + 1 \in 0..n /\ (m + 1) - 1 = m /\ m \in 0..Len(s)
      BY <1>4, <1>0
    <2>2. k[m + 1] = IF s[m + 1] \in S THEN k[m] ELSE Append(k[m], s[m + 1])
      BY <2>1, <1>1, KeptRounds
    <2>3. KeptRight(k[m], s, S, E, m)
      BY <2>1, <1>1, KeptIsRight
    <2>4. Ordered(k[m], R)
      BY <1>2, <1>4
    <2>5. CASE s[m + 1] \in S
      BY <2>1, <2>2, <2>4, <2>5, <1>2
    <2>6. CASE s[m + 1] \notin S
      <3>1. k[m] \in Seq(E) /\ k[m + 1] = Append(k[m], s[m + 1]) /\ s[m + 1] \in E
        BY <2>1, <2>2, <2>3, <2>6 DEF KeptRight
      <3>2. PICK l \in Nat : l = Len(k[m])
        BY <3>1
      <3>3. Len(k[m + 1]) = l + 1 /\ k[m + 1][l + 1] = s[m + 1]
            /\ \A j \in 1..l : k[m + 1][j] = k[m][j]
        BY <3>1, <3>2
      <3>4. ASSUME NEW i \in 1..l + 1, NEW j \in 1..l + 1, i < j
            PROVE  <<k[m + 1][i], k[m + 1][j]>> \in R
        <4>1. i \in 1..l
          BY <3>4, <3>2
        <4>2. CASE j \in 1..l
          BY <4>1, <4>2, <3>2, <3>3, <3>4, <2>4 DEF Ordered
        <4>3. CASE j = l + 1
          <5>1. PICK h \in 1..m : k[m][i] = s[h]
            BY <4>1, <3>2, <2>3 DEF KeptRight
          <5>2. h \in 1..Len(s) /\ h < m + 1
            BY <2>1
          <5>3. <<s[h], s[m + 1]>> \in R
            BY <5>2, <2>1 DEF Ordered
          <5>. QED  BY <5>1, <5>3, <4>1, <4>3, <3>3
        <4>. QED  BY <4>2, <4>3, <3>2
      <3>5. Ordered(k[m + 1], R)
        BY <3>3, <3>4 DEF Ordered
      <3>. QED  BY <3>5, <2>1, <1>2
    <2>. QED  BY <2>5, <2>6
  <1>5. 0..n \subseteq T
    BY <1>3, <1>4, InductionTo
  <1>. QED  BY <1>0, <1>1, <1>2, <1>5 DEF Omitting

Prefix(k, s, i) == k = SubSeq(s, 1, i)

(* A loop that finds nothing to leave out returns the sequence.            *)
LEMMA OmittingNothing ==
    ASSUME NEW E, NEW s \in Seq(E), NEW S, \A i \in 1..Len(s) : s[i] \notin S
    PROVE  Omitting(s, S) = s
  <1>0. PICK n \in Nat : n = Len(s)
    OBVIOUS
  <1>1. PICK k : k = Kept(s, S)
    OBVIOUS
  <1>2. PICK T : T = {i \in 0..n : Prefix(k[i], s, i)}
    OBVIOUS
  <1>3. 0 \in T
    <2>1. k[0] = <<>>
      BY <1>1, KeptRounds
    <2>2. SubSeq(s, 1, 0) = <<>>
      OBVIOUS
    <2>3. Prefix(k[0], s, 0)
      BY <2>1, <2>2 DEF Prefix
    <2>. QED  BY <2>3, <1>2
  <1>4. ASSUME NEW m \in 0..n, m \in T, m < n
        PROVE  m + 1 \in T
    <2>1. m + 1 \in 1..Len(s) /\ m + 1 \in 0..n /\ (m + 1) - 1 = m
      BY <1>4, <1>0
    <2>0. s[m + 1] \notin S
      BY <2>1
    <2>2. k[m + 1] = IF s[m + 1] \in S THEN k[m] ELSE Append(k[m], s[m + 1])
      BY <2>1, <1>1, KeptRounds
    <2>3. k[m] = SubSeq(s, 1, m)
      BY <1>2, <1>4 DEF Prefix
    <2>4. Append(SubSeq(s, 1, m), s[m + 1]) = SubSeq(s, 1, m + 1)
      BY <2>1, <1>4, <1>0
    <2>5. Prefix(k[m + 1], s, m + 1)
      BY <2>0, <2>2, <2>3, <2>4 DEF Prefix
    <2>. QED  BY <2>1, <2>5, <1>2
  <1>5. 0..n \subseteq T
    BY <1>3, <1>4, InductionTo
  <1>6. SubSeq(s, 1, n) = s
    BY <1>0
  <1>7. n \in T
    BY <1>5
  <1>. QED  BY <1>0, <1>1, <1>2, <1>6, <1>7 DEF Omitting, Prefix

=============================================================================
