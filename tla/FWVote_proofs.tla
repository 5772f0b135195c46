--------------------------- MODULE FWVote_proofs ---------------------------
(***************************************************************************)
(* For any contents and any depth of history: the loop of the vote selects *)
(* what Select defines, so it delivers a value that holds a strict         *)
(* majority of the samples, masks glitches and accepts changes that last.  *)
(***************************************************************************)
EXTENDS FWVote, FiniteSetTheorems, WellFoundedInduction, TLAPS

LessThan == {ss \in Nat \X Nat : ss[1] < ss[2]}

LEMMA LessThanWellFounded == IsWellFoundedOn(LessThan, Nat)
<1>1. OpToRel(<, Nat) = LessThan
  BY DEF OpToRel, LessThan
<1>2. QED
  BY <1>1, NatLessThanWellFounded

\* A nonempty set of natural numbers has a least element, which Min chooses.
LEMMA MinIsMember ==
  ASSUME NEW S \in SUBSET Nat, S # {}
  PROVE  Min(S) \in S /\ \A x \in S : Min(S) <= x
<1>1. PICK x \in S : \A y \in S : ~(<<y, x>> \in LessThan)
  BY LessThanWellFounded, WFMin
<1>2. ASSUME NEW y \in S PROVE x <= y
  <2>1. x \in Nat /\ y \in Nat /\ <<y, x>> \notin LessThan
    BY <1>1
  <2>2. y < x => <<y, x>> \in LessThan
    BY <2>1 DEF LessThan
  <2>3. QED
    BY <2>1, <2>2
<1>3. QED
  BY <1>2 DEF Min

\* The counts of the vote are numbers, at most one per sample.
LEMMA SameFinite ==
  ASSUME NEW s, NEW v
  PROVE  /\ IsFiniteSet(Same(s, v))
         /\ Cardinality(Same(s, v)) \in 0 .. Latest
<1>1. Latest \in Nat
  BY VoteAssumption DEF Latest
<1>2. IsFiniteSet(1 .. Latest) /\ Cardinality(1 .. Latest) = Latest
  BY <1>1, FS_Interval DEF Latest
<1>3. Same(s, v) \in SUBSET (1 .. Latest)
  BY DEF Same
<1>4. /\ IsFiniteSet(Same(s, v))
      /\ Cardinality(Same(s, v)) <= Cardinality(1 .. Latest)
  BY <1>2, <1>3, FS_Subset
<1>5. Cardinality(Same(s, v)) \in Nat
  BY <1>4, FS_CardinalityType
<1>6. QED
  BY <1>1, <1>2, <1>4, <1>5

\* Two different values cannot both hold a strict majority.
LEMMA Disjoint ==
  ASSUME NEW s, NEW v, NEW w, v # w
  PROVE  Cardinality(Same(s, v)) + Cardinality(Same(s, w)) <= Latest
<1> DEFINE A == Same(s, v)
           B == Same(s, w)
<1>1. /\ IsFiniteSet(A) /\ Cardinality(A) \in Nat
      /\ IsFiniteSet(B) /\ Cardinality(B) \in Nat
  BY SameFinite
<1>2. A \cap B = {}
  BY DEF Same
<1>3. A \cup B \in SUBSET (1 .. Latest)
  BY DEF Same
<1> HIDE DEF A, B
<1>4. Cardinality(A \cup B) = Cardinality(A) + Cardinality(B)
  <2>1. Cardinality(A \cup B)
          = Cardinality(A) + Cardinality(B) - Cardinality(A \cap B)
    BY <1>1, FS_Union
  <2>2. Cardinality(A \cap B) = 0
    BY <1>2, FS_EmptySet
  <2>3. QED
    BY <1>1, <2>1, <2>2
<1>5. Cardinality(A \cup B) <= Latest
  <2>1. Latest \in Nat /\ IsFiniteSet(1 .. Latest) /\ Cardinality(1 .. Latest) = Latest
    BY VoteAssumption, FS_Interval DEF Latest
  <2>2. QED
    BY <1>3, <2>1, FS_Subset
<1>6. QED
  BY <1>4, <1>5 DEF A, B

-----------------------------------------------------------------------------
(* The loop. *)

AreRounds(s, n, best) ==
  best = [i \in 0 .. n |-> IF i = 0 THEN [count |-> 0, value |-> s[Latest]]
                           ELSE Round(s, best[i - 1], i)]

\* A property of 0 .. n that holds at 0 and is passed on holds up to n.
LEMMA UpTo ==
  ASSUME NEW n \in Nat, NEW S,
         0 \in S, \A i \in 1 .. n : i - 1 \in S => i \in S
  PROVE  0 .. n \subseteq S
<1> DEFINE Out == {i \in 0 .. n : i \notin S}
<1> SUFFICES ASSUME Out # {} PROVE FALSE
  OBVIOUS
<1>1. Out \in SUBSET Nat
  OBVIOUS
<1>2. Min(Out) \in Out /\ \A x \in Out : Min(Out) <= x
  BY <1>1, MinIsMember
<1>3. PICK m \in Out : \A x \in Out : m <= x
  BY <1>2
<1>4. m \in 1 .. n /\ m - 1 \in 0 .. n
  OBVIOUS
<1>5. m - 1 \notin Out
  BY <1>3, <1>4
<1>6. QED
  BY <1>4, <1>5

\* The rounds of the loop exist, whatever is counted, ...
LEMMA RoundsExist ==
  ASSUME NEW s, NEW n \in Nat
  PROVE  \E best : AreRounds(s, n, best)
<1> DEFINE S == {k \in Nat : \E best : AreRounds(s, k, best)}
           start == [count |-> 0, value |-> s[Latest]]
<1>1. 0 \in S
  <2>1. AreRounds(s, 0, [i \in {0} |-> start])
    BY DEF AreRounds
  <2>2. QED
    BY <2>1
<1>2. ASSUME NEW k \in 1 .. n, k - 1 \in S PROVE k \in S
  <2>1. PICK f : AreRounds(s, k - 1, f)
    BY <1>2
  <2> DEFINE g == [i \in 0 .. k |-> IF i = k THEN Round(s, f[k - 1], k) ELSE f[i]]
  <2>2. ASSUME NEW i \in 0 .. k
        PROVE  g[i] = IF i = 0 THEN start ELSE Round(s, g[i - 1], i)
    <3>1. CASE i = k
      <4>1. g[i] = Round(s, f[k - 1], k) /\ g[k - 1] = f[k - 1]
        BY <3>1
      <4> HIDE DEF g
      <4>2. QED
        BY <3>1, <4>1
    <3>2. CASE i # k
      <4>1. i \in 0 .. k - 1 /\ g[i] = f[i]
        BY <3>2
      <4>2. f[i] = IF i = 0 THEN start ELSE Round(s, f[i - 1], i)
        BY <2>1, <4>1 DEF AreRounds
      <4>3. i # 0 => g[i - 1] = f[i - 1]
        BY <4>1
      <4> HIDE DEF g
      <4>4. QED
        BY <4>1, <4>2, <4>3
    <3>3. QED
      BY <3>1, <3>2
  <2>3. g = [i \in 0 .. k |-> g[i]]
    OBVIOUS
  <2> HIDE DEF g
  <2>4. AreRounds(s, k, g)
    BY <2>2, <2>3 DEF AreRounds
  <2>5. QED
    BY <2>4
<1>3. 0 .. n \subseteq S
  <2> HIDE DEF S
  <2>1. QED
    BY <1>1, <1>2, UpTo
<1>4. QED
  BY <1>3

\* ... so the loop is made of them.
LEMMA ScanRounds ==
  ASSUME NEW s
  PROVE  \E best : AreRounds(s, Latest, best) /\ Scan(s) = best[Latest].value
<1>1. Latest \in Nat
  BY VoteAssumption DEF Latest
<1> DEFINE rounds == CHOOSE best : AreRounds(s, Latest, best)
<1>2. Scan(s) = rounds[Latest].value
  BY DEF Scan, AreRounds
<1>3. AreRounds(s, Latest, rounds)
  BY <1>1, RoundsExist
<1>4. QED
  BY <1>2, <1>3

\* After i rounds: a sample with the largest count so far, the first one of them
\* unless the current reading is among them.
BestOf(s, i, b) ==
  /\ b.count \in Nat
  /\ \A j \in 1 .. i : Matches(s, j) <= b.count
  /\ \/ i = 0 /\ b.count = 0
     \/ \E k \in 1 .. i :
          /\ Matches(s, k) = b.count
          /\ b.value = s[k]
          /\ \/ s[k] = s[Latest]
             \/ \A j \in 1 .. i : Matches(s, j) = b.count => k <= j /\ s[j] # s[Latest]

LEMMA RoundKeepsBest ==
  ASSUME NEW s, NEW i \in 1 .. Latest, NEW b, BestOf(s, i - 1, b)
  PROVE  BestOf(s, i, Round(s, b, i))
<1> DEFINE m == Matches(s, i)
           c == Round(s, b, i)
<1>1. /\ Latest \in Nat
      /\ \A j \in 1 .. Latest : Matches(s, j) \in Nat \ {0}
  <2>1. Latest \in Nat
    BY VoteAssumption DEF Latest
  <2>2. ASSUME NEW j \in 1 .. Latest PROVE Matches(s, j) \in Nat \ {0}
    <3>1. j \in Same(s, s[j])
      BY DEF Same
    <3>2. IsFiniteSet(Same(s, s[j])) /\ Matches(s, j) \in Nat
      BY SameFinite DEF Matches
    <3>3. Matches(s, j) # 0
      BY <3>1, <3>2, FS_EmptySet DEF Matches
    <3>4. QED
      BY <3>2, <3>3
  <2>3. QED
    BY <2>1, <2>2
<1>2. /\ b.count \in Nat
      /\ \A j \in 1 .. i - 1 : Matches(s, j) <= b.count
      /\ 1 .. i = (1 .. i - 1) \cup {i}
  BY <1>1 DEF BestOf
<1>3. CASE m > b.count
  <2>1. c = [count |-> m, value |-> s[i]]
    BY <1>3 DEF Round
  <2>2. c.count = m /\ c.value = s[i]
    BY <2>1
  <2> HIDE DEF c
  <2>3. \A j \in 1 .. i - 1 : Matches(s, j) < m
    BY <1>1, <1>2, <1>3
  <2>4. BestOf(s, i, c)
    BY <1>1, <1>2, <2>2, <2>3 DEF BestOf
  <2>5. QED
    BY <2>4 DEF c
<1>4. CASE m <= b.count
  <2>1. PICK k \in 1 .. i - 1 :
          /\ Matches(s, k) = b.count
          /\ b.value = s[k]
          /\ \/ s[k] = s[Latest]
             \/ \A j \in 1 .. i - 1 : Matches(s, j) = b.count => k <= j /\ s[j] # s[Latest]
    BY <1>1, <1>4 DEF BestOf
  <2>2. CASE m = b.count /\ s[i] = s[Latest]
    <3>1. c = [b EXCEPT !.value = s[i]]
      BY <1>1, <1>2, <2>2 DEF Round
    <3>2. c.count = b.count /\ c.value = s[i]
      BY <3>1
    <3> HIDE DEF c
    <3>3. BestOf(s, i, c)
      BY <1>1, <1>2, <1>4, <2>2, <3>2 DEF BestOf
    <3>4. QED
      BY <3>3 DEF c
  <2>3. CASE ~(m = b.count /\ s[i] = s[Latest])
    <3>1. c = b
      BY <1>1, <1>2, <1>4, <2>3 DEF Round
    <3>2. BestOf(s, i, b)
      BY <1>1, <1>2, <1>4, <2>1, <2>3 DEF BestOf
    <3>3. QED
      BY <3>1, <3>2
  <2>4. QED
    BY <2>2, <2>3
<1>5. QED
  BY <1>1, <1>2, <1>3, <1>4

\* The loop ends with what Select defines, for any samples
\* (getMajorityFWStatusFromHistory).
THEOREM ScanSelects == \A s : Scan(s) = Select(s)
<1> SUFFICES ASSUME NEW s PROVE Scan(s) = Select(s)
  OBVIOUS
<1>1. Latest \in Nat \ {0}
  BY VoteAssumption DEF Latest
<1>2. PICK best : AreRounds(s, Latest, best) /\ Scan(s) = best[Latest].value
  BY ScanRounds
<1> DEFINE S == {i \in 0 .. Latest : BestOf(s, i, best[i])}
<1>3. 0 \in S
  <2>1. best[0] = [count |-> 0, value |-> s[Latest]]
    BY <1>1, <1>2 DEF AreRounds
  <2>2. QED
    BY <1>1, <2>1 DEF BestOf
<1>4. ASSUME NEW i \in 1 .. Latest, i - 1 \in S PROVE i \in S
  <2>1. best[i] = Round(s, best[i - 1], i)
    BY <1>1, <1>2 DEF AreRounds
  <2>2. BestOf(s, i - 1, best[i - 1])
    BY <1>4
  <2>3. BestOf(s, i, Round(s, best[i - 1], i))
    BY <2>2, RoundKeepsBest
  <2>4. QED
    BY <1>1, <2>1, <2>3
<1>5. BestOf(s, Latest, best[Latest])
  <2>1. 0 .. Latest \subseteq S
    <3> HIDE DEF S
    <3>1. QED
      BY <1>1, <1>3, <1>4, UpTo
  <2>2. QED
    BY <1>1, <2>1
<1> DEFINE b == best[Latest]
           W == Winners(s)
<1>6. PICK k \in 1 .. Latest :
        /\ Matches(s, k) = b.count
        /\ b.value = s[k]
        /\ \/ s[k] = s[Latest]
           \/ \A j \in 1 .. Latest : Matches(s, j) = b.count => k <= j /\ s[j] # s[Latest]
  BY <1>1, <1>5 DEF BestOf
<1>7. /\ k \in W
      /\ \A j \in W : j \in 1 .. Latest /\ Matches(s, j) = b.count
  <2>1. \A j \in 1 .. Latest : Matches(s, j) \in Nat /\ Matches(s, j) <= b.count
    BY <1>5, SameFinite DEF BestOf, Matches
  <2>2. QED
    BY <1>6, <2>1 DEF Winners
<1>8. CASE s[k] = s[Latest]
  <2>1. Matches(s, Latest) = Matches(s, k)
    BY <1>8 DEF Matches
  <2>2. Latest \in W
    BY <1>1, <1>7, <2>1 DEF Winners
  <2>3. QED
    BY <1>2, <1>6, <1>8, <2>2 DEF Select
<1>9. CASE \A j \in 1 .. Latest : Matches(s, j) = b.count => k <= j /\ s[j] # s[Latest]
  <2>1. Latest \notin W
    BY <1>1, <1>7, <1>9
  <2>2. Min(W) \in W /\ Min(W) \in Nat /\ Min(W) <= k
    <3>1. W \in SUBSET Nat /\ W # {}
      BY <1>1, <1>7 DEF Winners
    <3>2. QED
      BY <1>7, <3>1, MinIsMember
  <2>3. k <= Min(W)
    <3>1. Min(W) \in 1 .. Latest /\ Matches(s, Min(W)) = b.count
      BY <1>7, <2>2
    <3>2. QED
      BY <1>9, <3>1
  <2>4. Min(W) = k
    BY <2>2, <2>3
  <2>5. QED
    BY <1>2, <1>6, <2>1, <2>4 DEF Select
<1>10. QED
  BY <1>6, <1>8, <1>9

-----------------------------------------------------------------------------
(* The vote. *)

\* A value that fills more than half of the samples is selected, whatever the
\* order of the samples (getMajorityFWStatusFromHistory).
THEOREM MajorityWins ==
  ASSUME NEW s, NEW v, 2 * Cardinality(Same(s, v)) > Latest
  PROVE  Select(s) = v
<1>1. /\ Latest \in Nat /\ Latest > 0
      /\ \A w : Cardinality(Same(s, w)) \in 0 .. Latest
  BY VoteAssumption, SameFinite DEF Latest
<1>2. PICK i \in 1 .. Latest : s[i] = v
  <2>1. Same(s, v) # {}
    <3>1. Cardinality(Same(s, v)) # 0
      BY <1>1
    <3>2. QED
      BY <3>1, SameFinite, FS_EmptySet
  <2>2. QED
    BY <2>1 DEF Same
<1>3. \A j \in 1 .. Latest : s[j] # v => Matches(s, j) < Matches(s, i)
  <2> SUFFICES ASSUME NEW j \in 1 .. Latest, s[j] # v
               PROVE  Matches(s, j) < Matches(s, i)
    OBVIOUS
  <2>1. Cardinality(Same(s, v)) + Cardinality(Same(s, s[j])) <= Latest
    BY Disjoint
  <2>2. Matches(s, j) = Cardinality(Same(s, s[j]))
        /\ Matches(s, i) = Cardinality(Same(s, v))
    BY <1>2 DEF Matches
  <2>3. QED
    BY <1>1, <2>1, <2>2
<1>4. i \in Winners(s)
  <2> SUFFICES ASSUME NEW j \in 1 .. Latest
               PROVE  Matches(s, j) <= Matches(s, i)
    BY DEF Winners
  <2>1. Matches(s, i) \in Nat /\ Matches(s, j) \in Nat
    BY <1>1 DEF Matches
  <2>2. CASE s[j] = v
    BY <1>2, <2>1, <2>2 DEF Matches
  <2>3. CASE s[j] # v
    BY <1>3, <2>1, <2>3
  <2>4. QED
    BY <2>2, <2>3
<1>5. \A j \in Winners(s) : s[j] = v
  <2> SUFFICES ASSUME NEW j \in Winners(s), s[j] # v PROVE FALSE
    OBVIOUS
  <2>1. j \in 1 .. Latest /\ Matches(s, i) <= Matches(s, j)
    BY DEF Winners
  <2>2. Matches(s, i) \in Nat /\ Matches(s, j) \in Nat
    BY <1>1 DEF Matches
  <2>3. QED
    BY <1>3, <2>1, <2>2
<1>6. Min(Winners(s)) \in Winners(s)
  <2>1. Winners(s) \in SUBSET Nat
    BY DEF Winners
  <2>2. QED
    BY <1>4, <2>1, MinIsMember
<1>7. QED
  BY <1>5, <1>6 DEF Select

\* Whatever wins was read: the vote invents no value.
LEMMA SelectIsSample ==
  ASSUME NEW s \in [1 .. Latest -> Values]
  PROVE  Select(s) \in Values
<1>1. Latest \in 1 .. Latest
  BY VoteAssumption DEF Latest
<1>2. CASE Latest \in Winners(s)
  BY <1>1, <1>2 DEF Select
<1>3. CASE Latest \notin Winners(s)
  <2>1. PICK i \in 1 .. Latest : Matches(s, i) > Matches(s, Latest)
    <3>1. \A i \in 1 .. Latest : Matches(s, i) \in Nat
      BY SameFinite DEF Matches
    <3>2. QED
      BY <1>1, <1>3, <3>1 DEF Winners
  <2>2. Winners(s) # {}
    <3> DEFINE R == {n \in 0 .. Latest : \E j \in 1 .. Latest : Latest - n = Matches(s, j)}
    <3>1. \A j \in 1 .. Latest : Matches(s, j) \in 0 .. Latest
      BY SameFinite DEF Matches
    <3>2. Latest - Matches(s, Latest) \in R
      BY <1>1, <3>1
    <3>3. Min(R) \in R /\ \A n \in R : Min(R) <= n
      <4>1. R \in SUBSET Nat
        BY <1>1
      <4>2. QED
        BY <3>2, <4>1, MinIsMember
    <3>4. PICK j \in 1 .. Latest : Latest - Min(R) = Matches(s, j)
      BY <3>3
    <3>5. ASSUME NEW k \in 1 .. Latest PROVE Matches(s, k) <= Matches(s, j)
      <4>1. Latest - Matches(s, k) \in R
        BY <1>1, <3>1
      <4>2. Min(R) <= Latest - Matches(s, k) /\ Min(R) \in 0 .. Latest
        BY <3>3, <4>1
      <4> HIDE DEF R
      <4>3. QED
        BY <1>1, <3>1, <3>4, <4>2
    <3>6. QED
      BY <3>5 DEF Winners
  <2>3. Min(Winners(s)) \in Winners(s)
    <3>1. Winners(s) \in SUBSET Nat
      BY DEF Winners
    <3>2. QED
      BY <2>2, <3>1, MinIsMember
  <2>4. QED
    BY <1>3, <2>3 DEF Select, Winners
<1>4. QED
  BY <1>2, <1>3

-----------------------------------------------------------------------------
LEMMA SamplesType ==
  ASSUME TypeOK
  PROVE  Samples(history, line) \in [1 .. Latest -> Values]
BY DEF TypeOK, Samples

LEMMA RememberType ==
  ASSUME TypeOK
  PROVE  /\ Remember(history, line) \in Seq(Values)
         /\ Len(Remember(history, line)) <= Depth
<1>1. CASE Len(history) < Depth
  BY <1>1, VoteAssumption DEF TypeOK, Remember
<1>2. CASE ~(Len(history) < Depth)
  <2>1. history # <<>> /\ Len(history) = Depth
    BY <1>2, VoteAssumption DEF TypeOK
  <2>2. Tail(history) \in Seq(Values) /\ Len(Tail(history)) = Depth - 1
    BY <2>1 DEF TypeOK
  <2>3. QED
    BY <1>2, <2>2, VoteAssumption DEF TypeOK, Remember
<1>3. QED
  BY <1>1, <1>2

\* Every variable keeps its type; in particular the history never outgrows
\* its array.
THEOREM TypeCorrect == Spec => []TypeOK
<1>1. Init => TypeOK
  BY VoteAssumption DEF Init, TypeOK
<1>2. TypeOK /\ [Next]_vars => TypeOK'
  <2> SUFFICES ASSUME TypeOK, [Next]_vars PROVE TypeOK'
    OBVIOUS
  <2>1. CASE Read
    BY <2>1, SamplesType, RememberType, SelectIsSample, ScanSelects DEF Read, TypeOK
  <2>2. CASE Clear
    BY <2>2, VoteAssumption DEF Clear, TypeOK
  <2>3. ASSUME NEW v \in Values, Change(v) PROVE TypeOK'
    BY <2>3 DEF Change, TypeOK
  <2>4. CASE UNCHANGED vars
    BY <2>4 DEF vars, TypeOK
  <2>5. QED
    BY <2>1, <2>2, <2>3, <2>4 DEF Next
<1>3. QED
  BY <1>1, <1>2, PTL DEF Spec

\* Enough equal stored readings decide the vote by themselves, so the current
\* reading, glitch or not, does not show.
THEOREM GlitchesMasked == Spec => GlitchMasked
<1> DEFINE Masked ==
      Read => \A v \in Values :
        2 * Cardinality({i \in DOMAIN history : history[i] = v}) > Latest => out' = v
<1>1. ASSUME TypeOK, Read, NEW v \in Values,
             2 * Cardinality({i \in DOMAIN history : history[i] = v}) > Latest
      PROVE  out' = v
  <2> DEFINE s == Samples(history, line)
             H == {i \in DOMAIN history : history[i] = v}
  <2>1. H \subseteq Same(s, v)
    BY <1>1, VoteAssumption DEF TypeOK, Samples, Same, Latest
  <2>2. /\ IsFiniteSet(Same(s, v))
        /\ Cardinality(Same(s, v)) \in Nat
        /\ Latest \in Nat
    BY SameFinite, VoteAssumption DEF Latest
  <2>3. Cardinality(H) <= Cardinality(Same(s, v)) /\ Cardinality(H) \in Nat
    BY <2>1, <2>2, FS_Subset, FS_CardinalityType
  <2>4. 2 * Cardinality(Same(s, v)) > Latest
    <3> HIDE DEF H, s
    <3>1. 2 * Cardinality(H) > Latest
      BY <1>1 DEF H
    <3>2. QED
      BY <2>2, <2>3, <3>1
  <2>5. QED
    BY <1>1, <2>4, MajorityWins, ScanSelects DEF Read
<1>2. TypeOK /\ [Next]_vars => [Masked]_vars
  BY <1>1
<1>3. QED
  BY <1>2, TypeCorrect, PTL DEF Spec, GlitchMasked

\* A value read Latest \div 2 + 1 times in a row is delivered: the filter delays
\* a change, it never suppresses it.
THEOREM ChangesAccepted == Spec => ChangeAccepted
<1> DEFINE Accepted ==
      Read => \A v \in Values :
        /\ line = v
        /\ \A i \in DOMAIN history :
             i > Len(history) - Latest \div 2 => history[i] = v
        => out' = v
<1>1. ASSUME TypeOK, Read, NEW v \in Values, line = v,
             \A i \in DOMAIN history :
               i > Len(history) - Latest \div 2 => history[i] = v
      PROVE  out' = v
  <2> DEFINE s == Samples(history, line)
             k == Latest - Latest \div 2
             T == k .. Latest
  <2>1. /\ k \in Int /\ Latest \in Nat /\ k >= 1 /\ k <= Latest
        /\ Latest - k = Latest \div 2
        /\ 2 * (Latest - k + 1) > Latest
    BY VoteAssumption DEF Latest
  <2>2. ASSUME NEW i \in T PROVE i \in Same(s, v)
    <3>1. i \in 1 .. Latest
      BY <2>1
    <3>2. s[i] = v
      <4>1. s[i] = IF i <= Len(history) THEN history[i] ELSE line
        BY <3>1 DEF Samples
      <4>2. CASE i <= Len(history)
        <5>1. i \in DOMAIN history /\ Len(history) <= Depth
          BY <3>1, <4>2, <1>1 DEF TypeOK
        <5>2. i > Len(history) - Latest \div 2
          BY <2>1, <5>1, <3>1, <1>1, VoteAssumption DEF TypeOK, Latest
        <5>3. QED
          BY <1>1, <4>1, <4>2, <5>1, <5>2
      <4>3. QED
        BY <1>1, <4>1, <4>2
    <3>3. QED
      BY <3>1, <3>2 DEF Same
  <2>3. /\ IsFiniteSet(Same(s, v))
        /\ Cardinality(Same(s, v)) \in Nat
    BY SameFinite
  <2>4. Cardinality(T) = Latest - k + 1
    BY <2>1, FS_Interval
  <2>5. Cardinality(T) <= Cardinality(Same(s, v))
    BY <2>2, <2>3, FS_Subset
  <2>6. 2 * Cardinality(Same(s, v)) > Latest
    <3> HIDE DEF s, k, T
    <3>1. QED
      BY <2>1, <2>3, <2>4, <2>5
  <2>7. QED
    BY <1>1, <2>6, MajorityWins, ScanSelects DEF Read
<1>2. TypeOK /\ [Next]_vars => [Accepted]_vars
  BY <1>1
<1>3. QED
  BY <1>2, TypeCorrect, PTL DEF Spec, ChangeAccepted

\* The loop of the code always selects a value with most occurrences: the current
\* reading if it is one, else the first of them (the statement of the theorem
\* ScanSelects for the samples that occur).
THEOREM LoopSelects == Spec => []ScanIsSelect
<1>1. ScanIsSelect
  BY ScanSelects DEF ScanIsSelect
<1>2. QED
  BY <1>1, PTL

=============================================================================
