--------------------------- MODULE DCUPair_proofs ---------------------------
(***************************************************************************)
(* Proofs, for any locations, registers, intervals, socket size and number *)
(* of troubles:                                                            *)
(*   - each unit of the pair behaves like a tracker of its own, so that    *)
(*     all theorems of DCUTracker_proofs hold of both;                     *)
(*   - the display and what is queued and under way amount to what DUB has *)
(*     sent, unless something has been lost since its last marker;         *)
(*   - and so does the status table of DUA, once it has processed it, but  *)
(*     for the locations that a DUB has forgotten;                         *)
(*   - hence a refresh of DUB that is not lost reaches the display.        *)
(***************************************************************************)
EXTENDS DCUPair, DCUTracker_proofs

B == INSTANCE DCUTracker_proofs WITH
  Own <- "BETA", Forwarded <- {},
  pc <- bpc, reg <- breg, todo <- btodo, refresh <- brefresh, tick <- btick,
  seen <- bseen, occupied <- boccupied, initial <- binitial,
  current <- bcurrent, status <- bstatus, deque <- bdeque, gds <- sent

-----------------------------------------------------------------------------
(* The two names of the tracker of DUB. *)

LEMMA SameConstants ==
  /\ DUB!TrackerAssumption <=> B!TrackerAssumption
  /\ DUB!vars = B!vars
  /\ DUB!Init <=> B!Init
BY DEF DUB!TrackerAssumption, B!TrackerAssumption, DUB!vars, B!vars, DUB!Init, B!Init,
       DUB!Regs, B!Regs, DUB!NoClaim, B!NoClaim, DUB!BadLoc, B!BadLoc,
       DUB!Unknown, B!Unknown, DUB!Groups, B!Groups, DUB!ResetDCU, B!ResetDCU,
       DUB!OwnEntry, B!OwnEntry

LEMMA SameEnqueue ==
  ASSUME NEW q, NEW e
  PROVE  DUB!Enqueue(q, e) = B!Enqueue(q, e)
BY DEF DUB!Enqueue, B!Enqueue, DUB!Without, B!Without, DUB!Positions, B!Positions,
       DUB!Id, B!Id, DUB!RemoveAt, B!RemoveAt

LEMMA SameActions ==
  /\ \A r : DUB!ReadReg(r) <=> B!ReadReg(r)
  /\ DUB!RestOfPoll <=> B!RestOfPoll
  /\ DUB!StatusTimer <=> B!StatusTimer
  /\ DUB!Send <=> B!Send
  /\ \A g : DUB!RepollDCU(g) <=> B!RepollDCU(g)
  /\ DUB!Restart <=> B!Restart
<1>1. ASSUME NEW r
      PROVE  DUB!ReadReg(r) <=> B!ReadReg(r)
  BY SameEnqueue DEF DUB!ReadReg, B!ReadReg, DUB!Decode, B!Decode, DUB!Valid, B!Valid,
     DUB!NoClaim, B!NoClaim, DUB!BadLoc, B!BadLoc, DUB!ProcessDCUStatus, B!ProcessDCUStatus,
     DUB!FirstSeen, B!FirstSeen, DUB!Duplicate, B!Duplicate, DUB!Update, B!Update,
     DUB!OwnEntry, B!OwnEntry
<1>2. ASSUME NEW l
      PROVE  DUB!SendMissing(l) \/ DUB!SendCurrent(l) <=> B!SendMissing(l) \/ B!SendCurrent(l)
  BY SameEnqueue DEF DUB!SendMissing, B!SendMissing, DUB!SendCurrent, B!SendCurrent,
     DUB!Smallest, B!Smallest, DUB!OwnEntry, B!OwnEntry
<1>3. DUB!StartRefresh <=> B!StartRefresh
  BY SameEnqueue DEF DUB!StartRefresh, B!StartRefresh, DUB!ResetDCU, B!ResetDCU,
     DUB!OwnEntry, B!OwnEntry
<1>4. /\ DUB!PollDone <=> B!PollDone
      /\ DUB!RefreshDone <=> B!RefreshDone
      /\ DUB!EndPoll <=> B!EndPoll
      /\ DUB!DrainDone <=> B!DrainDone
  BY DEF DUB!PollDone, B!PollDone, DUB!RefreshDone, B!RefreshDone, DUB!EndPoll, B!EndPoll,
     DUB!DrainDone, B!DrainDone
<1>5. DUB!RestOfPoll <=> B!RestOfPoll
  BY <1>2, <1>3, <1>4 DEF DUB!RestOfPoll, B!RestOfPoll
<1>6. DUB!StatusTimer <=> B!StatusTimer
  BY DEF DUB!StatusTimer, B!StatusTimer, DUB!NextTick, B!NextTick
<1>7. DUB!Send <=> B!Send
  BY DEF DUB!Send, B!Send, DUB!Pop, B!Pop, DUB!Shown, B!Shown
<1>8. ASSUME NEW g
      PROVE  DUB!RepollDCU(g) <=> B!RepollDCU(g)
  BY DEF DUB!RepollDCU, B!RepollDCU, DUB!Groups, B!Groups, DUB!Regs, B!Regs,
     DUB!NoClaim, B!NoClaim, DUB!BadLoc, B!BadLoc
<1>9. DUB!Restart <=> B!Restart
  BY DEF DUB!Restart, B!Restart, DUB!Regs, B!Regs, DUB!NoClaim, B!NoClaim,
     DUB!BadLoc, B!BadLoc, DUB!Unknown, B!Unknown, DUB!Groups, B!Groups,
     DUB!ResetDCU, B!ResetDCU, DUB!OwnEntry, B!OwnEntry
<1>10. QED
  BY <1>1, <1>5, <1>6, <1>7, <1>8, <1>9

-----------------------------------------------------------------------------
(* What a sequence of entries does to the display. *)

\* Leaving out an entry that tells nothing of l, or is followed by one that
\* does, makes no difference to what is shown for l.
LEMMA Removal ==
  ASSUME NEW s \in Seq(Entry), NEW r \in Seq(Entry), NEW k \in 1 .. Len(s),
         Len(r) = Len(s) - 1,
         \A i \in 1 .. Len(s) - 1 : r[i] = IF i < k THEN s[i] ELSE s[i + 1],
         NEW l, NEW old, NEW new
  PROVE  /\ ~Tells(s[k], l) => (Yields(s, l, old, new) <=> Yields(r, l, old, new))
         /\ (\E m \in k + 1 .. Len(s) : Tells(s[m], l)) /\ Yields(s, l, old, new)
              => Yields(r, l, old, new)
<1>1. /\ Len(s) \in Nat
      /\ DOMAIN s = 1 .. Len(s)
      /\ DOMAIN r = 1 .. Len(s) - 1
  OBVIOUS
<1> DEFINE Up(i)   == IF i < k THEN i ELSE i + 1
           Down(i) == IF i < k THEN i ELSE i - 1
<1>2. ASSUME NEW i \in DOMAIN r
      PROVE  Up(i) \in DOMAIN s /\ s[Up(i)] = r[i] /\ Up(i) # k
  BY <1>1
<1>3. ASSUME NEW i \in DOMAIN s, i # k
      PROVE  Down(i) \in DOMAIN r /\ r[Down(i)] = s[i]
  BY <1>1, <1>3
<1>4. ASSUME NEW i \in DOMAIN r, NEW j \in DOMAIN s, j # k
      PROVE  j > Up(i) <=> Down(j) > i
  BY <1>1, <1>4
<1>5. ASSUME NEW i \in DOMAIN s, i # k, NEW j \in DOMAIN r
      PROVE  j > Down(i) <=> Up(j) > i
  BY <1>1, <1>5
<1>6. ASSUME ~Tells(s[k], l) \/ \E m \in k + 1 .. Len(s) : Tells(s[m], l),
             NEW i \in DOMAIN r, Final(r, l, i)
      PROVE  Final(s, l, Up(i))
  <2> SUFFICES ASSUME NEW j \in DOMAIN s, j > Up(i), Tells(s[j], l) PROVE FALSE
    BY <1>2, <1>6 DEF Final
  <2>1. CASE j # k
    BY <1>3, <1>4, <1>6, <2>1 DEF Final
  <2>2. CASE j = k
    <3>1. PICK m \in k + 1 .. Len(s) : Tells(s[m], l)
      BY <1>6, <2>2
    <3>2. m \in DOMAIN s /\ m # k /\ m > Up(i)
      BY <1>1, <1>2, <2>2
    <3>3. QED
      BY <1>3, <1>4, <1>6, <3>1, <3>2 DEF Final
  <2>3. QED
    BY <2>1, <2>2
<1>7. ASSUME NEW i \in DOMAIN s, i # k, Final(s, l, i)
      PROVE  Final(r, l, Down(i))
  BY <1>2, <1>3, <1>5, <1>7 DEF Final
<1>8. ASSUME ~Tells(s[k], l) \/ \E m \in k + 1 .. Len(s) : Tells(s[m], l)
      PROVE  (\A i \in DOMAIN r : ~Tells(r[i], l)) => (\A i \in DOMAIN s : ~Tells(s[i], l))
  <2> SUFFICES ASSUME NEW i \in DOMAIN s, Tells(s[i], l)
               PROVE  \E j \in DOMAIN r : Tells(r[j], l)
    OBVIOUS
  <2>1. PICK m \in DOMAIN s : m # k /\ Tells(s[m], l)
    BY <1>1, <1>8
  <2>2. QED
    BY <1>3, <2>1
<1>9. (\A i \in DOMAIN s : ~Tells(s[i], l)) => (\A i \in DOMAIN r : ~Tells(r[i], l))
  BY <1>2
<1> HIDE DEF Up, Down
<1>10. ASSUME ~Tells(s[k], l) \/ \E m \in k + 1 .. Len(s) : Tells(s[m], l),
              Yields(s, l, old, new)
       PROVE  Yields(r, l, old, new)
  BY <1>2, <1>6, <1>8, <1>10 DEF Yields
<1>11. ASSUME ~Tells(s[k], l), Yields(r, l, old, new)
       PROVE  Yields(s, l, old, new)
  <2>1. \A i \in DOMAIN s : Final(s, l, i) => i # k
    BY <1>11 DEF Final
  <2>2. QED
    BY <1>3, <1>7, <1>9, <1>11, <2>1 DEF Yields
<1>12. QED
  BY <1>10, <1>11

\* A further entry at the end decides, if it tells of l.
LEMMA Sending ==
  ASSUME NEW q \in Seq(Entry), NEW e \in Entry, NEW l, NEW old, NEW new,
         Yields(q, l, old, new) \/ Tells(e, l)
  PROVE  Yields(Append(q, e), l, old, IF Tells(e, l) THEN e.overall ELSE new)
<1> DEFINE r == Append(q, e)
<1>1. /\ Len(q) \in Nat
      /\ DOMAIN q = 1 .. Len(q)
      /\ DOMAIN r = 1 .. Len(q) + 1
      /\ \A i \in 1 .. Len(q) : r[i] = q[i]
      /\ r[Len(q) + 1] = e
  OBVIOUS
<1> HIDE DEF r
<1>2. CASE Tells(e, l)
  <2>1. \A i \in DOMAIN r : Final(r, l, i) => i = Len(q) + 1
    BY <1>1, <1>2 DEF Final
  <2>2. QED
    BY <1>1, <1>2, <2>1 DEF Yields, r
<1>3. CASE ~Tells(e, l)
  <2>1. \A i \in DOMAIN r : Final(r, l, i) => i \in DOMAIN q /\ Final(q, l, i)
    BY <1>1, <1>3 DEF Final
  <2>2. QED
    BY <1>1, <1>3, <2>1 DEF Yields, r
<1>4. QED
  BY <1>2, <1>3

\* Showing the first entry.
LEMMA Showing ==
  ASSUME NEW q \in Seq(Entry), q # <<>>, NEW l, NEW old, NEW new,
         Yields(q, l, old, new)
  PROVE  Yields(Tail(q), l, IF Tells(Head(q), l) THEN Head(q).overall ELSE old, new)
<1>1. /\ Len(q) \in Nat
      /\ DOMAIN q = 1 .. Len(q)
      /\ 1 \in DOMAIN q
      /\ DOMAIN Tail(q) = 1 .. Len(q) - 1
      /\ \A i \in 1 .. Len(q) - 1 : Tail(q)[i] = q[i + 1]
      /\ Head(q) = q[1]
  OBVIOUS
<1>2. ASSUME NEW j \in DOMAIN q, j # 1
      PROVE  j - 1 \in DOMAIN Tail(q) /\ Tail(q)[j - 1] = q[j]
  BY <1>1, <1>2
<1>3. ASSUME NEW i \in DOMAIN Tail(q), Final(Tail(q), l, i)
      PROVE  i + 1 \in DOMAIN q /\ Final(q, l, i + 1) /\ q[i + 1] = Tail(q)[i]
  <2>1. \A j \in DOMAIN q : j > i + 1 => j - 1 > i /\ j # 1
    BY <1>1
  <2>2. QED
    BY <1>1, <1>2, <1>3, <2>1 DEF Final
<1>4. ASSUME \A i \in DOMAIN Tail(q) : ~Tells(Tail(q)[i], l)
      PROVE  (IF Tells(Head(q), l) THEN Head(q).overall ELSE old) = new
  <2>1. \A j \in DOMAIN q : j # 1 => ~Tells(q[j], l)
    BY <1>2, <1>4
  <2>2. CASE Tells(Head(q), l)
    <3>1. Final(q, l, 1)
      BY <1>1, <2>1, <2>2 DEF Final
    <3>2. QED
      BY <1>1, <2>2, <3>1 DEF Yields
  <2>3. CASE ~Tells(Head(q), l)
    BY <1>1, <2>1, <2>3 DEF Yields
  <2>4. QED
    BY <2>2, <2>3
<1>5. QED
  BY <1>3, <1>4 DEF Yields

LEMMA ConcatFacts ==
  ASSUME NEW a \in Seq(Entry), NEW b \in Seq(Entry)
  PROVE  /\ a \o b \in Seq(Entry)
         /\ Len(a) \in Nat /\ Len(b) \in Nat
         /\ DOMAIN a = 1 .. Len(a) /\ DOMAIN b = 1 .. Len(b)
         /\ Len(a \o b) = Len(a) + Len(b)
         /\ \A i \in 1 .. Len(a) + Len(b) :
              (a \o b)[i] = IF i <= Len(a) THEN a[i] ELSE b[i - Len(a)]
BY ConcatProperties

LEMMA HeadOfConcat ==
  ASSUME NEW a \in Seq(Entry), NEW b \in Seq(Entry), a # <<>>
  PROVE  /\ a \o b # <<>>
         /\ Head(a \o b) = Head(a)
         /\ Tail(a \o b) = Tail(a) \o b
<1> DEFINE s == a \o b
           x == Tail(a)
           t == Tail(s)
           r == x \o b
<1>1. /\ s \in Seq(Entry)
      /\ Len(a) \in Nat /\ Len(b) \in Nat
      /\ Len(a) > 0
      /\ Len(s) = Len(a) + Len(b)
      /\ \A i \in 1 .. Len(a) + Len(b) : s[i] = IF i <= Len(a) THEN a[i] ELSE b[i - Len(a)]
  BY ConcatFacts, EmptySeq
<1>2. /\ x \in Seq(Entry)
      /\ Len(x) = Len(a) - 1
      /\ \A i \in 1 .. Len(a) - 1 : x[i] = a[i + 1]
      /\ Head(a) = a[1]
  BY <1>1
<1> HIDE DEF s, x
<1>3. /\ s # <<>>
      /\ Head(s) = s[1]
      /\ t \in Seq(Entry)
      /\ Len(t) = Len(s) - 1
      /\ \A i \in 1 .. Len(s) - 1 : t[i] = s[i + 1]
  BY <1>1
<1>4. /\ r \in Seq(Entry)
      /\ Len(r) = Len(x) + Len(b)
      /\ \A i \in 1 .. Len(x) + Len(b) : r[i] = IF i <= Len(x) THEN x[i] ELSE b[i - Len(x)]
  BY <1>2, ConcatFacts
<1> HIDE DEF t, r
<1>5. ASSUME NEW i \in 1 .. Len(t)
      PROVE  t[i] = r[i]
  <2>1. i + 1 \in 1 .. Len(a) + Len(b) /\ i \in 1 .. Len(x) + Len(b) /\ t[i] = s[i + 1]
    BY <1>1, <1>2, <1>3
  <2>2. CASE i <= Len(x)
    <3>1. i \in 1 .. Len(a) - 1 /\ i + 1 <= Len(a)
      BY <1>1, <1>2, <2>1, <2>2
    <3>2. t[i] = a[i + 1] /\ r[i] = x[i]
      BY <1>1, <1>4, <2>1, <2>2, <3>1
    <3>3. QED
      BY <1>2, <3>1, <3>2
  <2>3. CASE i > Len(x)
    <3>1. ~(i + 1 <= Len(a)) /\ ~(i <= Len(x)) /\ (i + 1) - Len(a) = i - Len(x)
      BY <1>1, <1>2, <2>1, <2>3
    <3>2. t[i] = b[(i + 1) - Len(a)] /\ r[i] = b[i - Len(x)]
      BY <1>1, <1>4, <2>1, <3>1
    <3>3. QED
      BY <3>1, <3>2
  <2>4. QED
    BY <1>1, <1>2, <2>2, <2>3
<1>6. t = r
  BY <1>1, <1>2, <1>3, <1>4, <1>5, SeqEqual
<1>7. Head(s) = a[1]
  BY <1>1, <1>3
<1>8. QED
  BY <1>2, <1>3, <1>6, <1>7 DEF s, x, t, r

LEMMA AppendToConcat ==
  ASSUME NEW a \in Seq(Entry), NEW b \in Seq(Entry), NEW e \in Entry
  PROVE  a \o Append(b, e) = Append(a \o b, e)
<1> DEFINE x == Append(b, e)
           s == a \o b
           l == a \o x
           r == Append(s, e)
<1>1. /\ s \in Seq(Entry)
      /\ Len(a) \in Nat /\ Len(b) \in Nat
      /\ Len(s) = Len(a) + Len(b)
      /\ \A i \in 1 .. Len(a) + Len(b) : s[i] = IF i <= Len(a) THEN a[i] ELSE b[i - Len(a)]
  BY ConcatFacts
<1>2. /\ x \in Seq(Entry)
      /\ Len(x) = Len(b) + 1
      /\ \A i \in 1 .. Len(b) : x[i] = b[i]
      /\ x[Len(b) + 1] = e
  OBVIOUS
<1> HIDE DEF s, x
<1>3. /\ l \in Seq(Entry)
      /\ Len(l) = Len(a) + Len(x)
      /\ \A i \in 1 .. Len(a) + Len(x) : l[i] = IF i <= Len(a) THEN a[i] ELSE x[i - Len(a)]
  BY <1>2, ConcatFacts
<1>4. /\ r \in Seq(Entry)
      /\ Len(r) = Len(s) + 1
      /\ \A i \in 1 .. Len(s) : r[i] = s[i]
      /\ r[Len(s) + 1] = e
  BY <1>1
<1> HIDE DEF l, r
<1>5. ASSUME NEW i \in 1 .. Len(l)
      PROVE  l[i] = r[i]
  <2>1. i \in 1 .. Len(a) + Len(x)
    BY <1>3
  <2>2. CASE i <= Len(a)
    <3>1. i \in 1 .. Len(a) + Len(b) /\ i \in 1 .. Len(s)
      BY <1>1, <2>1, <2>2
    <3>2. l[i] = a[i] /\ r[i] = s[i] /\ s[i] = a[i]
      BY <1>1, <1>3, <1>4, <2>1, <2>2, <3>1
    <3>3. QED
      BY <3>2
  <2>3. CASE i > Len(a) /\ i <= Len(a) + Len(b)
    <3>1. i \in 1 .. Len(a) + Len(b) /\ i \in 1 .. Len(s) /\ i - Len(a) \in 1 .. Len(b)
      BY <1>1, <2>1, <2>3
    <3>2. l[i] = x[i - Len(a)] /\ r[i] = s[i] /\ s[i] = b[i - Len(a)]
      BY <1>1, <1>3, <1>4, <2>1, <2>3, <3>1
    <3>3. QED
      BY <1>2, <3>1, <3>2
  <2>4. CASE i = Len(a) + Len(b) + 1
    <3>1. i = Len(s) + 1 /\ i - Len(a) = Len(b) + 1 /\ ~(i <= Len(a))
      BY <1>1, <2>4
    <3>2. l[i] = x[Len(b) + 1] /\ r[i] = e
      BY <1>3, <1>4, <2>1, <3>1
    <3>3. QED
      BY <1>2, <3>2
  <2>5. Len(a) \in Nat /\ Len(b) \in Nat /\ Len(x) = Len(b) + 1
    BY <1>1, <1>2
  <2>6. i \in Nat /\ i <= Len(a) + (Len(b) + 1)
    BY <2>1, <2>5
  <2>7. \/ i <= Len(a)
        \/ i > Len(a) /\ i <= Len(a) + Len(b)
        \/ i = Len(a) + Len(b) + 1
    BY <2>5, <2>6
  <2>8. QED
    BY <2>2, <2>3, <2>4, <2>7
<1>6. Len(l) = Len(r)
  BY <1>1, <1>2, <1>3, <1>4
<1>7. l = r
  BY <1>3, <1>4, <1>5, <1>6, SeqEqual
<1>8. QED
  BY <1>7 DEF s, x, l, r

\* What Enqueue does: an entry with the same id, if any, is left out.
LEMMA EnqueueCases ==
  ASSUME NEW q \in Seq(Entry), NEW e \in Entry
  PROVE  \E w \in Seq(Entry) :
           /\ Enqueue(q, e) = Append(w, e)
           /\ \/ w = q
              \/ \E k \in 1 .. Len(q) :
                   /\ Id(q[k]) = Id(e)
                   /\ Len(w) = Len(q) - 1
                   /\ \A i \in 1 .. Len(q) - 1 : w[i] = IF i < k THEN q[i] ELSE q[i + 1]
<1>1. CASE Positions(q, Id(e)) = {}
  BY <1>1 DEF Enqueue, Without
<1>2. CASE Positions(q, Id(e)) # {}
  <2>1. PICK k \in Positions(q, Id(e)) : Without(q, Id(e)) = RemoveAt(q, k)
    BY <1>2 DEF Without
  <2>2. k \in 1 .. Len(q) /\ Id(q[k]) = Id(e)
    BY DEF Positions
  <2>3. QED
    BY <2>1, <2>2, RemoveAtFacts DEF Enqueue
<1>3. QED
  BY <1>1, <1>2

LEMMA SameId ==
  ASSUME NEW a, NEW b, NEW l, Id(a) = Id(b)
  PROVE  Tells(a, l) <=> Tells(b, l)
BY DEF Id, Tells

\* Leaving out an entry of the first part of a concatenation.
LEMMA RemovalIn ==
  ASSUME NEW q \in Seq(Entry), NEW w \in Seq(Entry), NEW c \in Seq(Entry),
         NEW k \in 1 .. Len(q), Len(w) = Len(q) - 1,
         \A i \in 1 .. Len(q) - 1 : w[i] = IF i < k THEN q[i] ELSE q[i + 1],
         NEW l, NEW old, NEW new
  PROVE  /\ ~Tells(q[k], l) => (Yields(q \o c, l, old, new) <=> Yields(w \o c, l, old, new))
         /\ (\E m \in k + 1 .. Len(q) + Len(c) : Tells((q \o c)[m], l))
              /\ Yields(q \o c, l, old, new) => Yields(w \o c, l, old, new)
<1> DEFINE s == q \o c
           r == w \o c
<1>1. /\ s \in Seq(Entry) /\ r \in Seq(Entry)
      /\ Len(q) \in Nat /\ Len(c) \in Nat /\ Len(w) \in Nat
      /\ Len(s) = Len(q) + Len(c) /\ Len(r) = Len(w) + Len(c)
      /\ \A i \in 1 .. Len(q) + Len(c) : s[i] = IF i <= Len(q) THEN q[i] ELSE c[i - Len(q)]
      /\ \A i \in 1 .. Len(w) + Len(c) : r[i] = IF i <= Len(w) THEN w[i] ELSE c[i - Len(w)]
  BY ConcatFacts
<1> HIDE DEF s, r
<1>2. k \in 1 .. Len(s) /\ s[k] = q[k] /\ Len(r) = Len(s) - 1
  BY <1>1
<1>3. ASSUME NEW i \in 1 .. Len(s) - 1
      PROVE  r[i] = IF i < k THEN s[i] ELSE s[i + 1]
  <2>1. CASE i <= Len(w)
    <3>1. /\ i \in 1 .. Len(q) - 1
          /\ i \in 1 .. Len(q) + Len(c) /\ i <= Len(q)
          /\ i + 1 \in 1 .. Len(q) + Len(c) /\ i + 1 <= Len(q)
          /\ i \in 1 .. Len(w) + Len(c)
      BY <1>1, <2>1
    <3>2. r[i] = w[i] /\ s[i] = q[i] /\ s[i + 1] = q[i + 1]
      BY <1>1, <2>1, <3>1
    <3>3. QED
      BY <3>1, <3>2
  <2>2. CASE i > Len(w)
    <3>1. /\ i - Len(w) = (i + 1) - Len(q)
          /\ ~(i < k) /\ ~(i + 1 <= Len(q)) /\ ~(i <= Len(w))
          /\ i + 1 \in 1 .. Len(q) + Len(c) /\ i \in 1 .. Len(w) + Len(c)
      BY <1>1, <2>2
    <3>2. r[i] = c[i - Len(w)] /\ s[i + 1] = c[(i + 1) - Len(q)]
      BY <1>1, <3>1
    <3>3. QED
      BY <3>1, <3>2
  <2>3. QED
    BY <1>1, <2>1, <2>2
<1>4. QED
  BY <1>1, <1>2, <1>3, Removal DEF s, r

\* Queueing an entry that tells nothing of l.
LEMMA Queueing ==
  ASSUME NEW q \in Seq(Entry), NEW c \in Seq(Entry), NEW e \in Entry,
         NEW l, NEW old, NEW new, ~Tells(e, l), Yields(q \o c, l, old, new)
  PROVE  Yields(Enqueue(q, e) \o c, l, old, new)
<1>1. PICK w \in Seq(Entry) :
           /\ Enqueue(q, e) = Append(w, e)
           /\ \/ w = q
              \/ \E k \in 1 .. Len(q) :
                   /\ Id(q[k]) = Id(e)
                   /\ Len(w) = Len(q) - 1
                   /\ \A i \in 1 .. Len(q) - 1 : w[i] = IF i < k THEN q[i] ELSE q[i + 1]
  BY EnqueueCases
<1>2. Yields(w \o c, l, old, new)
  <2>1. CASE w = q
    BY <2>1
  <2>2. ASSUME NEW k \in 1 .. Len(q),
               Id(q[k]) = Id(e),
               Len(w) = Len(q) - 1,
               \A i \in 1 .. Len(q) - 1 : w[i] = IF i < k THEN q[i] ELSE q[i + 1]
        PROVE  Yields(w \o c, l, old, new)
    BY <2>2, SameId, RemovalIn
  <2>3. QED
    BY <1>1, <2>1, <2>2
<1> DEFINE r == Append(w, e)
<1>3. /\ r \in Seq(Entry)
      /\ Len(w) \in Nat
      /\ Len(r) = Len(w) + 1
      /\ \A i \in 1 .. Len(w) : r[i] = w[i]
      /\ r[Len(w) + 1] = e
  OBVIOUS
<1> HIDE DEF r
<1>4. /\ Len(w) + 1 \in 1 .. Len(r)
      /\ Len(w) = Len(r) - 1
      /\ \A i \in 1 .. Len(r) - 1 : w[i] = IF i < Len(w) + 1 THEN r[i] ELSE r[i + 1]
  BY <1>3
<1>5. Yields(r \o c, l, old, new)
  BY <1>2, <1>3, <1>4, RemovalIn
<1>6. QED
  BY <1>1, <1>5 DEF r

\* An entry moves from the channel to the queue.
LEMMA Receiving ==
  ASSUME NEW q \in Seq(Entry), NEW c \in Seq(Entry), c # <<>>,
         NEW l, NEW old, NEW new, Yields(q \o c, l, old, new)
  PROVE  Yields(Enqueue(q, Head(c)) \o Tail(c), l, old, new)
<1> DEFINE e == Head(c)
           t == Tail(c)
<1>1. /\ e \in Entry /\ t \in Seq(Entry)
      /\ Len(c) \in Nat /\ Len(c) > 0 /\ Len(t) = Len(c) - 1
      /\ e = c[1]
      /\ \A i \in 1 .. Len(c) - 1 : t[i] = c[i + 1]
  OBVIOUS
<1> HIDE DEF e, t
<1>2. ASSUME NEW w \in Seq(Entry)
      PROVE  Append(w, e) \o t = w \o c
  <2> DEFINE x == Append(w, e)
             a == x \o t
             b == w \o c
  <2>1. /\ x \in Seq(Entry) /\ Len(w) \in Nat
        /\ Len(x) = Len(w) + 1
        /\ \A i \in 1 .. Len(w) : x[i] = w[i]
        /\ x[Len(w) + 1] = e
    BY <1>1
  <2> HIDE DEF x
  <2>2. /\ a \in Seq(Entry) /\ Len(a) = Len(x) + Len(t)
        /\ \A i \in 1 .. Len(x) + Len(t) : a[i] = IF i <= Len(x) THEN x[i] ELSE t[i - Len(x)]
    BY <1>1, <2>1, ConcatFacts
  <2>3. /\ b \in Seq(Entry) /\ Len(b) = Len(w) + Len(c)
        /\ \A i \in 1 .. Len(w) + Len(c) : b[i] = IF i <= Len(w) THEN w[i] ELSE c[i - Len(w)]
    BY ConcatFacts
  <2> HIDE DEF a, b
  <2>4. Len(a) = Len(b) /\ Len(a) \in Nat
    BY <1>1, <2>1, <2>2, <2>3
  <2>5. ASSUME NEW i \in 1 .. Len(a)
        PROVE  a[i] = b[i]
    <3>1. CASE i <= Len(w)
      <4>1. /\ i \in 1 .. Len(x) + Len(t) /\ i <= Len(x)
            /\ i \in 1 .. Len(w) + Len(c) /\ i \in 1 .. Len(w)
        BY <1>1, <2>1, <2>2, <2>3, <2>4, <3>1
      <4>2. a[i] = x[i] /\ b[i] = w[i] /\ x[i] = w[i]
        BY <2>1, <2>2, <2>3, <3>1, <4>1
      <4>3. QED
        BY <4>2
    <3>2. CASE i = Len(w) + 1
      BY <1>1, <2>1, <2>2, <2>3, <2>4, <3>2
    <3>3. CASE i > Len(w) + 1
      <4>1. /\ i - Len(x) \in 1 .. Len(c) - 1
            /\ (i - Len(x)) + 1 = i - Len(w)
        BY <1>1, <2>1, <2>2, <2>4, <3>3
      <4>2. a[i] = t[i - Len(x)] /\ b[i] = c[i - Len(w)]
        BY <1>1, <2>1, <2>2, <2>3, <2>4, <3>3
      <4>3. QED
        BY <1>1, <4>1, <4>2
    <3>4. QED
      BY <2>1, <2>4, <3>1, <3>2, <3>3
  <2>6. a = b
    BY <2>2, <2>3, <2>4, <2>5, SeqEqual
  <2>7. QED
    BY <2>6 DEF a, b, x
<1>3. PICK w \in Seq(Entry) :
           /\ Enqueue(q, e) = Append(w, e)
           /\ \/ w = q
              \/ \E k \in 1 .. Len(q) :
                   /\ Id(q[k]) = Id(e)
                   /\ Len(w) = Len(q) - 1
                   /\ \A i \in 1 .. Len(q) - 1 : w[i] = IF i < k THEN q[i] ELSE q[i + 1]
  BY <1>1, EnqueueCases
<1>4. Enqueue(q, e) \o t = w \o c
  BY <1>2, <1>3
<1>5. CASE w = q
  BY <1>4, <1>5 DEF e, t
<1>6. ASSUME NEW k \in 1 .. Len(q),
             Id(q[k]) = Id(e),
             Len(w) = Len(q) - 1,
             \A i \in 1 .. Len(q) - 1 : w[i] = IF i < k THEN q[i] ELSE q[i + 1]
      PROVE  Yields(w \o c, l, old, new)
  <2>1. CASE ~Tells(e, l)
    BY <1>6, <2>1, SameId, RemovalIn
  <2>2. CASE Tells(e, l)
    <3>1. (q \o c)[Len(q) + 1] = e
      BY <1>1, ConcatFacts
    <3>2. Len(q) + 1 \in k + 1 .. Len(q) + Len(c)
      BY <1>1, ConcatFacts
    <3>3. QED
      BY <1>6, <2>2, <3>1, <3>2, RemovalIn
  <2>3. QED
    BY <2>1, <2>2
<1>7. QED
  BY <1>3, <1>4, <1>5, <1>6 DEF e, t

-----------------------------------------------------------------------------
(* The units are trackers. *)

LEMMA SameSets ==
  /\ B!Entry = Entry
  /\ B!Reading = Reading
  /\ B!Overall = Overall
BY DEF B!Entry, Entry, B!Reading, Reading, B!Overall, Overall, B!Groups, Groups,
       B!Health, Health, B!BadLoc, BadLoc

LEMMA BetaAssumption == B!TrackerAssumption
BY TrackerAssumption DEF B!TrackerAssumption

LEMMA SameNext == DUB!Next <=> B!Next
<1>1. \A e : DUB!ProcessBetaDCUStatus(e) <=> B!ProcessBetaDCUStatus(e)
  BY DEF DUB!ProcessBetaDCUStatus, B!ProcessBetaDCUStatus
<1>2. DUB!Reading = B!Reading /\ DUB!Overall = B!Overall
  BY DEF DUB!Reading, B!Reading, DUB!BadLoc, B!BadLoc, DUB!Health, B!Health,
     DUB!Overall, B!Overall
<1>3. DUB!Poll <=> B!Poll
  BY SameActions, <1>2 DEF DUB!Poll, B!Poll
<1>4. DUB!BetaEntries = B!BetaEntries
  BY DEF DUB!BetaEntries, B!BetaEntries, DUB!Entry, B!Entry, DUB!Groups, B!Groups,
     DUB!Health, B!Health, DUB!Overall, B!Overall
<1>5. QED
  BY SameActions, <1>1, <1>2, <1>3, <1>4 DEF DUB!Next, B!Next

LEMMA BetaSteps == [PairNext]_pairVars => [B!Next]_(B!vars)
<1> SUFFICES ASSUME [PairNext]_pairVars PROVE [B!Next]_(B!vars)
  OBVIOUS
<1>1. CASE BetaHandles
  BY <1>1, SameActions, SameSets, PairAssumption DEF BetaHandles, B!Next, B!Poll
<1>2. CASE Deliver \/ Lose
  BY <1>2, SameActions DEF Deliver, Lose, B!Next, B!Poll
<1>3. CASE BetaRepoll \/ BetaDies
  BY <1>3, SameActions, SameSets, PairAssumption DEF BetaRepoll, BetaDies, B!Next
<1>4. CASE \/ AlphaHandles \/ Display \/ Receive \/ AlphaStarts \/ AlphaRepoll
           \/ AlphaDies \/ UNCHANGED pairVars
  BY <1>4 DEF AlphaHandles, Display, Receive, AlphaStarts, AlphaRepoll, AlphaDies,
     pairVars, betaVars, B!vars
<1>5. QED
  BY <1>1, <1>2, <1>3, <1>4 DEF PairNext, Disturbance

LEMMA BetaIsTracker == PairSpec => B!Spec
<1>1. PairInit => B!Init
  BY SameConstants DEF PairInit
<1>2. QED
  BY <1>1, BetaSteps, PTL DEF PairSpec, B!Spec

LEMMA BetaSound == PairSpec => [](B!TypeOK /\ B!SoundInv)
BY BetaIsTracker, BetaAssumption, B!TypeCorrect, B!QueueSound, PTL

LEMMA BetaHead ==
  ASSUME B!TypeOK, B!SoundInv, bdeque # <<>>
  PROVE  Head(bdeque) \in BetaEntries /\ Head(bdeque) \in Entry
<1>1. bdeque \in Seq(Entry)
  BY SameSets DEF B!TypeOK
<1>2. Head(bdeque) \in Entry /\ 1 \in DOMAIN bdeque /\ Head(bdeque) = bdeque[1]
  BY <1>1
<1>3. QED
  BY <1>2, PairAssumption DEF B!SoundInv, BetaEntries, Entry

LEMMA StepLink == B!TypeOK /\ B!SoundInv /\ LinkInv /\ [PairNext]_pairVars => LinkInv'
<1> SUFFICES ASSUME B!TypeOK, B!SoundInv, LinkInv, [PairNext]_pairVars PROVE LinkInv'
  OBVIOUS
<1>1. CASE Deliver
  <2>1. channel' = Append(channel, Head(bdeque)) /\ bdeque # <<>>
    BY <1>1, SameActions DEF Deliver, B!Send, B!Pop
  <2>2. QED
    BY <2>1, BetaHead DEF LinkInv, BetaEntries
<1>2. CASE Receive
  <2>1. channel # <<>> /\ channel' = Tail(channel)
    BY <1>2 DEF Receive
  <2>2. QED
    BY <2>1 DEF LinkInv, BetaEntries
<1>3. CASE AlphaDies
  BY <1>3 DEF AlphaDies, LinkInv, BetaEntries
<1>4. CASE UNCHANGED channel
  BY <1>4 DEF LinkInv, BetaEntries
<1>5. QED
  BY <1>1, <1>2, <1>3, <1>4 DEF PairNext, Disturbance, AlphaHandles, Display, BetaHandles,
     Lose, AlphaRepoll, BetaRepoll, AlphaStarts, BetaDies, pairVars, linkVars

LEMMA LinkSound == PairSpec => []LinkInv
<1>1. PairInit => LinkInv
  BY DEF PairInit, LinkInv
<1>2. QED
  BY <1>1, StepLink, BetaSound, PTL DEF PairSpec

LEMMA AlphaSteps == LinkInv /\ [PairNext]_pairVars => [Next]_vars
<1> SUFFICES ASSUME LinkInv, [PairNext]_pairVars PROVE [Next]_vars
  OBVIOUS
<1>1. CASE AlphaHandles
  BY <1>1, PairAssumption DEF AlphaHandles, Next, Poll
<1>2. CASE Display
  BY <1>2 DEF Display, Next
<1>3. CASE Receive
  <2>1. Head(channel) \in BetaEntries
    BY <1>3 DEF Receive, LinkInv
  <2>2. QED
    BY <1>3, <2>1 DEF Receive, Next
<1>4. CASE AlphaRepoll \/ AlphaDies
  BY <1>4, PairAssumption DEF AlphaRepoll, AlphaDies, Next
<1>5. CASE UNCHANGED vars
  BY <1>5
<1>6. QED
  BY <1>1, <1>2, <1>3, <1>4, <1>5 DEF PairNext, Disturbance, BetaHandles, Deliver, Lose,
     BetaRepoll, AlphaStarts, BetaDies, pairVars

LEMMA AlphaIsTracker == PairSpec => Spec
<1>1. PairInit => Init
  BY DEF PairInit
<1>2. QED
  BY <1>1, AlphaSteps, LinkSound, PTL DEF PairSpec, Spec

\* Each unit of the pair is a tracker, DUA with the entries that DUB sends, so
\* what DCUTracker_proofs proves holds of both (DUACmdMgr::processLocalHWStatusMsg
\* gives DUA only what DUBCmdMgr::sendDCUStatusToDUA sends).
THEOREM Trackers == PairSpec => UnitsAreTrackers
<1>1. [B!Next]_(B!vars) => [DUB!Next]_(DUB!vars)
  BY SameNext DEF B!vars, DUB!vars
<1>2. B!Init => DUB!Init
  BY SameConstants
<1>3. B!Spec => DUB!Spec
  BY <1>1, <1>2, PTL DEF B!Spec, DUB!Spec
<1>4. QED
  BY <1>3, BetaIsTracker, AlphaIsTracker DEF UnitsAreTrackers

-----------------------------------------------------------------------------
(* The display mirrors what DUB sends. *)

\* Between two entries from DUB, DUA leaves the display and the statuses of
\* DUB alone and queues at most an entry of its own group.
LEMMA AlphaQueues ==
  ASSUME TypeOK, AlphaHandles
  PROVE  /\ UNCHANGED <<gds, betaVars, linkVars>>
         /\ status'["BETA"] = status["BETA"]
         /\ \/ deque' = deque
            \/ \E e \in Entry : e.group = "ALPHA" /\ deque' = Enqueue(deque, e)
<1> DEFINE Q == /\ gds' = gds
                /\ status'["BETA"] = status["BETA"]
                /\ \/ deque' = deque
                   \/ \E e \in Entry : e.group = "ALPHA" /\ deque' = Enqueue(deque, e)
<1>1. /\ Own = "ALPHA"
      /\ ResetDCU \in Entry /\ ResetDCU.group = "ALPHA"
      /\ \A l \in Locs, o \in Overall :
           OwnEntry(l, o) \in Entry /\ OwnEntry(l, o).group = "ALPHA"
      /\ status \in [Groups -> [Locs -> Status]]
  BY PairAssumption, OwnEntryType DEF ResetDCU, OwnEntry, TypeOK
<1>2. ASSUME NEW l \in Locs
      PROVE  status["ALPHA"][l].overall \in Overall
  BY <1>1 DEF Groups, Status
<1>3. ASSUME NEW r \in Reading, ReadReg(r)
      PROVE  Q
  <2>1. CASE UNCHANGED <<occupied, current, initial, status, deque>>
    BY <1>3, <2>1 DEF ReadReg
  <2>2. CASE Decode(r) # NoClaim /\ ProcessDCUStatus(Decode(r))
    <3> DEFINE c == Decode(r)
    <3>1. c.loc \in Locs /\ c.health \in Overall
      BY <2>2, DecodeType DEF Overall
    <3>2. FirstSeen(c) \/ Duplicate(c) \/ Update(c)
      BY <2>2 DEF ProcessDCUStatus
    <3> HIDE DEF c
    <3>3. "NO_GO" \in Overall
      BY DEF Overall, Health
    <3>4. /\ status'["BETA"] = status["BETA"]
          /\ \/ deque' = deque
             \/ \E o \in Overall : deque' = Enqueue(deque, OwnEntry(c.loc, o))
      BY <1>1, <1>2, <3>1, <3>2, <3>3 DEF FirstSeen, Duplicate, Update, Groups
    <3>5. QED
      BY <1>1, <1>3, <3>1, <3>4 DEF ReadReg
  <2>3. QED
    BY <1>3, <2>1, <2>2 DEF ReadReg
<1>4. ASSUME RestOfPoll
      PROVE  Q
  <2>1. ASSUME NEW l \in Locs, SendMissing(l) \/ SendCurrent(l)
        PROVE  Q
    <3>1. "NO_GO" \in Overall
      BY DEF Overall, Health
    <3>2. QED
      BY <1>1, <1>2, <2>1, <3>1 DEF SendMissing, SendCurrent, Groups
  <2>2. CASE StartRefresh
    BY <1>1, <2>2 DEF StartRefresh
  <2>3. CASE PollDone \/ RefreshDone \/ EndPoll \/ DrainDone
    BY <2>3 DEF PollDone, RefreshDone, EndPoll, DrainDone
  <2>4. QED
    BY <1>4, <2>1, <2>2, <2>3 DEF RestOfPoll
<1>5. ASSUME StatusTimer
      PROVE  Q
  BY <1>5 DEF StatusTimer
<1>6. QED
  BY <1>3, <1>4, <1>5, PairAssumption DEF AlphaHandles

\* The polls of DUB send nothing.
LEMMA BetaQueues ==
  ASSUME BetaHandles \/ BetaRepoll \/ BetaDies
  PROVE  UNCHANGED <<vars, sent, channel, whole>>
<1>1. ASSUME NEW r, B!ReadReg(r)
      PROVE  sent' = sent
  BY <1>1 DEF B!ReadReg
<1>2. ASSUME B!RestOfPoll
      PROVE  sent' = sent
  BY <1>2 DEF B!RestOfPoll, B!PollDone, B!SendMissing, B!SendCurrent, B!StartRefresh,
     B!RefreshDone, B!EndPoll, B!DrainDone
<1>3. CASE BetaHandles
  <2>1. ASSUME B!StatusTimer PROVE sent' = sent
    BY <2>1 DEF B!StatusTimer
  <2>2. QED
    BY <1>1, <1>2, <1>3, <2>1, SameActions DEF BetaHandles, linkVars
<1>4. CASE BetaRepoll
  BY <1>4, SameActions DEF BetaRepoll, B!RepollDCU
<1>5. CASE BetaDies
  BY <1>5, SameActions DEF BetaDies, B!Restart
<1>6. QED
  BY <1>3, <1>4, <1>5

LEMMA ShownAt ==
  ASSUME NEW d \in [Groups -> [Locs -> Overall]], NEW e \in Entry, NEW l \in Locs,
         e.loc = Marker => e.overall = "WHITE"
  PROVE  Shown(d, e)["BETA"][l] = IF Tells(e, l) THEN e.overall ELSE d["BETA"][l]
<1>1. l # Marker
  BY TrackerAssumption
<1>2. CASE e.loc = Marker
  BY <1>1, <1>2 DEF Shown, Tells, Groups
<1>3. CASE e.loc # Marker
  BY <1>1, <1>3 DEF Shown, Tells, Groups, Entry
<1>4. QED
  BY <1>2, <1>3

LEMMA SentAt ==
  ASSUME B!TypeOK, Deliver, B!SoundInv, NEW l \in Locs
  PROVE  sent'["BETA"][l] = IF Tells(Head(bdeque), l) THEN Head(bdeque).overall
                            ELSE sent["BETA"][l]
<1>1. sent' = B!Shown(sent, Head(bdeque)) /\ bdeque # <<>>
  BY SameActions DEF Deliver, B!Send, B!Pop
<1>2. sent' = Shown(sent, Head(bdeque))
  BY <1>1 DEF B!Shown, Shown
<1>3. sent \in [Groups -> [Locs -> Overall]]
  BY SameSets DEF B!TypeOK, B!Groups, Groups
<1>4. QED
  BY <1>1, <1>2, <1>3, BetaHead, ShownAt DEF BetaEntries

LEMMA StepMirrored ==
  /\ TypeOK
  /\ SoundInv
  /\ B!TypeOK
  /\ B!SoundInv
  /\ LinkInv
  /\ Mirrored
  /\ [PairNext]_pairVars
  => Mirrored'
<1> SUFFICES ASSUME TypeOK, SoundInv, B!TypeOK, B!SoundInv, LinkInv, Mirrored,
                    [PairNext]_pairVars, whole', NEW l \in Locs
             PROVE  Yields(deque' \o channel', l, gds'["BETA"][l], sent'["BETA"][l])
  BY DEF Mirrored
<1> DEFINE old == gds["BETA"][l]
           new == sent["BETA"][l]
<1>1. deque \in Seq(Entry) /\ channel \in Seq(Entry)
  BY DEF TypeOK, LinkInv
<1>2. whole => Yields(deque \o channel, l, old, new)
  BY DEF Mirrored
<1>3. CASE AlphaHandles
  <2>1. UNCHANGED <<gds, betaVars, linkVars>>
    BY <1>3, AlphaQueues
  <2>2. CASE deque' = deque
    BY <1>2, <2>1, <2>2 DEF betaVars, linkVars
  <2>3. ASSUME NEW e \in Entry, e.group = "ALPHA", deque' = Enqueue(deque, e)
        PROVE  Yields(deque' \o channel', l, gds'["BETA"][l], sent'["BETA"][l])
    <3>1. ~Tells(e, l)
      BY <2>3 DEF Tells
    <3>2. QED
      BY <1>1, <1>2, <2>1, <2>3, <3>1, Queueing DEF betaVars, linkVars
  <2>4. QED
    BY <1>3, <2>2, <2>3, AlphaQueues
<1>4. CASE Display
  <2>1. /\ deque # <<>>
        /\ gds' = Shown(gds, Head(deque))
        /\ deque' = Tail(deque)
        /\ UNCHANGED <<sent, channel, whole>>
    BY <1>4 DEF Display, Send, Pop, betaVars, linkVars
  <2>2. Head(deque) \in Entry /\ Head(deque) = deque[1] /\ 1 \in DOMAIN deque
    BY <1>1, <2>1
  <2>3. gds'["BETA"][l] = IF Tells(Head(deque), l) THEN Head(deque).overall ELSE old
    BY <2>1, <2>2, ShownAt DEF TypeOK, SoundInv
  <2>4. /\ deque \o channel # <<>>
        /\ deque \o channel \in Seq(Entry)
        /\ Head(deque \o channel) = Head(deque)
        /\ Tail(deque \o channel) = Tail(deque) \o channel
    BY <1>1, <2>1, HeadOfConcat
  <2>5. QED
    BY <1>2, <2>1, <2>3, <2>4, Showing
<1>5. CASE BetaHandles \/ BetaRepoll \/ BetaDies
  BY <1>2, <1>5, BetaQueues DEF vars
<1>6. CASE Deliver
  <2> DEFINE e == Head(bdeque)
  <2>1. /\ channel' = Append(channel, e)
        /\ UNCHANGED <<deque, gds>>
        /\ whole \/ e.loc = Marker
        /\ bdeque # <<>>
    BY <1>6, SameActions DEF Deliver, vars, B!Send, B!Pop
  <2>2. e \in BetaEntries /\ e \in Entry
    BY <2>1, BetaHead
  <2>3. e.loc = Marker => Tells(e, l)
    BY <2>2 DEF Tells, BetaEntries
  <2>4. sent'["BETA"][l] = IF Tells(e, l) THEN e.overall ELSE new
    BY <1>6, SentAt
  <2> HIDE DEF e
  <2>5. /\ deque' \o channel' = Append(deque \o channel, e)
        /\ deque \o channel \in Seq(Entry)
    BY <1>1, <2>1, <2>2, AppendToConcat
  <2>6. QED
    BY <1>2, <2>1, <2>2, <2>3, <2>4, <2>5, Sending
<1>7. CASE Receive
  <2>1. /\ channel # <<>>
        /\ deque' = Enqueue(deque, Head(channel))
        /\ channel' = Tail(channel)
        /\ UNCHANGED <<gds, sent, whole>>
    BY <1>7 DEF Receive, ProcessBetaDCUStatus, betaVars
  <2>2. QED
    BY <1>1, <1>2, <2>1, Receiving
<1>8. CASE Lose \/ AlphaRepoll \/ AlphaDies
  BY <1>8 DEF Lose, AlphaRepoll, AlphaDies
<1>9. CASE AlphaStarts \/ UNCHANGED pairVars
  BY <1>2, <1>9 DEF AlphaStarts, pairVars, vars, betaVars, linkVars
<1>10. QED
  BY <1>3, <1>4, <1>5, <1>6, <1>7, <1>8, <1>9 DEF PairNext, Disturbance

\* While DUA erases and reorders what is queued, the display and what is queued
\* and under way amount to what DUB has sent since its latest marker
\* (sendDCUStatusToDUA, processBetaDCUStatus, checkForExistingDCUStatusInDeque).
THEOREM DisplayMirrors == PairSpec => []Mirrored
<1>1. PairInit => Mirrored
  <2> SUFFICES ASSUME PairInit, NEW l \in Locs
               PROVE  Yields(deque \o channel, l, gds["BETA"][l], sent["BETA"][l])
    BY DEF Mirrored
  <2>1. /\ deque = <<ResetDCU>> /\ channel = <<>>
        /\ gds["BETA"][l] = "WHITE"
        /\ sent["BETA"][l] = "WHITE"
    BY DEF PairInit, Init, DUB!Init, DUB!Groups, Groups
  <2>2. deque \o channel = <<ResetDCU>> /\ ResetDCU.group = "ALPHA"
    BY <2>1, PairAssumption, OwnEntryType DEF ResetDCU, OwnEntry
  <2>3. \A i \in DOMAIN <<ResetDCU>> : ~Tells(<<ResetDCU>>[i], l)
    BY <2>2 DEF Tells
  <2>4. QED
    BY <2>1, <2>2, <2>3 DEF Yields, Final
<1>2. PairSpec => [](TypeOK /\ SoundInv)
  BY AlphaIsTracker, TypeCorrect, QueueSound, PTL
<1>3. QED
  BY <1>1, <1>2, StepMirrored, BetaSound, LinkSound, PTL DEF PairSpec

-----------------------------------------------------------------------------
(* The status table of DUA mirrors what DUB sends. *)

\* A further entry at the end is the last of its location, and of no other.
LEMMA LastSent ==
  ASSUME NEW q \in Seq(Entry), NEW e \in Entry, NEW l, NEW i \in DOMAIN Append(q, e),
         LastOf(Append(q, e), l, i)
  PROVE  IF e.loc = l THEN Append(q, e)[i] = e
         ELSE i \in DOMAIN q /\ q[i] = Append(q, e)[i] /\ LastOf(q, l, i)
<1> DEFINE r == Append(q, e)
<1>1. /\ Len(q) \in Nat
      /\ DOMAIN q = 1 .. Len(q)
      /\ DOMAIN r = 1 .. Len(q) + 1
      /\ \A j \in 1 .. Len(q) : r[j] = q[j]
      /\ r[Len(q) + 1] = e
  OBVIOUS
<1> HIDE DEF r
<1>2. LastOf(r, l, i) /\ i \in DOMAIN r
  BY DEF r
<1>3. CASE e.loc = l
  BY <1>1, <1>2, <1>3 DEF LastOf, r
<1>4. CASE e.loc # l
  <2>1. i \in DOMAIN q
    BY <1>1, <1>2, <1>4 DEF LastOf
  <2>2. QED
    BY <1>1, <1>2, <1>4, <2>1 DEF LastOf, r
<1>5. QED
  BY <1>3, <1>4

LEMMA NoneSent ==
  ASSUME NEW q \in Seq(Entry), NEW e \in Entry, NEW l,
         \A i \in DOMAIN Append(q, e) : Append(q, e)[i].loc # l
  PROVE  e.loc # l /\ \A i \in DOMAIN q : q[i].loc # l
<1> DEFINE r == Append(q, e)
<1>1. /\ Len(q) \in Nat
      /\ DOMAIN q = 1 .. Len(q)
      /\ DOMAIN r = 1 .. Len(q) + 1
      /\ \A j \in 1 .. Len(q) : r[j] = q[j]
      /\ r[Len(q) + 1] = e
  OBVIOUS
<1> HIDE DEF r
<1>2. \A i \in DOMAIN r : r[i].loc # l
  BY DEF r
<1>3. QED
  BY <1>1, <1>2

LEMMA NoneSentBefore ==
  ASSUME NEW q \in Seq(Entry), NEW e \in Entry, NEW l, e.loc # l,
         NEW i \in DOMAIN Append(q, e), Append(q, e)[i].loc = l
  PROVE  \E j \in DOMAIN q : q[j].loc = l
<1> DEFINE r == Append(q, e)
<1>1. /\ Len(q) \in Nat
      /\ DOMAIN q = 1 .. Len(q)
      /\ DOMAIN r = 1 .. Len(q) + 1
      /\ \A j \in 1 .. Len(q) : r[j] = q[j]
      /\ r[Len(q) + 1] = e
  OBVIOUS
<1> HIDE DEF r
<1>2. i \in DOMAIN r /\ r[i].loc = l
  BY DEF r
<1>3. QED
  BY <1>1, <1>2

\* Taking the first entry leaves the last of each location the last, unless it
\* was the first.
LEMMA LastLeft ==
  ASSUME NEW q \in Seq(Entry), q # <<>>, NEW l
  PROVE  /\ \A i \in DOMAIN Tail(q) : LastOf(Tail(q), l, i) =>
              i + 1 \in DOMAIN q /\ q[i + 1] = Tail(q)[i] /\ LastOf(q, l, i + 1)
         /\ (\A i \in DOMAIN Tail(q) : Tail(q)[i].loc # l) =>
              IF Head(q).loc = l THEN 1 \in DOMAIN q /\ Head(q) = q[1] /\ LastOf(q, l, 1)
              ELSE \A i \in DOMAIN q : q[i].loc # l
<1> DEFINE t == Tail(q)
<1>1. /\ Len(q) \in Nat
      /\ DOMAIN q = 1 .. Len(q)
      /\ 1 \in DOMAIN q
      /\ DOMAIN t = 1 .. Len(q) - 1
      /\ \A i \in 1 .. Len(q) - 1 : t[i] = q[i + 1]
      /\ Head(q) = q[1]
  OBVIOUS
<1> HIDE DEF t
<1>2. ASSUME NEW j \in DOMAIN q, j # 1
      PROVE  j - 1 \in DOMAIN t /\ t[j - 1] = q[j]
  BY <1>1, <1>2
<1>3. ASSUME NEW i \in DOMAIN t, LastOf(t, l, i)
      PROVE  i + 1 \in DOMAIN q /\ q[i + 1] = t[i] /\ LastOf(q, l, i + 1)
  <2>1. \A j \in DOMAIN q : j > i + 1 => j - 1 > i /\ j # 1
    BY <1>1
  <2>2. QED
    BY <1>1, <1>2, <1>3, <2>1 DEF LastOf
<1>4. ASSUME \A i \in DOMAIN t : t[i].loc # l
      PROVE  IF Head(q).loc = l THEN 1 \in DOMAIN q /\ Head(q) = q[1] /\ LastOf(q, l, 1)
             ELSE \A i \in DOMAIN q : q[i].loc # l
  <2>1. \A j \in DOMAIN q : j # 1 => q[j].loc # l
    BY <1>2, <1>4
  <2>2. QED
    BY <1>1, <2>1 DEF LastOf
<1>5. QED
  BY <1>3, <1>4 DEF t

LEMMA StepTable ==
  /\ TypeOK
  /\ B!TypeOK
  /\ B!SoundInv
  /\ LinkInv
  /\ TableInv
  /\ [PairNext]_pairVars
  => TableInv'
<1> SUFFICES ASSUME TypeOK, B!TypeOK, B!SoundInv, LinkInv, TableInv, [PairNext]_pairVars,
                    whole', NEW l \in Locs, sent'["BETA"][l] # "WHITE"
             PROVE  /\ \A i \in DOMAIN channel' : LastOf(channel', l, i) =>
                         channel'[i].overall = sent'["BETA"][l]
                    /\ (\A i \in DOMAIN channel' : channel'[i].loc # l) =>
                         status'["BETA"][l] = [known |-> TRUE, overall |-> sent'["BETA"][l]]
  BY DEF TableInv, LastOf
<1>1. channel \in Seq(Entry)
  BY DEF LinkInv
<1>2. ASSUME UNCHANGED <<channel, sent, whole>>, status'["BETA"] = status["BETA"]
      PROVE  /\ \A i \in DOMAIN channel' : LastOf(channel', l, i) =>
                  channel'[i].overall = sent'["BETA"][l]
             /\ (\A i \in DOMAIN channel' : channel'[i].loc # l) =>
                  status'["BETA"][l] = [known |-> TRUE, overall |-> sent'["BETA"][l]]
  BY <1>2 DEF TableInv
<1>3. CASE AlphaHandles
  BY <1>2, <1>3, AlphaQueues DEF betaVars, linkVars
<1>4. CASE Display \/ AlphaStarts \/ UNCHANGED pairVars
  BY <1>2, <1>4 DEF Display, Send, Pop, AlphaStarts, pairVars, vars, betaVars, linkVars
<1>5. CASE BetaHandles \/ BetaRepoll \/ BetaDies
  BY <1>2, <1>5, BetaQueues DEF vars
<1>6. CASE Deliver
  <2> DEFINE e == Head(bdeque)
  <2>1. /\ channel' = Append(channel, e)
        /\ status' = status
        /\ whole \/ e.loc = Marker
        /\ bdeque # <<>>
    BY <1>6, SameActions DEF Deliver, vars, B!Send, B!Pop
  <2>2. e \in BetaEntries /\ e \in Entry
    BY <2>1, BetaHead
  <2>3. sent'["BETA"][l] = IF Tells(e, l) THEN e.overall ELSE sent["BETA"][l]
    BY <1>6, SentAt
  <2> HIDE DEF e
  <2>4. e.loc # Marker /\ whole
    BY <2>1, <2>2, <2>3 DEF Tells, BetaEntries
  <2>5. sent'["BETA"][l] = IF e.loc = l THEN e.overall ELSE sent["BETA"][l]
    BY <2>2, <2>3, <2>4 DEF Tells, BetaEntries
  <2>6. ASSUME NEW i \in DOMAIN channel', LastOf(channel', l, i)
        PROVE  channel'[i].overall = sent'["BETA"][l]
    <3>1. IF e.loc = l THEN channel'[i] = e
          ELSE i \in DOMAIN channel /\ channel[i] = channel'[i] /\ LastOf(channel, l, i)
      BY <1>1, <2>1, <2>2, <2>6, LastSent
    <3>2. CASE e.loc = l
      BY <2>5, <3>1, <3>2
    <3>3. CASE e.loc # l
      BY <2>4, <2>5, <3>1, <3>3 DEF TableInv
    <3>4. QED
      BY <3>2, <3>3
  <2>7. ASSUME \A i \in DOMAIN channel' : channel'[i].loc # l
        PROVE  status'["BETA"][l] = [known |-> TRUE, overall |-> sent'["BETA"][l]]
    BY <1>1, <2>1, <2>2, <2>4, <2>5, <2>7, NoneSent DEF TableInv
  <2>8. QED
    BY <2>6, <2>7
<1>7. CASE Receive
  <2> DEFINE e == Head(channel)
  <2>1. /\ channel # <<>>
        /\ channel' = Tail(channel)
        /\ UNCHANGED <<sent, whole>>
        /\ status' = IF e.loc = Marker THEN status
                     ELSE [status EXCEPT !["BETA"][e.loc] =
                             [known |-> TRUE, overall |-> e.overall]]
    BY <1>7 DEF Receive, ProcessBetaDCUStatus, betaVars
  <2>2. e \in Entry
    BY <1>1, <2>1
  <2> HIDE DEF e
  <2>3. /\ whole
        /\ sent["BETA"][l] # "WHITE"
        /\ l # Marker
        /\ e.loc # Marker => e.loc \in Locs
        /\ status \in [Groups -> [Locs -> Status]]
    BY <2>1, <2>2, TrackerAssumption DEF Entry, TypeOK
  <2>4. status'["BETA"][l] = IF e.loc = l THEN [known |-> TRUE, overall |-> e.overall]
                             ELSE status["BETA"][l]
    BY <2>1, <2>3 DEF Groups
  <2>5. ASSUME NEW i \in DOMAIN channel', LastOf(channel', l, i)
        PROVE  channel'[i].overall = sent'["BETA"][l]
    <3>1. /\ i + 1 \in DOMAIN channel
          /\ channel[i + 1] = channel'[i]
          /\ LastOf(channel, l, i + 1)
      BY <1>1, <2>1, <2>5, LastLeft
    <3>2. channel[i + 1].overall = sent["BETA"][l]
      BY <2>3, <3>1 DEF TableInv
    <3>3. QED
      BY <2>1, <3>1, <3>2
  <2>6. ASSUME \A i \in DOMAIN channel' : channel'[i].loc # l
        PROVE  status'["BETA"][l] = [known |-> TRUE, overall |-> sent'["BETA"][l]]
    <3>1. IF e.loc = l
          THEN 1 \in DOMAIN channel /\ e = channel[1] /\ LastOf(channel, l, 1)
          ELSE \A i \in DOMAIN channel : channel[i].loc # l
      <4>1. \A i \in DOMAIN Tail(channel) : Tail(channel)[i].loc # l
        BY <2>1, <2>6
      <4>2. IF Head(channel).loc = l
            THEN /\ 1 \in DOMAIN channel
                 /\ Head(channel) = channel[1]
                 /\ LastOf(channel, l, 1)
            ELSE \A i \in DOMAIN channel : channel[i].loc # l
        BY <1>1, <2>1, <4>1, LastLeft, Zenon
      <4>3. QED
        BY <4>2 DEF e
    <3>2. CASE e.loc = l
      <4>1. e.overall = sent["BETA"][l]
        BY <2>3, <3>1, <3>2 DEF TableInv
      <4>2. QED
        BY <2>1, <2>4, <3>2, <4>1
    <3>3. CASE e.loc # l
      <4>1. status["BETA"][l] = [known |-> TRUE, overall |-> sent["BETA"][l]]
        BY <2>3, <3>1, <3>3 DEF TableInv
      <4>2. QED
        BY <2>1, <2>4, <3>3, <4>1
    <3>4. QED
      BY <3>2, <3>3
  <2>7. QED
    BY <2>5, <2>6
<1>8. CASE Lose \/ AlphaRepoll \/ AlphaDies
  BY <1>8 DEF Lose, AlphaRepoll, AlphaDies
<1>9. QED
  BY <1>3, <1>4, <1>5, <1>6, <1>7, <1>8 DEF PairNext, Disturbance

LEMMA BetaListed == PairSpec => []B!ListedInv
BY BetaIsTracker, BetaAssumption, B!Listed, PTL

\* DUB forgets no location but when it re-polls or dies.
LEMMA BetaRemembers ==
  ASSUME BetaHandles \/ Deliver \/ Lose
  PROVE  binitial \subseteq binitial'
<1>1. ASSUME NEW r, B!ReadReg(r) PROVE binitial \subseteq binitial'
  BY <1>1 DEF B!ReadReg, B!ProcessDCUStatus, B!FirstSeen, B!Duplicate, B!Update
<1>2. ASSUME B!RestOfPoll \/ B!StatusTimer \/ B!Send PROVE binitial' = binitial
  BY <1>2 DEF B!RestOfPoll, B!PollDone, B!SendMissing, B!SendCurrent, B!StartRefresh,
     B!RefreshDone, B!EndPoll, B!DrainDone, B!StatusTimer, B!Send, B!Pop
<1> QED
  BY <1>1, <1>2, SameActions DEF BetaHandles, Deliver, Lose

LEMMA StepForgotten ==
  /\ TypeOK
  /\ B!TypeOK
  /\ B!SoundInv
  /\ B!ListedInv
  /\ LinkInv
  /\ ForgottenInv
  /\ [PairNext]_pairVars
  => ForgottenInv'
<1> SUFFICES ASSUME TypeOK, B!TypeOK, B!SoundInv, B!ListedInv, LinkInv, ForgottenInv,
                    [PairNext]_pairVars, ~aged', NEW l \in Locs,
                    status'["BETA"][l].known \/ \E i \in DOMAIN channel' : channel'[i].loc = l
             PROVE  l \in binitial'
  BY DEF ForgottenInv
<1>1. channel \in Seq(Entry) /\ l # Marker
  BY TrackerAssumption DEF LinkInv
<1>2. ASSUME UNCHANGED <<channel, aged>>, status'["BETA"] = status["BETA"],
             binitial \subseteq binitial'
      PROVE  l \in binitial'
  BY <1>2 DEF ForgottenInv
<1>3. CASE AlphaHandles
  BY <1>2, <1>3, AlphaQueues DEF betaVars, linkVars
<1>4. CASE Display \/ AlphaStarts \/ UNCHANGED pairVars
  BY <1>2, <1>4 DEF Display, Send, Pop, AlphaStarts, pairVars, vars, betaVars, linkVars
<1>5. CASE BetaHandles \/ Lose
  BY <1>2, <1>5, BetaRemembers DEF BetaHandles, Lose, vars, linkVars
<1>6. CASE Deliver
  <2> DEFINE e == Head(bdeque)
  <2>1. /\ channel' = Append(channel, e)
        /\ status' = status /\ aged' = aged
        /\ bdeque # <<>>
    BY <1>6, SameActions DEF Deliver, vars, B!Send, B!Pop
  <2>2. e \in Entry /\ e.loc \in binitial \cup {Marker}
    <3>1. bdeque \in Seq(Entry)
      BY SameSets DEF B!TypeOK
    <3>2. 1 \in DOMAIN bdeque /\ e = bdeque[1]
      BY <2>1, <3>1
    <3> QED
      BY <2>1, <3>2, BetaHead DEF B!ListedInv, BetaEntries
  <2> HIDE DEF e
  <2>3. CASE e.loc = l
    BY <1>1, <1>6, <2>2, <2>3, BetaRemembers
  <2>4. CASE e.loc # l
    <3>1. ASSUME NEW i \in DOMAIN channel', channel'[i].loc = l
          PROVE  \E j \in DOMAIN channel : channel[j].loc = l
      BY <1>1, <2>1, <2>2, <2>4, <3>1, NoneSentBefore
    <3>2. l \in binitial
      BY <2>1, <3>1 DEF ForgottenInv
    <3> QED
      BY <1>6, <3>2, BetaRemembers
  <2> QED
    BY <2>3, <2>4
<1>7. CASE Receive
  <2> DEFINE e == Head(channel)
  <2>1. /\ channel # <<>> /\ channel' = Tail(channel)
        /\ UNCHANGED <<aged, binitial>>
        /\ status' = IF e.loc = Marker THEN status
                     ELSE [status EXCEPT !["BETA"][e.loc] =
                             [known |-> TRUE, overall |-> e.overall]]
    BY <1>7 DEF Receive, ProcessBetaDCUStatus, betaVars
  <2>2. /\ e \in Entry /\ 1 \in DOMAIN channel /\ e = channel[1]
        /\ \A i \in DOMAIN channel' : i + 1 \in DOMAIN channel /\ channel'[i] = channel[i + 1]
    BY <1>1, <2>1
  <2> HIDE DEF e
  <2>3. CASE \E i \in DOMAIN channel : channel[i].loc = l
    BY <2>1, <2>3 DEF ForgottenInv
  <2>4. CASE status["BETA"][l].known
    BY <2>1, <2>4 DEF ForgottenInv
  <2>5. status'["BETA"][l].known => status["BETA"][l].known \/ e.loc = l
    BY <2>1, <2>2 DEF TypeOK, Entry, Groups
  <2> QED
    BY <2>2, <2>3, <2>4, <2>5
<1>8. CASE AlphaRepoll
  <2>1. ~status'["BETA"][l].known /\ UNCHANGED <<channel, binitial>>
    BY <1>8 DEF AlphaRepoll, RepollDCU, betaVars, Groups
  <2>2. PICK i \in DOMAIN channel : channel[i].loc = l
    BY <2>1
  <2>3. ~aged
    <3>1. channel # <<>>
      BY <2>2
    <3>2. aged' <=> aged /\ channel # <<>>
      BY <1>8 DEF AlphaRepoll
    <3> QED
      BY <3>1, <3>2
  <2> QED
    BY <2>1, <2>2, <2>3 DEF ForgottenInv
<1>9. CASE AlphaDies
  BY <1>9 DEF AlphaDies, Restart, Unknown, Groups
<1>10. CASE BetaRepoll \/ BetaDies
  BY <1>10 DEF BetaRepoll, BetaDies
<1> QED
  BY <1>3, <1>4, <1>5, <1>6, <1>7, <1>8, <1>9, <1>10 DEF PairNext, Disturbance

\* Once DUA has processed the datagrams, its table tells of each location that DUB
\* shows what DUB has sent last, and it knows no other unless DUB has forgotten
\* one (processBetaDCUStatus, and clearDCUData and the start of DUB).
THEOREM TableMirrors == PairSpec => []TableMirrored
<1>1. PairInit => TableInv /\ ForgottenInv
  <2>1. PairInit => TableInv
    BY DEF PairInit, TableInv, DUB!Init, DUB!Groups
  <2>2. PairInit => ForgottenInv
    BY DEF PairInit, ForgottenInv, Init, Unknown, Groups
  <2> QED
    BY <2>1, <2>2
<1>2. ASSUME TableInv, ForgottenInv, B!ListedInv PROVE TableMirrored
  <2> SUFFICES ASSUME whole, channel = <<>>, NEW l \in Locs
               PROVE  IF sent["BETA"][l] # "WHITE"
                      THEN status["BETA"][l] = [known |-> TRUE, overall |-> sent["BETA"][l]]
                      ELSE bpc = "idle" /\ ~aged => ~status["BETA"][l].known
    BY DEF TableMirrored
  <2>1. DOMAIN channel = {}
    OBVIOUS
  <2>2. CASE sent["BETA"][l] # "WHITE"
    BY <1>2, <2>1, <2>2 DEF TableInv
  <2>3. ASSUME sent["BETA"][l] = "WHITE", bpc = "idle", ~aged, status["BETA"][l].known
        PROVE  FALSE
    <3>1. l \in binitial
      BY <1>2, <2>3 DEF ForgottenInv
    <3>2. bdeque = <<>> /\ DOMAIN bdeque = {}
      BY <1>2, <2>3 DEF B!ListedInv
    <3> QED
      BY <1>2, <2>3, <3>1, <3>2 DEF B!ListedInv
  <2> QED
    BY <2>2, <2>3
<1>3. PairSpec => []TypeOK
  BY AlphaIsTracker, TypeCorrect, PTL
<1>4. QED
  BY <1>1, <1>2, <1>3, StepTable, StepForgotten, BetaSound, BetaListed, LinkSound, PTL
     DEF PairSpec

\* DUA, too, has every location it knows queued behind its marker, while the
\* entries of DUB come in between (setDCUStatusToTwgs, processBetaDCUStatus).
THEOREM PairMarker == PairSpec => []MarkerIsFollowed
BY AlphaIsTracker, MarkerRepaints, PTL

\* A refresh of DUB of which nothing was lost reaches the display: once everything
\* is sent, and until its next poll, the display shows the table of DUB
\* (readDCUStatus(true), sendDCUStatusToDUA, setDCUStatusToTwgs).
THEOREM RefreshesArrive == PairSpec => []RefreshArrives
<1>1. Mirrored /\ B!RefreshedInv => RefreshArrives
  <2> SUFFICES ASSUME Mirrored, B!RefreshedInv, Drained, whole, btick = 0,
                      NEW l \in Locs, bstatus["BETA"][l].known
               PROVE  gds["BETA"][l] = bstatus["BETA"][l].overall
    BY DEF RefreshArrives
  <2>1. bpc = "idle" /\ channel = <<>> /\ deque = <<>>
    BY DEF Drained
  <2>2. sent["BETA"][l] = bstatus["BETA"][l].overall
    BY <2>1 DEF B!RefreshedInv, B!Agree
  <2>3. DOMAIN (deque \o channel) = {}
    BY <2>1
  <2>4. gds["BETA"][l] = sent["BETA"][l]
    BY <2>3 DEF Mirrored, Yields
  <2>5. QED
    BY <2>2, <2>4
<1>2. PairSpec => []B!RefreshedInv
  BY BetaIsTracker, BetaAssumption, B!DisplayStays, PTL
<1>3. QED
  BY <1>1, <1>2, DisplayMirrors, PTL

=============================================================================
