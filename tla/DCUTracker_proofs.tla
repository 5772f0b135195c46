-------------------------- MODULE DCUTracker_proofs --------------------------
(***************************************************************************)
(* Proofs, for any locations, registers and refresh interval, of the       *)
(* invariants of DCUTracker:                                               *)
(*   - facts about the send queue (erase, enqueue, pop);                   *)
(*   - type correctness;                                                   *)
(*   - IInv, an inductive invariant made of the four safety invariants and *)
(*     of what they need in the middle of a poll;                          *)
(*   - what the queue can hold, and that every fault found is in it when   *)
(*     the poll ends;                                                      *)
(*   - PaintInv, what the display will show once the queue has been sent,  *)
(*     and so what it shows after each refresh.                            *)
(***************************************************************************)
EXTENDS DCUTracker, SequenceTheorems, FiniteSetTheorems, TLAPS

-----------------------------------------------------------------------------
(* The send queue. *)

\* Removing position k closes the gap and keeps the order of the others.
LEMMA RemoveAtFacts ==
  ASSUME NEW S, NEW q \in Seq(S), NEW k \in 1 .. Len(q)
  PROVE  /\ RemoveAt(q, k) \in Seq(S)
         /\ Len(RemoveAt(q, k)) = Len(q) - 1
         /\ \A i \in 1 .. Len(q) - 1 :
              RemoveAt(q, k)[i] = IF i < k THEN q[i] ELSE q[i + 1]
<1> DEFINE a == SubSeq(q, 1, k - 1)
           b == SubSeq(q, k + 1, Len(q))
<1>1. /\ a \in Seq(S)
      /\ b \in Seq(S)
      /\ Len(a) = k - 1
      /\ Len(b) = Len(q) - k
      /\ \A i \in 1 .. k - 1 : a[i] = q[i]
      /\ \A i \in 1 .. Len(q) - k : b[i] = q[i + k]
  OBVIOUS
<1>2. RemoveAt(q, k) = a \o b
  BY DEF RemoveAt
<1> HIDE DEF a, b
<1>3. /\ a \o b \in Seq(S)
      /\ Len(a \o b) = Len(a) + Len(b)
      /\ \A i \in 1 .. Len(a) + Len(b) :
           (a \o b)[i] = IF i <= Len(a) THEN a[i] ELSE b[i - Len(a)]
  BY <1>1, ConcatProperties
<1>4. Len(q) \in Nat /\ Len(a) + Len(b) = Len(q) - 1
  BY <1>1
<1>5. ASSUME NEW i \in 1 .. Len(q) - 1
      PROVE  (a \o b)[i] = IF i < k THEN q[i] ELSE q[i + 1]
  <2>1. CASE i < k
    BY <1>1, <1>3, <1>4, <2>1
  <2>2. CASE i >= k
    <3>1. i - (k - 1) \in 1 .. Len(q) - k /\ (i - (k - 1)) + k = i + 1
      BY <1>4, <2>2
    <3>2. (a \o b)[i] = b[i - (k - 1)]
      BY <1>1, <1>3, <1>4, <2>2
    <3>3. QED
      BY <1>1, <2>2, <3>1, <3>2
  <2>3. QED
    BY <1>4, <2>1, <2>2
<1>6. QED
  BY <1>2, <1>3, <1>4, <1>5

Unique(q) == \A i, j \in DOMAIN q : Id(q[i]) = Id(q[j]) => i = j

\* Erasing an id from a queue without duplicates: a queue without that id,
\* still without duplicates, in which what was behind what stays behind it.
LEMMA WithoutFacts ==
  ASSUME NEW q \in Seq(Entry), NEW id, Unique(q)
  PROVE  /\ Without(q, id) \in Seq(Entry)
         /\ Unique(Without(q, id))
         /\ \A i \in DOMAIN Without(q, id) : Id(Without(q, id)[i]) # id
         /\ \A l \in Locs : Behind(q, l) /\ id # <<Own, l>>
                              => Behind(Without(q, id), l)
<1>1. CASE Positions(q, id) = {}
  BY <1>1 DEF Without, Positions
<1>2. CASE Positions(q, id) # {}
  <2>1. PICK k \in Positions(q, id) : Without(q, id) = RemoveAt(q, k)
    BY <1>2 DEF Without
  <2> DEFINE w == RemoveAt(q, k)
  <2>2. /\ k \in 1 .. Len(q)
        /\ Id(q[k]) = id
        /\ Len(q) \in Nat
    BY DEF Positions
  <2>3. /\ w \in Seq(Entry)
        /\ Len(w) = Len(q) - 1
        /\ DOMAIN w = 1 .. Len(q) - 1
        /\ \A i \in 1 .. Len(q) - 1 : w[i] = IF i < k THEN q[i] ELSE q[i + 1]
    BY <2>2, RemoveAtFacts
  <2> HIDE DEF w
  <2>4. ASSUME NEW i \in DOMAIN w, NEW j \in DOMAIN w, Id(w[i]) = Id(w[j])
        PROVE  i = j
    <3> DEFINE i0 == IF i < k THEN i ELSE i + 1
               j0 == IF j < k THEN j ELSE j + 1
    <3>1. i0 \in DOMAIN q /\ q[i0] = w[i] /\ j0 \in DOMAIN q /\ q[j0] = w[j]
      BY <2>2, <2>3
    <3>2. i0 = j0
      <4> HIDE DEF i0, j0
      <4> QED
        BY <2>4, <3>1 DEF Unique
    <3>3. QED
      BY <2>2, <2>3, <3>2
  <2>5. ASSUME NEW i \in DOMAIN w
        PROVE  Id(w[i]) # id
    BY <2>2, <2>3 DEF Unique
  <2>6. ASSUME NEW l \in Locs, Behind(q, l), id # <<Own, l>>
        PROVE  Behind(w, l)
    <3> SUFFICES ASSUME NEW i \in DOMAIN w, Id(w[i]) = <<Own, Marker>>
                 PROVE  \E j \in DOMAIN w : j > i /\ Id(w[j]) = <<Own, l>>
      BY DEF Behind
    <3> DEFINE i0 == IF i < k THEN i ELSE i + 1
    <3>1. i0 \in DOMAIN q /\ q[i0] = w[i]
      BY <2>2, <2>3
    <3>2. PICK j0 \in DOMAIN q : j0 > i0 /\ Id(q[j0]) = <<Own, l>>
      BY <2>6, <3>1 DEF Behind
    <3> DEFINE j == IF j0 < k THEN j0 ELSE j0 - 1
    <3>3. j0 # k
      BY <2>2, <2>6, <3>2
    <3>4. j \in DOMAIN w /\ j > i /\ w[j] = q[j0]
      BY <2>2, <2>3, <3>2, <3>3
    <3>5. QED
      BY <3>2, <3>4
  <2>7. QED
    BY <2>1, <2>3, <2>4, <2>5, <2>6 DEF Unique, w
<1>3. QED
  BY <1>1, <1>2

\* Queueing an entry keeps ids unique and puts the entry last.  Unless it is
\* the unit's marker, every location that was behind the marker still is, and
\* so is the location just queued.
LEMMA EnqueueFacts ==
  ASSUME NEW q \in Seq(Entry), NEW e \in Entry, Unique(q)
  PROVE  /\ Enqueue(q, e) \in Seq(Entry)
         /\ Unique(Enqueue(q, e))
         /\ \A l \in Locs :
              Id(e) # <<Own, Marker>> /\ (Behind(q, l) \/ Id(e) = <<Own, l>>)
                => Behind(Enqueue(q, e), l)
<1> DEFINE w == Without(q, Id(e))
           r == Append(w, e)
<1>1. Enqueue(q, e) = r
  BY DEF Enqueue
<1>2. /\ w \in Seq(Entry)
      /\ Unique(w)
      /\ \A i \in DOMAIN w : Id(w[i]) # Id(e)
      /\ \A l \in Locs : Behind(q, l) /\ Id(e) # <<Own, l>> => Behind(w, l)
  BY WithoutFacts
<1> HIDE DEF w
<1>3. /\ r \in Seq(Entry)
      /\ Len(w) \in Nat
      /\ DOMAIN w = 1 .. Len(w)
      /\ DOMAIN r = 1 .. Len(w) + 1
      /\ \A i \in 1 .. Len(w) : r[i] = w[i]
      /\ r[Len(w) + 1] = e
  BY <1>2
<1> HIDE DEF r
<1>4. Unique(r)
  BY <1>2, <1>3 DEF Unique
<1>5. ASSUME NEW l \in Locs, Id(e) # <<Own, Marker>>,
             Behind(q, l) \/ Id(e) = <<Own, l>>
      PROVE  Behind(r, l)
  <2> SUFFICES ASSUME NEW i \in DOMAIN r, Id(r[i]) = <<Own, Marker>>
               PROVE  \E j \in DOMAIN r : j > i /\ Id(r[j]) = <<Own, l>>
    BY DEF Behind
  <2>1. i \in DOMAIN w /\ r[i] = w[i]
    BY <1>3, <1>5
  <2>2. CASE Id(e) = <<Own, l>>
    BY <1>3, <2>1, <2>2
  <2>3. CASE Id(e) # <<Own, l>>
    <3>1. PICK j \in DOMAIN w : j > i /\ Id(w[j]) = <<Own, l>>
      BY <1>2, <1>5, <2>1, <2>3 DEF Behind
    <3>2. QED
      BY <1>3, <3>1
  <2>4. QED
    BY <2>2, <2>3
<1>6. QED
  BY <1>1, <1>3, <1>4, <1>5

\* Taking the first entry off keeps all three.
LEMMA TailFacts ==
  ASSUME NEW q \in Seq(Entry), q # <<>>, Unique(q)
  PROVE  /\ Head(q) \in Entry
         /\ Tail(q) \in Seq(Entry)
         /\ Unique(Tail(q))
         /\ \A l \in Locs : Behind(q, l) => Behind(Tail(q), l)
<1>1. /\ Head(q) \in Entry
      /\ Tail(q) \in Seq(Entry)
      /\ Len(q) \in Nat
      /\ DOMAIN q = 1 .. Len(q)
      /\ DOMAIN Tail(q) = 1 .. Len(q) - 1
      /\ \A i \in 1 .. Len(q) - 1 : Tail(q)[i] = q[i + 1]
  OBVIOUS
<1>2. Unique(Tail(q))
  BY <1>1 DEF Unique
<1>3. ASSUME NEW l \in Locs, Behind(q, l)
      PROVE  Behind(Tail(q), l)
  <2> SUFFICES ASSUME NEW i \in DOMAIN Tail(q),
                      Id(Tail(q)[i]) = <<Own, Marker>>
               PROVE  \E j \in DOMAIN Tail(q) :
                        j > i /\ Id(Tail(q)[j]) = <<Own, l>>
    BY DEF Behind
  <2>1. i + 1 \in DOMAIN q /\ Id(q[i + 1]) = <<Own, Marker>>
    BY <1>1
  <2>2. PICK j \in DOMAIN q : j > i + 1 /\ Id(q[j]) = <<Own, l>>
    BY <1>3, <2>1 DEF Behind
  <2>3. j - 1 \in DOMAIN Tail(q) /\ j - 1 > i /\ Tail(q)[j - 1] = q[j]
    BY <1>1, <2>2
  <2>4. QED
    BY <2>2, <2>3
<1>4. QED
  BY <1>1, <1>2, <1>3

-----------------------------------------------------------------------------
(* Type correctness. *)

\* Enqueue keeps the queue well typed whether or not ids are unique.
LEMMA EnqueueType ==
  ASSUME NEW q \in Seq(Entry), NEW e \in Entry
  PROVE  Enqueue(q, e) \in Seq(Entry)
<1>1. Without(q, Id(e)) \in Seq(Entry)
  <2>1. CASE Positions(q, Id(e)) = {}
    BY <2>1 DEF Without
  <2>2. CASE Positions(q, Id(e)) # {}
    <3>1. PICK k \in Positions(q, Id(e)) : Without(q, Id(e)) = RemoveAt(q, k)
      BY <2>2 DEF Without
    <3>2. k \in 1 .. Len(q)
      BY DEF Positions
    <3>3. QED
      BY <3>1, <3>2, RemoveAtFacts
  <2>3. QED
    BY <2>1, <2>2
<1>2. QED
  BY <1>1 DEF Enqueue

LEMMA OwnEntryType ==
  /\ Own \in Groups
  /\ ResetDCU \in Entry
  /\ \A l \in Locs, o \in Overall : OwnEntry(l, o) \in Entry
BY TrackerAssumption DEF OwnEntry, ResetDCU, Entry, Groups, Overall, Health

LEMMA DecodeType ==
  ASSUME NEW r \in Reading
  PROVE  /\ Decode(r) \in Claim
         /\ Decode(r) # NoClaim =>
              Decode(r).loc \in Locs /\ Decode(r).health \in Health
BY DEF Decode, Reading, Claim, NoClaim, Health

LEMMA ShownType ==
  ASSUME NEW d \in [Groups -> [Locs -> Overall]], NEW e \in Entry
  PROVE  Shown(d, e) \in [Groups -> [Locs -> Overall]]
<1>1. CASE e.loc = Marker
  <2>1. [l \in Locs |-> "WHITE"] \in [Locs -> Overall]
    BY DEF Overall
  <2>2. QED
    BY <1>1, <2>1 DEF Shown, Entry
<1>2. CASE e.loc # Marker
  BY <1>2 DEF Shown, Entry
<1>3. QED
  BY <1>1, <1>2

LEMMA TickType ==
  ASSUME tick \in 0 .. Interval - 1
  PROVE  NextTick \in 0 .. Interval - 1
BY TrackerAssumption DEF NextTick

LEMMA ProcessType ==
  ASSUME TypeOK, NEW c \in [loc : Locs, health : Health], ProcessDCUStatus(c)
  PROVE  /\ occupied' \in [Locs -> BOOLEAN]
         /\ current' \in SUBSET Locs
         /\ initial' \in SUBSET Locs
         /\ status' \in [Groups -> [Locs -> Status]]
         /\ deque' \in Seq(Entry)
<1> USE DEF TypeOK
<1>1. /\ c.loc \in Locs
      /\ c.health \in Overall
      /\ "NO_GO" \in Overall
      /\ Own \in Groups
      /\ status[Own][c.loc] \in Status
      /\ status[Own][c.loc].overall \in Overall
  BY OwnEntryType DEF Overall, Health, Status
<1>2. occupied' \in [Locs -> BOOLEAN] /\ current' \in SUBSET Locs
  BY <1>1 DEF ProcessDCUStatus
<1> DEFINE Added(o)  == Enqueue(deque, OwnEntry(c.loc, o))
           Changed(o) == [status EXCEPT ![Own][c.loc].overall = o]
           Known(o)   == [status EXCEPT ![Own][c.loc] =
                            [known |-> TRUE, overall |-> o]]
<1>3. ASSUME NEW o \in Overall
      PROVE  /\ Added(o) \in Seq(Entry)
             /\ Changed(o) \in [Groups -> [Locs -> Status]]
             /\ Known(o) \in [Groups -> [Locs -> Status]]
  <2>1. Added(o) \in Seq(Entry)
    BY <1>1, OwnEntryType, EnqueueType
  <2>2. [status[Own][c.loc] EXCEPT !.overall = o] \in Status
    BY <1>1 DEF Status
  <2>3. [known |-> TRUE, overall |-> o] \in Status
    BY DEF Status
  <2>4. QED
    BY <1>1, <2>1, <2>2, <2>3
<1>4. \/ /\ initial' = initial \cup {c.loc}
         /\ deque' = Added(c.health)
         /\ status' = Known(c.health)
      \/ /\ initial' = initial
         /\ deque' = Added("NO_GO")
         /\ status' = Changed("NO_GO")
      \/ /\ initial' = initial
         /\ deque' = Added(status[Own][c.loc].overall) \/ deque' = deque
         /\ status' = Changed(c.health)
  BY Zenon DEF ProcessDCUStatus, FirstSeen, Duplicate, Update
<1> HIDE DEF Added, Changed, Known
<1>5. QED
  BY <1>1, <1>2, <1>3, <1>4

LEMMA ClaimRecord == \A c \in Claim : c # NoClaim => c \in [loc : Locs, health : Health]
BY DEF Claim

LEMMA SetTypes ==
  /\ "NO_GO" \in Overall
  /\ \A g \in Overall : [known |-> FALSE, overall |-> g] \in Status
  /\ \A o \in Overall : [known |-> TRUE, overall |-> o] \in Status
  /\ NoClaim \in Claim
BY DEF Overall, Health, Status, Claim

LEMMA InitType == Init => TypeOK
<1> SUFFICES ASSUME Init PROVE TypeOK
  OBVIOUS
<1>1. deque \in Seq(Entry)
  BY OwnEntryType DEF Init
<1>2. /\ pc = "poll"
      /\ reg \in 0 .. NumRegs
      /\ tick \in 0 .. Interval - 1
  BY TrackerAssumption DEF Init
<1> /\ todo \in SUBSET Locs
    /\ refresh \in BOOLEAN
    /\ initial \in SUBSET Locs
    /\ current \in SUBSET Locs
  BY DEF Init
<1>3. seen \in [Regs -> Claim] /\ occupied \in [Locs -> BOOLEAN]
  BY SetTypes DEF Init
<1>4. status \in [Groups -> [Locs -> Status]]
  <2>1. [known |-> FALSE, overall |-> "WHITE"] \in Status
    BY DEF Status, Overall
  <2>2. QED
    BY <2>1 DEF Init, Unknown
<1>5. gds \in [Groups -> [Locs -> Overall]]
  BY DEF Init, Overall
<1>6. QED
  BY <1>1, <1>2, <1>3, <1>4, <1>5 DEF TypeOK

LEMMA StepType == TypeOK /\ [Next]_vars => TypeOK'
<1> SUFFICES ASSUME TypeOK, [Next]_vars PROVE TypeOK'
  OBVIOUS
<1> USE DEF TypeOK
<1>1. ASSUME NEW r \in Reading, ReadReg(r)
      PROVE  TypeOK'
  <2>1. reg \in Regs /\ reg + 1 \in 0 .. NumRegs /\ Decode(r) \in Claim
    BY <1>1, DecodeType, TrackerAssumption DEF ReadReg, Regs
  <2>2. seen' \in [Regs -> Claim] /\ reg' \in 0 .. NumRegs
    BY <1>1, <2>1 DEF ReadReg
  <2>3. /\ occupied' \in [Locs -> BOOLEAN]
        /\ current' \in SUBSET Locs
        /\ initial' \in SUBSET Locs
        /\ status' \in [Groups -> [Locs -> Status]]
        /\ deque' \in Seq(Entry)
    <3>1. CASE Decode(r) = NoClaim /\ UNCHANGED <<occupied, current, initial, status, deque>>
      BY <3>1
    <3>2. CASE Decode(r) # NoClaim /\ ProcessDCUStatus(Decode(r))
      <4>1. Decode(r) \in [loc : Locs, health : Health]
        BY <2>1, <3>2, ClaimRecord
      <4>2. QED
        BY <3>2, <4>1, ProcessType
    <3>3. QED
      BY <1>1, <3>1, <3>2 DEF ReadReg
  <2>4. QED
    BY <1>1, <2>2, <2>3 DEF ReadReg
<1>2. CASE PollDone
  BY <1>2 DEF PollDone
<1>3. ASSUME NEW l \in Locs, SendMissing(l)
      PROVE  TypeOK'
  <2>1. deque' \in Seq(Entry)
    BY <1>3, OwnEntryType, SetTypes, EnqueueType DEF SendMissing
  <2> status[Own][l] \in Status
    BY OwnEntryType
  <2>2. [status[Own][l] EXCEPT !.overall = "NO_GO"] \in Status
    BY SetTypes DEF Status
  <2>3. status' \in [Groups -> [Locs -> Status]]
    BY <1>3, <2>2, OwnEntryType DEF SendMissing
  <2>4. QED
    BY <1>3, <2>1, <2>3 DEF SendMissing
<1>4. ASSUME NEW l \in Locs, SendCurrent(l)
      PROVE  TypeOK'
  <2>1. status[Own][l].overall \in Overall
    BY OwnEntryType DEF Status
  <2>2. deque' \in Seq(Entry)
    BY <1>4, <2>1, OwnEntryType, EnqueueType DEF SendCurrent
  <2>3. QED
    BY <1>4, <2>2 DEF SendCurrent
<1>5. CASE StartRefresh
  <2>1. deque' \in Seq(Entry)
    BY <1>5, OwnEntryType, EnqueueType DEF StartRefresh
  <2>2. QED
    BY <1>5, <2>1 DEF StartRefresh
<1>6. CASE RefreshDone
  BY <1>6 DEF RefreshDone
<1>7. CASE EndPoll
  BY <1>7, TrackerAssumption DEF EndPoll
<1>8. ASSUME Pop, pc' = pc
      PROVE  TypeOK'
  <2>1. Head(deque) \in Entry /\ Tail(deque) \in Seq(Entry)
    BY <1>8 DEF Pop
  <2>2. gds' \in [Groups -> [Locs -> Overall]]
    BY <1>8, <2>1, ShownType DEF Pop
  <2>3. QED
    BY <1>8, <2>1, <2>2 DEF Pop
<1>9. CASE DrainDone
  BY <1>9 DEF DrainDone
<1>10. CASE StatusTimer
  BY <1>10, TickType DEF StatusTimer
<1>11. ASSUME NEW e \in BetaEntries, ProcessBetaDCUStatus(e)
       PROVE  TypeOK'
  <2>1. e \in Entry /\ "BETA" \in Groups
    BY DEF BetaEntries, Groups
  <2>2. deque' \in Seq(Entry)
    BY <1>11, <2>1, EnqueueType DEF ProcessBetaDCUStatus
  <2>3. status' \in [Groups -> [Locs -> Status]]
    <3>1. CASE e.loc = Marker
      BY <1>11, <3>1 DEF ProcessBetaDCUStatus
    <3>2. CASE e.loc # Marker
      <4>1. [known |-> TRUE, overall |-> e.overall] \in Status
        BY <2>1, SetTypes DEF Entry
      <4>2. QED
        BY <1>11, <2>1, <3>2, <4>1 DEF ProcessBetaDCUStatus
    <3>3. QED
      BY <3>1, <3>2
  <2>4. QED
    BY <1>11, <2>2, <2>3 DEF ProcessBetaDCUStatus
<1>12. ASSUME NEW g \in Overall, RepollDCU(g)
       PROVE  TypeOK'
  <2>1. [known |-> FALSE, overall |-> g] \in Status
    BY SetTypes
  <2> status' \in [Groups -> [Locs -> Status]]
    BY <1>12, <2>1 DEF RepollDCU
  <2> seen' \in [Regs -> Claim]
    BY <1>12, SetTypes DEF RepollDCU
  <2> deque' \in Seq(Entry) /\ occupied' \in [Locs -> BOOLEAN]
    BY <1>12 DEF RepollDCU
  <2>2. QED
    BY <1>12 DEF RepollDCU
<1>13. CASE Restart
  <2>1. [known |-> FALSE, overall |-> "WHITE"] \in Status
    BY DEF Status, Overall
  <2> status' \in [Groups -> [Locs -> Status]]
    BY <1>13, <2>1 DEF Restart, Unknown
  <2> deque' \in Seq(Entry)
    BY <1>13, OwnEntryType DEF Restart
  <2> /\ reg' \in 0 .. NumRegs
      /\ tick' \in 0 .. Interval - 1
    BY <1>13, TrackerAssumption DEF Restart
  <2> seen' \in [Regs -> Claim] /\ occupied' \in [Locs -> BOOLEAN]
    BY <1>13, SetTypes DEF Restart
  <2>2. QED
    BY <1>13 DEF Restart
<1>14. CASE UNCHANGED vars
  BY <1>14 DEF vars
<1>15. QED
  BY <1>1, <1>2, <1>3, <1>4, <1>5, <1>6, <1>7, <1>8, <1>9, <1>10, <1>11,
     <1>12, <1>13, <1>14, Zenon DEF Next, Poll, RestOfPoll, Send

\* Every variable keeps its type.
THEOREM TypeCorrect == Spec => []TypeOK
BY InitType, StepType, PTL DEF Spec

-----------------------------------------------------------------------------
(* The inductive invariant. *)

LEMMA OwnGroup ==
  /\ Own \in Groups
  /\ "NO_GO" \in Overall
  /\ Marker \notin Locs
  /\ BadLoc \notin Locs
  /\ NoClaim.loc \notin Locs
BY TrackerAssumption DEF Groups, Overall, Health, NoClaim, BadLoc

\* What queueing an entry of the unit's own group does to the marker rule.
LEMMA EnqueueOwn ==
  ASSUME TypeOK, UniqueIds, NEW l \in Locs, NEW o \in Overall
  PROVE  LET q == Enqueue(deque, OwnEntry(l, o)) IN
         /\ Unique(q)
         /\ Behind(q, l)
         /\ \A m \in Locs : Behind(deque, m) => Behind(q, m)
<1>1. /\ OwnEntry(l, o) \in Entry
      /\ Id(OwnEntry(l, o)) = <<Own, l>>
      /\ Id(OwnEntry(l, o)) # <<Own, Marker>>
      /\ deque \in Seq(Entry)
      /\ Unique(deque)
  BY OwnEntryType, OwnGroup DEF TypeOK, UniqueIds, Unique, OwnEntry, Id
<1>2. QED
  BY <1>1, EnqueueFacts

LEMMA InitInv == Init => IInv
<1> SUFFICES ASSUME Init PROVE IInv
  OBVIOUS
<1>1. KnownIsInitial
  BY OwnGroup DEF Init, KnownIsInitial, Unknown
<1>2. UniqueIds
  BY DEF Init, UniqueIds
<1>3. ReadRegs = {}
  BY DEF Init, ReadRegs
<1>4. ClaimInv /\ ReadingInv
  BY <1>3 DEF Init, ClaimInv, ReadingInv, Claimed
<1>5. MissingInv /\ MarkerInv /\ RegInv
  BY DEF Init, MissingInv, MarkerInv, RegInv
<1>6. QED
  BY <1>1, <1>2, <1>4, <1>5 DEF IInv

\* A register that claims nothing.
LEMMA ReadNothing ==
  ASSUME TypeOK, IInv, NEW r \in Reading, ReadReg(r), Decode(r) = NoClaim
  PROVE  IInv'
<1>1. /\ UNCHANGED <<pc, todo, refresh, occupied, current, initial, status, deque>>
      /\ pc = "poll"
      /\ reg \in Regs
      /\ reg' = reg + 1
      /\ seen' = [seen EXCEPT ![reg] = NoClaim]
  <2>1. CASE UNCHANGED <<occupied, current, initial, status, deque>>
    BY <2>1, TrackerAssumption DEF ReadReg, TypeOK, Regs
  <2>2. QED
    BY <2>1 DEF ReadReg
<1>2. /\ ReadRegs' = ReadRegs \cup {reg}
      /\ ReadRegs \subseteq Regs
      /\ reg \notin ReadRegs
      /\ seen'[reg].loc \notin Locs
      /\ \A t \in ReadRegs : seen'[t] = seen[t]
  BY <1>1, OwnGroup, TrackerAssumption DEF ReadRegs, TypeOK, Regs
<1>3. KnownIsInitial' /\ UniqueIds'
  BY <1>1 DEF IInv, KnownIsInitial, UniqueIds
<1>4. ClaimInv'
  <2>1. \A l \in Locs : Claimed(l)' <=> Claimed(l)
    BY <1>2 DEF Claimed
  <2>2. QED
    BY <1>1, <2>1 DEF IInv, ClaimInv
<1>5. ReadingInv'
  BY <1>1, <1>2 DEF IInv, ReadingInv
<1>6. MissingInv' /\ MarkerInv' /\ RegInv'
  BY <1>1 DEF IInv, MissingInv, MarkerInv, RegInv, Unsent, Behind
<1>7. QED
  BY <1>3, <1>4, <1>5, <1>6 DEF IInv

\* What processDCUStatus does to the table, the list and the queue, whichever
\* of its branches is taken.
LEMMA ClaimEffect ==
  ASSUME TypeOK, IInv, pc = "poll",
         NEW c \in [loc : Locs, health : Health], ProcessDCUStatus(c)
  PROVE  /\ initial' = initial \cup {c.loc}
         /\ status'[Own][c.loc].known
         /\ status'[Own][c.loc].overall =
              IF c.loc \in current THEN "NO_GO" ELSE c.health
         /\ \A m \in Locs \ {c.loc} : status'[Own][m] = status[Own][m]
         /\ Unique(deque')
         /\ \A m \in Locs : Behind(deque, m) => Behind(deque', m)
         /\ c.loc \notin initial => Behind(deque', c.loc)
<1> DEFINE l == c.loc
           Added(o) == Enqueue(deque, OwnEntry(l, o))
<1>1. /\ l \in Locs
      /\ c.health \in Overall
      /\ Own \in Groups
      /\ status \in [Groups -> [Locs -> Status]]
      /\ status[Own][l].overall \in Overall
      /\ "NO_GO" \in Overall
  BY OwnGroup DEF TypeOK, Overall, Health, Status
<1>2. /\ status[Own][l].known <=> l \in initial
      /\ occupied[l] <=> l \in current
      /\ l \in current => l \in initial
      /\ UniqueIds
      /\ Unique(deque)
  BY <1>1 DEF IInv, KnownIsInitial, ClaimInv, UniqueIds, Unique
<1>3. ASSUME NEW o \in Overall
      PROVE  /\ Unique(Added(o))
             /\ Behind(Added(o), l)
             /\ \A m \in Locs : Behind(deque, m) => Behind(Added(o), m)
  BY <1>1, <1>2, EnqueueOwn
<1>4. CASE FirstSeen(c)
  <2>1. deque' = Added(c.health)
    BY <1>4 DEF FirstSeen
  <2> HIDE DEF Added
  <2>2. /\ initial' = initial \cup {l}
        /\ status' = [status EXCEPT ![Own][l] =
                         [known |-> TRUE, overall |-> c.health]]
        /\ l \notin initial
        /\ l \notin current
    BY <1>2, <1>4 DEF FirstSeen
  <2>3. /\ status'[Own][l] = [known |-> TRUE, overall |-> c.health]
        /\ \A m \in Locs \ {l} : status'[Own][m] = status[Own][m]
    BY <1>1, <2>2
  <2>4. QED
    BY <1>1, <1>3, <2>1, <2>2, <2>3
<1>5. ASSUME NEW o \in Overall,
             status' = [status EXCEPT ![Own][l].overall = o],
             l \in initial
      PROVE  /\ status'[Own][l].known
             /\ status'[Own][l].overall = o
             /\ \A m \in Locs \ {l} : status'[Own][m] = status[Own][m]
  <2>1. /\ status'[Own][l] = [status[Own][l] EXCEPT !.overall = o]
        /\ \A m \in Locs \ {l} : status'[Own][m] = status[Own][m]
    BY <1>1, <1>5
  <2>2. status[Own][l] \in Status /\ status[Own][l].known
    BY <1>1, <1>2, <1>5
  <2>3. QED
    BY <2>1, <2>2 DEF Status
<1>6. CASE Duplicate(c)
  <2>1. deque' = Added("NO_GO")
    BY <1>6 DEF Duplicate
  <2> HIDE DEF Added
  <2>2. /\ initial' = initial
        /\ status' = [status EXCEPT ![Own][l].overall = "NO_GO"]
        /\ l \in initial
        /\ l \in current
    BY <1>2, <1>6 DEF Duplicate
  <2>3. QED
    BY <1>1, <1>3, <1>5, <2>1, <2>2
<1>7. CASE Update(c)
  <2>1. deque' = Added(status[Own][l].overall) \/ deque' = deque
    BY <1>7 DEF Update
  <2> HIDE DEF Added
  <2>2. /\ initial' = initial
        /\ status' = [status EXCEPT ![Own][l].overall = c.health]
        /\ l \in initial
        /\ l \notin current
    BY <1>2, <1>7 DEF Update
  <2>3. QED
    BY <1>1, <1>2, <1>3, <1>5, <2>1, <2>2
<1>8. QED
  BY <1>4, <1>6, <1>7 DEF ProcessDCUStatus

\* A register that claims a location.
LEMMA ReadClaim ==
  ASSUME TypeOK, IInv, NEW r \in Reading, ReadReg(r), Decode(r) # NoClaim
  PROVE  IInv'
<1> DEFINE c == Decode(r)
           l == c.loc
<1>1. /\ UNCHANGED <<pc, todo, refresh>>
      /\ pc = "poll"
      /\ reg \in Regs
      /\ reg' = reg + 1
      /\ seen' = [seen EXCEPT ![reg] = c]
      /\ seen \in [Regs -> Claim]
      /\ ProcessDCUStatus(c)
  BY TrackerAssumption DEF ReadReg, TypeOK, Regs
<1>2. /\ c \in [loc : Locs, health : Health]
      /\ l \in Locs
  BY DecodeType, ClaimRecord
<1> HIDE DEF c
<1>3. /\ ReadRegs' = ReadRegs \cup {reg}
      /\ ReadRegs \subseteq Regs
      /\ reg \notin ReadRegs
      /\ seen'[reg] = c
      /\ \A t \in ReadRegs : seen'[t] = seen[t]
  BY <1>1, TrackerAssumption DEF ReadRegs, TypeOK, Regs
<1>4. /\ initial' = initial \cup {l}
      /\ status'[Own][l].known
      /\ status'[Own][l].overall = IF l \in current THEN "NO_GO" ELSE c.health
      /\ \A m \in Locs \ {l} : status'[Own][m] = status[Own][m]
      /\ Unique(deque')
      /\ \A m \in Locs : Behind(deque, m) => Behind(deque', m)
      /\ l \notin initial => Behind(deque', l)
  BY <1>1, <1>2, ClaimEffect
<1>5. /\ current' = current \cup {l}
      /\ \A m \in Locs : occupied'[m] <=> m = l \/ occupied[m]
  BY <1>1, <1>2 DEF ProcessDCUStatus, TypeOK
<1>6. KnownIsInitial'
  BY <1>2, <1>4 DEF IInv, KnownIsInitial
<1>7. UniqueIds'
  BY <1>4 DEF UniqueIds, Unique
<1>8. ClaimInv'
  <2>1. \A m \in Locs : Claimed(m)' <=> Claimed(m) \/ m = l
    BY <1>3 DEF Claimed
  <2>2. QED
    BY <1>1, <1>4, <1>5, <2>1 DEF IInv, ClaimInv
<1>9. ReadingInv'
  <2> SUFFICES ASSUME NEW a \in ReadRegs', seen'[a].loc \in Locs
               PROVE  status'[Own][seen'[a].loc].overall =
                        IF \A t \in ReadRegs' : seen'[t].loc = seen'[a].loc => t = a
                        THEN seen'[a].health ELSE "NO_GO"
    BY DEF ReadingInv
  <2>1. CASE seen'[a].loc # l
    <3>1. /\ a \in ReadRegs
          /\ \A t \in ReadRegs' : seen'[t].loc = seen'[a].loc => t \in ReadRegs
      BY <1>3, <2>1
    <3>2. status'[Own][seen'[a].loc] = status[Own][seen[a].loc]
      BY <1>3, <1>4, <2>1, <3>1
    <3>3. QED
      BY <1>3, <2>1, <3>1, <3>2 DEF IInv, ReadingInv
  <2>2. CASE seen'[a].loc = l /\ l \notin current
    <3>1. \A t \in ReadRegs : seen[t].loc # l
      BY <1>2, <2>2 DEF IInv, ClaimInv, Claimed
    <3>2. a = reg /\ (\A t \in ReadRegs' : seen'[t].loc = l => t = reg)
      BY <1>3, <2>2, <3>1
    <3>3. QED
      BY <1>3, <1>4, <2>2, <3>2
  <2>3. CASE seen'[a].loc = l /\ l \in current
    <3>1. PICK t \in ReadRegs : seen[t].loc = l
      BY <1>2, <2>3 DEF IInv, ClaimInv, Claimed
    <3>2. /\ t \in ReadRegs' /\ reg \in ReadRegs' /\ t # reg
          /\ seen'[t].loc = l /\ seen'[reg].loc = l
      BY <1>3, <3>1
    <3>3. QED
      BY <1>4, <2>3, <3>2
  <2>4. QED
    BY <2>1, <2>2, <2>3
<1>10. MissingInv'
  BY <1>1 DEF IInv, MissingInv
<1>11. MarkerInv'
  <2>1. Unsent' = {} /\ Unsent = {}
    BY <1>1 DEF Unsent
  <2>2. initial \subseteq Locs
    BY DEF TypeOK
  <2>3. QED
    BY <1>2, <1>4, <2>1, <2>2 DEF IInv, MarkerInv
<1>12. RegInv'
  BY <1>1 DEF IInv, RegInv
<1>13. QED
  BY <1>6, <1>7, <1>8, <1>9, <1>10, <1>11, <1>12 DEF IInv

\* The loop of lookForMissingDCUAfterInit.
LEMMA MissingStep ==
  ASSUME TypeOK, IInv, NEW l \in Locs, SendMissing(l)
  PROVE  IInv'
<1>1. /\ UNCHANGED <<pc, reg, refresh, seen, occupied, initial, current>>
      /\ pc = "missing"
      /\ l \in todo
      /\ todo' = todo \ {l}
      /\ deque' = Enqueue(deque, OwnEntry(l, "NO_GO"))
      /\ status' = [status EXCEPT ![Own][l].overall = "NO_GO"]
  BY DEF SendMissing, Smallest
<1>2. /\ l \in initial
      /\ l \notin current
      /\ Own \in Groups
      /\ status \in [Groups -> [Locs -> Status]]
      /\ status[Own][l] \in Status
  BY <1>1, OwnGroup DEF IInv, MissingInv, TypeOK
<1>3. /\ status'[Own][l].overall = "NO_GO"
      /\ status'[Own][l].known = status[Own][l].known
      /\ \A m \in Locs \ {l} : status'[Own][m] = status[Own][m]
  <2>1. /\ status'[Own][l] = [status[Own][l] EXCEPT !.overall = "NO_GO"]
        /\ \A m \in Locs \ {l} : status'[Own][m] = status[Own][m]
    BY <1>1, <1>2
  <2>2. QED
    BY <1>2, <2>1 DEF Status
<1>4. /\ Unique(deque')
      /\ Behind(deque', l)
      /\ \A m \in Locs : Behind(deque, m) => Behind(deque', m)
  BY <1>1, OwnGroup, EnqueueOwn DEF IInv
<1>5. ReadRegs' = ReadRegs
  BY <1>1 DEF ReadRegs
<1>6. KnownIsInitial'
  BY <1>1, <1>2, <1>3 DEF IInv, KnownIsInitial
<1>7. UniqueIds'
  BY <1>4 DEF UniqueIds, Unique
<1>8. ClaimInv'
  BY <1>1, <1>5 DEF IInv, ClaimInv, Claimed
<1>9. ReadingInv'
  <2>1. \A t \in ReadRegs : seen[t].loc # l
    BY <1>2 DEF IInv, ClaimInv, Claimed
  <2> SUFFICES ASSUME NEW r \in ReadRegs, seen[r].loc \in Locs
               PROVE  status'[Own][seen[r].loc].overall =
                        IF \A t \in ReadRegs : seen[t].loc = seen[r].loc => t = r
                        THEN seen[r].health ELSE "NO_GO"
    BY <1>1, <1>5 DEF ReadingInv
  <2>2. status'[Own][seen[r].loc] = status[Own][seen[r].loc]
    BY <1>3, <2>1
  <2>3. QED
    BY <2>2 DEF IInv, ReadingInv
<1>10. MissingInv'
  <2>1. \A m \in initial \ current : m \in Locs
    BY DEF TypeOK
  <2>2. QED
    BY <1>1, <1>3, <2>1 DEF IInv, MissingInv
<1>11. MarkerInv'
  <2>1. \A m \in Locs : m \in Unsent => m \in Unsent' \/ m = l
    BY <1>1 DEF Unsent
  <2>2. initial \subseteq Locs
    BY DEF TypeOK
  <2>3. QED
    BY <1>1, <1>4, <2>1, <2>2 DEF IInv, MarkerInv
<1>12. RegInv'
  BY <1>1 DEF IInv, RegInv
<1>13. QED
  BY <1>6, <1>7, <1>8, <1>9, <1>10, <1>11, <1>12 DEF IInv

\* The steps that only move the poll on, or fill the queue.
LEMMA QueueStep ==
  ASSUME TypeOK, IInv,
         UNCHANGED <<seen, initial, current, status>>,
         ReadRegs' = ReadRegs,
         UniqueIds', MissingInv', MarkerInv', RegInv',
         pc' = "poll" => pc = "poll" /\ UNCHANGED occupied
  PROVE  IInv'
<1>1. KnownIsInitial'
  BY DEF IInv, KnownIsInitial
<1>2. ClaimInv'
  BY DEF IInv, ClaimInv, Claimed
<1>3. ReadingInv'
  BY DEF IInv, ReadingInv
<1>4. QED
  BY <1>1, <1>2, <1>3 DEF IInv

LEMMA PollDoneStep == ASSUME TypeOK, IInv, PollDone PROVE IInv'
<1>1. /\ UNCHANGED <<reg, refresh, occupied, deque>>
      /\ UNCHANGED <<seen, initial, current, status>>
      /\ pc = "poll" /\ pc' = "missing" /\ reg = NumRegs
      /\ todo' = initial \ current
  BY DEF PollDone
<1>2. ReadRegs' = ReadRegs
  BY <1>1 DEF ReadRegs, Regs
<1>3. UniqueIds' /\ RegInv'
  BY <1>1 DEF IInv, UniqueIds, RegInv
<1>4. MissingInv'
  BY <1>1 DEF MissingInv
<1>5. MarkerInv'
  BY <1>1 DEF IInv, MarkerInv, Unsent, Behind
<1>6. QED
  BY <1>1, <1>2, <1>3, <1>4, <1>5, QueueStep

LEMMA StartRefreshStep == ASSUME TypeOK, IInv, StartRefresh PROVE IInv'
<1>1. /\ UNCHANGED <<reg, refresh, occupied>>
      /\ UNCHANGED <<seen, initial, current, status>>
      /\ pc = "missing" /\ pc' = "refresh" /\ todo = {}
      /\ todo' = current
      /\ deque' = Enqueue(deque, ResetDCU)
  BY DEF StartRefresh
<1>2. ReadRegs' = ReadRegs
  BY <1>1 DEF ReadRegs
<1>3. UniqueIds'
  <2>1. deque \in Seq(Entry) /\ Unique(deque)
    BY DEF TypeOK, IInv, UniqueIds, Unique
  <2>2. Unique(deque')
    BY <1>1, <2>1, OwnEntryType, EnqueueFacts
  <2>3. QED
    BY <2>2 DEF UniqueIds, Unique
<1>4. MissingInv' /\ RegInv'
  BY <1>1 DEF IInv, MissingInv, RegInv
<1>5. MarkerInv'
  BY <1>1 DEF MarkerInv, Unsent
<1>6. QED
  BY <1>1, <1>2, <1>3, <1>4, <1>5, QueueStep

LEMMA SendCurrentStep ==
  ASSUME TypeOK, IInv, NEW l \in Locs, SendCurrent(l) PROVE IInv'
<1> DEFINE o == status[Own][l].overall
<1>1. /\ UNCHANGED <<pc, reg, refresh, occupied>>
      /\ UNCHANGED <<seen, initial, current, status>>
      /\ pc = "refresh" /\ l \in todo
      /\ todo' = todo \ {l}
      /\ deque' = Enqueue(deque, OwnEntry(l, o))
  BY DEF SendCurrent, Smallest
<1>2. o \in Overall
  BY OwnGroup DEF TypeOK, Status
<1>3. /\ Unique(deque')
      /\ Behind(deque', l)
      /\ \A m \in Locs : Behind(deque, m) => Behind(deque', m)
  BY <1>1, <1>2, EnqueueOwn DEF IInv
<1>4. ReadRegs' = ReadRegs
  BY <1>1 DEF ReadRegs
<1>5. UniqueIds'
  BY <1>3 DEF UniqueIds, Unique
<1>6. MissingInv' /\ RegInv'
  BY <1>1 DEF IInv, MissingInv, RegInv
<1>7. MarkerInv'
  <2>1. \A m \in Locs : m \in Unsent => m \in Unsent' \/ m = l
    BY <1>1 DEF Unsent
  <2>2. initial \subseteq Locs
    BY DEF TypeOK
  <2>3. QED
    BY <1>1, <1>3, <2>1, <2>2 DEF IInv, MarkerInv
<1>8. QED
  BY <1>1, <1>4, <1>5, <1>6, <1>7, QueueStep

LEMMA RefreshDoneStep == ASSUME TypeOK, IInv, RefreshDone PROVE IInv'
<1>1. /\ UNCHANGED <<reg, occupied, deque>>
      /\ UNCHANGED <<seen, initial, current, status>>
      /\ pc = "refresh" /\ pc' = "missing" /\ todo = {} /\ ~refresh'
      /\ todo' = initial \ current
  BY DEF RefreshDone
<1>2. ReadRegs' = ReadRegs
  BY <1>1 DEF ReadRegs
<1>3. UniqueIds' /\ RegInv' /\ MissingInv'
  BY <1>1 DEF IInv, UniqueIds, RegInv, MissingInv
<1>4. MarkerInv'
  <2>1. Unsent = initial \ current /\ Unsent' = initial \ current
    BY <1>1 DEF Unsent
  <2>2. QED
    BY <1>1, <2>1 DEF IInv, MarkerInv, Behind
<1>5. QED
  BY <1>1, <1>2, <1>3, <1>4, QueueStep

LEMMA EndPollStep == ASSUME TypeOK, IInv, EndPoll PROVE IInv'
<1>1. /\ UNCHANGED <<todo, refresh, occupied, deque>>
      /\ UNCHANGED <<seen, initial, current, status>>
      /\ pc = "missing" /\ pc' \in {"drain", "idle"} /\ todo = {} /\ ~refresh
      /\ reg' = 0
  BY DEF EndPoll
<1>2. ReadRegs' = ReadRegs
  BY <1>1 DEF ReadRegs
<1>3. UniqueIds' /\ RegInv' /\ MissingInv'
  BY <1>1 DEF IInv, UniqueIds, RegInv, MissingInv
<1>4. MarkerInv'
  BY <1>1 DEF IInv, MarkerInv, Unsent, Behind
<1>5. QED
  BY <1>1, <1>2, <1>3, <1>4, QueueStep

LEMMA PopStep ==
  ASSUME TypeOK, IInv, Pop, pc' = pc, pc \in {"idle", "drain"} PROVE IInv'
<1>1. /\ UNCHANGED <<reg, todo, refresh, occupied, pc>>
      /\ UNCHANGED <<seen, initial, current, status>>
      /\ deque # <<>> /\ deque' = Tail(deque)
  BY DEF Pop
<1>2. ReadRegs' = ReadRegs
  BY <1>1 DEF ReadRegs
<1>3. deque \in Seq(Entry) /\ Unique(deque)
  BY DEF TypeOK, IInv, UniqueIds, Unique
<1>4. Unique(deque') /\ \A m \in Locs : Behind(deque, m) => Behind(deque', m)
  BY <1>1, <1>3, TailFacts
<1>5. UniqueIds'
  BY <1>4 DEF UniqueIds, Unique
<1>6. RegInv' /\ MissingInv'
  BY <1>1 DEF IInv, RegInv, MissingInv
<1>7. MarkerInv'
  <2>1. Unsent' = Unsent /\ initial \subseteq Locs
    BY <1>1 DEF Unsent, TypeOK
  <2>2. QED
    BY <1>1, <1>4, <2>1 DEF IInv, MarkerInv
<1>8. QED
  BY <1>1, <1>2, <1>5, <1>6, <1>7, QueueStep

LEMMA DrainDoneStep == ASSUME TypeOK, IInv, DrainDone PROVE IInv'
<1>1. /\ UNCHANGED <<reg, todo, refresh, occupied, deque>>
      /\ UNCHANGED <<seen, initial, current, status>>
      /\ pc = "drain" /\ pc' = "idle"
  BY DEF DrainDone
<1>2. ReadRegs' = ReadRegs
  BY <1>1 DEF ReadRegs
<1>3. UniqueIds' /\ RegInv' /\ MissingInv'
  BY <1>1 DEF IInv, UniqueIds, RegInv, MissingInv
<1>4. MarkerInv'
  BY <1>1 DEF IInv, MarkerInv, Unsent, Behind
<1>5. QED
  BY <1>1, <1>2, <1>3, <1>4, QueueStep

LEMMA StatusTimerStep == ASSUME TypeOK, IInv, StatusTimer PROVE IInv'
<1>1. /\ UNCHANGED <<reg, todo, seen, initial, status, deque>>
      /\ pc = "idle" /\ pc' = "poll" /\ reg = 0
      /\ occupied' = [l \in Locs |-> FALSE]
      /\ current' = {}
  BY DEF StatusTimer, IInv, RegInv
<1>2. ReadRegs' = {}
  BY <1>1 DEF ReadRegs
<1>3. KnownIsInitial' /\ UniqueIds' /\ RegInv'
  BY <1>1 DEF IInv, KnownIsInitial, UniqueIds, RegInv
<1>4. ClaimInv' /\ ReadingInv'
  BY <1>1, <1>2 DEF ClaimInv, Claimed, ReadingInv
<1>5. MissingInv'
  BY <1>1 DEF MissingInv
<1>6. MarkerInv'
  <2>1. Unsent = {}
    BY <1>1 DEF Unsent
  <2>2. QED
    BY <1>1, <2>1 DEF IInv, MarkerInv, Behind
<1>7. QED
  BY <1>3, <1>4, <1>5, <1>6 DEF IInv

\* An entry of the other unit neither changes this unit's table nor takes a
\* place behind its marker.
LEMMA BetaStep ==
  ASSUME TypeOK, IInv, NEW e \in BetaEntries, ProcessBetaDCUStatus(e)
  PROVE  IInv'
<1>1. /\ UNCHANGED <<pc, reg, todo, refresh, occupied>>
      /\ UNCHANGED <<seen, initial, current>>
      /\ deque' = Enqueue(deque, e)
      /\ Own = "ALPHA"
      /\ status'[Own] = status[Own]
      /\ e \in Entry /\ e.group = "BETA"
  <2>1. status \in [Groups -> [Locs -> Status]]
    BY DEF TypeOK
  <2>2. QED
    BY <2>1 DEF ProcessBetaDCUStatus, BetaEntries
<1>2. deque \in Seq(Entry) /\ Unique(deque)
  BY DEF TypeOK, IInv, UniqueIds, Unique
<1>3. Id(e) # <<Own, Marker>>
  BY <1>1 DEF Id
<1>4. Unique(deque') /\ \A m \in Locs : Behind(deque, m) => Behind(deque', m)
  BY <1>1, <1>2, <1>3, EnqueueFacts
<1>5. ReadRegs' = ReadRegs
  BY <1>1 DEF ReadRegs
<1>6. KnownIsInitial' /\ RegInv'
  BY <1>1 DEF IInv, KnownIsInitial, RegInv
<1>7. UniqueIds'
  BY <1>4 DEF UniqueIds, Unique
<1>8. ClaimInv' /\ ReadingInv' /\ MissingInv'
  BY <1>1, <1>5 DEF IInv, ClaimInv, Claimed, ReadingInv, MissingInv
<1>9. MarkerInv'
  <2>1. Unsent' = Unsent /\ initial \subseteq Locs
    BY <1>1 DEF Unsent, TypeOK
  <2>2. QED
    BY <1>1, <1>4, <2>1 DEF IInv, MarkerInv
<1>10. QED
  BY <1>6, <1>7, <1>8, <1>9 DEF IInv

LEMMA RepollStep ==
  ASSUME TypeOK, IInv, NEW garbage \in Overall, RepollDCU(garbage)
  PROVE  IInv'
<1>1. /\ UNCHANGED <<pc, reg, todo, refresh>>
      /\ pc = "idle"
      /\ deque' = <<>>
      /\ initial' = {} /\ current' = {}
      /\ \A l \in Locs : status'[Own][l].known = FALSE
      /\ \A r \in Regs : seen'[r].loc \notin Locs
  BY OwnGroup, TrackerAssumption DEF RepollDCU, NoClaim, BadLoc
<1>2. ReadRegs' = Regs
  BY <1>1 DEF ReadRegs
<1>3. KnownIsInitial' /\ UniqueIds' /\ RegInv'
  BY <1>1 DEF IInv, KnownIsInitial, UniqueIds, RegInv
<1>4. ClaimInv' /\ ReadingInv'
  BY <1>1, <1>2 DEF ClaimInv, Claimed, ReadingInv
<1>5. MissingInv' /\ MarkerInv'
  BY <1>1 DEF IInv, MissingInv, MarkerInv
<1>6. QED
  BY <1>3, <1>4, <1>5 DEF IInv

\* A restarted unit knows nothing, as at the start.
LEMMA RestartStep == ASSUME TypeOK, IInv, Restart PROVE IInv'
<1>1. ReadRegs' = {}
  BY DEF Restart, ReadRegs
<1>2. KnownIsInitial'
  BY OwnGroup DEF Restart, KnownIsInitial, Unknown
<1>3. UniqueIds'
  BY DEF Restart, UniqueIds
<1>4. ClaimInv' /\ ReadingInv'
  BY <1>1 DEF Restart, ClaimInv, ReadingInv, Claimed
<1>5. MissingInv' /\ MarkerInv' /\ RegInv'
  BY DEF Restart, MissingInv, MarkerInv, RegInv
<1>6. QED
  BY <1>2, <1>3, <1>4, <1>5 DEF IInv

LEMMA StutterStep == ASSUME TypeOK, IInv, UNCHANGED vars PROVE IInv'
BY DEF vars, IInv, KnownIsInitial, UniqueIds, ClaimInv, Claimed, ReadingInv,
       MissingInv, MarkerInv, Unsent, Behind, RegInv, ReadRegs

LEMMA StepInv == TypeOK /\ IInv /\ [Next]_vars => IInv'
<1> SUFFICES ASSUME TypeOK, IInv, [Next]_vars PROVE IInv'
  OBVIOUS
<1>1. ASSUME NEW r \in Reading, ReadReg(r) PROVE IInv'
  BY <1>1, ReadNothing, ReadClaim
<1>2. ASSUME NEW l \in Locs, SendMissing(l) \/ SendCurrent(l) PROVE IInv'
  BY <1>2, MissingStep, SendCurrentStep
<1>3. CASE PollDone \/ StartRefresh \/ RefreshDone \/ EndPoll
  BY <1>3, PollDoneStep, StartRefreshStep, RefreshDoneStep, EndPollStep
<1>4. CASE Send
  BY <1>4, PopStep DEF Send
<1>5. CASE DrainDone \/ StatusTimer
  BY <1>5, DrainDoneStep, StatusTimerStep
<1>6. ASSUME NEW e \in BetaEntries, ProcessBetaDCUStatus(e) PROVE IInv'
  BY <1>6, BetaStep
<1>7. ASSUME NEW g \in Overall, RepollDCU(g) PROVE IInv'
  BY <1>7, RepollStep
<1>8. QED
  BY <1>1, <1>2, <1>3, <1>4, <1>5, <1>6, <1>7, RestartStep, StutterStep DEF Next, Poll, RestOfPoll

-----------------------------------------------------------------------------
(* What the queue carries. *)

\* Queueing an entry adds it and loses no entry with another id.
LEMMA EnqueueMembers ==
  ASSUME NEW q \in Seq(Entry), NEW e \in Entry
  PROVE  LET r == Enqueue(q, e) IN
         /\ \E i \in DOMAIN r : r[i] = e
         /\ \A i \in DOMAIN r : r[i] = e \/ \E j \in DOMAIN q : r[i] = q[j]
         /\ \A j \in DOMAIN q : Id(q[j]) # Id(e) => \E i \in DOMAIN r : r[i] = q[j]
<1> DEFINE w == Without(q, Id(e))
           r == Append(w, e)
<1>1. /\ w \in Seq(Entry)
      /\ \A i \in DOMAIN w : \E j \in DOMAIN q : w[i] = q[j]
      /\ \A j \in DOMAIN q : Id(q[j]) # Id(e) => \E i \in DOMAIN w : w[i] = q[j]
  <2>1. CASE Positions(q, Id(e)) = {}
    BY <2>1 DEF Without
  <2>2. CASE Positions(q, Id(e)) # {}
    <3>1. PICK k \in Positions(q, Id(e)) : w = RemoveAt(q, k)
      BY <2>2 DEF Without
    <3> HIDE DEF w
    <3>2. k \in 1 .. Len(q) /\ Id(q[k]) = Id(e) /\ Len(q) \in Nat /\ DOMAIN q = 1 .. Len(q)
      BY DEF Positions
    <3>3. /\ w \in Seq(Entry)
          /\ DOMAIN w = 1 .. Len(q) - 1
          /\ \A i \in 1 .. Len(q) - 1 : w[i] = IF i < k THEN q[i] ELSE q[i + 1]
      BY <3>1, <3>2, RemoveAtFacts
    <3>4. ASSUME NEW j \in DOMAIN q, Id(q[j]) # Id(e)
          PROVE  \E i \in DOMAIN w : w[i] = q[j]
      <4>1. CASE j < k
        BY <3>2, <3>3, <4>1
      <4>2. CASE j > k
        <5>1. j - 1 \in DOMAIN w /\ w[j - 1] = q[j]
          BY <3>2, <3>3, <4>2
        <5>2. QED
          BY <5>1
      <4>3. QED
        BY <3>2, <3>4, <4>1, <4>2
    <3>5. QED
      BY <3>2, <3>3, <3>4
  <2>3. QED
    BY <2>1, <2>2
<1> HIDE DEF w
<1>2. /\ DOMAIN r = 1 .. Len(w) + 1
      /\ DOMAIN w = 1 .. Len(w)
      /\ Len(w) \in Nat
      /\ \A i \in 1 .. Len(w) : r[i] = w[i]
      /\ r[Len(w) + 1] = e
  BY <1>1
<1> HIDE DEF r
<1>3. Enqueue(q, e) = r
  BY DEF Enqueue, r, w
<1>4. QED
  BY <1>1, <1>2, <1>3

Sound(e) ==
  /\ e.loc = Marker <=> e.overall = "WHITE"
  /\ Own = "BETA" => e.group = "BETA"

\* Queueing a sound entry keeps the queue sound.
LEMMA EnqueueSound ==
  ASSUME TypeOK, SoundInv, NEW e \in Entry, Sound(e), deque' = Enqueue(deque, e)
  PROVE  \A i \in DOMAIN deque' : Sound(deque'[i])
<1>1. deque \in Seq(Entry) /\ \A j \in DOMAIN deque : Sound(deque[j])
  BY DEF TypeOK, SoundInv, Sound
<1>2. QED
  BY <1>1, EnqueueMembers

LEMMA OwnSound ==
  /\ Sound(ResetDCU)
  /\ \A l \in Locs, o \in Health : Sound(OwnEntry(l, o)) /\ OwnEntry(l, o) \in Entry
BY OwnEntryType, OwnGroup DEF Sound, ResetDCU, OwnEntry, Health, Overall

\* The queue stays sound when locations are queued with the health they have.
LEMMA StepSound == TypeOK /\ IInv /\ SoundInv /\ [Next]_vars => SoundInv'
<1> SUFFICES ASSUME TypeOK, IInv, SoundInv, [Next]_vars PROVE SoundInv'
  OBVIOUS
<1> USE DEF Sound
<1>1. /\ Own \in Groups
      /\ "NO_GO" \in Health
      /\ initial \subseteq Locs /\ current \subseteq Locs /\ todo \subseteq Locs
      /\ deque \in Seq(Entry)
      /\ status \in [Groups -> [Locs -> Status]]
      /\ \A l \in Locs : l \in initial <=> status[Own][l].known
  BY OwnGroup DEF TypeOK, Health, IInv, KnownIsInitial
<1>2. ASSUME UNCHANGED <<initial, status, deque>> PROVE SoundInv'
  BY <1>2 DEF SoundInv
<1>3. ASSUME UNCHANGED <<initial, status>>, NEW l \in initial,
             deque' = Enqueue(deque, OwnEntry(l, status[Own][l].overall))
      PROVE  SoundInv'
  <2>1. status[Own][l].overall \in Health /\ l \in Locs
    BY <1>1 DEF SoundInv
  <2>2. \A i \in DOMAIN deque' : Sound(deque'[i])
    BY <1>3, <2>1, OwnSound, EnqueueSound
  <2>3. QED
    BY <1>3, <2>2 DEF SoundInv
<1>4. ASSUME NEW r \in Reading, ReadReg(r), Decode(r) # NoClaim
      PROVE  SoundInv'
  <2> DEFINE c == Decode(r)
             l == c.loc
  <2>1. /\ c \in [loc : Locs, health : Health]
        /\ l \in Locs /\ c.health \in Health
        /\ ProcessDCUStatus(c)
        /\ pc = "poll"
    BY <1>4, DecodeType, ClaimRecord DEF ReadReg
  <2> HIDE DEF c
  <2>2. /\ initial' = initial \cup {l}
        /\ status'[Own][l].overall = IF l \in current THEN "NO_GO" ELSE c.health
        /\ \A m \in Locs \ {l} : status'[Own][m] = status[Own][m]
    BY <2>1, ClaimEffect
  <2>3. \A m \in initial' : status'[Own][m].overall \in Health
    BY <1>1, <2>1, <2>2 DEF SoundInv
  <2>4. \/ UNCHANGED deque
        \/ \E o \in Health : deque' = Enqueue(deque, OwnEntry(l, o))
    <3>1. status[Own][l].known => status[Own][l].overall \in Health
      BY <1>1, <2>1 DEF SoundInv
    <3>2. QED
      BY <1>1, <2>1, <3>1 DEF ProcessDCUStatus, FirstSeen, Duplicate, Update
  <2>5. \A i \in DOMAIN deque' : Sound(deque'[i])
    <3>1. CASE UNCHANGED deque
      BY <3>1 DEF SoundInv
    <3>2. ASSUME NEW o \in Health, deque' = Enqueue(deque, OwnEntry(l, o))
          PROVE  \A i \in DOMAIN deque' : Sound(deque'[i])
      BY <2>1, <3>2, OwnSound, EnqueueSound
    <3>3. QED
      BY <2>4, <3>1, <3>2
  <2>6. QED
    BY <2>3, <2>5 DEF SoundInv
<1>5. ASSUME NEW l \in Locs, SendMissing(l) PROVE SoundInv'
  <2>1. /\ deque' = Enqueue(deque, OwnEntry(l, "NO_GO"))
        /\ initial' = initial
        /\ status' = [status EXCEPT ![Own][l].overall = "NO_GO"]
    BY <1>5 DEF SendMissing
  <2>2. \A i \in DOMAIN deque' : Sound(deque'[i])
    BY <1>1, <2>1, OwnSound, EnqueueSound
  <2>3. status'[Own][l].overall = "NO_GO" /\ \A m \in Locs \ {l} : status'[Own][m] = status[Own][m]
    <3>1. status[Own][l] \in Status
      BY <1>1
    <3>2. QED
      BY <1>1, <2>1, <3>1 DEF Status
  <2>4. QED
    BY <1>1, <2>1, <2>2, <2>3 DEF SoundInv
<1>6. ASSUME NEW l \in Locs, SendCurrent(l) PROVE SoundInv'
  <2>1. l \in initial
    BY <1>6 DEF SendCurrent, Smallest, IInv, MissingInv, ClaimInv
  <2>2. QED
    BY <1>3, <1>6, <2>1 DEF SendCurrent
<1>7. CASE StartRefresh
  <2>1. \A i \in DOMAIN deque' : Sound(deque'[i])
    BY <1>7, OwnSound, OwnEntryType, EnqueueSound DEF StartRefresh
  <2>2. QED
    BY <1>7, <2>1 DEF StartRefresh, SoundInv
<1>8. CASE PollDone \/ RefreshDone \/ EndPoll \/ DrainDone \/ StatusTimer
  BY <1>2, <1>8 DEF PollDone, RefreshDone, EndPoll, DrainDone, StatusTimer
<1>9. CASE Send
  <2>1. deque # <<>> /\ deque' = Tail(deque) /\ UNCHANGED <<initial, status>>
    BY <1>9 DEF Send, Pop
  <2>2. /\ DOMAIN deque' = 1 .. Len(deque) - 1
        /\ \A i \in 1 .. Len(deque) - 1 : deque'[i] = deque[i + 1]
        /\ DOMAIN deque = 1 .. Len(deque)
        /\ Len(deque) \in Nat
    BY <1>1, <2>1
  <2>3. QED
    BY <2>1, <2>2 DEF SoundInv
<1>10. ASSUME NEW e \in BetaEntries, ProcessBetaDCUStatus(e) PROVE SoundInv'
  <2>1. /\ Own = "ALPHA"
        /\ deque' = Enqueue(deque, e)
        /\ initial' = initial
        /\ e \in Entry /\ Sound(e)
    BY <1>10 DEF ProcessBetaDCUStatus, BetaEntries
  <2>2. \A l \in Locs : status'[Own][l] = status[Own][l]
    BY <1>1, <1>10, <2>1 DEF ProcessBetaDCUStatus
  <2>3. \A i \in DOMAIN deque' : Sound(deque'[i])
    BY <2>1, EnqueueSound
  <2>4. QED
    BY <1>1, <2>1, <2>2, <2>3 DEF SoundInv
<1>11. ASSUME NEW g \in Overall, RepollDCU(g) PROVE SoundInv'
  BY <1>11 DEF RepollDCU, SoundInv
<1>12. CASE Restart
  <2>1. deque' = <<ResetDCU>> /\ initial' = {}
    BY <1>12 DEF Restart
  <2>2. QED
    BY <2>1, OwnSound DEF SoundInv
<1>13. ASSUME NEW r \in Reading, ReadReg(r), Decode(r) = NoClaim PROVE SoundInv'
  BY <1>2, <1>13 DEF ReadReg
<1>14. CASE UNCHANGED vars
  BY <1>2, <1>14 DEF vars
<1>15. QED
  BY <1>4, <1>5, <1>6, <1>7, <1>8, <1>9, <1>10, <1>11, <1>12, <1>13, <1>14, Zenon
  DEF Next, Poll, RestOfPoll

LEMMA InitSound == Init => SoundInv
BY OwnSound DEF Init, SoundInv, Sound

\* Queueing the status of a location keeps a queued fault, unless it is the
\* fault of that same location.
LEMMA KeepsQueued ==
  ASSUME TypeOK, NEW e \in Entry, NEW l \in Locs, deque' = Enqueue(deque, e),
         Queued(OwnEntry(l, "NO_GO")), Id(e) # <<Own, l>>
  PROVE  Queued(OwnEntry(l, "NO_GO"))'
<1>1. PICK j \in DOMAIN deque : deque[j] = OwnEntry(l, "NO_GO")
  BY DEF Queued
<1>2. deque \in Seq(Entry) /\ Id(deque[j]) = <<Own, l>>
  BY <1>1 DEF TypeOK, Id, OwnEntry
<1>3. QED
  BY <1>1, <1>2, EnqueueMembers DEF Queued, OwnEntry

LEMMA IsQueued ==
  ASSUME TypeOK, NEW l \in Locs, deque' = Enqueue(deque, OwnEntry(l, "NO_GO"))
  PROVE  Queued(OwnEntry(l, "NO_GO"))'
BY OwnEntryType, OwnGroup, EnqueueMembers DEF TypeOK, Queued, OwnEntry

Twice(a, b) ==
  /\ a \in ReadRegs /\ b \in ReadRegs
  /\ a # b
  /\ seen[a].loc = seen[b].loc
  /\ seen[a].loc \in Locs

\* A fault found is queued at once, and no later entry of the poll displaces it.
LEMMA StepFault == TypeOK /\ IInv /\ FaultInv /\ [Next]_vars => FaultInv'
<1> SUFFICES ASSUME TypeOK, IInv, FaultInv, [Next]_vars PROVE FaultInv'
  OBVIOUS
<1>1. /\ Own \in Groups
      /\ initial \subseteq Locs /\ current \subseteq Locs /\ todo \subseteq Locs
      /\ \A l \in Locs : l \in initial <=> status[Own][l].known
  BY OwnGroup DEF TypeOK, IInv, KnownIsInitial
<1>2. ASSUME pc' \in {"idle", "drain"} PROVE FaultInv'
  BY <1>2 DEF FaultInv
<1>3. ASSUME ReadRegs' = {}, pc' = "poll" PROVE FaultInv'
  BY <1>3 DEF FaultInv
<1>4. CASE EndPoll \/ DrainDone \/ Send
           \/ (\E e \in BetaEntries : ProcessBetaDCUStatus(e))
           \/ (\E g \in Overall : RepollDCU(g))
  BY <1>2, <1>4 DEF EndPoll, DrainDone, Send, ProcessBetaDCUStatus, RepollDCU
<1>5. CASE StatusTimer
  BY <1>3, <1>5 DEF StatusTimer, ReadRegs, IInv, RegInv
<1>6. CASE Restart
  BY <1>3, <1>6 DEF Restart, ReadRegs
<1>7. CASE PollDone
  <2>1. /\ pc = "poll" /\ pc' = "missing" /\ reg = NumRegs
        /\ todo' = initial \ current
        /\ UNCHANGED <<seen, initial, current, deque>>
    BY <1>7 DEF PollDone
  <2>2. ReadRegs' = ReadRegs
    BY <2>1 DEF ReadRegs, Regs
  <2>3. QED
    BY <2>1, <2>2 DEF FaultInv, Queued
<1>8. CASE RefreshDone
  <2>1. /\ pc = "refresh" /\ pc' = "missing"
        /\ todo' = initial \ current
        /\ UNCHANGED <<seen, initial, current, deque>>
    BY <1>8 DEF RefreshDone
  <2>2. ReadRegs' = ReadRegs
    BY <2>1 DEF ReadRegs
  <2>3. QED
    BY <2>1, <2>2 DEF FaultInv, Queued
<1>9. CASE StartRefresh
  <2>1. /\ pc = "missing" /\ pc' = "refresh"
        /\ deque' = Enqueue(deque, ResetDCU)
        /\ UNCHANGED <<seen, initial, current>>
    BY <1>9 DEF StartRefresh
  <2>2. ReadRegs' = ReadRegs
    BY <2>1 DEF ReadRegs
  <2>3. \A l \in Locs : Id(ResetDCU) # <<Own, l>>
    BY OwnGroup DEF Id, ResetDCU, OwnEntry
  <2>4. QED
    BY <2>1, <2>2, <2>3, KeepsQueued, OwnEntryType DEF FaultInv
<1>10. ASSUME NEW l \in Locs, SendMissing(l) PROVE FaultInv'
  <2>1. /\ pc = "missing" /\ pc' = "missing"
        /\ todo' = todo \ {l} /\ l \in todo
        /\ deque' = Enqueue(deque, OwnEntry(l, "NO_GO"))
        /\ UNCHANGED <<seen, initial, current>>
    BY <1>10 DEF SendMissing, Smallest
  <2>2. ReadRegs' = ReadRegs
    BY <2>1 DEF ReadRegs
  <2>3. \A m \in Locs : m # l /\ Queued(OwnEntry(m, "NO_GO")) => Queued(OwnEntry(m, "NO_GO"))'
    <3>1. \A m \in Locs : m # l => Id(OwnEntry(l, "NO_GO")) # <<Own, m>>
      BY DEF Id, OwnEntry
    <3>2. QED
      BY <2>1, <3>1, KeepsQueued, OwnEntryType, OwnGroup
  <2>4. Queued(OwnEntry(l, "NO_GO"))'
    BY <2>1, IsQueued
  <2>5. QED
    BY <1>1, <2>1, <2>2, <2>3, <2>4 DEF FaultInv
<1>11. ASSUME NEW l \in Locs, SendCurrent(l) PROVE FaultInv'
  <2> DEFINE o == status[Own][l].overall
  <2>1. /\ pc = "refresh" /\ pc' = "refresh"
        /\ deque' = Enqueue(deque, OwnEntry(l, o))
        /\ UNCHANGED <<seen, initial, current>>
    BY <1>11 DEF SendCurrent
  <2>2. ReadRegs' = ReadRegs
    BY <2>1 DEF ReadRegs
  <2>3. o \in Overall
    BY <1>1 DEF TypeOK, Status
  <2>4. ASSUME NEW a, NEW b, Twice(a, b)'
        PROVE  Queued(OwnEntry(seen[a].loc, "NO_GO"))'
    <3>1. Twice(a, b) /\ Queued(OwnEntry(seen[a].loc, "NO_GO"))
      BY <2>1, <2>2, <2>4 DEF Twice, FaultInv
    <3>2. CASE seen[a].loc = l
      <4>1. o = "NO_GO"
        BY <3>1, <3>2 DEF Twice, IInv, ReadingInv
      <4>2. QED
        BY <2>1, <3>2, <4>1, IsQueued
    <3>3. CASE seen[a].loc # l
      <4>1. Id(OwnEntry(l, o)) # <<Own, seen[a].loc>> /\ seen[a].loc \in Locs
        BY <3>1, <3>3 DEF Id, OwnEntry, Twice
      <4>2. QED
        BY <2>1, <2>3, <3>1, <4>1, KeepsQueued, OwnEntryType
    <3>4. QED
      BY <3>2, <3>3
  <2>5. QED
    BY <2>1, <2>4 DEF FaultInv, Twice
<1>12. ASSUME NEW r \in Reading, ReadReg(r), Decode(r) = NoClaim PROVE FaultInv'
  <2>1. /\ pc = "poll" /\ pc' = "poll" /\ reg' = reg + 1 /\ reg \in Regs
        /\ seen' = [seen EXCEPT ![reg] = NoClaim]
        /\ UNCHANGED deque
    BY <1>12, TrackerAssumption DEF ReadReg, TypeOK, Regs
  <2>2. /\ ReadRegs' = ReadRegs \cup {reg}
        /\ reg \notin ReadRegs
        /\ seen'[reg].loc \notin Locs
        /\ \A t \in ReadRegs : seen'[t] = seen[t]
    BY <2>1, OwnGroup, TrackerAssumption DEF ReadRegs, TypeOK, Regs
  <2>3. QED
    BY <2>1, <2>2 DEF FaultInv, Queued
<1>13. ASSUME NEW r \in Reading, ReadReg(r), Decode(r) # NoClaim PROVE FaultInv'
  <2> DEFINE c == Decode(r)
             l == c.loc
  <2>1. /\ pc = "poll" /\ pc' = "poll" /\ reg' = reg + 1 /\ reg \in Regs
        /\ seen' = [seen EXCEPT ![reg] = c]
        /\ c \in [loc : Locs, health : Health]
        /\ l \in Locs /\ c.health \in Overall
        /\ ProcessDCUStatus(c)
    BY <1>13, DecodeType, ClaimRecord, TrackerAssumption
    DEF ReadReg, TypeOK, Regs, Overall
  <2> HIDE DEF c
  <2>2. /\ ReadRegs' = ReadRegs \cup {reg}
        /\ reg \notin ReadRegs
        /\ seen'[reg] = c
        /\ \A t \in ReadRegs : seen'[t] = seen[t]
    BY <2>1, TrackerAssumption DEF ReadRegs, TypeOK, Regs
  <2>3. \/ UNCHANGED deque /\ l \notin current
        \/ \E o \in Overall : deque' = Enqueue(deque, OwnEntry(l, o)) /\ l \notin current
        \/ deque' = Enqueue(deque, OwnEntry(l, "NO_GO"))
    <3>1. status[Own][l].overall \in Overall /\ (occupied[l] <=> l \in current)
      BY <1>1, <2>1 DEF TypeOK, Status, IInv, ClaimInv
    <3>2. l \in current => status[Own][l].known
      BY <1>1, <2>1 DEF IInv, ClaimInv
    <3>3. QED
      BY <1>1, <2>1, <3>1, <3>2 DEF ProcessDCUStatus, FirstSeen, Duplicate, Update
  <2>4. ASSUME NEW m \in Locs, m # l, Queued(OwnEntry(m, "NO_GO"))
        PROVE  Queued(OwnEntry(m, "NO_GO"))'
    <3>1. \A o : Id(OwnEntry(l, o)) # <<Own, m>>
      BY <2>4 DEF Id, OwnEntry
    <3>2. CASE UNCHANGED deque
      BY <2>4, <3>2 DEF Queued
    <3>3. ASSUME NEW o \in Overall, deque' = Enqueue(deque, OwnEntry(l, o))
          PROVE  Queued(OwnEntry(m, "NO_GO"))'
      BY <2>1, <2>4, <3>1, <3>3, KeepsQueued, OwnEntryType
    <3>4. QED
      BY <2>3, <3>2, <3>3, OwnGroup
  <2>5. ASSUME NEW a, NEW b, Twice(a, b)'
        PROVE  Queued(OwnEntry(seen[a].loc, "NO_GO"))'
    <3>1. CASE a # reg /\ b # reg
      <4>1. Twice(a, b)
        BY <2>2, <2>5, <3>1 DEF Twice
      <4>2. Queued(OwnEntry(seen[a].loc, "NO_GO")) /\ seen[a].loc \in Locs
        BY <2>1, <4>1 DEF Twice, FaultInv
      <4>3. seen'[a] = seen[a] /\ (seen[a].loc = l => l \in current)
        BY <2>1, <2>2, <4>1 DEF Twice, IInv, ClaimInv, Claimed
      <4>4. CASE seen[a].loc = l
        BY <2>1, <2>3, <4>2, <4>3, <4>4, IsQueued
      <4>5. CASE seen[a].loc # l
        BY <2>4, <4>2, <4>3, <4>5
      <4>6. QED
        BY <4>4, <4>5
    <3>2. CASE a = reg \/ b = reg
      <4>1. PICK t \in ReadRegs : seen[t].loc = l
        BY <2>2, <2>5, <3>2 DEF Twice
      <4>2. l \in current /\ seen'[a].loc = l
        BY <2>1, <2>2, <2>5, <3>2, <4>1 DEF Twice, IInv, ClaimInv, Claimed
      <4>3. QED
        BY <2>1, <2>3, <4>2, IsQueued
    <3>3. QED
      BY <3>1, <3>2
  <2>6. QED
    BY <2>1, <2>5 DEF FaultInv, Twice
<1>14. CASE UNCHANGED vars
  <2>1. ReadRegs' = ReadRegs
    BY <1>14 DEF vars, ReadRegs
  <2>2. QED
    BY <1>14, <2>1 DEF vars, FaultInv, Queued
<1>15. QED
  BY <1>4, <1>5, <1>6, <1>7, <1>8, <1>9, <1>10, <1>11, <1>12, <1>13, <1>14, Zenon
  DEF Next, Poll, RestOfPoll

LEMMA InitFault == Init => FaultInv
BY DEF Init, FaultInv, ReadRegs

-----------------------------------------------------------------------------
(* What the display will show once the queue has been sent. *)

\* The entry queued last decides what is displayed for the locations that it
\* overwrites, and changes nothing for the others.
LEMMA EnqueueDisplays ==
  ASSUME NEW q \in Seq(Entry), NEW e \in Entry, NEW l \in Locs
  PROVE  LET r == Enqueue(q, e) IN
         /\ Overwrites(e, l) => LastWord(r, l, e.overall)
         /\ ~Overwrites(e, l) => \A o : LastWord(q, l, o) => LastWord(r, l, o)
         /\ ~Overwrites(e, l) /\ NoWord(q, l) => NoWord(r, l)
<1> DEFINE w == Without(q, Id(e))
           r == Append(w, e)
<1>1. /\ w \in Seq(Entry)
      /\ ~Overwrites(e, l) => \A o : LastWord(q, l, o) => LastWord(w, l, o)
      /\ ~Overwrites(e, l) /\ NoWord(q, l) => NoWord(w, l)
  <2>1. CASE Positions(q, Id(e)) = {}
    BY <2>1 DEF Without
  <2>2. CASE Positions(q, Id(e)) # {}
    <3>1. PICK k \in Positions(q, Id(e)) : w = RemoveAt(q, k)
      BY <2>2 DEF Without
    <3> HIDE DEF w
    <3>2. k \in 1 .. Len(q) /\ Id(q[k]) = Id(e) /\ Len(q) \in Nat /\ DOMAIN q = 1 .. Len(q)
      BY DEF Positions
    <3>3. /\ w \in Seq(Entry)
          /\ DOMAIN w = 1 .. Len(q) - 1
          /\ \A i \in 1 .. Len(q) - 1 : w[i] = IF i < k THEN q[i] ELSE q[i + 1]
      BY <3>1, <3>2, RemoveAtFacts
    <3>4. ASSUME ~Overwrites(e, l), NEW o, LastWord(q, l, o)
          PROVE  LastWord(w, l, o)
      <4>1. PICK i \in DOMAIN q : /\ Overwrites(q[i], l)
                                  /\ q[i].overall = o
                                  /\ \A j \in DOMAIN q : j > i => ~Overwrites(q[j], l)
        BY <3>4 DEF LastWord
      <4>2. i # k
        BY <3>2, <3>4, <4>1 DEF Overwrites, Id
      <4> DEFINE m == IF i < k THEN i ELSE i - 1
      <4>3. m \in DOMAIN w /\ w[m] = q[i]
        BY <3>2, <3>3, <4>2
      <4>4. ASSUME NEW j \in DOMAIN w, j > m
            PROVE  ~Overwrites(w[j], l)
        <5> DEFINE n == IF j < k THEN j ELSE j + 1
        <5>1. n \in DOMAIN q /\ w[j] = q[n]
          BY <3>2, <3>3
        <5>2. n > i
          BY <3>2, <3>3, <4>2, <4>4
        <5> HIDE DEF n
        <5>3. QED
          BY <4>1, <5>1, <5>2
      <4> HIDE DEF m
      <4>5. QED
        BY <4>1, <4>3, <4>4 DEF LastWord
    <3>5. NoWord(q, l) => NoWord(w, l)
      BY <3>2, <3>3 DEF NoWord
    <3>6. QED
      BY <3>3, <3>4, <3>5
  <2>3. QED
    BY <2>1, <2>2
<1> HIDE DEF w
<1>2. /\ DOMAIN r = 1 .. Len(w) + 1
      /\ DOMAIN w = 1 .. Len(w)
      /\ Len(w) \in Nat
      /\ \A i \in 1 .. Len(w) : r[i] = w[i]
      /\ r[Len(w) + 1] = e
  BY <1>1
<1> HIDE DEF r
<1>3. Enqueue(q, e) = r
  BY DEF Enqueue, r, w
<1>4. Overwrites(e, l) => LastWord(r, l, e.overall)
  BY <1>2 DEF LastWord
<1>5. ASSUME ~Overwrites(e, l), NEW o, LastWord(w, l, o)
      PROVE  LastWord(r, l, o)
  <2>1. PICK i \in DOMAIN w : /\ Overwrites(w[i], l)
                              /\ w[i].overall = o
                              /\ \A j \in DOMAIN w : j > i => ~Overwrites(w[j], l)
    BY <1>5 DEF LastWord
  <2>2. ASSUME NEW j \in DOMAIN r, j > i
        PROVE  ~Overwrites(r[j], l)
    <3>1. CASE j = Len(w) + 1
      BY <1>2, <1>5, <3>1
    <3>2. CASE j \in DOMAIN w
      BY <1>2, <2>1, <2>2, <3>2
    <3>3. QED
      BY <1>2, <3>1, <3>2
  <2>3. QED
    BY <1>2, <2>1, <2>2 DEF LastWord
<1>6. ~Overwrites(e, l) /\ NoWord(w, l) => NoWord(r, l)
  BY <1>2 DEF NoWord
<1>7. QED
  BY <1>1, <1>3, <1>4, <1>5, <1>6

\* An entry of a location decides for that location and for no other.
LEMMA OwnDisplays ==
  ASSUME TypeOK, NEW l \in Locs, NEW o \in Overall, UNCHANGED gds,
         deque' = Enqueue(deque, OwnEntry(l, o))
  PROVE  /\ Displays(l, o)'
         /\ \A m \in Locs \ {l} : \A x : Displays(m, x) => Displays(m, x)'
<1>1. OwnEntry(l, o) \in Entry /\ deque \in Seq(Entry)
  BY OwnEntryType DEF TypeOK
<1>2. /\ Overwrites(OwnEntry(l, o), l)
      /\ OwnEntry(l, o).overall = o
      /\ \A m \in Locs \ {l} : ~Overwrites(OwnEntry(l, o), m)
  BY OwnGroup DEF Overwrites, OwnEntry
<1>3. LastWord(deque', l, o)
  BY <1>1, <1>2, EnqueueDisplays
<1>4. ASSUME NEW m \in Locs \ {l}
      PROVE  /\ \A x : LastWord(deque, m, x) => LastWord(deque', m, x)
             /\ NoWord(deque, m) => NoWord(deque', m)
  BY <1>1, <1>2, EnqueueDisplays
<1>5. QED
  BY <1>3, <1>4 DEF Displays

\* The marker blanks every location.
LEMMA MarkerDisplays ==
  ASSUME TypeOK, deque' = Enqueue(deque, ResetDCU) \/ deque' = <<ResetDCU>>
  PROVE  \A l \in Locs : Displays(l, "WHITE")'
<1> SUFFICES ASSUME NEW l \in Locs PROVE LastWord(deque', l, "WHITE")
  BY DEF Displays
<1>1. ResetDCU \in Entry /\ deque \in Seq(Entry)
  BY OwnEntryType DEF TypeOK
<1>2. Overwrites(ResetDCU, l) /\ ResetDCU.overall = "WHITE"
  BY DEF Overwrites, ResetDCU, OwnEntry
<1>3. CASE deque' = Enqueue(deque, ResetDCU)
  BY <1>1, <1>2, <1>3, EnqueueDisplays
<1>4. CASE deque' = <<ResetDCU>>
  <2>1. DOMAIN deque' = {1} /\ deque'[1] = ResetDCU
    BY <1>4
  <2>2. QED
    BY <1>2, <2>1 DEF LastWord
<1>5. QED
  BY <1>3, <1>4

\* Sending an entry shows what it says, so what will be shown stays the same.
LEMMA PopDisplays ==
  ASSUME TypeOK, SoundInv, Pop, NEW l \in Locs, NEW o, Displays(l, o)
  PROVE  Displays(l, o)'
<1> DEFINE q == deque
           t == Tail(deque)
           e == Head(deque)
<1>1. /\ deque' = t
      /\ gds' = Shown(gds, e)
      /\ q \in Seq(Entry) /\ q # <<>>
      /\ gds \in [Groups -> [Locs -> Overall]]
      /\ Own \in Groups
  BY OwnGroup DEF Pop, TypeOK
<1>2. /\ e = q[1] /\ e \in Entry
      /\ Len(q) \in Nat \ {0}
      /\ DOMAIN q = 1 .. Len(q)
      /\ DOMAIN t = 1 .. Len(q) - 1
      /\ \A i \in 1 .. Len(q) - 1 : t[i] = q[i + 1]
  BY <1>1
<1>3. e.loc = Marker => e.overall = "WHITE"
  BY <1>2 DEF SoundInv
<1> HIDE DEF q, t, e
<1>4. Overwrites(e, l) => gds'[Own][l] = e.overall
  <2>1. CASE e.loc = Marker
    BY <1>1, <1>3, <2>1 DEF Overwrites, Shown
  <2>2. CASE e.loc # Marker
    BY <1>1, <2>2 DEF Overwrites, Shown
  <2>3. QED
    BY <2>1, <2>2
<1>5. ~Overwrites(e, l) => gds'[Own][l] = gds[Own][l]
  <2>1. CASE e.loc = Marker
    BY <1>1, <2>1 DEF Overwrites, Shown
  <2>2. CASE e.loc # Marker
    BY <1>1, <1>2, <2>2 DEF Overwrites, Shown, Entry
  <2>3. QED
    BY <2>1, <2>2
<1>6. CASE NoWord(q, l) /\ gds[Own][l] = o
  <2>1. ~Overwrites(e, l) /\ NoWord(t, l)
    BY <1>2, <1>6 DEF NoWord
  <2>2. QED
    BY <1>1, <1>5, <1>6, <2>1 DEF Displays
<1>7. CASE LastWord(q, l, o)
  <2>1. PICK i \in DOMAIN q : /\ Overwrites(q[i], l)
                              /\ q[i].overall = o
                              /\ \A j \in DOMAIN q : j > i => ~Overwrites(q[j], l)
    BY <1>7 DEF LastWord
  <2>2. CASE i = 1
    <3>1. gds'[Own][l] = o
      BY <1>2, <1>4, <2>1, <2>2
    <3>2. NoWord(t, l)
      BY <1>2, <2>1, <2>2 DEF NoWord
    <3>3. QED
      BY <1>1, <3>1, <3>2 DEF Displays
  <2>3. CASE i # 1
    <3>1. i - 1 \in DOMAIN t /\ t[i - 1] = q[i]
      BY <1>2, <2>3
    <3>2. \A j \in DOMAIN t : j > i - 1 => ~Overwrites(t[j], l)
      BY <1>2, <2>1
    <3>3. LastWord(t, l, o)
      BY <2>1, <3>1, <3>2 DEF LastWord
    <3>4. QED
      BY <1>1, <3>3 DEF Displays
  <2>4. QED
    BY <2>2, <2>3
<1>8. QED
  BY <1>6, <1>7 DEF Displays, q

\* From the marker of a refresh, or from a start, to the end of the drain the
\* display and the queue follow the table.
LEMMA StepPaint == TypeOK /\ IInv /\ SoundInv /\ PaintInv /\ [Next]_vars => PaintInv'
<1> SUFFICES ASSUME TypeOK, IInv, SoundInv, PaintInv, [Next]_vars PROVE PaintInv'
  OBVIOUS
<1>1. /\ Own \in Groups
      /\ "NO_GO" \in Overall
      /\ initial \subseteq Locs /\ current \subseteq Locs /\ todo \subseteq Locs
      /\ current \subseteq initial
      /\ status \in [Groups -> [Locs -> Status]]
      /\ \A l \in Locs : l \in initial <=> status[Own][l].known
  BY OwnGroup DEF TypeOK, IInv, KnownIsInitial, ClaimInv
<1>2. ASSUME UNCHANGED <<status, deque, gds>>
      PROVE  /\ \A l : Wanted(l)' = Wanted(l)
             /\ \A l, o : Displays(l, o) => Displays(l, o)'
  BY <1>2 DEF Wanted, Displays
<1>3. CASE (\E e \in BetaEntries : ProcessBetaDCUStatus(e))
           \/ (\E g \in Overall : RepollDCU(g)) \/ DrainDone
  BY <1>3 DEF ProcessBetaDCUStatus, RepollDCU, DrainDone, PaintInv, Painting
<1>4. CASE StatusTimer
  BY <1>4 DEF StatusTimer, PaintInv, Painting
<1>5. CASE PollDone
  <2>1. /\ pc = "poll" /\ pc' = "missing" /\ todo' = initial \ current
        /\ UNCHANGED <<tick, refresh, initial, current, status, deque, gds>>
    BY <1>5 DEF PollDone
  <2>2. Painting' => Painting /\ Unpainted = {}
    BY <2>1 DEF Painting, Unpainted
  <2>3. QED
    BY <1>2, <2>1, <2>2 DEF PaintInv
<1>6. CASE RefreshDone
  <2>1. /\ pc = "refresh" /\ pc' = "missing" /\ todo' = initial \ current
        /\ todo = {}
        /\ UNCHANGED <<tick, status, deque, gds>>
    BY <1>6 DEF RefreshDone
  <2>2. (Painting' => Painting) /\ Unpainted' = Unpainted
    BY <2>1 DEF Painting, Unpainted
  <2>3. QED
    BY <1>2, <2>1, <2>2 DEF PaintInv
<1>7. CASE EndPoll
  <2>1. /\ pc = "missing" /\ pc' \in {"drain", "idle"} /\ todo = {} /\ ~refresh
        /\ UNCHANGED <<tick, status, deque, gds>>
    BY <1>7 DEF EndPoll
  <2>2. (Painting' => Painting) /\ Unpainted = {}
    BY <2>1 DEF Painting, Unpainted
  <2>3. QED
    BY <1>2, <2>1, <2>2 DEF PaintInv
<1>8. CASE StartRefresh
  <2>1. /\ pc' = "refresh" /\ todo' = current
        /\ deque' = Enqueue(deque, ResetDCU)
        /\ UNCHANGED <<initial, current, status>>
    BY <1>8 DEF StartRefresh
  <2>2. \A l \in Locs : Displays(l, "WHITE")'
    BY <2>1, MarkerDisplays
  <2>3. \A l \in Locs \ Unpainted' : Wanted(l)' = "WHITE"
    BY <1>1, <2>1 DEF Unpainted, Wanted
  <2>4. QED
    BY <2>1, <2>2, <2>3 DEF PaintInv
<1>9. CASE Restart
  <2>1. pc' = "poll" /\ initial' = {} /\ deque' = <<ResetDCU>> /\ status' = Unknown
    BY <1>9 DEF Restart
  <2>2. \A l \in Locs : Displays(l, "WHITE")'
    BY <2>1, MarkerDisplays
  <2>3. \A l \in Locs : Wanted(l)' = "WHITE"
    BY <1>1, <2>1 DEF Wanted, Unknown
  <2>4. QED
    BY <2>1, <2>2, <2>3 DEF PaintInv
<1>10. ASSUME NEW l \in Locs, SendMissing(l) PROVE PaintInv'
  <2>1. /\ pc = "missing" /\ pc' = "missing" /\ l \in todo /\ todo' = todo \ {l}
        /\ status' = [status EXCEPT ![Own][l].overall = "NO_GO"]
        /\ deque' = Enqueue(deque, OwnEntry(l, "NO_GO"))
        /\ UNCHANGED <<tick, refresh, gds>>
    BY <1>10 DEF SendMissing, Smallest
  <2>2. /\ Painting' => Painting
        /\ Unpainted' = Unpainted \ {l}
    BY <2>1 DEF Painting, Unpainted
  <2>3. /\ Displays(l, "NO_GO")'
        /\ \A m \in Locs \ {l} : \A x : Displays(m, x) => Displays(m, x)'
    BY <1>1, <2>1, OwnDisplays
  <2>4. l \in initial
    BY <2>1 DEF IInv, MissingInv
  <2>5. /\ Wanted(l)' = "NO_GO"
        /\ \A m \in Locs \ {l} : Wanted(m)' = Wanted(m)
    BY <1>1, <2>1, <2>4 DEF Wanted, Status
  <2>6. QED
    BY <2>1, <2>2, <2>3, <2>5 DEF PaintInv
<1>11. ASSUME NEW l \in Locs, SendCurrent(l) PROVE PaintInv'
  <2> DEFINE o == status[Own][l].overall
  <2>1. /\ pc = "refresh" /\ pc' = "refresh" /\ l \in todo /\ todo' = todo \ {l}
        /\ deque' = Enqueue(deque, OwnEntry(l, o))
        /\ UNCHANGED <<tick, refresh, initial, current, status, gds>>
    BY <1>11 DEF SendCurrent, Smallest
  <2>2. o \in Overall
    BY <1>1 DEF Status
  <2>3. /\ Painting' => Painting
        /\ Unpainted \subseteq Unpainted' \cup {l}
    BY <2>1 DEF Painting, Unpainted
  <2>4. /\ Displays(l, o)'
        /\ \A m \in Locs \ {l} : \A x : Displays(m, x) => Displays(m, x)'
    BY <2>1, <2>2, OwnDisplays
  <2>5. l \in initial
    BY <1>1, <2>1 DEF IInv, MissingInv
  <2>6. /\ Wanted(l)' = o
        /\ \A m \in Locs : Wanted(m)' = Wanted(m)
    BY <1>1, <2>1, <2>5 DEF Wanted
  <2>7. QED
    BY <2>1, <2>3, <2>4, <2>6 DEF PaintInv
<1>12. CASE Send
  <2>1. Pop /\ UNCHANGED <<pc, tick, refresh, todo, initial, current, status>>
    BY <1>12 DEF Send, Pop
  <2>2. \A l \in Locs : \A o : Displays(l, o) => Displays(l, o)'
    BY <2>1, PopDisplays
  <2>3. /\ \A l \in Locs : Wanted(l)' = Wanted(l)
        /\ Unpainted' = Unpainted
        /\ Painting' => Painting
    BY <2>1 DEF Wanted, Unpainted, Painting
  <2>4. QED
    BY <2>1, <2>2, <2>3 DEF PaintInv
<1>13. ASSUME NEW r \in Reading, ReadReg(r), Decode(r) = NoClaim PROVE PaintInv'
  <2>1. /\ pc = "poll" /\ pc' = "poll"
        /\ UNCHANGED <<tick, refresh, todo, initial, current, status, deque, gds>>
    BY <1>13 DEF ReadReg
  <2>2. /\ Unpainted' = Unpainted
        /\ Painting' => Painting
    BY <2>1 DEF Unpainted, Painting
  <2>3. QED
    BY <1>2, <2>1, <2>2 DEF PaintInv
<1>14. ASSUME NEW r \in Reading, ReadReg(r), Decode(r) # NoClaim PROVE PaintInv'
  <2> DEFINE c == Decode(r)
             l == c.loc
  <2>1. /\ pc = "poll" /\ pc' = "poll"
        /\ c \in [loc : Locs, health : Health]
        /\ l \in Locs /\ c.health \in Overall
        /\ ProcessDCUStatus(c)
        /\ UNCHANGED <<tick, refresh, gds>>
    BY <1>14, DecodeType, ClaimRecord DEF ReadReg, Overall
  <2> HIDE DEF c
  <2> SUFFICES ASSUME Painting' PROVE PaintInv'
    BY DEF PaintInv
  <2>2. /\ Painting
        /\ initial \subseteq current
        /\ Unpainted = {} /\ Unpainted' = {}
    BY <2>1 DEF Painting, Unpainted, PaintInv
  <2>3. /\ initial' = initial \cup {l}
        /\ current' = current \cup {l}
        /\ status'[Own][l].known
        /\ status'[Own][l].overall = IF l \in current THEN "NO_GO" ELSE c.health
        /\ \A m \in Locs \ {l} : status'[Own][m] = status[Own][m]
    BY <2>1, ClaimEffect DEF ProcessDCUStatus
  <2>4. occupied[l] <=> status[Own][l].known
    BY <1>1, <2>1, <2>2 DEF IInv, ClaimInv
  <2>5. deque' = Enqueue(deque, OwnEntry(l, status'[Own][l].overall))
    <3>1. FirstSeen(c) \/ Duplicate(c)
      BY <2>1, <2>4 DEF ProcessDCUStatus, Update
    <3>2. CASE FirstSeen(c)
      <4>1. l \notin current
        BY <1>1, <2>1, <3>2 DEF FirstSeen
      <4>2. QED
        BY <2>3, <3>2, <4>1 DEF FirstSeen
    <3>3. CASE Duplicate(c)
      <4>1. l \in current
        BY <1>1, <2>1, <2>2, <3>3 DEF Duplicate
      <4>2. QED
        BY <2>3, <3>3, <4>1 DEF Duplicate
    <3>4. QED
      BY <3>1, <3>2, <3>3
  <2>6. PICK o \in Overall : o = status'[Own][l].overall
    BY <1>1, <2>1, <2>3
  <2>7. /\ Displays(l, o)'
        /\ \A m \in Locs \ {l} : \A x : Displays(m, x) => Displays(m, x)'
    BY <2>1, <2>5, <2>6, OwnDisplays
  <2>8. /\ Wanted(l)' = o
        /\ \A m \in Locs \ {l} : Wanted(m)' = Wanted(m)
    BY <2>3, <2>6 DEF Wanted
  <2>9. \A m \in Locs : Displays(m, Wanted(m))
    BY <2>2 DEF PaintInv
  <2>10. QED
    BY <2>1, <2>2, <2>3, <2>7, <2>8, <2>9 DEF PaintInv
<1>15. CASE UNCHANGED vars
  <2>1. UNCHANGED <<pc, tick, refresh, todo, initial, current, status, deque, gds>>
    BY <1>15 DEF vars
  <2>2. /\ Unpainted' = Unpainted
        /\ Painting' => Painting
    BY <2>1 DEF Unpainted, Painting
  <2>3. QED
    BY <1>2, <2>1, <2>2 DEF PaintInv
<1>16. QED
  BY <1>3, <1>4, <1>5, <1>6, <1>7, <1>8, <1>9, <1>10, <1>11, <1>12, <1>13, <1>14, <1>15,
     Zenon
  DEF Next, Poll, RestOfPoll

LEMMA InitPaint == Init => PaintInv
<1> SUFFICES ASSUME Init PROVE PaintInv
  OBVIOUS
<1>1. deque = <<ResetDCU>> /\ pc = "poll" /\ initial = {} /\ status = Unknown
  BY DEF Init
<1>2. DOMAIN deque = {1} /\ deque[1] = ResetDCU
  BY <1>1
<1>3. ASSUME NEW l \in Locs PROVE Displays(l, Wanted(l))
  <2>1. Wanted(l) = "WHITE"
    BY <1>1, OwnGroup DEF Wanted, Unknown
  <2>2. Overwrites(ResetDCU, l) /\ ResetDCU.overall = "WHITE"
    BY DEF Overwrites, ResetDCU, OwnEntry
  <2>3. QED
    BY <1>2, <2>1, <2>2 DEF Displays, LastWord
<1>4. QED
  BY <1>1, <1>3 DEF PaintInv

\* The queue of DUB is empty when its drain ends, ...
LEMMA DrainEnds ==
  ASSUME [Next]_vars, pc = "drain", pc' = "idle"
  PROVE  DrainDone
BY DEF Next, Poll, RestOfPoll, ReadReg, PollDone, SendMissing, SendCurrent,
       StartRefresh, RefreshDone, EndPoll, DrainDone, StatusTimer, Send,
       ProcessBetaDCUStatus, RepollDCU, Restart, vars

\* ... so what was still to be shown is shown.
LEMMA DrainShows ==
  ASSUME PaintInv, DrainDone, tick = 0, NEW l \in Locs
  PROVE  gds[Own][l] = Wanted(l)
<1>1. pc = "drain" /\ DOMAIN deque = {}
  BY DEF DrainDone
<1>2. Displays(l, Wanted(l))
  BY <1>1 DEF PaintInv, Painting, Unpainted
<1>3. QED
  BY <1>1, <1>2 DEF Displays, LastWord

\* Nothing but its next poll changes what the display of DUB shows.
LEMMA StepRefreshed == TypeOK /\ PaintInv /\ RefreshedInv /\ [Next]_vars => RefreshedInv'
<1> SUFFICES ASSUME TypeOK, PaintInv, RefreshedInv, [Next]_vars,
                    Own = "BETA", pc' = "idle", tick' = 0, NEW l \in Locs
             PROVE  Agree(l)'
  BY DEF RefreshedInv
<1>1. CASE DrainDone
  BY <1>1, DrainShows DEF DrainDone, Agree, Wanted
<1>2. ASSUME NEW g \in Overall, RepollDCU(g) PROVE Agree(l)'
  BY <1>2, OwnGroup DEF RepollDCU, Agree
<1>3. CASE UNCHANGED vars
  BY <1>3 DEF vars, RefreshedInv, Agree
<1>4. QED
  BY <1>1, <1>2, <1>3
  DEF Next, Poll, RestOfPoll, ReadReg, PollDone, SendMissing, SendCurrent, StartRefresh,
      RefreshDone, EndPoll, StatusTimer, Send, Pop, ProcessBetaDCUStatus, Restart

\* Queueing an entry of a listed location keeps what is listed queued or shown.
LEMMA EnqueueListed ==
  ASSUME TypeOK, ListedInv, NEW e \in Entry, deque' = Enqueue(deque, e), gds' = gds,
         initial' = IF e.group = Own /\ e.loc # Marker THEN initial \cup {e.loc} ELSE initial
  PROVE  /\ \A i \in DOMAIN deque' :
              deque'[i].group = Own => deque'[i].loc \in initial' \cup {Marker}
         /\ \A l \in initial' :
              \/ gds'[Own][l] # "WHITE"
              \/ \E i \in DOMAIN deque' : Id(deque'[i]) = <<Own, l>>
<1>1. /\ \E i \in DOMAIN deque' : deque'[i] = e
      /\ \A i \in DOMAIN deque' : deque'[i] = e \/ \E j \in DOMAIN deque : deque'[i] = deque[j]
      /\ \A j \in DOMAIN deque : Id(deque[j]) # Id(e) => \E i \in DOMAIN deque' : deque'[i] = deque[j]
  BY EnqueueMembers DEF TypeOK
<1>2. ASSUME NEW i \in DOMAIN deque', deque'[i].group = Own
      PROVE  deque'[i].loc \in initial' \cup {Marker}
  BY <1>1, <1>2 DEF ListedInv
<1>3. ASSUME NEW l \in initial', gds[Own][l] = "WHITE"
      PROVE  \E i \in DOMAIN deque' : Id(deque'[i]) = <<Own, l>>
  <2>1. CASE Id(e) = <<Own, l>>
    BY <1>1, <2>1
  <2>2. CASE l \in initial /\ Id(e) # <<Own, l>>
    <3>1. PICK j \in DOMAIN deque : Id(deque[j]) = <<Own, l>>
      BY <1>3, <2>2 DEF ListedInv
    <3>2. \E i \in DOMAIN deque' : deque'[i] = deque[j]
      BY <1>1, <2>2, <3>1
    <3> QED
      BY <3>1, <3>2
  <2>3. CASE l \notin initial
    BY <1>3, <2>1, <2>3 DEF Id
  <2> QED
    BY <2>1, <2>2, <2>3
<1> QED
  BY <1>2, <1>3

\* A marker that is sent has all that is listed behind it.
LEMMA SendListed ==
  ASSUME TypeOK, IInv, SoundInv, ListedInv, Send
  PROVE  ListedInv'
<1>1. /\ deque \in Seq(Entry) /\ deque # <<>>
      /\ deque' = Tail(deque) /\ initial' = initial /\ pc' = pc
      /\ gds' = Shown(gds, Head(deque))
      /\ gds \in [Groups -> [Locs -> Overall]] /\ initial \subseteq Locs
      /\ Own \in Groups
  BY OwnGroup DEF Send, Pop, TypeOK
<1>2. /\ DOMAIN deque' = 1 .. Len(deque) - 1
      /\ \A i \in 1 .. Len(deque) - 1 : deque'[i] = deque[i + 1]
      /\ DOMAIN deque = 1 .. Len(deque) /\ Len(deque) \in Nat
      /\ 1 \in DOMAIN deque /\ Head(deque) = deque[1] /\ deque[1] \in Entry
  BY <1>1
<1>3. Own = "BETA" => pc = "drain"
  BY DEF Send
<1>4. \A i \in DOMAIN deque' : deque'[i].group = Own => deque'[i].loc \in initial' \cup {Marker}
  BY <1>1, <1>2 DEF ListedInv
<1>5. ASSUME NEW l \in initial, NEW j \in DOMAIN deque, j # 1, Id(deque[j]) = <<Own, l>>
      PROVE  \E i \in DOMAIN deque' : Id(deque'[i]) = <<Own, l>>
  <2>1. j - 1 \in DOMAIN deque' /\ deque'[j - 1] = deque[j]
    BY <1>2, <1>5
  <2> QED
    BY <1>5, <2>1
<1>6. ASSUME NEW l \in initial
      PROVE  \/ gds'[Own][l] # "WHITE"
             \/ \E i \in DOMAIN deque' : Id(deque'[i]) = <<Own, l>>
  <2>1. l \in Locs /\ l # Marker
    BY <1>1, TrackerAssumption
  <2>2. CASE Id(deque[1]) = <<Own, Marker>>
    <3>1. Behind(deque, l)
      BY DEF IInv, MarkerInv, Unsent, Send
    <3>2. PICK j \in DOMAIN deque : j > 1 /\ Id(deque[j]) = <<Own, l>>
      BY <1>2, <2>2, <3>1 DEF Behind
    <3> QED
      BY <1>2, <1>5, <3>2
  <2>3. CASE Id(deque[1]) = <<Own, l>>
    <3>1. deque[1].loc = l /\ deque[1].group = Own /\ deque[1].overall # "WHITE"
      BY <1>2, <2>1, <2>3 DEF Id, SoundInv
    <3>2. gds'[Own][l] = deque[1].overall
      BY <1>1, <1>2, <2>1, <3>1 DEF Shown
    <3> QED
      BY <3>1, <3>2
  <2>4. CASE Id(deque[1]) # <<Own, Marker>> /\ Id(deque[1]) # <<Own, l>>
    <3>1. gds'[Own][l] = gds[Own][l]
      BY <1>1, <1>2, <2>1, <2>4 DEF Shown, Id, Entry
    <3>2. CASE gds[Own][l] # "WHITE"
      BY <3>1, <3>2
    <3>3. CASE gds[Own][l] = "WHITE"
      <4>1. PICK j \in DOMAIN deque : Id(deque[j]) = <<Own, l>>
        BY <3>3 DEF ListedInv
      <4> QED
        BY <1>5, <2>4, <4>1
    <3> QED
      BY <3>2, <3>3
  <2> QED
    BY <2>2, <2>3, <2>4
<1> QED
  BY <1>1, <1>3, <1>4, <1>6 DEF ListedInv

LEMMA StepListed == TypeOK /\ IInv /\ SoundInv /\ ListedInv /\ [Next]_vars => ListedInv'
<1> SUFFICES ASSUME TypeOK, IInv, SoundInv, ListedInv, [Next]_vars PROVE ListedInv'
  OBVIOUS
<1> DEFINE Kept == /\ \A i \in DOMAIN deque' :
                        deque'[i].group = Own => deque'[i].loc \in initial' \cup {Marker}
                   /\ \A l \in initial' :
                        \/ gds'[Own][l] # "WHITE"
                        \/ \E i \in DOMAIN deque' : Id(deque'[i]) = <<Own, l>>
<1>1. ASSUME Kept, Own = "BETA" /\ pc' = "idle" => deque' = <<>> PROVE ListedInv'
  BY <1>1 DEF ListedInv, Id
<1>2. ASSUME UNCHANGED <<initial, deque, gds>> PROVE Kept
  BY <1>2 DEF ListedInv, Id
<1>3. ASSUME UNCHANGED <<initial, gds>>, NEW l \in initial, NEW o \in Overall,
             deque' = Enqueue(deque, OwnEntry(l, o))
      PROVE  Kept
  <2>1. /\ OwnEntry(l, o) \in Entry
        /\ OwnEntry(l, o).loc = l /\ OwnEntry(l, o).group = Own
    BY OwnEntryType DEF TypeOK, OwnEntry
  <2>2. initial \cup {l} = initial
    BY <1>3
  <2> QED
    BY <1>3, <2>1, <2>2, EnqueueListed
<1>4. ASSUME NEW r \in Reading, ReadReg(r) PROVE ListedInv'
  <2> DEFINE c == Decode(r)
             l == c.loc
  <2>1. pc' = "poll" /\ gds' = gds
    BY <1>4 DEF ReadReg
  <2>2. CASE c = NoClaim
    BY <1>1, <1>2, <1>4, <2>1, <2>2 DEF ReadReg
  <2>3. CASE c # NoClaim
    <3>1. /\ c \in [loc : Locs, health : Health]
          /\ l \in Locs /\ c.health \in Overall
          /\ ProcessDCUStatus(c)
          /\ pc = "poll"
      BY <1>4, <2>3, DecodeType, ClaimRecord DEF ReadReg, Overall
    <3> HIDE DEF c
    <3>2. initial' = initial \cup {l}
      BY <3>1, ClaimEffect
    <3>3. \/ UNCHANGED <<deque, initial>>
          \/ \E o \in Overall : deque' = Enqueue(deque, OwnEntry(l, o))
      <4>1. status[Own][l].overall \in Overall /\ "NO_GO" \in Overall
        BY <3>1, OwnGroup DEF TypeOK, Status, Overall, Health
      <4> QED
        BY <3>1, <4>1 DEF ProcessDCUStatus, FirstSeen, Duplicate, Update
    <3>4. ASSUME NEW o \in Overall, deque' = Enqueue(deque, OwnEntry(l, o)) PROVE Kept
      <4>1. /\ OwnEntry(l, o) \in Entry
            /\ OwnEntry(l, o).loc = l /\ OwnEntry(l, o).group = Own
        BY <3>1, OwnEntryType DEF OwnEntry
      <4>2. l # Marker
        BY <3>1, TrackerAssumption
      <4> QED
        BY <2>1, <3>2, <3>4, <4>1, <4>2, EnqueueListed
    <3> QED
      BY <1>1, <1>2, <2>1, <3>3, <3>4
  <2> QED
    BY <2>2, <2>3
<1>5. ASSUME NEW l \in Locs, SendMissing(l) \/ SendCurrent(l) PROVE ListedInv'
  <2>1. l \in initial
    BY <1>5 DEF SendMissing, SendCurrent, Smallest, IInv, MissingInv, ClaimInv
  <2>2. status[Own][l].overall \in Overall /\ "NO_GO" \in Overall
    BY <1>5, OwnGroup DEF TypeOK, Status, Overall, Health
  <2>3. /\ UNCHANGED <<initial, gds, pc>> /\ pc # "idle"
        /\ \E o \in Overall : deque' = Enqueue(deque, OwnEntry(l, o))
    BY <1>5, <2>2 DEF SendMissing, SendCurrent
  <2> QED
    BY <1>1, <1>3, <2>1, <2>3
<1>6. CASE StartRefresh
  <2>1. /\ UNCHANGED <<initial, gds>> /\ pc' = "refresh" /\ deque' = Enqueue(deque, ResetDCU)
        /\ ResetDCU \in Entry /\ ResetDCU.loc = Marker
    BY <1>6, OwnEntryType DEF StartRefresh, ResetDCU, OwnEntry
  <2>2. Kept
    BY <2>1, EnqueueListed
  <2> QED
    BY <1>1, <2>1, <2>2
<1>7. CASE PollDone \/ RefreshDone \/ EndPoll \/ DrainDone \/ StatusTimer
  BY <1>1, <1>2, <1>7 DEF PollDone, RefreshDone, EndPoll, DrainDone, StatusTimer
<1>8. ASSUME NEW e \in BetaEntries, ProcessBetaDCUStatus(e) PROVE ListedInv'
  <2>1. /\ Own = "ALPHA" /\ e \in Entry /\ e.group = "BETA"
        /\ deque' = Enqueue(deque, e) /\ UNCHANGED <<initial, gds>>
    BY <1>8 DEF ProcessBetaDCUStatus, BetaEntries
  <2>2. Kept
    BY <2>1, EnqueueListed
  <2> QED
    BY <1>1, <2>1, <2>2
<1>9. ASSUME NEW g \in Overall, RepollDCU(g) PROVE ListedInv'
  BY <1>9 DEF RepollDCU, ListedInv
<1>10. CASE Restart
  BY <1>10 DEF Restart, ListedInv, ResetDCU, OwnEntry
<1>11. CASE UNCHANGED vars
  BY <1>11 DEF vars, ListedInv, Id
<1> QED
  BY <1>4, <1>5, <1>6, <1>7, <1>8, <1>9, <1>10, <1>11, SendListed
     DEF Next, Poll, RestOfPoll

LEMMA InitListed == Init => ListedInv
BY DEF Init, ListedInv, ResetDCU, OwnEntry

-----------------------------------------------------------------------------
(* The theorems. *)

\* Every reachable state satisfies the inductive invariant.
THEOREM Inductive == Spec => []IInv
<1>1. Init => IInv
  BY InitInv
<1>2. TypeOK /\ IInv /\ [Next]_vars => IInv'
  BY StepInv
<1>3. QED
  BY <1>1, <1>2, TypeCorrect, PTL DEF Spec

\* The table's mark of a known location and the list used to look for missing
\* ones always agree, although processDCUStatus, lookForMissingDCUAfterInit
\* and clearDCUData write them in different places.
THEOREM KnownListed == Spec => []KnownIsInitial
<1>1. IInv => KnownIsInitial
  BY DEF IInv
<1>2. QED
  BY <1>1, Inductive, PTL

\* The send queue never holds two entries for the same group and location
\* (addDCUStatusToDeque), so it is never longer than the table and two markers.
THEOREM NoDuplicates == Spec => []UniqueIds
<1>1. IInv => UniqueIds
  BY DEF IInv
<1>2. QED
  BY <1>1, Inductive, PTL

\* Between polls no queued marker of the unit can blank the display without
\* every known location being repainted behind it (readDCUStatus(true)).
THEOREM MarkerRepaints == Spec => []MarkerIsFollowed
<1>1. IInv => MarkerIsFollowed
  BY DEF IInv, MarkerInv, MarkerIsFollowed, Unsent
<1>2. QED
  BY <1>1, Inductive, PTL

\* Between polls the table says GO for a location only if exactly one register
\* claims it, healthy (processDCUStatus and lookForMissingDCUAfterInit).
THEOREM VerdictCorrect == Spec => []PollVerdict
<1>1. TypeOK /\ IInv => PollVerdict
  <2> SUFFICES ASSUME TypeOK, IInv, pc = "idle", NEW l \in Locs
               PROVE  /\ Claimants(l) # {} => status[Own][l].known
                      /\ status[Own][l].known /\ status[Own][l].overall = "GO" =>
                           \E r \in Regs : Claimants(l) = {r} /\ seen[r].health = "GO"
                      /\ \A r \in Regs : Claimants(l) = {r} =>
                           status[Own][l].overall = seen[r].health
    BY DEF PollVerdict
  <2>1. /\ ReadRegs = Regs
        /\ l \in current <=> \E r \in Regs : seen[r].loc = l
        /\ l \in current => l \in initial
        /\ l \in initial <=> status[Own][l].known
        /\ l \in initial \ current => status[Own][l].overall = "NO_GO"
    BY DEF ReadRegs, IInv, ClaimInv, Claimed, KnownIsInitial, MissingInv
  <2>2. Claimants(l) # {} => status[Own][l].known
    BY <2>1 DEF Claimants
  <2>3. ASSUME NEW r \in Regs, Claimants(l) = {r}
        PROVE  status[Own][l].overall = seen[r].health
    <3>1. seen[r].loc = l /\ \A t \in Regs : seen[t].loc = l => t = r
      BY <2>3 DEF Claimants
    <3>2. QED
      BY <2>1, <3>1 DEF IInv, ReadingInv
  <2>4. ASSUME status[Own][l].known, status[Own][l].overall = "GO"
        PROVE  \E r \in Regs : Claimants(l) = {r} /\ seen[r].health = "GO"
    <3>1. PICK r \in Regs : seen[r].loc = l
      BY <2>1, <2>4
    <3>2. \A t \in Regs : seen[t].loc = l => t = r
      BY <2>1, <2>4, <3>1 DEF IInv, ReadingInv
    <3>3. Claimants(l) = {r}
      BY <3>1, <3>2 DEF Claimants
    <3>4. QED
      BY <2>3, <2>4, <3>3
  <2>5. QED
    BY <2>2, <2>3, <2>4
<1>2. QED
  BY <1>1, Inductive, TypeCorrect, PTL

\* Only markers are queued without a health, and DUB queues its own group only,
\* which is what DUA relies on when it takes the entries of DUB (setDCUStatusToTwgs
\* shows the lowest bit of the status).
THEOREM QueueSound == Spec => []SoundInv
BY InitSound, StepSound, TypeCorrect, Inductive, PTL DEF Spec

\* No location is queued that is not listed, and none listed that is neither
\* queued nor shown, whatever the marker blanks; which is what the tables of DUA
\* and DUB have in common (addDCUStatusToDeque, setDCUStatusToTwgs).
LEMMA Listed == Spec => []ListedInv
BY InitListed, StepListed, TypeCorrect, Inductive, QueueSound, PTL DEF Spec

\* DUB queues entries of one group, DUA of two.
QueueBound == (IF Own = "BETA" THEN 1 ELSE 2) * (Cardinality(Locs) + 1)

\* The send queue never outgrows the ids there are, however rare the interrupts
\* are that drain it and whatever is queued again at each tick
\* (addDCUStatusToDeque, checkForExistingDCUStatusInDeque).
THEOREM QueueBounded ==
  ASSUME IsFiniteSet(Locs)
  PROVE  Spec => [](Len(deque) <= QueueBound)
<1>1. ASSUME TypeOK, UniqueIds, SoundInv PROVE Len(deque) <= QueueBound
  <2> DEFINE G == IF Own = "BETA" THEN {"BETA"} ELSE Groups
             Ids == G \X (Locs \cup {Marker})
             f == [i \in 1 .. Len(deque) |-> Id(deque[i])]
  <2>1. deque \in Seq(Entry) /\ Len(deque) \in Nat /\ DOMAIN deque = 1 .. Len(deque)
    BY <1>1 DEF TypeOK
  <2>2. \A i \in 1 .. Len(deque) : Id(deque[i]) \in Ids
    <3> SUFFICES ASSUME NEW i \in 1 .. Len(deque)
                 PROVE  deque[i].group \in G /\ deque[i].loc \in Locs \cup {Marker}
      BY DEF Id
    <3>1. deque[i] \in Entry
      BY <2>1
    <3>2. Own = "BETA" => deque[i].group = "BETA"
      BY <1>1, <2>1 DEF SoundInv
    <3>3. QED
      BY <3>1, <3>2 DEF Entry
  <2>3. f \in Injection(1 .. Len(deque), Ids)
    <3>1. f \in [1 .. Len(deque) -> Ids]
      BY <2>2
    <3>2. \A i, j \in 1 .. Len(deque) : f[i] = f[j] => i = j
      BY <1>1, <2>1 DEF UniqueIds
    <3>3. IsInjective(f)
      BY <3>1, <3>2 DEF IsInjective
    <3>4. QED
      BY <3>1, <3>3 DEF Injection
  <2>4. IsFiniteSet(Ids) /\ Cardinality(Ids) = QueueBound
    <3>1. /\ IsFiniteSet(Locs \cup {Marker})
          /\ Cardinality(Locs \cup {Marker}) = Cardinality(Locs) + 1
      BY OwnGroup, FS_AddElement
    <3>2. IsFiniteSet({"BETA"}) /\ Cardinality({"BETA"}) = 1
      BY FS_Singleton
    <3>3. IsFiniteSet(Groups) /\ Cardinality(Groups) = 2
      <4>1. Groups = {"BETA"} \cup {"ALPHA"} /\ "ALPHA" \notin {"BETA"}
        BY DEF Groups
      <4>2. QED
        BY <3>2, <4>1, FS_AddElement
    <3>4. IsFiniteSet(G) /\ Cardinality(G) = IF Own = "BETA" THEN 1 ELSE 2
      BY <3>2, <3>3
    <3> HIDE DEF G
    <3>5. QED
      BY <3>1, <3>4, FS_Product DEF QueueBound
  <2> HIDE DEF f, Ids
  <2>5. Cardinality(1 .. Len(deque)) = Len(deque)
    <3>1. Cardinality(1 .. Len(deque)) = IF 1 > Len(deque) THEN 0 ELSE Len(deque) - 1 + 1
      BY <2>1, FS_Interval
    <3>2. QED
      BY <2>1, <3>1
  <2>6. Cardinality(1 .. Len(deque)) <= Cardinality(Ids)
    BY <2>3, <2>4, FS_Injection
  <2>7. QED
    BY <2>4, <2>5, <2>6
<1>2. TypeOK /\ UniqueIds /\ SoundInv => Len(deque) <= QueueBound
  BY <1>1
<1>3. QED
  BY <1>2, TypeCorrect, NoDuplicates, QueueSound, PTL

\* When a poll ends, every known location that was missing or claimed twice is
\* in the queue as NO_GO (processDCUStatus, lookForMissingDCUAfterInit and the
\* refresh of readDCUStatus, which queues locations again).
THEOREM FaultsReported == Spec => FaultsAreQueued
<1> DEFINE A == pc = "missing" /\ pc' \in {"idle", "drain"} =>
             \A l \in initial :
               (\A r \in Regs : Claimants(l) # {r}) =>
                 \E i \in DOMAIN deque : deque[i] = OwnEntry(l, "NO_GO")
<1>1. TypeOK /\ IInv /\ FaultInv /\ [Next]_vars => A
  <2> SUFFICES ASSUME TypeOK, IInv, FaultInv, [Next]_vars,
                      pc = "missing", pc' \in {"idle", "drain"},
                      NEW l \in initial, \A r \in Regs : Claimants(l) # {r}
               PROVE  Queued(OwnEntry(l, "NO_GO"))
    BY DEF Queued
  <2>1. EndPoll
    BY DEF Next, Poll, RestOfPoll, ReadReg, PollDone, SendMissing, SendCurrent,
           StartRefresh, RefreshDone, EndPoll, DrainDone, StatusTimer, Send,
           ProcessBetaDCUStatus, RepollDCU, Restart, vars
  <2>2. todo = {} /\ ReadRegs = Regs /\ l \in Locs
    BY <2>1 DEF EndPoll, ReadRegs, TypeOK
  <2>3. CASE l \notin current
    BY <2>2, <2>3 DEF FaultInv
  <2>4. CASE l \in current
    <3>1. PICK a \in Regs : seen[a].loc = l
      BY <2>2, <2>4 DEF IInv, ClaimInv, Claimed
    <3>2. PICK b \in Regs : seen[b].loc = l /\ b # a
      BY <3>1 DEF Claimants
    <3>3. QED
      BY <2>2, <3>1, <3>2 DEF FaultInv
  <2>5. QED
    BY <2>3, <2>4
<1>2. Spec => []FaultInv
  BY InitFault, StepFault, TypeCorrect, Inductive, PTL DEF Spec
<1>3. Spec => [][A]_vars
  BY <1>1, <1>2, TypeCorrect, Inductive, PTL DEF Spec
<1>4. QED
  BY <1>3 DEF FaultsAreQueued

LEMMA Painted == Spec => []PaintInv
BY InitPaint, StepPaint, TypeCorrect, Inductive, QueueSound, PTL DEF Spec

\* Each time DUB has sent its queue after a refresh, and after its start, the
\* display of its group shows the status table and nothing else, whatever a dead
\* process or a re-poll left on it (initialize, readDCUStatus(true)).
THEOREM DisplayRefreshed == Spec => RefreshedDisplay
<1> DEFINE A == pc = "drain" /\ pc' = "idle" /\ tick = 0 =>
             \A l \in Locs : gds[Own][l] =
               IF status[Own][l].known THEN status[Own][l].overall ELSE "WHITE"
<1>1. PaintInv /\ [Next]_vars => A
  <2> SUFFICES ASSUME PaintInv, [Next]_vars, pc = "drain", pc' = "idle", tick = 0,
                      NEW l \in Locs
               PROVE  gds[Own][l] = Wanted(l)
    BY DEF Wanted
  <2>1. QED
    BY DrainEnds, DrainShows
<1>2. Spec => [][A]_vars
  BY <1>1, Painted, PTL DEF Spec
<1>3. QED
  BY <1>2 DEF RefreshedDisplay

\* It stays so until the next poll: a re-poll forgets the table and leaves the
\* display alone (clearDCUData).
THEOREM DisplayStays == Spec => []RefreshedInv
<1>1. Init => RefreshedInv
  BY DEF Init, RefreshedInv
<1>2. QED
  BY <1>1, StepRefreshed, TypeCorrect, Painted, PTL DEF Spec

=============================================================================
