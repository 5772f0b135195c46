------------------------------- MODULE FWVote -------------------------------
(***************************************************************************)
(* The filter between one DCU status register and the software: each poll  *)
(* votes over the last Depth readings and the current one, to mask glitches*)
(* of the fibre link (DUHWMgr::getMajorityFWStatusFromHistory).            *)
(***************************************************************************)
EXTENDS Integers, Sequences, FiniteSets, FiniteSetsExt

CONSTANTS
  Values,  \* the register's contents
  Depth    \* how many earlier readings are kept; 4 in the code

ASSUME VoteAssumption == Values # {} /\ Depth \in Nat \ {0}

VARIABLES
  line,    \* external: what the register holds now
  history, \* _dcuFWStatusHistory, the first _dcuFWStatusHistoryCount slots
  out      \* the value the rest of the software was given last

vars == <<line, history, out>>

-----------------------------------------------------------------------------
Latest == Depth + 1

\* Mutant: slots not filled yet, and the last, repeat the oldest reading.
SamplesOldest(h, cur) ==
  [i \in 1 .. Latest |-> IF i <= Len(h) THEN h[i]
                        ELSE IF h = <<>> THEN cur ELSE h[1]]

\* Slots not filled yet take the current reading, which is also the last.
Samples(h, cur) == [i \in 1 .. Latest |-> IF i <= Len(h) THEN h[i] ELSE cur]

Same(s, v)    == {j \in 1 .. Latest : s[j] = v}
Matches(s, i) == Cardinality(Same(s, s[i]))

\* Mutants: the largest count is not noted; an equal count always replaces.
RoundUnnoted(s, best, i) ==
  IF Matches(s, i) > best.count THEN [best EXCEPT !.value = s[i]] ELSE best

RoundLastWins(s, best, i) ==
  IF Matches(s, i) >= best.count
  THEN [count |-> Matches(s, i), value |-> s[i]] ELSE best

\* A larger count replaces the selection, an equal one only if it is the
\* current reading's.
Round(s, best, i) ==
  IF Matches(s, i) > best.count
  THEN [count |-> Matches(s, i), value |-> s[i]]
  ELSE IF Matches(s, i) = best.count /\ s[i] = s[Latest]
  THEN [best EXCEPT !.value = s[i]]
  ELSE best

\* The loop of the code: maxMatchCount and selectedFWStatus after each round.
Scan(s) ==
  LET best[i \in 0 .. Latest] ==
        IF i = 0 THEN [count |-> 0, value |-> s[Latest]]
        ELSE Round(s, best[i - 1], i)
  IN best[Latest].value

\* What the loop computes: the current reading if no other value occurs more
\* often, else the value with most occurrences that was read first.
Winners(s) ==
  {i \in 1 .. Latest : \A j \in 1 .. Latest : Matches(s, j) <= Matches(s, i)}

Select(s) == IF Latest \in Winners(s) THEN s[Latest] ELSE s[Min(Winners(s))]

\* Mutants: a full history no longer changes; nothing is ever dropped.
RememberFirst(h, v) == IF Len(h) < Depth THEN Append(h, v) ELSE h
RememberAll(h, v)   == Append(h, v)

Remember(h, v) == Append(IF Len(h) < Depth THEN h ELSE Tail(h), v)

-----------------------------------------------------------------------------
\* External: the hardware changes, for good or for one reading.
Change(v) == line' = v /\ UNCHANGED <<history, out>>

Read ==
  /\ out' = Scan(Samples(history, line))
  /\ history' = Remember(history, line)
  /\ UNCHANGED line

\* clearDCUData forgets the history, so the next reading is taken unfiltered.
Clear == history' = <<>> /\ UNCHANGED <<line, out>>

Init ==
  /\ line \in Values
  /\ history = <<>>
  /\ out = line

Next == Read \/ Clear \/ \E v \in Values : Change(v)

Spec == Init /\ [][Next]_vars

\* The status timer polls for ever.
FairSpec == Spec /\ WF_vars(Read)

-----------------------------------------------------------------------------
\* The history never outgrows its array (_dcuFWStatusHistory).
TypeOK ==
  /\ line \in Values
  /\ history \in Seq(Values)
  /\ Len(history) <= Depth
  /\ out \in Values

\* The loop, which replaces its selection as it goes along, ends with the value
\* that Select defines without any order of rounds.
ScanIsSelect ==
  LET s == Samples(history, line) IN Scan(s) = Select(s)

\* A value that the stored readings already give the majority of the vote is
\* delivered whatever this reading is: one glitch, or two, never show.
GlitchMasked ==
  [][Read => \A v \in Values :
       2 * Cardinality({i \in DOMAIN history : history[i] = v}) > Latest
         => out' = v]_vars

\* A change that lasts is delivered after at most Latest \div 2 + 1 readings.
ChangeAccepted ==
  [][Read => \A v \in Values :
       /\ line = v
       /\ \A i \in DOMAIN history : i > Len(history) - Latest \div 2 => history[i] = v
       => out' = v]_vars

\* If the register stops changing, its value is what the software works with.
Follows == <>[][line' = line]_line => <>[](out = line)

=============================================================================
