------------------------------ MODULE DCUPair ------------------------------
(***************************************************************************)
(* The trackers of both Digital Units, the datagrams with which DUB passes *)
(* its DCU statuses on to DUA, and the ground display (GDS) that shows     *)
(* both groups.                                                            *)
(*                                                                         *)
(* The variables of DCUTracker are those of DUA; DUB is an instance of the *)
(* same module.  What DUB pops from its queue is sent once, by UDP: it may *)
(* be lost, or find DUA down or its socket full.  Only the next refresh    *)
(* repairs the display.                                                    *)
(***************************************************************************)
EXTENDS DCUTracker

CONSTANTS
  AlphaReadings, \* what the status registers of DUA say
  BetaReadings,  \* what the status registers of DUB say
  Garbage,       \* what the uninitialised local of clearDCUData may hold
  Room,          \* how many datagrams the socket of DUA holds
  MaxTroubles    \* bound: losses by the network, re-polls and deaths of a unit

ASSUME PairAssumption ==
  /\ Own = "ALPHA"
  /\ Forwarded = Locs \cup {Marker}
  /\ AlphaReadings \subseteq Reading
  /\ BetaReadings \subseteq Reading
  /\ Garbage \subseteq Overall
  /\ Room \in Nat \ {0}
  /\ MaxTroubles \in Nat

VARIABLES
  bpc, breg, btodo, brefresh, btick, bseen, boccupied, binitial, bcurrent,
  bstatus, bdeque,  \* the memory of DUB
  sent,     \* what the GDS would show if it got the entries of DUB directly
  channel,  \* the datagrams on their way to DUA, the oldest first
  up,       \* the socket of DUA is open
  whole,    \* all that DUB sent from its latest marker on gets to the queue of DUA
  aged,     \* history: DUB has died or re-polled since DUA knew nothing of it
  troubles  \* the number of troubles so far

betaVars == <<bpc, breg, btodo, brefresh, btick, bseen, boccupied, binitial,
              bcurrent, bstatus, bdeque, sent>>
linkVars == <<channel, up, whole, aged, troubles>>
pairVars == <<vars, betaVars, linkVars>>

DUB == INSTANCE DCUTracker WITH
  Own <- "BETA", Forwarded <- {},
  pc <- bpc, reg <- breg, todo <- btodo, refresh <- brefresh, tick <- btick,
  seen <- bseen, occupied <- boccupied, initial <- binitial,
  current <- bcurrent, status <- bstatus, deque <- bdeque, gds <- sent

-----------------------------------------------------------------------------
(* What each unit does on its own.  Its polls touch nothing of the other    *)
(* unit, so a poll of one need not be interleaved with a poll of the other: *)
(* each begins while the other unit is not in one.                         *)

AlphaHandles ==
  /\ up
  /\ \/ \E r \in AlphaReadings : ReadReg(r)
     \/ RestOfPoll
     \/ bpc = "idle" /\ StatusTimer
  /\ UNCHANGED <<betaVars, linkVars>>

\* One queue entry per scan-limit interrupt.
Display == up /\ Send /\ UNCHANGED <<betaVars, linkVars>>

BetaHandles ==
  /\ pc = "idle" \/ ~up
  /\ \/ \E r \in BetaReadings : DUB!ReadReg(r)
     \/ DUB!RestOfPoll
     \/ DUB!StatusTimer
  /\ UNCHANGED <<vars, linkVars>>

-----------------------------------------------------------------------------
(* sendDCUStatusToDUA and processLocalHWStatusMsg. *)

Trouble == troubles < MaxTroubles /\ troubles' = troubles + 1

Fits == up /\ Len(channel) < Room

Deliver ==
  /\ DUB!Send
  /\ Fits
  /\ channel' = Append(channel, Head(bdeque))
  /\ whole' = (whole \/ Head(bdeque).loc = Marker)
  /\ UNCHANGED <<vars, up, aged, troubles>>

\* DUA is down, its socket is full, or the network loses the datagram.
Lose ==
  /\ DUB!Send
  /\ \/ ~Fits /\ UNCHANGED troubles
     \/ Fits /\ Trouble
  /\ whole' = FALSE
  /\ UNCHANGED <<vars, channel, up, aged>>

Receive ==
  /\ up
  /\ channel # <<>>
  /\ ProcessBetaDCUStatus(Head(channel))
  /\ channel' = Tail(channel)
  /\ UNCHANGED <<betaVars, up, whole, aged, troubles>>

-----------------------------------------------------------------------------
(* Re-polls and deaths of the units. *)

AlphaRepoll ==
  /\ Trouble
  /\ up
  /\ \E g \in Garbage : RepollDCU(g)
  /\ whole' = FALSE
  /\ aged' = (aged /\ channel # <<>>)
  /\ UNCHANGED <<betaVars, channel, up>>

BetaRepoll ==
  /\ Trouble
  /\ \E g \in Garbage : DUB!RepollDCU(g)
  /\ aged' = TRUE
  /\ UNCHANGED <<vars, channel, up, whole>>

\* The datagrams in the socket go with it.
AlphaDies ==
  /\ Trouble
  /\ up
  /\ Restart
  /\ up' = FALSE
  /\ channel' = <<>>
  /\ whole' = FALSE
  /\ aged' = FALSE
  /\ UNCHANGED betaVars

AlphaStarts == ~up /\ up' = TRUE /\ UNCHANGED <<vars, betaVars, channel, whole, aged, troubles>>

BetaDies ==
  /\ Trouble
  /\ DUB!Restart
  /\ aged' = TRUE
  /\ UNCHANGED <<vars, channel, up, whole>>

-----------------------------------------------------------------------------
PairInit ==
  /\ Init
  /\ DUB!Init
  /\ channel = <<>>
  /\ up = TRUE
  /\ whole = TRUE
  /\ aged = FALSE
  /\ troubles = 0

Disturbance == Lose \/ AlphaRepoll \/ BetaRepoll \/ AlphaDies \/ BetaDies

PairNext ==
  \/ AlphaHandles
  \/ Display
  \/ BetaHandles
  \/ Deliver
  \/ Receive
  \/ AlphaStarts
  \/ Disturbance

PairSpec == PairInit /\ [][PairNext]_pairVars

\* The status timer of DUB is periodic and its handlers run to their end.
FairPair ==
  /\ PairSpec
  /\ WF_pairVars(AlphaHandles)
  /\ SF_pairVars(BetaHandles \/ Deliver \/ Lose)

-----------------------------------------------------------------------------
(* Properties. *)

\* An entry that tells what the GDS shows for a DCU of DUB.
Tells(e, l) == e.group = "BETA" /\ e.loc \in {l, Marker}

Final(q, l, i) == Tells(q[i], l) /\ \A j \in DOMAIN q : j > i => ~Tells(q[j], l)

\* Showing the entries of q one by one turns the display of l from old to new.
Yields(q, l, old, new) ==
  /\ \A i \in DOMAIN q : Final(q, l, i) => q[i].overall = new
  /\ (\A i \in DOMAIN q : ~Tells(q[i], l)) => old = new

\* DUA erases queued entries when new ones come, keeps a queue of both groups
\* and shows one entry at a time.  Even so, unless something is lost, the
\* display followed by what is queued and under way amounts to exactly what
\* DUB has sent, at every moment; and after a loss it does so again as soon as
\* DUB has sent its next marker.
Mirrored ==
  whole => \A l \in Locs :
    Yields(deque \o channel, l, gds["BETA"][l], sent["BETA"][l])

\* The table from which DUA computes the rolled-up status of the DCUs of DUB
\* agrees with what DUB has sent, once all datagrams are processed.  Between the
\* polls of DUB it knows no location but those that DUB shows, unless DUB has
\* died or re-polled: its marker clears the display of DUA and not the table, so
\* the locations that it does not report again stay there, see FailedAsReported.
TableMirrored ==
  whole /\ channel = <<>> => \A l \in Locs :
    IF sent["BETA"][l] # "WHITE"
    THEN status["BETA"][l] = [known |-> TRUE, overall |-> sent["BETA"][l]]
    ELSE bpc = "idle" /\ ~aged => ~status["BETA"][l].known

\* "Get the number of failed DCU" (computeDCURolledUpStatus): a DCU that DUA
\* counts as failed is one that DUB, when it rests, reports as failed.
FailedAsReported ==
  whole /\ channel = <<>> /\ bpc = "idle" => \A l \in Locs :
    status["BETA"][l].overall = "NO_GO" => sent["BETA"][l] = "NO_GO"

Calm == <>[][bseen' = bseen /\ ~Disturbance]_pairVars

Drained == bpc = "idle" /\ channel = <<>> /\ deque = <<>>

\* End to end: after a refresh of DUB of which nothing was lost, and until its
\* next poll, the display shows the statuses of DUB as soon as everything that
\* was queued and under way has been sent, whatever went wrong before.
RefreshArrives ==
  Drained /\ whole /\ btick = 0 =>
    \A l \in Locs : bstatus["BETA"][l].known =>
      gds["BETA"][l] = bstatus["BETA"][l].overall

\* Once the claims of DUB stop changing and nothing is lost any more, whatever
\* happened before, the display shows the statuses of DUB whenever DUA has
\* sent all that it had queued.
PairSettles ==
  Calm => <>[](Drained => \A l \in Locs : bstatus["BETA"][l].known =>
                 gds["BETA"][l] = bstatus["BETA"][l].overall)

\* Each unit of the pair is a tracker: the entries DUA gets are those that
\* DCUTracker lets it get.
UnitsAreTrackers == Spec /\ DUB!Spec

-----------------------------------------------------------------------------
(* What the invariants above need to be inductive. *)

\* Only what DUB sends gets into the channel.
LinkInv ==
  /\ channel \in Seq(Entry)
  /\ \A i \in DOMAIN channel : channel[i] \in BetaEntries

LastOf(q, l, i) == q[i].loc = l /\ \A j \in DOMAIN q : j > i => q[j].loc # l

\* The last entry of a location in the channel has the status DUB sent last; if
\* there is none, that status is in the table.
TableInv ==
  whole => \A l \in Locs : sent["BETA"][l] # "WHITE" =>
    /\ \A i \in DOMAIN channel :
         LastOf(channel, l, i) => channel[i].overall = sent["BETA"][l]
    /\ (\A i \in DOMAIN channel : channel[i].loc # l) =>
         status["BETA"][l] = [known |-> TRUE, overall |-> sent["BETA"][l]]

\* As long as neither forgets, what DUA knows of DUB, or is about to, DUB knows.
ForgottenInv ==
  ~aged => \A l \in Locs :
    status["BETA"][l].known \/ (\E i \in DOMAIN channel : channel[i].loc = l) =>
      l \in binitial

=============================================================================
