----------------------------- MODULE DCUTracker -----------------------------
(***************************************************************************)
(* How a Digital Unit (DU) keeps track of its Distributed Control Units.   *)
(*                                                                         *)
(* The DU polls one firmware status register per DCU cable.  A register    *)
(* claims a DCU location; the software keeps one status per location, the  *)
(* list of locations ever seen, and a send queue towards the ground        *)
(* display (GDS).  Queue entries are drained one at a time: by the alpha   *)
(* unit on each scan-limit interrupt, by the beta unit within the timer    *)
(* handler itself.                                                         *)
(*                                                                         *)
(* A poll reads the registers one after the other while the hardware may   *)
(* change, so each register read is a step; the "pc" keeps every other     *)
(* handler of the single-threaded program out until the poll has ended.    *)
(* A register reading is what the majority vote of module FWVote returned. *)
(***************************************************************************)
EXTENDS Integers, Sequences, SequencesExt

CONSTANTS
  Locs,      \* the DCU locations 1 .. 152
  NumRegs,   \* the number of DCU status registers, NUM_DCU - 1
  Marker,    \* DCU_NUM_TO_REFRESH_GDS, the location number that resets the GDS
  Own,       \* _rfccType, the group of this unit: "ALPHA" or "BETA"
  Interval,  \* REFRESH_DCU_STATUS_ON_GDS_INTERVAL, in timer ticks
  Forwarded  \* the location numbers DUB sends to DUA, the marker included

ASSUME TrackerAssumption ==
  /\ Locs \subseteq Nat \ {0}
  /\ NumRegs \in Nat \ {0}
  /\ Marker \in Nat \ ({0} \cup Locs)
  /\ Own \in {"ALPHA", "BETA"}
  /\ Interval \in Nat \ {0}
  /\ Forwarded \subseteq Locs \cup {Marker}

Groups  == {"ALPHA", "BETA"}
Regs    == 0 .. NumRegs - 1
BadLoc  == 0                          \* stands for every number outside Locs
Health  == {"GO", "NO_GO"}
Overall == Health \cup {"WHITE"}      \* "WHITE": neither GO nor NO_GO

\* What a status register says, after the majority vote.
Reading == [loc : Locs \cup {BadLoc}, locValid : BOOLEAN,
            versionOk : BOOLEAN, health : Health]

\* What the software makes of a reading: the location claimed, or nothing.
NoClaim == [loc |-> BadLoc, health |-> "NO_GO"]
Claim   == [loc : Locs, health : Health] \cup {NoClaim}

Entry  == [group : Groups, loc : Locs \cup {Marker}, overall : Overall]
Status == [known : BOOLEAN, overall : Overall]

VARIABLES
  pc,        \* "idle", or the part of the poll (or of the drain) under way
  reg,       \* the next register to read
  todo,      \* the locations this part of the poll has still to queue
  refresh,   \* sendCurrentDCUList: this poll has still to repaint the GDS
  tick,      \* _statusTimerCounter % Interval
  seen,      \* the latest claim of each register (of this poll, if below reg)
  occupied,  \* _dcuLocOccupied
  initial,   \* _initialDCUList
  current,   \* _currentDCUList
  status,    \* _dcuStatus; "known" is loc # 0
  deque,     \* _dcuSendDeque
  gds        \* external: the status the GDS displays for each location

vars == <<pc, reg, todo, refresh, tick, seen, occupied, initial, current,
          status, deque, gds>>

-----------------------------------------------------------------------------
(* The send queue. *)

Id(e) == <<e.group, e.loc>>           \* dcuID = loc + 1000 * group

Positions(q, id) == {i \in DOMAIN q : Id(q[i]) = id}

\* checkForExistingDCUStatusInDeque: erase the entry with this id.  The code
\* erases all of them; UniqueIds says that there is at most one.
Without(q, id) ==
  IF Positions(q, id) = {} THEN q
  ELSE RemoveAt(q, CHOOSE i \in Positions(q, id) : TRUE)

\* Mutant: a queued entry is not looked for.
EnqueueAgain(q, e) == Append(q, e)

\* Mutant: a queued entry is brought up to date where it stands.
EnqueueInPlace(q, e) ==
  IF Positions(q, Id(e)) = {} THEN Append(q, e)
  ELSE [i \in DOMAIN q |-> IF Id(q[i]) = Id(e) THEN e ELSE q[i]]

Enqueue(q, e) == Append(Without(q, Id(e)), e)

OwnEntry(l, o) == [group |-> Own, loc |-> l, overall |-> o]

ResetDCU == OwnEntry(Marker, "WHITE")

Unknown == [g \in Groups |-> [l \in Locs |-> [known |-> FALSE, overall |-> "WHITE"]]]

\* The GDS clears the group's display at the marker and shows the rest.
Shown(display, e) ==
  IF e.loc = Marker
  THEN [display EXCEPT ![e.group] = [l \in Locs |-> "WHITE"]]
  ELSE [display EXCEPT ![e.group][e.loc] = e.overall]

-----------------------------------------------------------------------------
(* Reading one register. *)

\* validateDCUFWStatus: of the checks, only the location-valid bit also
\* decides whether the caller uses the reading; a wrong version only makes
\* the overall status NO_GO, because locStatus is changed in a copy.
Valid(r) == r.locValid /\ r.versionOk

Decode(r) ==
  IF r.loc \in Locs /\ r.locValid
  THEN [loc |-> r.loc, health |-> IF Valid(r) THEN r.health ELSE "NO_GO"]
  ELSE NoClaim

\* Mutant: the location is not added to the list of locations ever seen.
FirstSeenUnlisted(c) ==
  /\ ~status[Own][c.loc].known
  /\ status' = [status EXCEPT ![Own][c.loc] =
                  [known |-> TRUE, overall |-> c.health]]
  /\ initial' = initial
  /\ deque' = Enqueue(deque, OwnEntry(c.loc, c.health))

\* processDCUStatus, a location never seen since start or re-poll.
FirstSeen(c) ==
  /\ ~status[Own][c.loc].known
  /\ status' = [status EXCEPT ![Own][c.loc] =
                  [known |-> TRUE, overall |-> c.health]]
  /\ initial' = initial \cup {c.loc}
  /\ deque' = Enqueue(deque, OwnEntry(c.loc, c.health))

\* Mutant: the second claim of a location is taken like the first one.
DuplicateTaken(c) ==
  /\ status[Own][c.loc].known
  /\ occupied[c.loc]
  /\ status' = [status EXCEPT ![Own][c.loc].overall = c.health]
  /\ deque' = Enqueue(deque, OwnEntry(c.loc, c.health))
  /\ UNCHANGED initial

\* Mutant: a duplicate is marked NO_GO but nobody is told.
DuplicateUnsent(c) ==
  /\ status[Own][c.loc].known
  /\ occupied[c.loc]
  /\ status' = [status EXCEPT ![Own][c.loc].overall = "NO_GO"]
  /\ UNCHANGED <<initial, deque>>

\* processDCUStatus, a location another register has claimed in this poll.
Duplicate(c) ==
  /\ status[Own][c.loc].known
  /\ occupied[c.loc]
  /\ status' = [status EXCEPT ![Own][c.loc].overall = "NO_GO"]
  /\ deque' = Enqueue(deque, OwnEntry(c.loc, "NO_GO"))
  /\ UNCHANGED initial

\* processDCUStatus, the first claim of a known location.  On a change the
\* code queues the status it is about to overwrite.
Update(c) ==
  /\ status[Own][c.loc].known
  /\ ~occupied[c.loc]
  /\ LET old == status[Own][c.loc].overall IN
       deque' = IF old # c.health THEN Enqueue(deque, OwnEntry(c.loc, old))
                ELSE deque
  /\ status' = [status EXCEPT ![Own][c.loc].overall = c.health]
  /\ UNCHANGED initial

ProcessDCUStatus(c) ==
  /\ occupied' = [occupied EXCEPT ![c.loc] = TRUE]
  /\ current' = current \cup {c.loc}
  /\ FirstSeen(c) \/ Duplicate(c) \/ Update(c)

ReadReg(r) ==
  /\ pc = "poll"
  /\ reg < NumRegs
  /\ seen' = [seen EXCEPT ![reg] = Decode(r)]
  /\ \/ /\ Decode(r) = NoClaim
        /\ UNCHANGED <<occupied, current, initial, status, deque>>
     \/ /\ Decode(r) # NoClaim
        /\ ProcessDCUStatus(Decode(r))
  /\ reg' = reg + 1
  /\ UNCHANGED <<pc, todo, refresh, tick, gds>>

-----------------------------------------------------------------------------
(* The rest of the poll. *)

\* set_difference of the two sorted lists, at the start of
\* lookForMissingDCUAfterInit.
PollDone ==
  /\ pc = "poll"
  /\ reg = NumRegs
  /\ pc' = "missing"
  /\ todo' = initial \ current
  /\ UNCHANGED <<reg, refresh, tick, seen, occupied, initial, current,
                 status, deque, gds>>

Smallest(l) == l \in todo /\ \A m \in todo : l <= m

\* One round of the loop of lookForMissingDCUAfterInit.
SendMissing(l) ==
  /\ pc = "missing"
  /\ Smallest(l)
  /\ status' = [status EXCEPT ![Own][l].overall = "NO_GO"]
  /\ deque' = Enqueue(deque, OwnEntry(l, "NO_GO"))
  /\ todo' = todo \ {l}
  /\ UNCHANGED <<pc, reg, refresh, tick, seen, occupied, initial, current, gds>>

\* Mutant: after the marker only the missing locations are sent.
StartRefreshMissingOnly ==
  /\ pc = "missing"
  /\ todo = {}
  /\ refresh
  /\ deque' = Enqueue(deque, ResetDCU)
  /\ pc' = "refresh"
  /\ todo' = {}
  /\ UNCHANGED <<reg, refresh, tick, seen, occupied, initial, current,
                 status, gds>>

\* readDCUStatus(true): the marker goes out before the current list.
StartRefresh ==
  /\ pc = "missing"
  /\ todo = {}
  /\ refresh
  /\ deque' = Enqueue(deque, ResetDCU)
  /\ pc' = "refresh"
  /\ todo' = current
  /\ UNCHANGED <<reg, refresh, tick, seen, occupied, initial, current,
                 status, gds>>

SendCurrent(l) ==
  /\ pc = "refresh"
  /\ Smallest(l)
  /\ deque' = Enqueue(deque, OwnEntry(l, status[Own][l].overall))
  /\ todo' = todo \ {l}
  /\ UNCHANGED <<pc, reg, refresh, tick, seen, occupied, initial, current,
                 status, gds>>

\* After the current list, the missing ones are queued once more.
RefreshDone ==
  /\ pc = "refresh"
  /\ todo = {}
  /\ pc' = "missing"
  /\ todo' = initial \ current
  /\ refresh' = FALSE
  /\ UNCHANGED <<reg, tick, seen, occupied, initial, current, status, deque, gds>>

\* The poll returns.  DUB goes on to drain its queue in the same handler.
EndPoll ==
  /\ pc = "missing"
  /\ todo = {}
  /\ ~refresh
  /\ pc' = IF Own = "BETA" THEN "drain" ELSE "idle"
  /\ reg' = 0
  /\ UNCHANGED <<todo, refresh, tick, seen, occupied, initial, current,
                 status, deque, gds>>

-----------------------------------------------------------------------------
(* Event handlers. *)

\* Mutants: the tick counter does not come round; the refresh never falls due.
NextTickUnwrapped == tick + 1
NextTickSkipping  == IF tick + 2 < Interval THEN tick + 1 ELSE 1

NextTick == (tick + 1) % Interval

\* processStatusTimer: the first statements of readDCUStatus.
StatusTimer ==
  /\ pc = "idle"
  /\ tick' = NextTick
  /\ refresh' = (tick' = 0)
  /\ occupied' = [l \in Locs |-> FALSE]
  /\ current' = {}
  /\ pc' = "poll"
  /\ UNCHANGED <<reg, todo, seen, initial, status, deque, gds>>

Pop ==
  /\ deque # <<>>
  /\ gds' = Shown(gds, Head(deque))
  /\ deque' = Tail(deque)
  /\ UNCHANGED <<reg, todo, refresh, tick, seen, occupied, initial, current, status>>

\* DUA sends one entry per scan-limit interrupt; DUB sends its whole queue, entry
\* by entry, before the handler of the status timer returns.
Send ==
  /\ pc = IF Own = "ALPHA" THEN "idle" ELSE "drain"
  /\ Pop
  /\ UNCHANGED pc

DrainDone ==
  /\ pc = "drain"
  /\ deque = <<>>
  /\ pc' = "idle"
  /\ UNCHANGED <<reg, todo, refresh, tick, seen, occupied, initial, current,
                 status, deque, gds>>

\* Mutant: the status of a location is stored only the first time.
ProcessBetaDCUStatusOnce(e) ==
  /\ Own = "ALPHA"
  /\ pc = "idle"
  /\ deque' = Enqueue(deque, e)
  /\ status' = IF e.loc = Marker \/ status["BETA"][e.loc].known THEN status
               ELSE [status EXCEPT !["BETA"][e.loc] =
                       [known |-> TRUE, overall |-> e.overall]]
  /\ UNCHANGED <<pc, reg, todo, refresh, tick, seen, occupied, initial,
                 current, gds>>

\* Mutant: what the table says already is not passed on.
ProcessBetaDCUStatusNews(e) ==
  /\ Own = "ALPHA"
  /\ pc = "idle"
  /\ deque' = IF e.loc \in Locs /\ status["BETA"][e.loc].overall = e.overall
              THEN deque ELSE Enqueue(deque, e)
  /\ status' = IF e.loc = Marker THEN status
               ELSE [status EXCEPT !["BETA"][e.loc] =
                       [known |-> TRUE, overall |-> e.overall]]
  /\ UNCHANGED <<pc, reg, todo, refresh, tick, seen, occupied, initial,
                 current, gds>>

\* processBetaDCUStatus: DUA stores and passes on what DUB sent.
ProcessBetaDCUStatus(e) ==
  /\ Own = "ALPHA"
  /\ pc = "idle"
  /\ deque' = Enqueue(deque, e)
  /\ status' = IF e.loc = Marker THEN status
               ELSE [status EXCEPT !["BETA"][e.loc] =
                       [known |-> TRUE, overall |-> e.overall]]
  /\ UNCHANGED <<pc, reg, todo, refresh, tick, seen, occupied, initial,
                 current, gds>>

\* clearDCUData: the status copied to every location is an uninitialised
\* local, so its overall status is any value, the same for all.
RepollDCU(garbage) ==
  /\ pc = "idle"
  /\ deque' = <<>>
  /\ status' = [g \in Groups |-> [l \in Locs |->
                  [known |-> FALSE, overall |-> garbage]]]
  /\ occupied' = [l \in Locs |-> TRUE]
  /\ current' = {}
  /\ initial' = {}
  /\ seen' = [r \in Regs |-> NoClaim]
  /\ UNCHANGED <<pc, reg, todo, refresh, tick, gds>>

\* Mutant: the restarted unit does not blank the display.
RestartUnmarked ==
  /\ pc' = "poll"
  /\ reg' = 0
  /\ todo' = {}
  /\ refresh' = FALSE
  /\ tick' = 0
  /\ seen' = [r \in Regs |-> NoClaim]
  /\ occupied' = [l \in Locs |-> FALSE]
  /\ initial' = {}
  /\ current' = {}
  /\ status' = Unknown
  /\ deque' = <<>>
  /\ gds' = gds

\* The process dies, at any point of a handler, and is started again; the
\* display keeps what it shows.
Restart ==
  /\ pc' = "poll"
  /\ reg' = 0
  /\ todo' = {}
  /\ refresh' = FALSE
  /\ tick' = 0
  /\ seen' = [r \in Regs |-> NoClaim]
  /\ occupied' = [l \in Locs |-> FALSE]
  /\ initial' = {}
  /\ current' = {}
  /\ status' = Unknown
  /\ deque' = <<ResetDCU>>
  /\ gds' = gds

\* What DUB sends is its own marker and the statuses of its own DCUs.
BetaEntries ==
  {e \in Entry : /\ e.group = "BETA"
                 /\ e.loc \in Forwarded
                 /\ e.loc = Marker <=> e.overall = "WHITE"}

-----------------------------------------------------------------------------
\* DUHWMgr::initialize queues the marker and polls once, without refresh.
Init ==
  /\ pc = "poll"
  /\ reg = 0
  /\ todo = {}
  /\ refresh = FALSE
  /\ tick = 0
  /\ seen = [r \in Regs |-> NoClaim]
  /\ occupied = [l \in Locs |-> FALSE]
  /\ initial = {}
  /\ current = {}
  /\ status = Unknown
  /\ deque = <<ResetDCU>>
  /\ gds = [g \in Groups |-> [l \in Locs |-> "WHITE"]]

\* What follows the reading of the registers.
RestOfPoll ==
  \/ PollDone
  \/ \E l \in Locs : SendMissing(l) \/ SendCurrent(l)
  \/ StartRefresh
  \/ RefreshDone
  \/ EndPoll
  \/ DrainDone

Poll ==
  \/ \E r \in Reading : ReadReg(r)
  \/ RestOfPoll

Next ==
  \/ Poll
  \/ StatusTimer
  \/ Send
  \/ \E e \in BetaEntries : ProcessBetaDCUStatus(e)
  \/ \E garbage \in Overall : RepollDCU(garbage)
  \/ Restart

Spec == Init /\ [][Next]_vars

\* A handler that has begun runs to its end, and the status timer is periodic.
FairSpec ==
  /\ Spec
  /\ WF_vars(Poll)
  /\ WF_vars(pc = "drain" /\ Send)
  /\ WF_vars(StatusTimer)

-----------------------------------------------------------------------------
(* Properties. *)

\* Every variable of DUHWMgr holds what its declaration allows; tick stays
\* below the refresh interval.
TypeOK ==
  /\ pc \in {"idle", "poll", "missing", "refresh", "drain"}
  /\ reg \in 0 .. NumRegs
  /\ todo \in SUBSET Locs
  /\ refresh \in BOOLEAN
  /\ tick \in 0 .. Interval - 1
  /\ seen \in [Regs -> Claim]
  /\ occupied \in [Locs -> BOOLEAN]
  /\ initial \in SUBSET Locs
  /\ current \in SUBSET Locs
  /\ status \in [Groups -> [Locs -> Status]]
  /\ deque \in Seq(Entry)
  /\ gds \in [Groups -> [Locs -> Overall]]

\* The list of locations ever seen and the "loc # 0" mark of the status table
\* are written in different branches and never disagree: a location missing
\* from the list would never be reported missing (lookForMissingDCUAfterInit).
KnownIsInitial == \A l \in Locs : status[Own][l].known <=> l \in initial

\* The send queue holds at most one entry per group and location, whoever
\* queued it, so its length is bounded (checkForExistingDCUStatusInDeque).
UniqueIds ==
  \A i, j \in DOMAIN deque : Id(deque[i]) = Id(deque[j]) => i = j

Behind(q, l) ==
  \A i \in DOMAIN q : Id(q[i]) = <<Own, Marker>> =>
    \E j \in DOMAIN q : j > i /\ Id(q[j]) = <<Own, l>>

\* A marker of the unit's own group blanks the GDS.  Whenever one is queued,
\* every known location has an entry behind it, so a blanked display is
\* always repainted (initialize, readDCUStatus(true)).
MarkerIsFollowed ==
  pc = "idle" => \A l \in initial : Behind(deque, l)

Claimants(l) == {r \in Regs : seen[r].loc = l}

\* Between polls, the stored status of a known location is the reading of the
\* one register that claims it; with no claimant (missing) or several
\* (duplicate location) it is NO_GO.
PollVerdict ==
  pc = "idle" => \A l \in Locs :
    /\ Claimants(l) # {} => status[Own][l].known
    /\ status[Own][l].known /\ status[Own][l].overall = "GO" =>
         \E r \in Regs : Claimants(l) = {r} /\ seen[r].health = "GO"
    /\ \A r \in Regs : Claimants(l) = {r} =>
         status[Own][l].overall = seen[r].health

\* A poll never ends with an unreported fault: each known location that no
\* register or more than one claimed is then in the queue as NO_GO.
FaultsAreQueued ==
  [][pc = "missing" /\ pc' \in {"idle", "drain"} =>
       \A l \in initial :
         (\A r \in Regs : Claimants(l) # {r}) =>
           \E i \in DOMAIN deque : deque[i] = OwnEntry(l, "NO_GO")]_vars

Agree(l) == status[Own][l].known => gds[Own][l] = status[Own][l].overall

\* Each time DUB has drained its queue after a refresh, and after its start,
\* the display shows the status table and nothing else: no location that is no
\* longer known, whatever a dead process or a re-poll left on it.
RefreshedDisplay ==
  [][pc = "drain" /\ pc' = "idle" /\ tick = 0 =>
       \A l \in Locs : gds[Own][l] =
         IF status[Own][l].known THEN status[Own][l].overall ELSE "WHITE"]_vars

Stable ==
  <>[][seen' = seen /\ ~Restart /\ (\A g \in Overall : ~RepollDCU(g))]_vars

\* If the claims stop changing and nobody re-polls or dies, the display of a
\* unit that drains its queue ends up in agreement with the status table.
DisplaySettles ==
  Stable => <>[](pc = "idle" => \A l \in Locs : Agree(l))

\* "Determine if there are changes in the data to add to send queue to TWGS":
\* once DUB has drained its queue, each change of status has been sent.
ChangesAreSent ==
  Own = "BETA" /\ pc = "idle" => \A l \in Locs : Agree(l)

-----------------------------------------------------------------------------
(* What the invariants above need in the middle of a poll, to be inductive. *)

\* The registers whose claims belong to the latest poll.
ReadRegs == IF pc = "poll" THEN 0 .. reg - 1 ELSE Regs

Claimed(l) == \E r \in ReadRegs : seen[r].loc = l

\* The lists and the occupied marks record which locations were claimed.
ClaimInv ==
  \A l \in Locs :
    /\ l \in current <=> Claimed(l)
    /\ l \in current => l \in initial
    /\ pc = "poll" => (occupied[l] <=> l \in current)

\* A location claimed once has that reading, one claimed twice is NO_GO.
ReadingInv ==
  \A r \in ReadRegs : seen[r].loc \in Locs =>
    status[Own][seen[r].loc].overall =
      IF \A t \in ReadRegs : seen[t].loc = seen[r].loc => t = r
      THEN seen[r].health ELSE "NO_GO"

\* A missing location is NO_GO as soon as its turn in the loop has come.
MissingInv ==
  /\ pc \in {"idle", "drain"} => todo = {}
  /\ pc = "missing" => todo \subseteq initial \ current
  /\ pc = "refresh" => todo \subseteq current
  /\ \A l \in initial \ current :
       pc # "poll" /\ (pc = "missing" => l \notin todo) =>
         status[Own][l].overall = "NO_GO"

\* The locations that a refresh under way has still to queue.
Unsent ==
  IF pc = "refresh" THEN todo \cup (initial \ current)
  ELSE IF pc = "missing" /\ ~refresh THEN todo ELSE {}

MarkerInv == \A l \in initial : Behind(deque, l) \/ l \in Unsent

RegInv ==
  /\ pc \notin {"poll", "idle", "drain"} => reg = NumRegs
  /\ pc \in {"idle", "drain"} => reg = 0

IInv ==
  /\ KnownIsInitial
  /\ UniqueIds
  /\ ClaimInv
  /\ ReadingInv
  /\ MissingInv
  /\ MarkerInv
  /\ RegInv

Queued(e) == \E i \in DOMAIN deque : deque[i] = e

\* A location found missing or claimed twice in the poll under way is queued
\* as NO_GO.
FaultInv ==
  /\ pc \notin {"idle", "drain"} => \A a, b \in ReadRegs :
       a # b /\ seen[a].loc = seen[b].loc /\ seen[a].loc \in Locs =>
         Queued(OwnEntry(seen[a].loc, "NO_GO"))
  /\ pc = "missing" => \A l \in initial \ current :
       l \notin todo => Queued(OwnEntry(l, "NO_GO"))

\* Only markers are queued without a health, and a queue of DUB holds entries
\* of its own group only.
SoundInv ==
  /\ \A l \in initial : status[Own][l].overall \in Health
  /\ \A i \in DOMAIN deque :
       /\ deque[i].loc = Marker <=> deque[i].overall = "WHITE"
       /\ Own = "BETA" => deque[i].group = "BETA"

\* Every location queued has been listed, and every location listed is queued or
\* shown.  DUB rests with an empty queue.
ListedInv ==
  /\ \A i \in DOMAIN deque :
       deque[i].group = Own => deque[i].loc \in initial \cup {Marker}
  /\ \A l \in initial :
       \/ gds[Own][l] # "WHITE"
       \/ \E i \in DOMAIN deque : Id(deque[i]) = <<Own, l>>
  /\ Own = "BETA" /\ pc = "idle" => deque = <<>>

\* An entry of the own group that decides what the GDS shows for l.
Overwrites(e, l) == e.group = Own /\ e.loc \in {l, Marker}

LastWord(q, l, o) ==
  \E i \in DOMAIN q :
    /\ Overwrites(q[i], l)
    /\ q[i].overall = o
    /\ \A j \in DOMAIN q : j > i => ~Overwrites(q[j], l)

NoWord(q, l) == \A i \in DOMAIN q : ~Overwrites(q[i], l)

\* What the GDS will show for l once the queue has been sent.
Displays(l, o) ==
  LastWord(deque, l, o) \/ (NoWord(deque, l) /\ gds[Own][l] = o)

Wanted(l) == IF status[Own][l].known THEN status[Own][l].overall ELSE "WHITE"

\* The locations a refresh, or the first poll after a start, has still to queue.
Unpainted ==
  IF pc = "refresh" THEN todo \cup (initial \ current)
  ELSE IF pc = "missing" THEN todo ELSE {}

\* From the first poll after a start, and from the marker of a refresh, until
\* the queue has been sent, display and queue together amount to the table.
Painting ==
  /\ tick = 0
  /\ pc \in {"refresh", "drain"} \/ (pc \in {"poll", "missing"} /\ ~refresh)

PaintInv ==
  Painting =>
    /\ pc = "poll" => initial \subseteq current
    /\ \A l \in Locs \ Unpainted : Displays(l, Wanted(l))

\* Until DUB polls again, the display stays as its refresh has left it.
RefreshedInv ==
  Own = "BETA" /\ pc = "idle" /\ tick = 0 => \A l \in Locs : Agree(l)

=============================================================================
