# A TLA+ model of the SWC embedded software

This directory specifies the control software of the steering word controller
(SWC): the application that runs on two Digital Units (alpha, `DUA`, and beta,
`DUB`) and on a Test Unit (`TU`). The modules are translated from the C++ code
under `src/`; TLC checks them on small instances and TLAPS proves the theorems
in the `_proofs` modules for every value of the constants.

## 1. The system

One binary (`src/SwcAppInit.cpp`) plays one of three roles, chosen by a register
of its board. Each role is a single-threaded, event-driven process: `start()`
initialises the hardware manager, opens its devices, and enters
`EventProcessor::start()`, which waits in `select()` and calls one handler per
ready device. Handlers run to completion; some of them block (`sleep(3)` in
`handleShutdownCommand`, up to five connection attempts to the I/O module). The
firmware acts in parallel through memory-mapped registers, and raises
interrupts which the kernel turns into readable UIO devices.

| Component | State it keeps | Operations | Talks to |
|---|---|---|---|
| Event processor, `CmdMgrBase`, start scripts | registered events by priority, tick counter | open, select, dispatch, acknowledge initialisation, shut down | everything; test server (UDP), `swc-app-monitor` restarts a dead process each minute |
| DCU tracker (`DUHWMgr` of DUA and DUB) | status per location, lists of DCUs ever seen and seen in this poll, occupied marks, send queue | poll on the status timer, refresh each *n*th tick, drain, re-poll, take in what DUB forwards | FPGA status registers; DUB → DUA → ground display (GDS) |
| Reading filter (`getMajorityFWStatusFromHistory`) | four earlier readings per register | vote, shift, clear | the tracker |
| Status aggregation (`DUACmdMgr`, `readSWCStatus`) | last value of each input, rotation counter, silence counters | status timer, configuration interrupt, reports of DUB and TU | I/O module (Modbus), DUB and TU (UDP), the TWGS register |
| Modes and steering (`DUCmdMgrBase`) | copies of the SWC and OLTE modes, board control register | steering command, configuration, scan limit and timer handlers, start-up sequence | test server, TWGS (through the firmware) |
| TU control (`TUCmdMgr`, `TUHWMgr`) | board control register, steering words, stress test registers | steering, stress test, configuration command, shutdown, start | test server, DUA |
| Configuration link DUA → TU | the settings each side knows | announce, send on interrupt, request, answer | UDP without acknowledgement |
| I/O module client (`IOMHWMgr`) | Modbus context | connect with retries, read with retry, close | I/O module; blocks the handler of DUA that calls it |
| Scan limit check (`runSWScanLimitCheck`) | none | check a pair of steering words | scan limit interrupt of DU and TU |
| Messages, devices, configuration files, logging | no control state of their own | | |

### What is hard about it

* Data is copied across handlers and units and each copy is refreshed at a
  different event: modes (timer, two interrupts, and on DUB only one of them),
  inputs (one third per tick), DCU statuses (table, queue, display).
* Interrupts coalesce, and can be lost between the first read of a register and
  the opening of the device.
* Registers outlive the process. A crash can leave a command half-written, and
  the restart adopts (TU) or overwrites (DU) what it finds.
* UDP may drop a datagram, and nothing on these links is acknowledged.
* A call of the I/O module blocks its handler while the module goes, comes back
  or leaves a dead connection behind.
* Three starters run launchers of the same application side by side, and it may
  end at any step of its start, of a poll or of a command.
* Two registers may claim the same DCU location; DCUs vanish and come back;
  queue entries are replaced while the queue is being drained.

`PROJECT.json` lists these as hazards, each at the line where it bites, with the
properties that would catch it going wrong.

### What makes each component correct

* Tracker: after each poll the table says what the registers claim; missing and
  doubly claimed locations are NO_GO and reported; the queue is bounded; a
  blanked display is repainted; display and table end up in agreement.
* Both trackers together: what DUA shows, has queued and will receive amounts
  to what DUB has sent; a loss is repaired by the next refresh; what DUA counts
  as failed is what DUB reports as failed (it is not, see section 5).
* Filter: glitches are masked, lasting changes accepted, with no lag beyond
  half the depth.
* Status: every fault is counted and none outlives its cause; a silent unit is
  flagged exactly while it is silent, and the flag is published.
* I/O module client: a reading is what the module says at some moment of the
  call, or nothing if it was away; every call ends if the module can be reached.
* Steering: a command fires with its own words and flags, only when offline,
  and leaves the register at rest; a mode change becomes known.
* TU: the trigger starts exactly the action asked for; the configuration told
  last is kept; it agrees with DUA's hardware whatever died or restarted.
* Event processor: no device starves; a shutdown is obeyed; the initialisation
  is acknowledged when it is true and not again.
* Life cycle: one instance (there may be two, see section 5); ready only with
  the board in the mode that is configured; it comes back whatever ended it.
* Scan limit: a word passes if it is inside each limit up to half a step.

## 2. The modules

| Module | Models | State ↔ code |
|---|---|---|
| `DCUTracker` | the poll, queue and display of one DU | `status` = `_dcuStatus`, `initial`/`current` = `_initialDCUList`/`_currentDCUList`, `occupied` = `_dcuLocOccupied`, `deque` = `_dcuSendDeque`, `tick` = `_statusTimerCounter` mod the interval; `gds` is the display |
| `FWVote` | the filter in front of one register | `history` = `_dcuFWStatusHistory` up to its count |
| `DCUPair`, `DCUPairMC` | DUA and DUB as two trackers, and the link between them | the variables of `DCUTracker` are DUA; `DUB` is an `INSTANCE`; `channel` = datagrams in the socket of DUA, `sent` = the display DUB believes in, `whole` = history: nothing lost since DUB's latest marker; `aged` = history: DUB has died or re-polled |
| `SWCStatus` | status aggregation of DUA | `temp`, `atb`, `rolled`, `du` = the members of the same meaning; `twgs` = the TWGS register; `turn` = `statusCounter`; `missed` = the two silence counters; `age`, `silence` are history |
| `StatusIO`, `StatusIOMC` | the same with the I/O module client in its handlers | `ctx` = `_modbusCtx`; `call` = where in `readStatus` the handler waits |
| `DUSteering` | modes and steering on DUA or DUB | `modes` = `_swcMode`, `_olteMode`; `brd` = `_brdCtrVal` by field; `todo` = rest of the running handler |
| `ScanLimit` | `runSWScanLimitCheck` | operators only, in half steps of a steering word |
| `TUControl`, `TUControlMC` | handlers of the TU and its register | `reg` = `_brdCtrVal` as a set of bits; `limit` = the check logged last |
| `ConfigSync`, `ConfigSyncMC` | DUA and TU exchanging settings | extends `TUControl`; `known` = what DUA has read, `stage` = how far its start is |
| `FairService` | what an event loop promises (abstract) | |
| `EventLoop` | the loop and the process around it | `chosen` = ready set of this pass, `queue` = the devices, `counter` = `_statusTimerCounter` |
| `AppLife`, `AppLifeMC` | start script, launcher, monitor, `DUHWMgr::initialize`, ends of the process | extends `EventLoop`; `launcher` = how far the launcher of each starter is; `hwInit` = step of `initialize`; `twin` = the same of a second instance, if there is one; `appReady`, `forced` = bits of two registers, which outlive the process; `testMode` = `FORCE_TEST_MODE`; `mixed` = history: two processes have met |
| `*_proofs` | theorems about the module they extend | |

Granularity. Where only the hardware or a crash can interfere, a handler is a
*program*, a sequence of register accesses executed one per step (`DUSteering`,
`TUControl`). In the tracker each register read is a step, because the hardware
changes during a poll. Where a handler makes no access in between whose order
matters (`SWCStatus`, `FWVote`, DUA in `ConfigSync`), it is one action. `StatusIO` splits that action at the one
point where the handler blocks. In
every module the handlers of one process exclude each other, as they do in the
code.

Undefined behaviour. `clearDCUData` copies an uninitialised local
(`DUHWMgr.cpp:1310`) to every location: `RepollDCU(garbage)` chooses any overall
status. An interrupt raised while its device is closed is lost or held, both are
allowed (`ChangeMode`, `ChangeSettings`).

Composition.

* `DCUPair` composes two instances of `DCUTracker` over a lossy channel with the
  display. Each unit of the pair implements the tracker (`UnitsAreTrackers`), so
  that what holds of a tracker holds of both. A poll of one unit touches nothing
  of the other, so the polls of the two are not interleaved with each other.
  Datagrams are not reordered: both units hang on one switch.
* `StatusIO` puts the client of the I/O module into the handlers of `SWCStatus`
  and implements it (`ImplementsStatus`): `SWCStatus` lets a reading of inputs
  that have just changed be anything they may be (`Seen`), and the client, with
  all its retries, returns one of those. A connection that dies while nobody
  uses it is found by the next read (`Drop`, between calls); in the middle of a
  call it dies with the module only. The exits of `ensureConnected` for an invalid
  configuration (`IOMHWMgr.cpp:79-84`) and a missing context (93-96) are not
  modelled: to the caller each is a failed call, like a module that is away.
* `ConfigSync` composes the TU with DUA over lossy channels, with all actions of
  `TUControl` that touch the configuration.
* `EventLoop` implements `FairService`: `Service == INSTANCE FairService WITH
  load <- Load`, where the load of a device is what waits in it; `overtaken` is
  a history variable. `AppLife` adds what starts and ends the application, and
  implements `EventLoop` (`ImplementsLoop`). Nothing orders the launchers there,
  so a second instance may start beside the first. Its start is modelled, which
  writes the same registers step by step, its end, and the shutdown command that
  it may get; not what else it serves. `config.txt` is not edited while the board
  runs. A process that is sent SIGTERM has no handler for it and runs no further
  instruction, so `KillAll` is one step.
* `FWVote` stands in front of each register of `DCUTracker`, whose readings are
  arbitrary: the tracker is correct for whatever the filter delivers.

Scan limit geometry. The code computes in `float`. With words counted in half
steps every comparison it makes on integer words is one of integers: the limits
in `ScanLimit` are rounded to the side on which no word lies. The operator was
compared with the compiled function for all words from -600 to 600, well beyond
the ten bits of a steering word, and agrees on every pair.

## 3. The runs

| Run | Question | Bounds, and why they are enough |
|---|---|---|
| `tracker_beta` | Is the table right after each poll of the unit that drains at once, is every fault queued, and the display right after each refresh, each restart and in the end? | 3 registers, 2 locations: no, one, two and three claimants of one location together with a missing one; interval 3 as configured; the unit may die at any step |
| `tracker_pair` | Does DUA show what DUB sends, over a link that loses datagrams, with re-polls and deaths of both? | one DCU per unit, that of DUB comes and goes; a socket of one datagram, so that it overflows at any time; one trouble of any kind at any step. The four invariants are proved for any of these |
| `vote` | Is the loop the selection it is meant to be, does it mask glitches and follow changes? | depth 4 as in the code, 5 values: every pattern of equalities among five samples |
| `status` | Is every kind of fault, and nothing else, shown after the rotation; is a peer flagged exactly while silent, and is that published; is a reading through the client what the aggregation assumes; do its calls end? | every input at fault alone, changes at any step of a call; limit 1 and 2 attempts instead of 5, which are enough for the counters to wrap (the code's values are covered by the proofs) |
| `steering_alpha` | Do commands fire as commanded, only offline, whatever happens between two register writes? | 2 angles (a mix-up shows), every mode, one crash anywhere |
| `tu_control` | Does each trigger start the action asked for, and is the configuration kept? | all flag combinations, settings that differ in every bit, two crashes: one in a command, one in the restart; words inside, at and beyond each limit |
| `config_sync` | Does the TU agree with DUA after any order of starts, deaths and changes? | inbox 2, one crash on each side, one lost datagram |
| `event_loop` | Does the loop implement fair service, is every device served and a shutdown obeyed; is the initialisation acknowledged, and the firmware told of the board, when it is true; does the application come back, with launchers that meet and a second instance? | a socket of two datagrams and the timer, the hardware initialised between them: commands behind datagrams, devices registered before and after; one end of a process or intervention of the operator at any step, on top of the kills by the launchers and the reboots, which are unbounded; the force-test mode configured or not |
| `tracker_stale`, `tracker_ghost`, `steering_beta`, `scan_limit` | divergences, see section 5 | the smallest instance that shows them |

Bounds are constants named in the modules (`MaxInbox`, `Capacity`,
`MaxCrashes`, `MaxLost`, `MaxDUACrashes`, `MaxTroubles`, `Room`) or history ceilings (`Settled`,
`Deaf` in `SWCStatus`), reached in the runs. `Settled` is five: one tick for the
reading that was under way when the inputs changed, one for the board status to
be read, three for the rotation to come round.

Fairness.

* `DCUTracker`: a handler that has begun runs on (weak fairness of `Poll`), the
  status timer is periodic. Scan limit interrupts come from outside and get
  none, so nothing is claimed about how fast DUA's queue drains.
* `DCUPair`: the handlers of DUA run on; those of DUB too, with strong fairness,
  because the model lets a poll of DUB begin only between the polls of DUA.
  Neither scan limit interrupts nor the reading of datagrams are fair:
  `PairSettles` speaks of the moments at which DUA has nothing left to send.
* `StatusIO`: a call under way goes on (`WF(CallStep)`).
* `FWVote`: the timer polls for ever.
* `DUSteering`, `ConfigSync`: a handler runs on, the monitor restarts a dead
  process, and the loop serves each event it finds ready even if others come in
  between (strong fairness of the interrupt, timer and message handlers). This
  is what `EventLoop` establishes: an event is ready until its handler runs
  (`ServesFairly`, `ServesAll`). Ticks come for ever.
* `AppLife`: the program itself and the scripts (some launcher, or the look of the
  monitor once a minute, whenever one can go on) are fair; arrivals, ends of the
  process and the operator are not. `ObeysShutdown` allows for the process to die
  first.

Deadlock is checked in every run.

What the properties say:

* `PollVerdict`: between polls the stored status of a location is the reading of
  its only claimant; with none or several it is NO_GO. `FaultsAreQueued`: such a
  location is in the queue when the poll ends. `KnownIsInitial`: two records of
  "seen before", written in different branches, never disagree. `UniqueIds`: the
  queue is bounded by the number of ids. `MarkerIsFollowed`: behind a queued
  marker each known location is queued again. `RefreshedDisplay`,
  `DisplaySettles`: agreement of the display after a refresh, after the start of
  a unit whose predecessor died, and in the end.
* `Mirrored`: showing what is queued and under way, on top of what is displayed,
  gives exactly what DUB has sent, at every moment, although DUA erases queued
  entries when newer ones come; after a loss it holds again from the next marker
  on. `TableMirrored`: the table behind the rolled-up status has each status that
  DUB has sent, and between the polls of DUB no location but those DUB shows, as
  long as DUB has neither died nor re-polled. The locations that such a DUB no
  longer reports stay in the table for good: `FailedAsReported`, section 5.
  `RefreshArrives`: end to end, a refresh of DUB of which nothing is lost leaves
  the display as DUB's table says, as soon as the queues are empty.
  `PairSettles`: when claims and losses stop, an emptied queue means a right
  display.
* `ScanIsSelect`: the loop, which replaces its selection as it goes along, ends
  with the value that occurs most often, the current reading if it is one, else
  the first. `GlitchMasked`,
  `ChangeAccepted`, `Follows`: filter quality.
* `OverallFollows`, `FieldsFollow`: five ticks after the last change of an input
  the register shows it, and the overall status is NO_GO if and only if an input
  is bad. `SilentFlagged`, `SilencePublished`: see above.
  `IOInv`: a live connection belongs to a module that is there, and a call knows
  the inputs as they are or as they were when it began. `CallsEnd`: a call blocks
  DUA for ever only in the link recovery of the library, and only while the
  module keeps going away.
* `RestsAnalog`, `FiresAsCommanded`, `OfflineOnly`, `ModesCurrent`,
  `ModesFollow`: between handlers the analog source is selected and valid; the
  trigger fires with both words of one command and the right flags, not when the
  application could know the system online; a served interrupt leaves no stale
  copy; a mode that stays becomes known even if its interrupt was lost.
* `StartsAsCommanded`, `ConfigurationKept`: the trigger of the TU, and its
  configuration. `ToleratesHalfAStep`: a checked pair of words passes exactly if
  its elevation does and a point within half a step of it is inside the limit of
  w. `QuietAgrees`, `TUFollows`: the link.
* `AnnouncesItself`, `ServesFairly`, `ServesAll`, `ObeysShutdown`: the loop.
  `ReadyBoard`: the firmware is told that the application is ready only with the
  force-test mode as configured, not as the start-up left it, even if an earlier
  process died in the start-up. While two processes initialise the same board
  nothing of the kind holds; it holds again from the start of a process that
  runs alone (`mixed`). `Recovers`: something serves again after every end,
  however many launchers meet.

The mutants in `PROJECT.json` are the plausible bugs each property catches; they
stand next to the definition they change, marked "Mutant".

## 4. The proofs

TLC found each formula true on the instance of the run before its proof.

* `DCUTracker_proofs`: `TypeOK`, `KnownIsInitial`, `UniqueIds`,
  `MarkerIsFollowed`, `PollVerdict` and the action properties `FaultsAreQueued`
  and `RefreshedDisplay` for any locations, number of registers, marker, interval and set of forwarded
  entries (`TrackerAssumption`). The properties speak of the time between polls,
  so they are not inductive. `IInv` says what holds in the middle: which claims
  belong to this poll (`ClaimInv`), that a location claimed once has its reading
  and one claimed twice is NO_GO (`ReadingInv`), that a missing location is NO_GO
  once its turn has come (`MissingInv`), and that what a marker blanked is behind
  it in the queue or still to be queued (`MarkerInv`). `FaultInv` says the same
  of the entries: those of doubly claimed locations are queued, and those of
  missing ones as far as the loop has come. `PaintInv` is about the future of the
  display: for each location, the last queued entry that speaks of it (its own,
  or a marker), or else the display as it is, agrees with the table. That is
  false most of the time, because changes queue the old status; it becomes true
  with the marker of a refresh for every location not still to be queued, and
  after a start, when no location is known before it is claimed, so that no
  change can occur in the first poll. Sending keeps it, and an empty queue turns
  it into `RefreshedDisplay`. `DisplayStays` says that it then lasts until the
  next poll. `QueueBounded` bounds the queue, which the code does not: positions
  map one to one to the pairs of a group and a location (`UniqueIds`), and DUB
  queues entries of its own group only (`QueueSound`); it says so for finitely
  many locations. The lemmas about `Enqueue` say what replacing an entry does to
  positions.
* `DCUPair_proofs`: each unit of the pair implements the tracker (`Trackers`),
  then `Mirrored`, `TableMirrored`, `RefreshArrives` and `MarkerIsFollowed` for
  any locations, registers, intervals, readings, socket and number of troubles
  (`PairAssumption`). `Mirrored` is inductive together with the theorems about
  both trackers (`QueueSound` of DUB: only markers are queued without a health).
  Its core is that erasing an entry and appending its successor does not change
  what the whole sequence yields, and that the entry the display takes is the
  first of that sequence. `TableInv` says which entry of the channel will bring
  the table up to date; `ForgottenInv`, that DUA knows, or is about to know, no
  location that is not in DUB's list, and `ListedInv` of the tracker of DUB, that
  a listed location is queued until the display shows it. `RefreshArrives` joins two results: DUB's refresh leaves
  `sent` as its table says (`DisplayStays` of the tracker of DUB), and with empty
  queues `Mirrored` makes the display equal to `sent`.
* `FWVote_proofs`: `TypeOK`, `ScanIsSelect`, `GlitchMasked` and `ChangeAccepted`
  for any values and depth. The loop is a recursive function over its rounds;
  `ScanSelects` proves what it computes for any samples. The prover has no
  induction over data, so `UpTo` takes its place: if some round were wrong, a
  first one would be, and `RoundKeepsBest` says that no round goes wrong after
  right ones. It is used twice, that the rounds exist and that each holds the
  best so far. The rest is counting: two values cannot both have a strict
  majority of the samples.
* `StatusIO_proofs`, about `SWCStatus`: type correctness and the four invariants for any inputs,
  thresholds, peers and limit. `CountInv`: up to the limit the counter is the
  silence. `PublishInv` follows the rotation tick by tick after the flag.
  `FreshInv`: an input whose turn came after the last change is what it is; with
  it the verdict of the fifth tick uses fresh values only (`FreshVerdict`).
* `StatusIO_proofs`, about `StatusIO`: `Implements` shows that every step of a call, with any
  number of attempts and retries from two reads on (`IOAssumption`), is a step of
  `SWCStatus` or a stutter, from `IOInv`; `StatusCorrect` carries the invariants
  of `SWCStatus` over. Two reads are needed: the first may meet a dead
  connection.
* `AppLife_proofs`, about `EventLoop`: `TypeOK`, `AnnouncesItself`, and that the loop implements
  the safety part of `FairService` for any list of devices. `IInv` bounds
  `overtaken` during a pass by what is still in `chosen`: a device that waits
  from before the pass is in it, and then nobody is served twice in one pass.
* `AppLife_proofs`, about `AppLife`: the application on its board implements `EventLoop`
  (`Implements`), hence announces itself and serves fairly, whoever starts it and
  whatever runs beside it; `ReadyBoard` from `HardwareInv`, which ties the bits of
  the registers to the step of the initialisation of whichever process is alone.
* `TUControl_proofs`: `StartsAsCommanded` and `ConfigurationKept` for any
  commands, settings and number of crashes, if words are integers
  (`ControlAssumption`). The invariant does not enumerate where a handler stands:
  it says of each register access that is left what it does to the trigger, the
  signals and the configuration, and what a bit is that none of them touches, so
  that one lemma about the first access serves every handler. `CheckIsExact` is
  arithmetic: of the points within half a step of a word the rounded one is the
  nearest to zero, and half a step more than the limit of w stays on the sphere.
  From it follows `ToleratesHalfAStep`, for all integers.
* `DUSteering_proofs`: `TypeOK`, `RestsAnalog` and `FiresAsCommanded` for either
  unit, any angles and any number of crashes; `ModesCurrent` and `OfflineOnly`
  under the hypothesis `Unit = "ALPHA"`. The hypothesis is needed: DUB does not
  read the modes when it serves the configuration interrupt, and `steering_beta`
  shows `OfflineOnly` violated there. A handler is a sequence of accesses, and
  each field of the register and each steering word is a cell; the invariant
  speaks of what is left of the running handler. `RestInv`: the last assignment
  of each cell leaves it at rest, and a cell that none assigns is at rest; this
  survives every access, and a crash because the start-up sequence assigns all of
  them. `FireInv`: an access that will fire the trigger is followed by its
  release, and what stands in the cells by then is what the command asked for
  (`FiredInv` carries it over the release). `OfflineInv`: a command under way was
  accepted with modes that are still current, unless the hardware has just
  changed them. `ModesInv`: whenever modes may be stale, the rest of the handler
  reads them again, or an interrupt waits or was lost. That each handler of the
  code, for any command, is such a sequence is proved once per handler
  (`SteeringLegal`, `QuietPrograms`, `BootLegal`), and one lemma per part of the
  invariant says that the first access keeps it.
* `ConfigSync_proofs`: `QuietAgrees` for any settings, sockets, losses and
  crashes. `KnownInv`: DUA knows the settings unless an interrupt waits or was
  lost. `ToldInv`: once the link has settled, the command the TU will carry out
  last, the last in its socket or else the one it was told, carries the settings
  of DUA's hardware. That the TU keeps what it was told is the invariant of
  `TUControl_proofs`, which this module extends.

Only model-checked:

* liveness (`DisplaySettles`, `PairSettles`, `Follows`, `ModesFollow`,
  `TUFollows`, `ServesAll`, `ObeysShutdown`, `Recovers`, `CallsEnd`): the prover
  handles neither fairness nor ENABLED.

Every invariant and every safety property of a step that a passing run checks is
also stated by a theorem.

No module declares a RECURSIVE operator.

## 5. Divergences found

* `scan_limit` (a bug): `ScanLimitCheck.cpp:45` compares `abs(u)` and `abs(v)`
  with a limit of 0.87. The file includes `<cmath>` but does not say `std::`, so
  that with the GNU library this is the `abs(int)` of `<stdlib.h>`: the cosine
  becomes 0 and the tests of u and v cannot fail (`CheckIsExact`). A beta word of
  470 passes.
* `tracker_stale`: on a change of health the code queues the *old* status
  (`DUHWMgr.cpp:956`, overwritten at 963); the comment at 951 says changes are
  sent. The display keeps the status of before the change (TLC's trace: NO_GO for
  a DCU that has become GO) until the next refresh.
* `tracker_ghost` (a bug): `computeDCURolledUpStatus` counts every entry of the
  table that is NO_GO as a failed DCU (`DUHWMgr.cpp:1192-1205`). DUA changes an
  entry of DUB only when DUB sends one for that location (975). A DUB that was
  started again or polled anew reports only the DCUs it finds; its marker blanks
  the display ("to reset the GDS", 250) and not the table (980-989). A DCU that
  had failed, and is not found again, is counted until DUA itself starts or is
  polled anew.
* `steering_beta`: the design document (`SW_DESIGN_DOCUMENT.md:413`) says
  steering commands are active only offline. DUB serves the configuration
  interrupt without reading the modes (`DUCmdMgrBase.cpp:284`) and goes on
  obeying commands until its next scan limit interrupt.

Shown by the models, without a run of their own:

* The acknowledgement. The design document (`SW_DESIGN_DOCUMENT.md:380-381`) has
  every unit send `InitCompleteAck` and then enter the event loop. The code sends
  it with the first tick inside the loop (`CmdMgrBase.cpp:344-348`), and DUA before
  the loop too (`DUACmdMgr.cpp:171`): DUB and TU serve commands before they
  acknowledge, DUA acknowledges twice. `AnnouncesItself` states what the code
  does, and so contradicts the document.
* Two instances. `swc-app-launcher:17` says "First kill all instance of running swc
  app", and the design document (131) assumes one process per role. Two launchers
  that both kill before either starts leave two applications, and the sockets
  allow it (`SO_REUSEADDR`). `myapp-init:36-38` runs the monitor right behind its
  own launcher, and `pgrep` may look before the application exists. With
  `OneInstance` as an invariant of `AppLife.cfg` TLC shows this in six states;
  `ReadyBoard` and `Recovers` say what holds all the same.
* Silence. The comments at `DUACmdMgr.cpp:249-250` and `268-269` say a silent peer
  is set to Red; the code sets `ROLLED_UP_ERROR` (`SilentFlagged`), which the
  overall status does not count (`OverallFollows`), so a dead DUB leaves it GO.
* The link recovery that `IOMHWMgr.cpp:69` asks for has no bound on its time:
  while the module is away, DUA serves nothing (the second half of `CallsEnd`).

Read but not checked by a run: the comment at `DUHWMgr.cpp:150` (default mode
offline under force test; the code sets online), the guard at 176
(`< 0 && > 3`, never true), the overflow of `val*100` at `TUHWMgr.cpp:215` and
`266`, message counters used before they are assigned (`TUCmdMgr.cpp:407`), the
tests `rc == ERROR` after `rc = rc || ...`, never true (`DUACmdMgr.cpp:105`,
`DUBCmdMgr.cpp:93`, `TUCmdMgr.cpp:107`).

## 6. Not modelled, and what is left

Not modelled: report layouts and byte order, validation field by field, the SWCR
status emulator, supply voltages and temperatures (shown, never judged), options
of devices and sockets, `Properties`, `Logger`, time utilities, firmware. A DCU
reading keeps location, validity and health only. Time is counted in ticks;
handlers that block have no duration, but what happens meanwhile is modelled
where it matters (`StatusIO`, shutdown in `EventLoop`).

Two thirds of the lines under `src/` are not the system's own: the calendar
library in `src/date/` (over 25,000 lines, used for time stamps in the log) and
the headers of libmodbus. They keep no state of the system and are not modelled,
nor are the message classes and `ConfigDataManager`, which copy fields.

What could still be added:

1. The processed-steering-word switch and shutdown in `DUSteering`.
2. The safety half of liveness, as bounds: how many passes of the loop, ticks or
   interrupts pass at most before what `Recovers`, `ModesFollow` or `TUFollows`
   promise, which would be in reach of the prover.
