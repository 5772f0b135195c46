------------------------------- MODULE AppLife ------------------------------
(***************************************************************************)
(* The life of an application on its board.  The board boots and its start *)
(* script runs the launcher; the launcher kills what runs and starts the   *)
(* application; the application opens its devices, initialises the         *)
(* hardware and enters the event loop; a monitor looks whether it is there *)
(* and runs the launcher when it is not.  Nothing orders the launchers, so *)
(* a second instance of the application may come to run beside the first.  *)
(*                                                                         *)
(* The application itself is that of EventLoop, whose Spec is implemented. *)
(* Of a second instance only its start is modelled, which writes the same  *)
(* registers, not what it serves.  The hardware manager is that of a       *)
(* digital unit: it steers the DCUs once to learn how they are, which      *)
(* takes the force-test mode of the board.                                 *)
(***************************************************************************)
EXTENDS EventLoop

CONSTANTS
  HardwareAt,  \* devices opened before the hardware manager is initialised
  MaxTroubles  \* bound on ends of the process and interventions of the operator

ASSUME LifeAssumption ==
  /\ HardwareAt \in 0 .. Len(Order)
  /\ MaxTroubles \in Nat

\* myapp-init, swc-app-monitor, and the alias startswc.
Starters == {"init", "monitor", "operator"}

\* How far DUHWMgr::initialize of a process has come.
Stages == {"no", "os", "reset", "held", "boresight", "rest", "done"}

VARIABLES
  launcher, \* the launcher that each has started: "none", "started" or, having
            \* killed the applications, "cleared"
  twin,     \* "none", or how far a second instance of the application is
  hwInit,   \* how far the application is
  appReady, \* the bit of the ARM init register that says so to the firmware
  forced,   \* the force-test bit of the board control register
  testMode, \* FORCE_TEST_MODE of config.txt is TEST
  mixed,    \* history: since a process alone cleared appReady, two have run
  troubles  \* how many there have been

life     == <<launcher, twin, hwInit, appReady, forced, testMode, mixed, troubles>>
lifeVars == <<vars, life>>

LifeInit ==
  /\ Init
  /\ launcher = [s \in Starters |-> IF s = "init" THEN "started" ELSE "none"]
  /\ twin = "none"
  /\ hwInit = "no" /\ appReady = FALSE /\ forced = FALSE
  /\ testMode \in BOOLEAN /\ mixed = FALSE
  /\ troubles = 0

-----------------------------------------------------------------------------
\* Launcher and monitor

Gone == Vanish /\ hwInit' = "no"

Trouble == troubles < MaxTroubles /\ troubles' = troubles + 1

\* The monitor and the operator start a launcher in the background, whatever
\* another one is doing.
Launch(s) ==
  /\ launcher[s] = "none"
  /\ launcher' = [launcher EXCEPT ![s] = "started"]
  /\ UNCHANGED <<vars, twin, hwInit, appReady, forced, testMode, mixed>>

\* Mutant: the monitor trusts the bit that the application has set.
LookAtBit ==
  \/ appReady /\ UNCHANGED lifeVars
  \/ ~appReady /\ Launch("monitor") /\ UNCHANGED troubles

\* pgrep finds no application.
Look == ~up /\ twin = "none" /\ Launch("monitor") /\ UNCHANGED troubles

Intervene == Trouble /\ Launch("operator")

\* A process that is sent SIGTERM, for which it has no handler, runs no further
\* instruction of its own.
KillAll(s) ==
  /\ launcher[s] = "started"
  /\ launcher' = [launcher EXCEPT ![s] = "cleared"]
  /\ twin' = "none"
  /\ \/ up /\ Gone
     \/ ~up /\ UNCHANGED <<vars, hwInit>>
  /\ UNCHANGED <<appReady, forced, testMode, mixed, troubles>>

\* The launcher does not look again before it starts the application.  There
\* are at most two instances, a bound.
Execute(s) ==
  /\ launcher[s] = "cleared"
  /\ launcher' = [launcher EXCEPT ![s] = "none"]
  /\ \/ up /\ twin = "none" /\ twin' = "no" /\ UNCHANGED vars
     \/ Restart /\ UNCHANGED twin
  /\ mixed' = (mixed \/ up \/ twin # "none")
  /\ UNCHANGED <<hwInit, appReady, forced, testMode, troubles>>

-----------------------------------------------------------------------------
\* DUHWMgr::initialize, of either process

InitStep(from, to) ==
  /\ \/ up /\ opened = HardwareAt /\ hwInit = from /\ hwInit' = to /\ UNCHANGED twin
     \/ twin = from /\ twin' = to /\ UNCHANGED hwInit
  /\ UNCHANGED <<vars, launcher, testMode, troubles>>

\* Mutant: the app bit of an earlier process is kept.
ReportOSOnly ==
  /\ InitStep("no", "os")
  /\ mixed' = (up /\ twin # "none")
  /\ UNCHANGED <<appReady, forced>>

\* The OS bit is written together with the cleared app bit.
ReportOS ==
  /\ InitStep("no", "os")
  /\ appReady' = FALSE
  /\ mixed' = (up /\ twin # "none")
  /\ UNCHANGED forced

ResetBoard == InitStep("os", "reset") /\ forced' = FALSE /\ UNCHANGED <<appReady, mixed>>

\* The configured test mode, and once more with the centre frequency.
HoldTestMode == InitStep("reset", "held") /\ forced' = testMode /\ UNCHANGED <<appReady, mixed>>

\* To have the DCUs report their status.
Boresight == InitStep("held", "boresight") /\ forced' = TRUE /\ UNCHANGED <<appReady, mixed>>

Release == InitStep("boresight", "rest") /\ forced' = testMode /\ UNCHANGED <<appReady, mixed>>

ReportApp == InitStep("rest", "done") /\ appReady' = TRUE /\ UNCHANGED <<forced, mixed>>

Initialised == opened = HardwareAt => hwInit = "done"

-----------------------------------------------------------------------------
\* The application

\* A crash; a device that cannot be opened, for which start() returns; /dev/mem
\* that cannot be mapped: start() ignores the result of initialize and the next
\* access to a register ends the process.
Dies ==
  /\ Trouble
  /\ \/ up /\ Gone /\ UNCHANGED twin
     \/ twin # "none" /\ twin' = "none" /\ UNCHANGED <<vars, hwInit>>
  /\ UNCHANGED <<launcher, appReady, forced, testMode, mixed>>

\* The whole board starts again; the registers are kept, or not.
BoardRestarts ==
  /\ launcher' = [s \in Starters |-> IF s = "init" THEN "started" ELSE "none"]
  /\ twin' = "none"
  /\ \/ appReady' = FALSE /\ forced' = FALSE
     \/ UNCHANGED <<appReady, forced>>
  /\ UNCHANGED <<testMode, mixed, troubles>>

RebootBoard == Reboot /\ hwInit' = "no" /\ BoardRestarts

\* The second instance serves a shutdown command, when it gets one.
TwinReboots ==
  /\ twin = "done"
  /\ \/ up /\ Gone
     \/ ~up /\ UNCHANGED <<vars, hwInit>>
  /\ BoardRestarts

Run ==
  /\ \/ Initialised /\ (Open \/ EnterLoop)
     \/ Select
     \/ \E s \in Sources : Dispatch(s)
     \/ PowerOff
  /\ UNCHANGED life

-----------------------------------------------------------------------------
LifeProgram ==
  \/ ReportOS \/ ResetBoard \/ HoldTestMode \/ Boresight \/ Release \/ ReportApp
  \/ Run
  \/ RebootBoard

LifeNext ==
  \/ LifeProgram
  \/ Dies
  \/ TwinReboots
  \/ Look
  \/ Intervene
  \/ \E s \in Starters : KillAll(s) \/ Execute(s)
  \/ \E s \in Sources : Arrive(s) /\ UNCHANGED life

LifeSpec == LifeInit /\ [][LifeNext]_lifeVars

\* The process runs; the scripts go on, of which the monitor looks every minute.
FairLife ==
  /\ LifeSpec
  /\ WF_lifeVars(LifeProgram)
  /\ WF_lifeVars(Look \/ \E s \in Starters : KillAll(s) \/ Execute(s))

-----------------------------------------------------------------------------
\* Properties

\* The launcher kills "all instance of running swc app" before it starts one, but
\* does not keep others from starting: where launchers meet this does not last.
OneInstance == ~(up /\ twin # "none")

\* Whatever died in the middle of its start, and whether or not the force-test
\* mode is configured: the firmware is told that the application is ready only
\* with the board in the mode that is configured, not in that of the start; and
\* no command is served before it is told.  That is so while processes write the
\* registers one after the other, and again from the start of a process that
\* runs alone (DUHWMgr::initialize).
ReadyBoard ==
  ~mixed =>
    /\ appReady => (forced <=> testMode)
    /\ looping \/ twin = "done" => appReady

Serving == looping \/ twin = "done"

\* However the application ends, at whatever step of its start, and however many
\* launchers meet: if nothing serves the devices, something does again.
Recovers == ~Serving ~> Serving

\* The application, with all that starts and ends it, is that of EventLoop.
ImplementsLoop == Spec

-----------------------------------------------------------------------------
\* What ReadyBoard needs, to be inductive: while no two processes have met, the
\* bits of the registers follow from how far the only process is.

StageInv ==
  /\ hwInit \in Stages /\ twin \in Stages \cup {"none"}
  /\ ~up => hwInit = "no"
  /\ opened > HardwareAt => hwInit = "done"
  /\ opened < HardwareAt => hwInit = "no"
  /\ looping => hwInit = "done"

BitsFit(stage) ==
  /\ stage \in {"os", "reset", "held", "boresight", "rest"} => ~appReady
  /\ stage = "done" => appReady
  /\ stage \in {"held", "rest", "done"} => (forced <=> testMode)

HardwareInv ==
  /\ StageInv
  /\ ~mixed =>
       /\ OneInstance
       /\ BitsFit(hwInit) /\ BitsFit(twin)
       /\ appReady => (forced <=> testMode)

=============================================================================
