----------------------------- MODULE DUSteering -----------------------------
(***************************************************************************)
(* Commanded steering on a DU board.                                       *)
(*                                                                         *)
(* The application drives the steering hardware through one board control  *)
(* register, written field by field.  A steering command of the test       *)
(* server is obeyed only when the system is offline; whether it is, the    *)
(* application knows from a copy of the system status register, taken at   *)
(* different times by the alpha and the beta unit.  The register outlives  *)
(* the process: a crash can leave it half-way through a command, until     *)
(* swc-app-monitor starts the application again.                           *)
(*                                                                         *)
(* A handler is a program, a sequence of the register accesses it makes;   *)
(* the hardware acts between any two of them.                              *)
(***************************************************************************)
EXTENDS Integers, Sequences

CONSTANTS
  Unit,       \* "ALPHA" or "BETA"
  ForceTest,  \* FORCE_TEST_MODE of the configuration file
  Angles,     \* the steering values of a command
  MaxCrashes  \* bound on the crashes of a behaviour

ASSUME SteeringAssumption ==
  /\ Unit \in {"ALPHA", "BETA"}
  /\ ForceTest \in BOOLEAN
  /\ MaxCrashes \in Nat

VARIABLES
  hwMode,     \* external: the modes in the system status register
  pending,    \* external: the configuration interrupt is raised
  modes,      \* _swcMode and _olteMode
  brd,        \* _brdCtrVal, the board control register
  ksine,      \* the two steering word registers
  todo,       \* what the running handler has still to do; <<>> in select()
  listening,  \* the interrupt devices are open: the event loop is reached
  up,         \* the process exists
  crashes,    \* crashes so far
  job,        \* history: the steering command obeyed last
  lost        \* history: a mode change raised no interrupt, and no read
              \* of the modes has come after it

vars == <<hwMode, pending, modes, brd, ksine, todo, listening, up, crashes,
          job, lost>>

Modes    == [swc : {"ONLINE", "OFFLINE"}, olte : {"ONLINE", "OFFLINE"}]
Boards   == [force : {"NORMAL", "TEST"}, src : {"Analog", "Digital"},
             valid : {"VALID", "INVALID"},
             dcuCmd : {"NONE", "BORESIGHT", "CALIBRATION"}, trigger : {0, 1},
             swc : {"ONLINE", "OFFLINE"}, olte : {"ONLINE", "OFFLINE"}]
Commands == [testSource : {"Analog", "Digital"}, alpha : Angles, beta : Angles,
             RLCP : {"On", "Off"}, RLSC : {"On", "Off"}]

Offline(m) == m.swc = "OFFLINE" \/ m.olte = "OFFLINE"

ResetBoard == [force |-> "NORMAL", src |-> "Analog", valid |-> "INVALID",
               dcuCmd |-> "NONE", trigger |-> 0, swc |-> "ONLINE", olte |-> "ONLINE"]

ForceMode == IF ForceTest THEN "TEST" ELSE "NORMAL"

\* DeviceUtilities::updateReg: the fields written change, the others stay.
UpdateReg(fields, value) ==
  [x \in DOMAIN value |-> IF x \in DOMAIN fields THEN fields[x] ELSE value[x]]

-----------------------------------------------------------------------------
(* Programs. *)

Write(fields)   == [op |-> "write", fields |-> fields]
Latch(u, angle) == [op |-> "latch", unit |-> u, angle |-> angle]
Refresh         == [op |-> "refresh"]      \* getSysConfigStatus
Consume         == [op |-> "consume"]      \* read of the UIO device
AnalogIfOnline  == [op |-> "analog"]
Listen          == [op |-> "listen"]

\* toggleSWTrigger
ToggleSWTrigger == <<Write([trigger |-> 1]), Write([trigger |-> 0])>>

\* One of the two commands to the DCUs, which take the place of the words.
DCUCommand(word, cmd) ==
  IF word = "On" THEN <<Write([valid |-> "INVALID"]), Write([dcuCmd |-> cmd])>>
  ELSE <<>>

\* Mutant: the valid flag is not restored.
SteeringUnrestored(c) ==
  <<Write([src |-> "Digital"]), Latch("ALPHA", c.alpha), Latch("BETA", c.beta)>>
  \o DCUCommand(c.RLCP, "BORESIGHT") \o DCUCommand(c.RLSC, "CALIBRATION")
  \o ToggleSWTrigger
  \o <<Write([src |-> "Analog"])>>

\* handleSteeringCommand, once the command is accepted.
Steering(c) ==
  <<Write([src |-> "Digital"]), Latch("ALPHA", c.alpha), Latch("BETA", c.beta)>>
  \o DCUCommand(c.RLCP, "BORESIGHT") \o DCUCommand(c.RLSC, "CALIBRATION")
  \o ToggleSWTrigger
  \o <<Write([valid |-> "VALID"]), Write([src |-> "Analog"])>>

\* After the boresight at start, the register is put at rest.
AtRest(force) ==
  [force |-> force, src |-> "Analog", dcuCmd |-> "NONE", valid |-> "VALID"]

\* readSWCStatus, called by the alpha unit only, reads the modes again.
FirstStatus == IF Unit = "ALPHA" THEN <<Refresh>> ELSE <<>>

\* Mutant: the force test mode of the initial boresight is left on.
BootForced ==
  <<Write(ResetBoard), Write([force |-> ForceMode]), Refresh,
    Write([force |-> "TEST", src |-> "Digital", dcuCmd |-> "BORESIGHT",
           valid |-> "INVALID"])>>
  \o ToggleSWTrigger
  \o <<Write(AtRest("TEST"))>>
  \o FirstStatus
  \o <<Listen>>

\* DUHWMgr::initialize, then initializeDUCommonDevices.  The DCUs are put
\* through a boresight command to make them report.
Boot ==
  <<Write(ResetBoard), Write([force |-> ForceMode]), Refresh,
    Write([force |-> "TEST", src |-> "Digital", dcuCmd |-> "BORESIGHT",
           valid |-> "INVALID"])>>
  \o ToggleSWTrigger
  \o <<Write(AtRest(ForceMode))>>
  \o FirstStatus
  \o <<Listen>>

\* Mutant: the interrupt is consumed when the modes have been read.
ConfigProgramLate ==
  (IF Unit = "ALPHA" THEN <<Refresh>> ELSE <<>>)
  \o <<Consume, AnalogIfOnline>>

\* processConfigInterrupt: handleConfigInterruptRefresh does nothing on beta.
\* clearInterrupt enables the interrupt again; one that is raised while it is
\* disabled is held until then, so it adds nothing here.
ConfigProgram ==
  <<Consume>> \o (IF Unit = "ALPHA" THEN <<Refresh>> ELSE <<>>)
  \o <<AnalogIfOnline>>

\* Mutant: the status timer reads the status without the modes.
TimerProgramBlind == <<>>

\* handlePreDcuStatusTimer: readSWCStatus reads the modes on alpha.
TimerProgram == IF Unit = "ALPHA" THEN <<Refresh>> ELSE <<>>

\* processSLInterrupt: getOverallSPIStatus reads the modes.
ScanLimitProgram == <<Refresh>>

-----------------------------------------------------------------------------
(* Actions. *)

Execute(i) ==
  \/ /\ i.op = "write"
     /\ brd' = UpdateReg(i.fields, brd)
     /\ UNCHANGED <<ksine, modes, pending, listening, lost>>
  \/ /\ i.op = "latch"
     /\ ksine' = [ksine EXCEPT ![i.unit] = i.angle]
     /\ UNCHANGED <<brd, modes, pending, listening, lost>>
  \/ /\ i.op = "refresh"
     /\ modes' = hwMode
     /\ brd' = UpdateReg(hwMode, brd)
     /\ lost' = FALSE
     /\ UNCHANGED <<ksine, pending, listening>>
  \/ /\ i.op = "consume"
     /\ pending' = FALSE
     /\ UNCHANGED <<brd, ksine, modes, listening, lost>>
  \/ /\ i.op = "analog"
     /\ brd' = IF modes.swc = "ONLINE" THEN [brd EXCEPT !.src = "Analog"] ELSE brd
     /\ UNCHANGED <<ksine, modes, pending, listening, lost>>
  \/ /\ i.op = "listen"
     /\ listening' = TRUE
     /\ UNCHANGED <<brd, ksine, modes, pending, lost>>

Step ==
  /\ todo # <<>>
  /\ Execute(Head(todo))
  /\ todo' = Tail(todo)
  /\ UNCHANGED <<hwMode, up, crashes, job>>

\* The event loop dispatches a handler.
Idle == listening /\ todo = <<>>

Dispatch(program) ==
  /\ Idle
  /\ todo' = program
  /\ UNCHANGED <<hwMode, pending, modes, brd, ksine, listening, up, crashes, lost>>

\* Mutant: the copies of the modes are not asked.
AcceptsAny == modes \in Modes

\* The guard of handleSteeringCommand.
Accepts == Offline(modes) \/ ForceTest

SteeringCommand(c) ==
  /\ c.testSource = "Digital" /\ Accepts
  /\ Dispatch(Steering(c))
  /\ job' = c

ConfigInterrupt    == pending /\ Dispatch(ConfigProgram) /\ UNCHANGED job
StatusTimer        == Dispatch(TimerProgram) /\ UNCHANGED job
ScanLimitInterrupt == Dispatch(ScanLimitProgram) /\ UNCHANGED job

\* External: the TWGS commands other modes.  While the device is closed the
\* interrupt may be lost, or be held by the interrupt controller.
ChangeMode(m) ==
  /\ m # hwMode
  /\ hwMode' = m
  /\ pending' \in (IF listening THEN {TRUE} ELSE BOOLEAN)
  /\ lost' = (lost \/ ~pending')
  /\ UNCHANGED <<modes, brd, ksine, todo, listening, up, crashes, job>>

Crash ==
  /\ up /\ crashes < MaxCrashes
  /\ up' = FALSE
  /\ todo' = <<>>
  /\ listening' = FALSE
  /\ crashes' = crashes + 1
  /\ UNCHANGED <<hwMode, pending, modes, brd, ksine, job, lost>>

Restart ==
  /\ ~up
  /\ up' = TRUE
  /\ todo' = Boot
  /\ UNCHANGED <<hwMode, pending, modes, brd, ksine, listening, crashes, job, lost>>

Init ==
  /\ hwMode \in Modes
  /\ pending \in BOOLEAN
  /\ modes = [swc |-> "ONLINE", olte |-> "ONLINE"]
  /\ brd = ResetBoard
  /\ ksine \in [{"ALPHA", "BETA"} -> Angles]
  /\ todo = Boot
  /\ listening = FALSE
  /\ up = TRUE
  /\ crashes = 0
  /\ job \in Commands
  /\ job = [testSource |-> "Analog", alpha |-> ksine["ALPHA"], beta |-> ksine["BETA"],
            RLCP |-> "Off", RLSC |-> "Off"]
  /\ lost = FALSE

Next ==
  \/ Step
  \/ \E c \in Commands : SteeringCommand(c)
  \/ ConfigInterrupt
  \/ StatusTimer
  \/ ScanLimitInterrupt
  \/ \E m \in Modes : ChangeMode(m)
  \/ Crash
  \/ Restart

Spec == Init /\ [][Next]_vars

\* A handler runs on, the monitor restarts a dead process, and the event loop
\* serves every event that it finds ready, however many others there are.
Fairness ==
  /\ WF_vars(Step)
  /\ WF_vars(Restart)
  /\ SF_vars(ConfigInterrupt)
  /\ SF_vars(StatusTimer)

FairSpec == Spec /\ Fairness

-----------------------------------------------------------------------------
(* Properties. *)

\* The fields of the register stay within their width, and the process is up
\* when it listens.
TypeOK ==
  /\ {hwMode, modes} \subseteq Modes
  /\ brd \in Boards
  /\ ksine \in [{"ALPHA", "BETA"} -> Angles]
  /\ {pending, listening, up, lost} \subseteq BOOLEAN
  /\ crashes \in 0 .. MaxCrashes
  /\ job \in Commands
  /\ listening => up

Triggered == listening /\ brd.trigger = 1

\* Between handlers the analog source is selected, its words are valid, and the
\* test mode is what the configuration says, also after a crash in the middle
\* of a command (handleSteeringCommand, initialize).
RestsAnalog ==
  Idle => /\ brd.src = "Analog" /\ brd.valid = "VALID" /\ brd.trigger = 0
          /\ brd.force = ForceMode

\* The trigger fires with both steering words of one command, and they are
\* marked invalid exactly when the DCUs are to boresight or calibrate instead.
FiresAsCommanded ==
  Triggered =>
    /\ ksine["ALPHA"] = job.alpha /\ ksine["BETA"] = job.beta
    /\ brd.valid = "INVALID" <=> "On" \in {job.RLCP, job.RLSC}
    /\ job.RLSC = "On" => brd.dcuCmd = "CALIBRATION"
    /\ job.RLSC = "Off" /\ job.RLCP = "On" => brd.dcuCmd = "BORESIGHT"

\* "active only when the SWC/OLTE mode is offline or force-test mode is enabled"
\* A mode change that the application cannot know of yet is excused: its
\* interrupt waits, or was lost while the application started.
OfflineOnly ==
  Triggered /\ brd.src = "Digital" => ForceTest \/ Offline(hwMode) \/ pending \/ lost

\* Once its interrupt is served, a mode change is known, and the test mode
\* fields of the register follow it (handleConfigInterruptRefresh).
ModesCurrent ==
  Idle /\ ~pending /\ ~lost =>
    /\ modes = hwMode
    /\ brd.swc = hwMode.swc /\ brd.olte = hwMode.olte

\* Even a mode change whose interrupt was lost becomes known in the end.
ModesFollow == \A m \in Modes : <>[](hwMode = m) => <>[](modes = m)

=============================================================================
