----------------------------- MODULE TUControl -----------------------------
(***************************************************************************)
(* The test unit (TU): steering commands and stress tests of the test      *)
(* server, configuration commands of the alpha unit, and what a restart    *)
(* does to the board control register they share; the scan limit check of  *)
(* the words the firmware has processed.                                   *)
(*                                                                         *)
(* A register is the set of its bits that are one.  A handler is a program *)
(* of register accesses; the process can die between any two of them.      *)
(***************************************************************************)
EXTENDS Integers, Sequences, ScanLimit

CONSTANTS
  Steerings,  \* steering commands with an analog source: alpha, beta, RLCP, RLSC
  Tests,      \* stress tests: alpha, beta, setup
  Settings,   \* what a configuration command may say: config, mode, olte
  MaxInbox,   \* bound on the commands in the socket and on their way to it
  MaxCrashes  \* bound on the crashes of a behaviour

ASSUME ControlAssumption ==
  /\ \A c \in Steerings \cup Tests : c.alpha \in Int /\ c.beta \in Int
  /\ \A s \in Settings : s.config \in 0 .. 3 /\ s.mode \in 0 .. 1 /\ s.olte \in 0 .. 1
  /\ {MaxInbox, MaxCrashes} \subseteq Nat

VARIABLES
  reg,       \* _brdCtrVal, the board control register
  ksine,     \* the two steering word registers
  setup,     \* the seven registers that say how often the action is repeated
  todo,      \* what the running handler has still to do
  up,        \* the process exists
  crashes,   \* crashes so far
  commands,  \* configuration commands sent to the TU, in order
  requests,  \* configuration requests sent by the TU
  limit,     \* the scan limit check logged last, if any
  job,       \* history: the action started last
  told       \* history: the settings told last since the start, if any

vars == <<reg, ksine, setup, todo, up, crashes, commands, requests, limit, job, told>>

\* TU_BOARD_CONTROL_ENUM
Trigger      == 2
ModeBit      == 4
ConfigBit    == 5
OLTEBit      == 7
RLCP         == 8
RLSC         == 9
ShutdownBit  == 12
BoardControl == {2, 5, 6, 8, 9, 12, 16, 17, 31}
Configured   == 4 .. 7

Single == "single"
Nobody == [alpha |-> 0, beta |-> 0, setup |-> Single, flags |-> {}]

\* DeviceUtilities::updateReg and readMask
FieldBits(first, width, value) ==
  {first + i : i \in {k \in 0 .. width - 1 : (value \div 2^k) % 2 = 1}}
UpdateReg(field, bits, value) == (value \ field) \cup bits
Lowest(mask) == CHOOSE b \in mask : \A c \in mask : b <= c
ReadMask(mask, value) == {b - Lowest(mask) : b \in mask \cap value}

SettingBits(s) ==
  FieldBits(ConfigBit, 2, s.config) \cup FieldBits(ModeBit, 1, s.mode)
    \cup FieldBits(OLTEBit, 1, s.olte)

-----------------------------------------------------------------------------
(* Programs. *)

Put(field, bits) == [op |-> "put", field |-> field, bits |-> bits]
Latch(a, b, s)   == [op |-> "latch", alpha |-> a, beta |-> b, setup |-> s]

ToggleRLTDSignal == <<Put({Trigger}, {Trigger}), Put({Trigger}, {})>>

SignalOn(word, bit) == IF word = "On" THEN <<Put({bit}, {bit})>> ELSE <<>>

\* Mutant: RLCP and RLSC stay on.
SteeringLatched(c) ==
  <<Latch(c.alpha, c.beta, Single)>>
  \o SignalOn(c.RLCP, RLCP) \o SignalOn(c.RLSC, RLSC)
  \o ToggleRLTDSignal

\* handleSteeringCommand
Steering(c) ==
  <<Latch(c.alpha, c.beta, Single)>>
  \o SignalOn(c.RLCP, RLCP) \o SignalOn(c.RLSC, RLSC)
  \o ToggleRLTDSignal
  \o <<Put({RLCP}, {}), Put({RLSC}, {})>>

\* handleStressTestCommand
StressTest(t) == <<Latch(t.alpha, t.beta, t.setup)>> \o ToggleRLTDSignal

\* Mutant: bits of the fields are set but never cleared.
ConfigModeUncleared(s) ==
  <<Put({}, FieldBits(ConfigBit, 2, s.config)),
    Put({}, FieldBits(ModeBit, 1, s.mode)),
    Put({}, FieldBits(OLTEBit, 1, s.olte))>>

\* processLocalHWCommandMsg: setConfig, setMode, setOLTE.
ConfigMode(s) ==
  <<Put({ConfigBit, ConfigBit + 1}, FieldBits(ConfigBit, 2, s.config)),
    Put({ModeBit}, FieldBits(ModeBit, 1, s.mode)),
    Put({OLTEBit}, FieldBits(OLTEBit, 1, s.olte))>>

\* Mutant: the configuration is not requested.
BootSilent == <<[op |-> "adopt"]>>

\* TUHWMgr::initialize, then the rest of start.
Boot == <<[op |-> "adopt"], [op |-> "request"]>>

-----------------------------------------------------------------------------
(* Actions. *)

Execute(i) ==
  \/ /\ i.op = "put"
     /\ reg' = UpdateReg(i.field, i.bits, reg)
     /\ UNCHANGED <<ksine, setup, requests>>
  \/ /\ i.op = "latch"
     /\ ksine' = [ALPHA |-> i.alpha, BETA |-> i.beta]
     /\ setup' = i.setup
     /\ UNCHANGED <<reg, requests>>
  \* The value read is shifted down to bit 0 and written back as it is.
  \/ /\ i.op = "adopt"
     /\ reg' = ReadMask(BoardControl, reg)
     /\ UNCHANGED <<ksine, setup, requests>>
  \/ /\ i.op = "request"
     /\ requests' = requests + 1
     /\ UNCHANGED <<reg, ksine, setup>>

Step ==
  /\ todo # <<>>
  /\ Execute(Head(todo))
  /\ todo' = Tail(todo)
  /\ UNCHANGED <<up, crashes, commands, limit, job, told>>

Booting == \E i \in DOMAIN todo : todo[i].op = "request"

\* The event loop dispatches a handler.
Idle == up /\ todo = <<>>

Dispatch(program) ==
  /\ Idle
  /\ todo' = program
  /\ UNCHANGED <<reg, ksine, setup, up, crashes, requests, limit>>

SteeringCommand(c) ==
  /\ Dispatch(Steering(c))
  /\ job' = [alpha |-> c.alpha, beta |-> c.beta, setup |-> Single,
             flags |-> (IF c.RLCP = "On" THEN {RLCP} ELSE {})
                         \cup (IF c.RLSC = "On" THEN {RLSC} ELSE {})]
  /\ UNCHANGED <<commands, told>>

StressTestCommand(t) ==
  /\ Dispatch(StressTest(t))
  /\ job' = [alpha |-> t.alpha, beta |-> t.beta, setup |-> t.setup, flags |-> {}]
  /\ UNCHANGED <<commands, told>>

ConfigModeCommand ==
  /\ commands # <<>>
  /\ Dispatch(ConfigMode(Head(commands)))
  /\ commands' = Tail(commands)
  /\ told' = {Head(commands)}
  /\ UNCHANGED job

\* handleShutdownCommand with PowerOff; the process runs on.
ShutdownCommand ==
  /\ Dispatch(<<Put({ShutdownBit}, {ShutdownBit})>>)
  /\ UNCHANGED <<commands, job, told>>

\* processSLInterrupt: the firmware has processed a pair of steering words.
SLInterrupt ==
  /\ Idle
  /\ limit' = {[alpha |-> ksine.ALPHA, beta |-> ksine.BETA,
               passed |-> RunSWScanLimitCheck(ksine.ALPHA, ksine.BETA)]}
  /\ UNCHANGED <<reg, ksine, setup, todo, up, crashes, commands, requests, job, told>>

\* The process dies, alone or with the whole board (handleShutdownCommand with
\* another option reboots it).
Crash ==
  /\ up /\ crashes < MaxCrashes
  /\ up' = FALSE
  /\ todo' = <<>>
  /\ crashes' = crashes + 1
  /\ reg' \in {reg, {}}
  /\ limit' = {}
  /\ told' = {}
  /\ UNCHANGED <<ksine, setup, commands, requests, job>>

\* swc-app-monitor starts it again.
Restart ==
  /\ ~up
  /\ up' = TRUE
  /\ todo' = Boot
  /\ UNCHANGED <<reg, ksine, setup, crashes, commands, requests, limit, job, told>>

\* External: a configuration command is sent.
Tell(s) ==
  /\ Len(commands) < MaxInbox
  /\ commands' = Append(commands, s)
  /\ UNCHANGED <<reg, ksine, setup, todo, up, crashes, requests, limit, job, told>>

Init ==
  /\ reg = {}
  /\ ksine = [ALPHA |-> 0, BETA |-> 0]
  /\ setup = Single
  /\ todo = Boot
  /\ up = TRUE
  /\ crashes = 0
  /\ commands = <<>>
  /\ requests = 0
  /\ limit = {}
  /\ job = Nobody
  /\ told = {}

Unit ==
  \/ Step
  \/ ConfigModeCommand
  \/ Crash
  \/ Restart

TestServer ==
  \/ \E c \in Steerings : SteeringCommand(c)
  \/ \E t \in Tests : StressTestCommand(t)
  \/ ShutdownCommand
  \/ SLInterrupt

Next == Unit \/ TestServer \/ \E s \in Settings : Tell(s)

Spec == Init /\ [][Next]_vars

-----------------------------------------------------------------------------
(* Properties. *)

\* The register keeps to its 32 bits, and the TU asks for the configuration
\* once per start.
TypeOK ==
  /\ reg \subseteq 0 .. 31
  /\ commands \in Seq(Settings) /\ Len(commands) <= MaxInbox
  /\ told \subseteq Settings
  /\ requests \in 0 .. MaxCrashes + 1
  /\ up \in BOOLEAN
  /\ crashes \in 0 .. MaxCrashes

\* The trigger starts exactly the action that was asked for, whatever was done
\* before and wherever a crash has cut it off: both steering words, the number
\* of repetitions, and the RLCP and RLSC signals, which belong to one steering
\* command and are off in a stress test.
StartsAsCommanded ==
  Trigger \in reg /\ up /\ ~Booting =>
    /\ ksine = [ALPHA |-> job.alpha, BETA |-> job.beta]
    /\ setup = job.setup
    /\ reg \cap {RLCP, RLSC} = job.flags

\* No other handler disturbs the configuration told last.
ConfigurationKept ==
  Idle => \A s \in told : reg \cap Configured = SettingBits(s)

\* The check logged for a pair of words gives them the half step by which they
\* may be rounded, inwards and in both words at once, and no more: it passes
\* exactly if the elevation does and one of the points that read as these words
\* is within the limit of w.
ToleratesHalfAStep ==
  \A l \in limit :
    LET a == Count * l.alpha
        b == Count * l.beta
    IN  l.passed <=> ~TooLow(a, b) /\ WithinW(a, b)

\* "u, v, w tests", "One of u, v, or w has failed ... Recompute rounded values":
\* words that pass have u and v within UV_THRESHOLD, up to half a step.
WithinUV ==
  \A l \in limit :
    l.passed => WithinCosine(Count * l.alpha) /\ WithinCosine(Count * l.beta)

=============================================================================
