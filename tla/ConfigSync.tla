----------------------------- MODULE ConfigSync -----------------------------
(***************************************************************************)
(* How the test unit learns the configuration of the system.               *)
(*                                                                         *)
(* The alpha unit (DUA) reads it from its hardware and sends it, by UDP    *)
(* and without acknowledgement, when it starts, when the configuration     *)
(* interrupt tells of a change, and when the test unit (TU) asks, which    *)
(* it does once, when it starts.  Either process may die and be restarted  *)
(* at any time.  The TU is TUControl; its sockets are the channels here.   *)
(* The commands of the test server, which leave the configuration alone    *)
(* (ConfigurationKept of TUControl), are left out.                         *)
(***************************************************************************)
EXTENDS TUControl

CONSTANTS
  MaxLost,        \* bound on the datagrams that the network loses
  MaxDUACrashes   \* bound on the crashes of DUA

ASSUME SyncAssumption == {MaxLost, MaxDUACrashes} \subseteq Nat

VARIABLES
  hw,          \* external: the settings in the system status register
  interrupt,   \* external: the configuration interrupt is raised
  known,       \* _sysConfig, _swcMode and _olteMode of DUA
  stage,       \* how far DUA is: "down", "init", "open", "announce", "loop"
  duaCrashes,  \* crashes of DUA so far
  lost,        \* datagrams lost so far
  lostMsg,     \* history: a datagram was lost after DUA's last sending
  lostIrq      \* history: an interrupt was lost, and DUA has neither started
               \* nor served an interrupt since

duaVars  == <<hw, interrupt, known, stage, duaCrashes, lost, lostMsg, lostIrq>>
tuVars   == <<reg, ksine, setup, todo, up, crashes, limit, job, told>>
syncVars == <<vars, duaVars>>

Stages == {"down", "init", "open", "announce", "loop"}

-----------------------------------------------------------------------------
(* The alpha unit. *)

\* SendConfigModeMsg; what does not fit into the socket buffer is lost.
SendConfigModeMsg(s) ==
  IF Len(commands) < MaxInbox
  THEN commands' = Append(commands, s) /\ lostMsg' = FALSE
  ELSE lostMsg' = TRUE /\ UNCHANGED commands

\* DUHWMgr::initialize
DUAInitialize ==
  /\ stage = "init"
  /\ stage' = "open"
  /\ known' = hw
  /\ UNCHANGED <<hw, interrupt, duaCrashes, lost, lostMsg, lostIrq,
                 commands, requests, tuVars>>

\* initializeDUCommonDevices
DUAOpen ==
  /\ stage = "open"
  /\ stage' = "announce"
  /\ UNCHANGED <<hw, interrupt, known, duaCrashes, lost, lostMsg, lostIrq,
                 commands, requests, tuVars>>

\* The end of start.
DUAAnnounce ==
  /\ stage = "announce"
  /\ stage' = "loop"
  /\ SendConfigModeMsg(known)
  /\ UNCHANGED <<hw, interrupt, known, duaCrashes, lost, lostIrq, requests, tuVars>>

\* Mutant: the settings are sent before they are read.
ConfigInterruptStale ==
  /\ stage = "loop" /\ interrupt
  /\ interrupt' = FALSE
  /\ known' = hw
  /\ lostIrq' = FALSE
  /\ SendConfigModeMsg(known)
  /\ UNCHANGED <<hw, stage, duaCrashes, lost, requests, tuVars>>

\* processConfigInterrupt with handleConfigInterruptRefresh
ConfigInterrupt ==
  /\ stage = "loop" /\ interrupt
  /\ interrupt' = FALSE
  /\ known' = hw
  /\ lostIrq' = FALSE
  /\ SendConfigModeMsg(known')
  /\ UNCHANGED <<hw, stage, duaCrashes, lost, requests, tuVars>>

\* processLocalHWStatusMsg, a request of the TU: nothing is read again.
AnswerRequest ==
  /\ stage = "loop" /\ requests > 0
  /\ requests' = requests - 1
  /\ SendConfigModeMsg(known)
  /\ UNCHANGED <<hw, interrupt, known, stage, duaCrashes, lost, lostIrq, tuVars>>

\* The status timer and the scan limit interrupt read the settings without
\* sending them.
ReadSettings ==
  /\ stage = "loop"
  /\ known' = hw
  /\ UNCHANGED <<hw, interrupt, stage, duaCrashes, lost, lostMsg, lostIrq,
                 commands, requests, tuVars>>

DUACrash ==
  /\ stage # "down" /\ duaCrashes < MaxDUACrashes
  /\ stage' = "down"
  /\ duaCrashes' = duaCrashes + 1
  /\ requests' \in 0 .. requests
  /\ UNCHANGED <<hw, interrupt, known, lost, lostMsg, lostIrq, commands, tuVars>>

DUARestart ==
  /\ stage = "down"
  /\ stage' = "init"
  /\ lostIrq' = FALSE
  /\ UNCHANGED <<hw, interrupt, known, duaCrashes, lost, lostMsg,
                 commands, requests, tuVars>>

-----------------------------------------------------------------------------
(* The environment. *)

\* Until DUA opens the device, an interrupt may be lost or held.
ChangeSettings(s) ==
  /\ s # hw
  /\ hw' = s
  /\ interrupt' \in (IF stage \in {"announce", "loop"} THEN {TRUE} ELSE BOOLEAN)
  /\ lostIrq' = (lostIrq \/ (~interrupt' /\ stage = "open"))
  /\ UNCHANGED <<known, stage, duaCrashes, lost, lostMsg, commands, requests, tuVars>>

\* The network loses a datagram.
Lose ==
  /\ lost < MaxLost
  /\ lost' = lost + 1
  /\ lostMsg' = TRUE
  /\ \/ commands # <<>> /\ commands' = Tail(commands) /\ UNCHANGED requests
     \/ requests > 0 /\ requests' = requests - 1 /\ UNCHANGED commands
  /\ UNCHANGED <<hw, interrupt, known, stage, duaCrashes, lostIrq, tuVars>>

\* A datagram for a process that does not run, or one in the socket buffer of a
\* process that has died, is dropped.
Drop ==
  /\ \/ ~up /\ commands # <<>> /\ commands' = Tail(commands) /\ UNCHANGED requests
     \/ stage = "down" /\ requests > 0 /\ requests' = requests - 1
        /\ UNCHANGED commands
  /\ UNCHANGED <<duaVars, tuVars>>

SyncInit ==
  /\ Init
  /\ hw \in Settings
  /\ interrupt \in BOOLEAN
  /\ known \in Settings
  /\ stage = "init"
  /\ duaCrashes = 0
  /\ lost = 0
  /\ lostMsg = FALSE
  /\ lostIrq = FALSE

SyncNext ==
  \/ Unit /\ UNCHANGED duaVars
  \/ DUAInitialize
  \/ DUAOpen
  \/ DUAAnnounce
  \/ ConfigInterrupt
  \/ AnswerRequest
  \/ ReadSettings
  \/ DUACrash
  \/ DUARestart
  \/ \E s \in Settings : ChangeSettings(s)
  \/ Lose
  \/ Drop

SyncSpec == SyncInit /\ [][SyncNext]_syncVars

\* Both programs run on, the monitor restarts a dead process, and both event
\* loops serve every event that they find ready, however many others there are.
SyncFairness ==
  /\ WF_syncVars(Step /\ UNCHANGED duaVars)
  /\ WF_syncVars(Restart /\ UNCHANGED duaVars)
  /\ SF_syncVars(ConfigModeCommand /\ UNCHANGED duaVars)
  /\ WF_syncVars(DUAInitialize \/ DUAOpen \/ DUAAnnounce)
  /\ WF_syncVars(DUARestart)
  /\ SF_syncVars(ConfigInterrupt)
  /\ SF_syncVars(AnswerRequest)

FairSync == SyncSpec /\ SyncFairness

-----------------------------------------------------------------------------
(* Properties. *)

\* When nothing is under way, the TU's register says what DUA's hardware says,
\* whichever of the two has started or died last, and in whatever order; only
\* a lost datagram or a lost interrupt is an excuse.
QuietAgrees ==
  /\ Idle /\ stage = "loop"
  /\ commands = <<>> /\ requests = 0 /\ ~interrupt
  /\ ~lostMsg /\ ~lostIrq
  => reg \cap Configured = SettingBits(hw)

\* Settings that last reach the TU in the end.
TUFollows ==
  \A s \in Settings :
    <>[](hw = s /\ ~lostMsg /\ ~lostIrq) => <>[](reg \cap Configured = SettingBits(s))

=============================================================================
