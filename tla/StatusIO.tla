------------------------------ MODULE StatusIO ------------------------------
(***************************************************************************)
(* The status aggregation of DUA together with the client of the I/O       *)
(* module (IOMHWMgr), whose calls block the handler that makes them.       *)
(*                                                                         *)
(* SWCStatus lets a reading of inputs that have just changed be anything;  *)
(* here the reading is what connecting, reading and retrying return, while *)
(* the module comes and goes.  IOSpec implements Spec of SWCStatus.        *)
(***************************************************************************)
EXTENDS SWCStatus

CONSTANTS
  ConnectRetries, \* IOM_CONNECT_RETRY_COUNT; 5 in the code
  ReadRetries     \* IOM_READ_RETRY_COUNT; 2 in the code

ASSUME IOAssumption ==
  /\ ConnectRetries \in Nat \ {0}
  /\ ReadRetries \in Nat /\ ReadRetries >= 2
  /\ Unreachable \in Signals

VARIABLES
  ctx,  \* _modbusCtx: "none", or a connection that is "live" or "stale"
  call  \* the call of readStatus under way, if any

ioVars == <<vars, ctx, call>>

\* All inputs off stands for a module that does not answer.
Reachable == hw.signals # Unreachable

Callers == {"timer", "interrupt"}
Idle    == [phase |-> "idle"]
Calls   == [phase : {"connect", "read", "recover"}, caller : Callers,
            config : Configs, reads : 1 .. ReadRetries, tries : 1 .. ConnectRetries]
Resting == call.phase = "idle"

-----------------------------------------------------------------------------
(* The handlers that read the I/O module stop in readStatus and go on when  *)
(* it returns.  The event loop runs no other handler meanwhile.             *)

\* ensureConnected returns at once when there is a connection.
Attempt(c) ==
  call' = [c EXCEPT !.phase = IF ctx' = "none" THEN "connect" ELSE "read", !.tries = 1]

\* readSWCStatus(DATA_TYPE_CONFIG_STATUS) up to getIOModuleStatus.
Begin(caller) ==
  /\ Resting
  /\ ctx' = ctx
  /\ Attempt([phase |-> "read", caller |-> caller, config |-> hw.config,
              reads |-> 1, tries |-> 1])
  /\ UNCHANGED vars

BeginTimer     == turn = 0 /\ Begin("timer")
BeginInterrupt == Begin("interrupt")

\* The rest of the handler: the configuration is the one read before the call,
\* the board status is read after it.
Finish(signals) ==
  /\ ReadConfig([config |-> call.config, signals |-> signals])
  /\ call' = Idle
  /\ \/ call.caller = "timer" /\ Tick
     \/ call.caller = "interrupt" /\ UNCHANGED <<hw, du, turn, missed, age, silence>>

\* Mutant: the attempts to connect are not counted.
ConnectFailsOn ==
  /\ call.phase = "connect" /\ ~Reachable
  /\ UNCHANGED <<vars, ctx, call>>

\* createContext, modbus_connect, close and the delay before the next attempt.
\* With an invalid configuration, or no context to be had, ensureConnected gives
\* up at its first attempt: a configuration is valid here, and for the caller
\* the call fails as it does when the module is away.
ConnectFails ==
  /\ call.phase = "connect" /\ ~Reachable
  /\ UNCHANGED ctx
  /\ IF call.tries < ConnectRetries
     THEN call' = [call EXCEPT !.tries = @ + 1] /\ UNCHANGED vars
     ELSE Finish(Unreachable)

Connects ==
  /\ call.phase = "connect" /\ Reachable
  /\ ctx' = "live"
  /\ call' = [call EXCEPT !.phase = "read"]
  /\ UNCHANGED vars

ReadSucceeds ==
  /\ call.phase = "read" /\ ctx = "live"
  /\ Finish(hw.signals)
  /\ UNCHANGED ctx

\* Mutant: a read is not tried again.
ReadFailsOnce ==
  /\ call.phase = "read" /\ ctx = "stale"
  /\ ctx' = "none"
  /\ Finish(Unreachable)

\* modbus_read_input_bits returns -1: the connection is given up, and the next
\* attempt opens another.
ReadFails ==
  /\ call.phase = "read" /\ ctx = "stale"
  /\ ctx' = "none"
  /\ IF call.reads < ReadRetries
     THEN Attempt([call EXCEPT !.reads = @ + 1]) /\ UNCHANGED vars
     ELSE Finish(Unreachable)

\* The request cannot be sent.  With MODBUS_ERROR_RECOVERY_LINK the library then
\* closes and connects again, as often as it takes.
SendFails ==
  /\ call.phase = "read" /\ ctx = "stale"
  /\ call' = [call EXCEPT !.phase = "recover"]
  /\ UNCHANGED <<vars, ctx>>

Recovers ==
  /\ call.phase = "recover" /\ Reachable
  /\ ctx' = "live"
  /\ call' = [call EXCEPT !.phase = "read"]
  /\ UNCHANGED vars

\* The ticks that do not ask the I/O module, and the reports of the peers.
OtherTimer ==
  /\ Resting
  /\ \/ turn = 1 /\ ReadRolledUp
     \/ turn = 2 /\ ReadDU
  /\ Tick
  /\ UNCHANGED <<ctx, call>>

IOReport(p) ==
  /\ Resting /\ SendReport(p)
  /\ UNCHANGED <<ctx, call>>

-----------------------------------------------------------------------------
(* The environment. *)

\* The inputs change, during a call as well; what DUA itself knows of the DCUs
\* changes between calls.  A connection does not survive the module.
IOChange(h) ==
  /\ Change(h)
  /\ ~Resting => h.failed = hw.failed
  /\ ctx' = IF ctx = "live" /\ h.signals = Unreachable THEN "stale" ELSE ctx
  /\ UNCHANGED call

\* The module or the network drops an idle connection.  In the middle of a call a
\* connection is lost together with the module only (IOChange).
Drop ==
  /\ Resting /\ ctx = "live"
  /\ ctx' = "stale"
  /\ UNCHANGED <<vars, call>>

-----------------------------------------------------------------------------

\* DUHWMgr::initialize connects before the first readSWCStatus.
IOInit ==
  /\ Init
  /\ ctx = IF Reachable THEN "live" ELSE "none"
  /\ call = Idle

CallStep ==
  \/ ConnectFails
  \/ Connects
  \/ ReadSucceeds
  \/ ReadFails
  \/ SendFails
  \/ Recovers

IONext ==
  \/ BeginTimer
  \/ BeginInterrupt
  \/ CallStep
  \/ OtherTimer
  \/ \E p \in Peers : IOReport(p)
  \/ \E h \in HWStates : IOChange(h)
  \/ Drop

\* A call under way goes on.
IOSpec == IOInit /\ [][IONext]_ioVars /\ WF_ioVars(CallStep)

-----------------------------------------------------------------------------
(* Properties. *)

\* The handlers, with all the retries, the delays and the changes during them,
\* do what SWCStatus allows: in particular, no reading is lost as long as the
\* module has been reachable since the last tick.
ImplementsStatus == Spec

\* Every call ends, unless the library goes on recovering a connection to a
\* module that is away, or away again each time: that, and nothing else, stops
\* all handlers of DUA.
CallsEnd ==
  \/ []<>Resting
  \/ []<>(call.phase = "recover") /\ []<>~Reachable

-----------------------------------------------------------------------------
(* What ImplementsStatus needs. *)

\* What the state of a call can be, and what the connection says of the module.
IOInv ==
  /\ ctx \in {"none", "live", "stale"}
  /\ call \in {Idle} \cup Calls
  /\ ctx = "live" => Reachable
  /\ call.phase = "connect" => ctx = "none"
  /\ call.phase = "read" => ctx # "none"
  /\ call.phase = "recover" => ctx = "stale"
  /\ ~Resting =>
       /\ call.caller = "timer" => turn = 0
       /\ age # 0 => call.config = hw.config
       /\ age # 0 /\ Reachable /\ ctx = "stale" => call.reads = 1

=============================================================================
