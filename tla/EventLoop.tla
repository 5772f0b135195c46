------------------------------ MODULE EventLoop -----------------------------
(***************************************************************************)
(* The event processor of an application and the commands of the test      *)
(* server that concern the application as a whole.  start() opens the      *)
(* devices one after the other and then enters the loop; a pass of the     *)
(* loop takes what select() found ready and runs the handlers of those     *)
(* devices in the order of registration, one event of each.                *)
(*                                                                         *)
(* A socket queues datagrams; an interrupt or timer device only says that  *)
(* something happened, however often.                                      *)
(***************************************************************************)
EXTENDS Naturals, Sequences

CONSTANTS
  Order,      \* the devices with a handler, in the order start() opens them
  Sockets,    \* those that are sockets
  Alpha,      \* the application is that of the alpha unit
  Capacity    \* bound on the datagrams in a socket

Sources == {Order[i] : i \in 1 .. Len(Order)}

ASSUME LoopAssumption ==
  /\ Order \in Seq(STRING)
  /\ \A i, j \in 1 .. Len(Order) : Order[i] = Order[j] => i = j
  /\ Alpha \in BOOLEAN
  /\ Capacity \in Nat

VARIABLES
  up,        \* the process exists
  opened,    \* devices opened and registered so far
  looping,   \* EventProcessor::start() has been called
  queue,     \* what waits in each device
  chosen,    \* devices select() found ready whose turn in this pass is to come
  counter,   \* _statusTimerCounter, as far as it matters: 0, 1, more
  acks,      \* InitCompleteAcks sent by this process
  shutdown,  \* handleShutdownCommand: not called, the option it sleeps over, or bit set
  overtaken  \* history: how often another device was served since one waits

vars == <<up, opened, looping, queue, chosen, counter, acks, shutdown, overtaken>>

Position(s) == CHOOSE i \in 1 .. Len(Order) : Order[i] = s

\* Nothing is served before what was registered before it twice, the rest once.
Patience == [t \in Sources |-> [s \in Sources |-> IF Position(s) < Position(t) THEN 2 ELSE 1]]
Load     == [s \in Sources |-> Len(queue[s])]
Service  == INSTANCE FairService WITH load <- Load

\* SWCMsgTypes.h; any other command, valid or not, leaves the loop as it is.
ShutdownOptions == {"RestartApp", "Reboot", "PowerOff"}
Kinds(s) == IF s = "testServer" THEN ShutdownOptions \cup {"other"} ELSE {"other"}

Empty == [s \in Sources |-> <<>>]

Init ==
  /\ up = FALSE /\ opened = 0 /\ looping = FALSE
  /\ queue = Empty /\ chosen = {} /\ overtaken = Service!Fresh
  /\ counter = 0 /\ acks = 0 /\ shutdown = "none"

-----------------------------------------------------------------------------
\* The devices

Limit(s) == IF s \in Sockets THEN Capacity ELSE 1

Arrive(s) ==
  /\ up /\ s \in {Order[i] : i \in 1 .. opened}
  /\ Len(queue[s]) < Limit(s)
  /\ \E m \in Kinds(s) : queue' = [queue EXCEPT ![s] = Append(@, m)]
  /\ UNCHANGED <<up, opened, looping, chosen, counter, acks, shutdown, overtaken>>

-----------------------------------------------------------------------------
\* The application starts

Open ==
  /\ up /\ opened < Len(Order)
  /\ opened' = opened + 1
  /\ UNCHANGED <<up, looping, queue, chosen, counter, acks, shutdown, overtaken>>

\* Mutant: the loop is entered once the first device is open.
EnterLoopAtOnce ==
  /\ up /\ opened > 0 /\ ~looping
  /\ looping' = TRUE
  /\ acks' = IF Alpha THEN acks + 1 ELSE acks
  /\ UNCHANGED <<up, opened, queue, chosen, counter, shutdown, overtaken>>

EnterLoop ==
  /\ up /\ opened = Len(Order) /\ ~looping
  /\ looping' = TRUE
  /\ acks' = IF Alpha THEN acks + 1 ELSE acks
  /\ UNCHANGED <<up, opened, queue, chosen, counter, shutdown, overtaken>>

-----------------------------------------------------------------------------
\* The loop

Ready == {s \in Sources : queue[s] # <<>>}

Awake == up /\ looping /\ shutdown \notin ShutdownOptions

Select ==
  /\ Awake /\ chosen = {} /\ Ready # {}
  /\ chosen' = Ready
  /\ UNCHANGED <<up, opened, looping, queue, counter, acks, shutdown, overtaken>>

\* Mutant: interrupts and timers come after sockets.
PriorityOfKind(s) == IF s \in Sockets THEN 1 ELSE 2
\* All handlers are registered with the same priority.
Priority(s) == 1

Turn(s) ==
  /\ s \in chosen
  /\ \A t \in chosen : \/ Priority(s) < Priority(t)
                       \/ Priority(s) = Priority(t) /\ Position(s) <= Position(t)

Remaining(s) == {t \in chosen \ {s} : Priority(t) = Priority(s)}

TimerTick ==
  /\ counter' = IF counter < 2 THEN counter + 1 ELSE counter
  /\ acks' = IF counter = 0 THEN acks + 1 ELSE acks

Handle(s) ==
  /\ IF s = "timer" THEN TimerTick ELSE UNCHANGED <<counter, acks>>
  /\ shutdown' = IF Head(queue[s]) \in ShutdownOptions THEN Head(queue[s]) ELSE shutdown

Dispatch(s) ==
  /\ Awake /\ Turn(s)
  /\ Handle(s)
  /\ chosen' = Remaining(s)
  /\ queue' = [queue EXCEPT ![s] = Tail(@)]
  /\ overtaken' = Service!Overtake(s)
  /\ UNCHANGED <<up, opened, looping>>

-----------------------------------------------------------------------------
\* The application ends

Vanish ==
  /\ up' = FALSE /\ opened' = 0 /\ looping' = FALSE
  /\ queue' = Empty /\ chosen' = {} /\ overtaken' = Service!Fresh
  /\ counter' = 0 /\ acks' = 0 /\ shutdown' = "none"

\* handleShutdownCommand after its sleep.
\* Mutant: the loop goes on without the bit that cuts the power.
PowerOffForgotten ==
  /\ up /\ shutdown = "PowerOff"
  /\ shutdown' = "none"
  /\ UNCHANGED <<up, opened, looping, queue, chosen, counter, acks, overtaken>>

\* Mutant: the handler waits for the power to go.
PowerOffAwaited ==
  /\ up /\ shutdown = "PowerOff"
  /\ UNCHANGED vars

PowerOff ==
  /\ up /\ shutdown = "PowerOff"
  /\ shutdown' = "bitSet"
  /\ UNCHANGED <<up, opened, looping, queue, chosen, counter, acks, overtaken>>

Reboot ==
  /\ up /\ shutdown \in {"RestartApp", "Reboot"}
  /\ Vanish

\* The process crashes, is killed, or returns from start() for want of a device.
End == up /\ Vanish

\* The launcher starts the application.
Restart ==
  /\ ~up
  /\ up' = TRUE
  /\ UNCHANGED <<opened, looping, queue, chosen, counter, acks, shutdown, overtaken>>

-----------------------------------------------------------------------------
Program == Open \/ EnterLoop \/ Select \/ PowerOff \/ Reboot \/ \E s \in Sources : Dispatch(s)

Next == Program \/ End \/ Restart \/ \E s \in Sources : Arrive(s)

Spec == Init /\ [][Next]_vars

-----------------------------------------------------------------------------
\* Properties

\* Every variable holds what the code can put there.
TypeOK ==
  /\ up \in BOOLEAN /\ looping \in BOOLEAN /\ (looping => up)
  /\ opened \in 0 .. Len(Order)
  /\ queue \in [Sources -> Seq({"other"} \cup ShutdownOptions)]
  /\ \A s \in Sources : Len(queue[s]) <= Limit(s)
  /\ chosen \subseteq Ready
  /\ counter \in 0 .. 2 /\ acks \in 0 .. 2
  /\ shutdown \in ShutdownOptions \cup {"none", "bitSet"}
  /\ overtaken \in [Sources -> [Sources -> Nat]]

\* An application says that it is initialised only when it is, with every device
\* open, and not again: with its first tick, and the alpha unit also as it enters
\* the loop (DUACmdMgr::start and CmdMgrBase::processStatusTimer).  This is what
\* the code does.  The design has every unit send it once, before the loop.
AnnouncesItself ==
  /\ acks = (IF Alpha /\ looping THEN 1 ELSE 0) + (IF counter > 0 THEN 1 ELSE 0)
  /\ acks > 0 => looping
  /\ looping => opened = Len(Order)

\* A device that is ready is not starved by the others: whatever they do, one
\* that is registered before it is served at most twice, one that is registered
\* after it at most once, before its own turn comes (EventProcessor::waitOnSelect).
ServesFairly == Service!ServiceSafety

\* And its turn does come, unless the process ends.
ServesAll == Service!ServiceLiveness

Waiting(options) == \E i \in DOMAIN queue["testServer"] : queue["testServer"][i] \in options

\* A shutdown command that has reached the socket is obeyed, however busy the
\* application is: the bit that cuts the power is set, or the board reboots.
ObeysShutdown ==
  /\ Waiting({"RestartApp", "Reboot"}) ~> ~up
  /\ Waiting({"PowerOff"}) ~> (~up \/ shutdown = "bitSet")

=============================================================================
