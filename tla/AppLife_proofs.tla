---------------------------- MODULE AppLife_proofs ---------------------------
(***************************************************************************)
(* For any devices, any capacity of their sockets and any number of        *)
(* crashes, restarts and interventions.                                    *)
(*                                                                         *)
(* EventLoop is typed, announces itself correctly and implements the       *)
(* safety part of FairService.  The refinement rests on Overtaking: how    *)
(* often s can have been served since t waits, told by which of the two    *)
(* still has its turn in the pass.                                         *)
(*                                                                         *)
(* The application of AppLife is, on its board, that of EventLoop, and the *)
(* firmware is told that it is ready only with the board in the configured *)
(* mode, as long as no two processes have written its registers at a time. *)
(***************************************************************************)
EXTENDS AppLife, TLAPS

\* While t waits, whether select() saw it or not.
Bound(t, s) ==
  IF t \in chosen
    THEN IF Position(s) < Position(t) /\ s \notin chosen THEN 2 ELSE 1
    ELSE IF s \in chosen THEN 0 ELSE 1

Overtaking ==
  \A t, s \in Sources :
    /\ t \in Ready /\ s # t => overtaken[t][s] <= Bound(t, s)
    /\ t \notin Ready => overtaken[t][s] = 0

IInv == TypeOK /\ AnnouncesItself /\ Overtaking

-----------------------------------------------------------------------------
\* Devices are told apart by their position.
LEMMA Positions ==
  /\ \A s \in Sources : Position(s) \in Nat
  /\ \A s, t \in Sources : Position(s) = Position(t) => s = t
<1>1. ASSUME NEW s \in Sources PROVE Position(s) \in 1 .. Len(Order) /\ Order[Position(s)] = s
  <2>1. \E i \in 1 .. Len(Order) : Order[i] = s
    BY DEF Sources
  <2> QED
    BY <2>1 DEF Position
<1>2. Len(Order) \in Nat
  BY LoopAssumption
<1> QED
  BY <1>1, <1>2

\* No history means no history of anybody.
LEMMA FreshHistory ==
  /\ Service!Fresh \in [Sources -> [Sources -> Nat]]
  /\ \A t, s \in Sources : Service!Fresh[t][s] = 0
BY DEF Service!Fresh, Service!Unserved

\* What Overtake does to one entry.
LEMMA OvertakeEntries ==
  ASSUME overtaken \in [Sources -> [Sources -> Nat]], queue \in [Sources -> Seq({"other"} \cup ShutdownOptions)],
         NEW s \in Sources
  PROVE  /\ Service!Overtake(s) \in [Sources -> [Sources -> Nat]]
         /\ \A t, r \in Sources :
              Service!Overtake(s)[t][r] =
                IF t # s /\ queue[t] # <<>>
                  THEN IF r = s THEN overtaken[t][r] + 1 ELSE overtaken[t][r]
                  ELSE 0
<1>1. ASSUME NEW t \in Sources PROVE Load[t] > 0 <=> queue[t] # <<>>
  BY DEF Load
<1>2. \A t \in Sources : overtaken[t] \in [Sources -> Nat]
  OBVIOUS
<1>3. Service!Unserved \in [Sources -> Nat] /\ \A r \in Sources : Service!Unserved[r] = 0
  BY DEF Service!Unserved
<1> DEFINE Row(t) == IF t # s /\ Load[t] > 0
                     THEN [overtaken[t] EXCEPT ![s] = @ + 1]
                     ELSE Service!Unserved
<1>4. ASSUME NEW t \in Sources
      PROVE  /\ Row(t) \in [Sources -> Nat]
             /\ \A r \in Sources :
                  Row(t)[r] = IF t # s /\ queue[t] # <<>>
                                THEN IF r = s THEN overtaken[t][r] + 1 ELSE overtaken[t][r]
                                ELSE 0
  <2>1. CASE t # s /\ Load[t] > 0
    <3>1. Row(t) = [overtaken[t] EXCEPT ![s] = overtaken[t][s] + 1]
      BY <2>1
    <3>2. overtaken[t] \in [Sources -> Nat] /\ overtaken[t][s] + 1 \in Nat
      BY <1>2
    <3>3. /\ Row(t) \in [Sources -> Nat]
          /\ \A r \in Sources :
               Row(t)[r] = IF r = s THEN overtaken[t][r] + 1 ELSE overtaken[t][r]
      <4> HIDE DEF Row
      <4> QED BY <3>1, <3>2
    <3> QED
      <4> HIDE DEF Row
      <4> QED BY <2>1, <1>1, <3>3
  <2>2. CASE ~(t # s /\ Load[t] > 0)
    <3>1. Row(t) = Service!Unserved
      BY <2>2
    <3> HIDE DEF Row
    <3> QED
      BY <2>2, <3>1, <1>1, <1>3
  <2> QED
    BY <2>1, <2>2
<1>5. Service!Overtake(s) = [t \in Sources |-> Row(t)]
  BY DEF Service!Overtake
<1> HIDE DEF Row
<1> QED
  BY <1>4, <1>5

-----------------------------------------------------------------------------
\* The state the process starts from, and the one it leaves when it ends.
LEMMA FreshState ==
  /\ Empty \in [Sources -> Seq({"other"} \cup ShutdownOptions)]
  /\ \A s \in Sources : Empty[s] = <<>> /\ Len(Empty[s]) = 0 /\ Limit(s) \in Nat
BY LoopAssumption DEF Empty, Limit

LEMMA InitInv == Init => IInv
<1> SUFFICES ASSUME Init PROVE IInv
  OBVIOUS
<1>1. Len(Order) \in Nat
  BY LoopAssumption
<1>2. TypeOK
  <2>1. \A s \in Sources : Len(queue[s]) <= Limit(s)
    BY FreshState DEF Init
  <2>2. 0 \in 0 .. Len(Order)
    BY <1>1
  <2>3. /\ queue \in [Sources -> Seq({"other"} \cup ShutdownOptions)]
        /\ overtaken \in [Sources -> [Sources -> Nat]]
    BY FreshState, FreshHistory DEF Init
  <2>4. counter \in 0 .. 2 /\ acks \in 0 .. 2 /\ opened = 0
    BY DEF Init
  <2>6. up \in BOOLEAN /\ looping \in BOOLEAN /\ (looping => up)
    BY DEF Init
  <2>7. shutdown \in ShutdownOptions \cup {"none", "bitSet"}
    BY DEF Init
  <2>5. chosen \subseteq Ready
    BY DEF Init
  <2> QED
    BY <2>1, <2>2, <2>3, <2>4, <2>5, <2>6, <2>7 DEF Init, TypeOK
<1>3. AnnouncesItself
  BY DEF Init, AnnouncesItself
<1>4. Overtaking
  BY FreshState, FreshHistory DEF Init, Overtaking, Ready
<1> QED
  BY <1>2, <1>3, <1>4 DEF IInv

LEMMA VanishInv ==
  ASSUME Vanish
  PROVE  IInv'
<1>1. Len(Order) \in Nat
  BY LoopAssumption
<1>2. TypeOK'
  <2>1. \A s \in Sources : Len(queue'[s]) <= Limit(s)
    BY FreshState DEF Vanish
  <2>2. 0 \in 0 .. Len(Order)
    BY <1>1
  <2>3. /\ queue' \in [Sources -> Seq({"other"} \cup ShutdownOptions)]
        /\ overtaken' \in [Sources -> [Sources -> Nat]]
    BY FreshState, FreshHistory DEF Vanish
  <2>4. counter' \in 0 .. 2 /\ acks' \in 0 .. 2 /\ opened' = 0
    BY DEF Vanish
  <2>6. up' \in BOOLEAN /\ looping' \in BOOLEAN /\ (looping' => up')
    BY DEF Vanish
  <2>7. shutdown' \in ShutdownOptions \cup {"none", "bitSet"}
    BY DEF Vanish
  <2>5. chosen' \subseteq Ready'
    BY DEF Vanish
  <2> QED
    BY <2>1, <2>2, <2>3, <2>4, <2>5, <2>6, <2>7 DEF Vanish, TypeOK
<1>3. AnnouncesItself'
  BY DEF Vanish, AnnouncesItself
<1>4. Overtaking'
  BY FreshState, FreshHistory DEF Vanish, Overtaking, Ready
<1> QED
  BY <1>2, <1>3, <1>4 DEF IInv

\* Serving s: its own history is forgotten, whoever waits has seen it go first.
LEMMA DispatchInv ==
  ASSUME IInv, NEW s \in Sources, Dispatch(s)
  PROVE  IInv'
<1> USE DEF IInv
<1>1. s \in chosen /\ s \in Ready /\ queue[s] # <<>> /\ chosen' = chosen \ {s}
  BY DEF Dispatch, Turn, Remaining, Priority, TypeOK, Ready
<1>2. /\ Head(queue[s]) \in {"other"} \cup ShutdownOptions
      /\ Tail(queue[s]) \in Seq({"other"} \cup ShutdownOptions)
      /\ Len(Tail(queue[s])) = Len(queue[s]) - 1
      /\ Len(queue[s]) \in Nat
  BY <1>1 DEF TypeOK
<1>3. /\ queue' \in [Sources -> Seq({"other"} \cup ShutdownOptions)]
      /\ queue'[s] = Tail(queue[s])
      /\ \A t \in Sources \ {s} : queue'[t] = queue[t]
  BY <1>2 DEF Dispatch, TypeOK
<1>4. chosen' \subseteq Ready'
  BY <1>1, <1>3 DEF TypeOK, Ready
<1>5. /\ overtaken' \in [Sources -> [Sources -> Nat]]
      /\ \A t, r \in Sources :
           overtaken'[t][r] =
             IF t # s /\ queue[t] # <<>>
               THEN IF r = s THEN overtaken[t][r] + 1 ELSE overtaken[t][r]
               ELSE 0
  BY OvertakeEntries DEF Dispatch, TypeOK
<1>6. /\ counter' \in 0 .. 2 /\ acks' \in 0 .. 2 /\ AnnouncesItself'
  <2>1. looping /\ looping' = looping /\ opened' = opened
    BY DEF Dispatch, Awake
  <2>2. /\ counter \in 0 .. 2
        /\ acks = (IF Alpha THEN 1 ELSE 0) + (IF counter > 0 THEN 1 ELSE 0)
        /\ opened = Len(Order)
    BY <2>1 DEF TypeOK, AnnouncesItself
  <2>3. CASE counter' = counter /\ acks' = acks
    BY <2>1, <2>2, <2>3 DEF AnnouncesItself
  <2>4. CASE TimerTick
    BY <2>1, <2>2, <2>4 DEF TimerTick, AnnouncesItself
  <2> QED
    BY <2>3, <2>4 DEF Dispatch, Handle
<1>7. shutdown' \in ShutdownOptions \cup {"none", "bitSet"}
  BY <1>2 DEF Dispatch, Handle, TypeOK
<1>8. TypeOK'
  <2>1. \A t \in Sources : Limit(t) \in Nat /\ Len(queue'[t]) <= Limit(t)
    <3> SUFFICES ASSUME NEW t \in Sources
                 PROVE  Limit(t) \in Nat /\ Len(queue'[t]) <= Limit(t)
      OBVIOUS
    <3>1. Limit(t) \in Nat /\ Len(queue[t]) <= Limit(t)
      BY FreshState DEF TypeOK
    <3>2. CASE t = s
      BY <1>2, <1>3, <3>1, <3>2
    <3>3. CASE t # s
      BY <1>3, <3>1, <3>3
    <3> QED
      BY <3>2, <3>3
  <2>2. /\ up' \in BOOLEAN /\ looping' \in BOOLEAN /\ (looping' => up')
        /\ opened' \in 0 .. Len(Order)
    BY DEF TypeOK, Dispatch
  <2> QED
    BY <1>3, <1>4, <1>5, <1>6, <1>7, <2>1, <2>2 DEF TypeOK, Limit
<1>9. Overtaking'
  <2> SUFFICES ASSUME NEW t \in Sources, NEW r \in Sources
               PROVE  /\ t \in Ready' /\ r # t => overtaken'[t][r] <= Bound(t, r)'
                      /\ t \notin Ready' => overtaken'[t][r] = 0
    BY DEF Overtaking
  <2>1. Position(t) \in Nat /\ Position(s) \in Nat /\ Position(r) \in Nat
    BY Positions
  <2>2. overtaken[t][r] \in Nat
    BY DEF TypeOK
  <2>3. CASE t = s \/ t \notin Ready
    BY <1>1, <1>5, <2>3, <2>1 DEF Ready, Bound
  <2>4. CASE t # s /\ t \in Ready
    <3>1. t \in Ready' /\ queue[t] # <<>>
      BY <1>3, <2>4 DEF Ready
    <3>2. CASE r = s
      <4>1. overtaken'[t][r] = overtaken[t][r] + 1 /\ overtaken[t][r] <= Bound(t, r)
        BY <1>5, <2>4, <3>1, <3>2 DEF Overtaking
      <4>2. t \in chosen => Position(s) < Position(t)
        BY <2>1, <2>4, Positions DEF Dispatch, Turn, Priority
      <4> QED
        BY <1>1, <2>1, <2>2, <2>4, <3>1, <3>2, <4>1, <4>2 DEF Bound
    <3>3. CASE r # s
      BY <1>1, <1>5, <2>1, <2>2, <2>4, <3>1, <3>3 DEF Overtaking, Bound
    <3> QED
      BY <3>2, <3>3
  <2> QED
    BY <2>3, <2>4
<1> QED
  BY <1>6, <1>8, <1>9

-----------------------------------------------------------------------------
LEMMA NextInv == IInv /\ [Next]_vars => IInv'
<1> SUFFICES ASSUME IInv, [Next]_vars PROVE IInv'
  OBVIOUS
<1> USE DEF IInv
<1>0. /\ Len(Order) \in Nat /\ opened \in 0 .. Len(Order)
      /\ \A s \in Sources : Limit(s) \in Nat
  BY LoopAssumption, FreshState DEF TypeOK
<1>1. CASE Open
  <2>1. opened' \in 0 .. Len(Order) /\ ~looping
    BY <1>0, <1>1 DEF Open, AnnouncesItself
  <2> QED
    BY <1>1, <2>1 DEF Open, TypeOK, Ready, AnnouncesItself, Overtaking, Bound
<1>2. CASE EnterLoop
  <2>1. acks' \in 0 .. 2 /\ AnnouncesItself'
    BY <1>2, LoopAssumption DEF EnterLoop, AnnouncesItself, TypeOK
  <2> QED
    BY <1>2, <2>1 DEF EnterLoop, TypeOK, Ready, Overtaking, Bound
<1>3. CASE Select
  <2>1. chosen = {} /\ chosen' = Ready /\ Ready' = Ready
    BY <1>3 DEF Select, Ready
  <2>2. TypeOK' /\ AnnouncesItself'
    BY <1>3, <2>1 DEF Select, TypeOK, AnnouncesItself
  <2>3. Overtaking'
    <3> SUFFICES ASSUME NEW t \in Sources, NEW s \in Sources
                 PROVE  /\ t \in Ready' /\ s # t => overtaken'[t][s] <= Bound(t, s)'
                        /\ t \notin Ready' => overtaken'[t][s] = 0
      BY DEF Overtaking
    <3> QED
      BY <1>3, <2>1, Positions DEF Select, Overtaking, Bound, TypeOK
  <2> QED
    BY <2>2, <2>3
<1>4. CASE PowerOff
  BY <1>4 DEF PowerOff, TypeOK, Ready, AnnouncesItself, Overtaking, Bound
<1>5. CASE Reboot
  BY <1>5, VanishInv DEF Reboot
<1>6. CASE \E s \in Sources : Dispatch(s)
  BY <1>6, DispatchInv
<1>7. CASE End
  BY <1>7, VanishInv DEF End
<1>8. CASE Restart
  BY <1>8 DEF Restart, TypeOK, Ready, AnnouncesItself, Overtaking, Bound
<1>9. ASSUME NEW s \in Sources, Arrive(s) PROVE IInv'
  <2> PICK m \in Kinds(s) : queue' = [queue EXCEPT ![s] = Append(@, m)]
    BY <1>9 DEF Arrive
  <2>1. m \in {"other"} \cup ShutdownOptions
    BY DEF Kinds
  <2> DEFINE Messages == {"other"} \cup ShutdownOptions
  <2> HIDE DEF Messages
  <2>10. queue[s] \in Seq(Messages) /\ m \in Messages
    BY <2>1 DEF TypeOK, Messages
  <2>2. /\ Append(queue[s], m) \in Seq(Messages)
        /\ Len(Append(queue[s], m)) = Len(queue[s]) + 1
        /\ Len(queue[s]) \in Nat
    BY <2>10
  <2>11. Append(queue[s], m) # <<>>
    BY <2>2
  <2>3. /\ queue' \in [Sources -> Seq({"other"} \cup ShutdownOptions)]
        /\ queue'[s] = Append(queue[s], m)
        /\ \A t \in Sources \ {s} : queue'[t] = queue[t]
    BY <2>2 DEF TypeOK, Messages
  <2>4. Ready' = Ready \cup {s}
    BY <2>3, <2>11 DEF Ready
  <2>5. \A t \in Sources : Len(queue'[t]) <= Limit(t)
    BY <1>0, <1>9, <2>2, <2>3 DEF Arrive, TypeOK
  <2>6. chosen' = chosen /\ overtaken' = overtaken
    BY <1>9 DEF Arrive
  <2>7. TypeOK'
    BY <1>9, <2>3, <2>4, <2>5, <2>6 DEF Arrive, TypeOK, Limit
  <2>8. AnnouncesItself'
    BY <1>9 DEF Arrive, AnnouncesItself
  <2>9. Overtaking'
    BY <2>4, <2>6 DEF Overtaking, Bound, TypeOK
  <2> QED
    BY <2>7, <2>8, <2>9
<1>10. CASE UNCHANGED vars
  BY <1>10 DEF vars, TypeOK, Ready, AnnouncesItself, Overtaking, Bound
<1> QED
  BY <1>1, <1>2, <1>3, <1>4, <1>5, <1>6, <1>7, <1>8, <1>9, <1>10 DEF Next, Program

\* The inductive invariant, of which the named properties are parts.
THEOREM Inductive == Spec => []IInv
BY InitInv, NextInv, PTL DEF Spec

\* Every variable keeps its type.
THEOREM TypeCorrect == Spec => []TypeOK
<1>1. IInv => TypeOK
  BY DEF IInv
<1> QED
  BY <1>1, Inductive, PTL

\* An application announces itself as often as it should and never too early.
THEOREM Announced == Spec => []AnnouncesItself
<1>1. IInv => AnnouncesItself
  BY DEF IInv
<1> QED
  BY <1>1, Inductive, PTL

-----------------------------------------------------------------------------
\* Every step of the loop is one of the service it promises, or none.
LEMMA ServiceInitially == Init => Service!ServiceInit
BY FreshState DEF Init, Service!ServiceInit, Service!Unserved, Load

LEMMA DispatchServes ==
  ASSUME IInv, NEW s \in Sources, Dispatch(s)
  PROVE  Service!Serve(s)
<1> USE DEF IInv
<1>1. s \in chosen /\ s \in Ready /\ queue[s] # <<>>
  BY DEF Dispatch, Turn, TypeOK, Ready
<1>2. /\ Load[s] = Len(queue[s]) /\ Load[s] \in Nat /\ Load[s] > 0
      /\ Len(Tail(queue[s])) = Load[s] - 1
  BY <1>1 DEF Load, TypeOK
<1>3. ASSUME NEW t \in Sources \ {s}, Load[t] > 0
      PROVE  overtaken[t][s] < Patience[t][s]
  <2>1. t \in Ready
    BY <1>3 DEF Load, Ready, TypeOK
  <2>2. overtaken[t][s] <= Bound(t, s) /\ overtaken[t][s] \in Nat
    BY <2>1 DEF Overtaking, TypeOK
  <2>3. t \in chosen => Position(s) < Position(t)
    BY <2>1, Positions DEF Dispatch, Turn, Priority
  <2>4. Patience[t][s] = IF Position(s) < Position(t) THEN 2 ELSE 1
    BY DEF Patience
  <2> QED
    BY <1>1, <2>2, <2>3, <2>4, Positions DEF Bound
<1>4. Load' = [Load EXCEPT ![s] = @ - 1]
  <2>1. /\ queue'[s] = Tail(queue[s])
        /\ \A t \in Sources \ {s} : queue'[t] = queue[t]
    BY DEF Dispatch, TypeOK
  <2> QED
    BY <1>2, <2>1 DEF Load
<1> QED
  BY <1>2, <1>3, <1>4 DEF Dispatch, Service!Serve

LEMMA ArriveAsks ==
  ASSUME IInv, NEW s \in Sources, Arrive(s)
  PROVE  Service!Ask(s)
<1> PICK m \in Kinds(s) : queue' = [queue EXCEPT ![s] = Append(@, m)]
  BY DEF Arrive
<1> DEFINE Messages == {"other"} \cup ShutdownOptions
<1> HIDE DEF Messages
<1>1. queue \in [Sources -> Seq(Messages)] /\ m \in Messages
  BY DEF IInv, TypeOK, Kinds, Messages
<1>2. Len(Append(queue[s], m)) = Len(queue[s]) + 1
  BY <1>1
<1>3. Load' = [Load EXCEPT ![s] = @ + 1]
  BY <1>1, <1>2 DEF Load
<1> QED
  BY <1>3 DEF Arrive, Service!Ask

LEMMA VanishForgets == Vanish => Service!Forget
BY FreshState DEF Vanish, Service!Forget, Service!Unserved, Load

LEMMA StepServes == IInv /\ [Next]_vars => [Service!ServiceNext]_Service!serviceVars
<1> SUFFICES ASSUME IInv, [Next]_vars PROVE [Service!ServiceNext]_Service!serviceVars
  OBVIOUS
<1>1. CASE UNCHANGED <<queue, overtaken>>
  BY <1>1 DEF Service!serviceVars, Load
<1>2. CASE \E s \in Sources : Dispatch(s)
  BY <1>2, DispatchServes DEF Service!ServiceNext
<1>3. CASE \E s \in Sources : Arrive(s)
  BY <1>3, ArriveAsks DEF Service!ServiceNext
<1>4. CASE Vanish
  BY <1>4, VanishForgets DEF Service!ServiceNext
<1> QED
  BY <1>1, <1>2, <1>3, <1>4
     DEF Next, Program, Open, EnterLoop, Select, PowerOff, Reboot, End, Restart, vars

\* No device is starved: the loop implements the service, with its patience.
THEOREM Fair == Spec => ServesFairly
BY Inductive, ServiceInitially, StepServes, PTL DEF Spec, ServesFairly, Service!ServiceSafety

-----------------------------------------------------------------------------
(* AppLife. *)

\* Every step is a step of EventLoop or leaves its variables alone.
LEMMA LifeStepLoops == [LifeNext]_lifeVars => [Next]_vars
<1> SUFFICES ASSUME [LifeNext]_lifeVars PROVE [Next]_vars
  OBVIOUS
<1>1. CASE ReportOS \/ ResetBoard \/ HoldTestMode \/ Boresight \/ Release \/ ReportApp
  BY <1>1 DEF ReportOS, ResetBoard, HoldTestMode, Boresight, Release, ReportApp, InitStep
<1>2. CASE Run
  BY <1>2 DEF Run, Next, Program
<1>3. CASE RebootBoard
  BY <1>3 DEF RebootBoard, Next, Program
<1>4. CASE Dies \/ TwinReboots
  BY <1>4 DEF Dies, TwinReboots, Gone, Next, End
<1>5. CASE Look \/ Intervene
  BY <1>5 DEF Look, Intervene, Launch
<1>6. ASSUME NEW s \in Starters, KillAll(s) \/ Execute(s) PROVE [Next]_vars
  BY <1>6 DEF KillAll, Execute, Gone, Next, End
<1>7. ASSUME NEW s \in Sources, Arrive(s) PROVE [Next]_vars
  BY <1>7 DEF Next
<1>8. CASE UNCHANGED lifeVars
  BY <1>8 DEF lifeVars
<1> QED
  BY <1>1, <1>2, <1>3, <1>4, <1>5, <1>6, <1>7, <1>8 DEF LifeNext, LifeProgram

\* The application, started, killed and restarted by the scripts of its board,
\* is the one of EventLoop: every life of it starts with no device open.
THEOREM Implements == LifeSpec => ImplementsLoop
<1>1. LifeInit => Init
  BY DEF LifeInit
<1> QED
  BY <1>1, LifeStepLoops, PTL DEF LifeSpec, ImplementsLoop, Spec

\* On its board too, an application announces itself when it is initialised and
\* starves no device.
THEOREM LifeServes == LifeSpec => []AnnouncesItself /\ ServesFairly
BY Implements, Announced, Fair, PTL DEF ImplementsLoop

-----------------------------------------------------------------------------
\* The initialisation of the board.

\* What an action of the application leaves as it was.
LEMMA RunKeeps ==
  /\ Run => UNCHANGED <<up, life>>
  /\ \A s \in Sources : Arrive(s) => up' = up
BY DEF Run, Open, EnterLoop, Select, Dispatch, PowerOff, Arrive

LEMMA HardwareInit == LifeInit => HardwareInv
BY LifeAssumption DEF LifeInit, Init, HardwareInv, StageInv, BitsFit, OneInstance, Stages

\* A process that is gone leaves no initialisation, and the registers as they
\* were or as the board resets them.
LEMMA GoneHardware ==
  ASSUME HardwareInv, up' = FALSE, opened' = 0, looping' = FALSE, hwInit' = "no",
         twin' \in {twin, "none"}, testMode' = testMode, mixed' = mixed,
         \/ UNCHANGED <<appReady, forced>>
         \/ twin' = "none" /\ ~appReady'
  PROVE  HardwareInv'
<1>1. StageInv'
  BY LifeAssumption DEF HardwareInv, StageInv, Stages
<1>2. BitsFit("no")' /\ BitsFit("none")'
  BY DEF BitsFit
<1>3. OneInstance'
  BY DEF OneInstance
<1>4. ASSUME ~mixed PROVE BitsFit(twin)' /\ (appReady' => (forced' <=> testMode'))
  <2>1. BitsFit(twin) /\ (appReady => (forced <=> testMode))
    BY <1>4 DEF HardwareInv
  <2> QED
    BY <2>1, <1>2 DEF BitsFit
<1> QED
  BY <1>1, <1>2, <1>3, <1>4 DEF HardwareInv

\* The steps of an initialisation, of whichever process.
LEMMA StageStep ==
  ASSUME TypeOK, HardwareInv,
         ReportOS \/ ResetBoard \/ HoldTestMode \/ Boresight \/ Release \/ ReportApp
  PROVE  HardwareInv'
<1> DEFINE Steps(from, to) ==
      <<from, to>> \in {<<"no", "os">>, <<"os", "reset">>, <<"reset", "held">>,
                        <<"held", "boresight">>, <<"boresight", "rest">>, <<"rest", "done">>}
<1>0. HardwareAt \in Nat /\ opened \in Nat /\ UNCHANGED <<up, opened, looping, testMode>>
  BY LifeAssumption, LoopAssumption
     DEF TypeOK, ReportOS, ResetBoard, HoldTestMode, Boresight, Release, ReportApp, InitStep, vars
<1>1. ASSUME NEW from, NEW to, Steps(from, to), InitStep(from, to) PROVE StageInv'
  BY <1>0, <1>1 DEF HardwareInv, StageInv, Stages, InitStep
<1>2. StageInv'
  BY <1>1 DEF ReportOS, ResetBoard, HoldTestMode, Boresight, Release, ReportApp
<1>3. ASSUME NEW from, NEW to, InitStep(from, to), ~mixed, mixed' = mixed, from # "none", to # "none"
      PROVE  /\ OneInstance'
             /\ \/ BitsFit(from) /\ hwInit' = to /\ twin' = "none"
                \/ BitsFit(from) /\ hwInit' = "no" /\ twin' = to
  BY <1>0, <1>3 DEF HardwareInv, StageInv, OneInstance, InitStep
<1>4. ASSUME NEW stage \in Stages, BitsFit(stage)', OneInstance',
             appReady' => (forced' <=> testMode'),
             \/ hwInit' = stage /\ twin' = "none"
             \/ hwInit' = "no" /\ twin' = stage
      PROVE  HardwareInv'
  <2>1. BitsFit("no")' /\ BitsFit("none")'
    BY DEF BitsFit
  <2> QED
    BY <1>2, <1>4, <2>1 DEF HardwareInv
<1>5. CASE mixed'
  BY <1>2, <1>5 DEF HardwareInv
<1>6. CASE ReportOS /\ ~mixed'
  <2>1. InitStep("no", "os") /\ ~appReady' /\ ~(up /\ twin # "none")
    BY <1>6 DEF ReportOS
  <2>2. \/ hwInit' = "os" /\ twin' = "none"
        \/ hwInit' = "no" /\ twin' = "os" /\ ~up'
    BY <1>0, <2>1 DEF InitStep, HardwareInv, StageInv
  <2>3. BitsFit("os")' /\ OneInstance'
    BY <2>1, <2>2 DEF BitsFit, OneInstance
  <2> QED
    BY <2>1, <2>2, <2>3, <1>4 DEF Stages
<1>7. CASE ResetBoard /\ ~mixed'
  <2>1. InitStep("os", "reset") /\ UNCHANGED <<appReady, mixed>> /\ ~mixed
    BY <1>7 DEF ResetBoard
  <2>2. ~appReady'
    BY <2>1, <1>3 DEF BitsFit
  <2> QED
    BY <2>1, <2>2, <1>3, <1>4 DEF BitsFit, Stages
<1>8. CASE HoldTestMode /\ ~mixed'
  <2>1. InitStep("reset", "held") /\ UNCHANGED <<appReady, mixed>> /\ ~mixed /\ forced' = testMode'
    BY <1>0, <1>8 DEF HoldTestMode
  <2>2. ~appReady'
    BY <2>1, <1>3 DEF BitsFit
  <2> QED
    BY <2>1, <2>2, <1>3, <1>4 DEF BitsFit, Stages
<1>9. CASE Boresight /\ ~mixed'
  <2>1. InitStep("held", "boresight") /\ UNCHANGED <<appReady, mixed>> /\ ~mixed
    BY <1>9 DEF Boresight
  <2>2. ~appReady'
    BY <2>1, <1>3 DEF BitsFit
  <2> QED
    BY <2>1, <2>2, <1>3, <1>4 DEF BitsFit, Stages
<1>10. CASE Release /\ ~mixed'
  <2>1. InitStep("boresight", "rest") /\ UNCHANGED <<appReady, mixed>> /\ ~mixed /\ forced' = testMode'
    BY <1>0, <1>10 DEF Release
  <2>2. ~appReady'
    BY <2>1, <1>3 DEF BitsFit
  <2> QED
    BY <2>1, <2>2, <1>3, <1>4 DEF BitsFit, Stages
<1>11. CASE ReportApp /\ ~mixed'
  <2>1. InitStep("rest", "done") /\ UNCHANGED <<forced, mixed>> /\ ~mixed /\ appReady'
    BY <1>11 DEF ReportApp
  <2>2. forced' <=> testMode'
    BY <1>0, <2>1, <1>3 DEF BitsFit
  <2> QED
    BY <2>1, <2>2, <1>3, <1>4 DEF BitsFit, Stages
<1> QED
  BY <1>5, <1>6, <1>7, <1>8, <1>9, <1>10, <1>11

\* Nothing else writes the registers, but for a board that starts again.
LEMMA HardwareStep == TypeOK /\ HardwareInv /\ [LifeNext]_lifeVars => HardwareInv'
<1> SUFFICES ASSUME TypeOK, HardwareInv, [LifeNext]_lifeVars PROVE HardwareInv'
  OBVIOUS
<1>0. HardwareAt \in Nat /\ Len(Order) \in Nat /\ HardwareAt <= Len(Order) /\ opened \in Nat
  BY LoopAssumption, LifeAssumption DEF TypeOK
<1>1. ASSUME UNCHANGED <<up, opened, looping, hwInit, twin, appReady, forced, testMode, mixed>>
      PROVE  HardwareInv'
  BY <1>1 DEF HardwareInv, StageInv, BitsFit, OneInstance
<1>2. CASE Run
  <2>1. UNCHANGED <<up, life>>
    BY <1>2, RunKeeps
  <2>2. ASSUME StageInv' PROVE HardwareInv'
    BY <2>1, <2>2 DEF life, HardwareInv, BitsFit, OneInstance
  <2>3. CASE Initialised /\ Open
    BY <1>0, <2>1, <2>2, <2>3 DEF life, Initialised, Open, HardwareInv, StageInv
  <2>4. CASE Initialised /\ EnterLoop
    BY <1>0, <2>1, <2>2, <2>4 DEF life, Initialised, EnterLoop, HardwareInv, StageInv
  <2>5. CASE UNCHANGED <<opened, looping>>
    BY <1>1, <2>1, <2>5 DEF life
  <2> QED
    BY <1>2, <2>3, <2>4, <2>5 DEF Run, Select, Dispatch, PowerOff
<1>3. CASE RebootBoard \/ TwinReboots
  <2>1. /\ twin' = "none" /\ UNCHANGED <<testMode, mixed>>
        /\ UNCHANGED <<appReady, forced>> \/ ~appReady'
    BY <1>3 DEF RebootBoard, TwinReboots, BoardRestarts
  <2>2. \/ up' = FALSE /\ opened' = 0 /\ looping' = FALSE /\ hwInit' = "no"
        \/ ~up /\ UNCHANGED <<vars, hwInit>>
    BY <1>3 DEF RebootBoard, Reboot, TwinReboots, Gone, Vanish
  <2>3. CASE up' = FALSE /\ opened' = 0 /\ looping' = FALSE /\ hwInit' = "no"
    BY <2>1, <2>3, GoneHardware
  <2>4. CASE ~up /\ UNCHANGED <<vars, hwInit>>
    <3>1. StageInv'
      BY <2>1, <2>4 DEF vars, HardwareInv, StageInv
    <3>2. OneInstance' /\ hwInit' = "no" /\ twin' = "none"
      BY <2>1, <2>4 DEF vars, HardwareInv, StageInv, OneInstance
    <3>3. ~mixed' => (appReady' => (forced' <=> testMode'))
      BY <2>1 DEF HardwareInv
    <3> QED
      BY <3>1, <3>2, <3>3 DEF HardwareInv, BitsFit
  <2> QED
    BY <2>2, <2>3, <2>4
<1>4. ASSUME ~up, UNCHANGED <<vars, hwInit, appReady, forced, testMode, mixed>>, twin' = "none"
      PROVE  HardwareInv'
  BY <1>4 DEF vars, HardwareInv, StageInv, BitsFit, OneInstance
<1>5. CASE Dies
  <2>1. CASE up /\ Gone /\ UNCHANGED twin
    BY <1>5, <2>1, GoneHardware DEF Dies, Gone, Vanish
  <2>2. CASE twin # "none" /\ twin' = "none" /\ UNCHANGED <<vars, hwInit>>
    BY <1>5, <2>2 DEF Dies, vars, HardwareInv, StageInv, BitsFit, OneInstance
  <2> QED
    BY <1>5, <2>1, <2>2 DEF Dies
<1>6. ASSUME NEW s \in Starters, Launch(s) PROVE HardwareInv'
  BY <1>1, <1>6 DEF Launch, vars
<1>7. ASSUME NEW s \in Starters, KillAll(s) PROVE HardwareInv'
  <2>1. CASE up /\ Gone
    BY <1>7, <2>1, GoneHardware DEF KillAll, Gone, Vanish
  <2>2. CASE ~up /\ UNCHANGED <<vars, hwInit>>
    BY <1>4, <1>7, <2>2 DEF KillAll
  <2> QED
    BY <1>7, <2>1, <2>2 DEF KillAll
<1>8. ASSUME NEW s \in Starters, Execute(s) PROVE HardwareInv'
  <2>1. StageInv'
    BY <1>8 DEF Execute, Restart, vars, HardwareInv, StageInv, Stages
  <2>2. ASSUME ~mixed' PROVE ~mixed /\ Restart /\ UNCHANGED twin /\ twin = "none"
    BY <1>8, <2>2 DEF Execute
  <2> QED
    BY <1>8, <2>1, <2>2 DEF Execute, HardwareInv, BitsFit, OneInstance
<1>9. ASSUME NEW s \in Sources, Arrive(s), UNCHANGED life PROVE HardwareInv'
  BY <1>1, <1>9 DEF Arrive, life
<1>10. CASE UNCHANGED lifeVars
  BY <1>1, <1>10 DEF lifeVars, life, vars
<1> QED
  BY StageStep, <1>2, <1>3, <1>5, <1>6, <1>7, <1>8, <1>9, <1>10
     DEF LifeNext, LifeProgram, Look, Intervene, Starters

\* Wherever processes end and registers survive, with the force-test mode
\* configured or not: the firmware is told that the application is ready only
\* with the board in its configured mode, and no command is served before it is
\* told, unless two processes have met (DUHWMgr::initialize).
THEOREM BoardReady == LifeSpec => []ReadyBoard
<1>1. LifeSpec => []TypeOK
  BY Implements, TypeCorrect, PTL DEF ImplementsLoop
<1>2. HardwareInv => ReadyBoard
  BY DEF HardwareInv, StageInv, BitsFit, ReadyBoard
<1> QED
  BY <1>1, <1>2, HardwareInit, HardwareStep, PTL DEF LifeSpec

=============================================================================
