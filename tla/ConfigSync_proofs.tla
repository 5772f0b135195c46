------------------------- MODULE ConfigSync_proofs -------------------------
(***************************************************************************)
(* For any settings, any capacity of the sockets and any numbers of lost   *)
(* datagrams and crashes: when nothing is under way the test unit shows    *)
(* the settings of DUA's hardware.                                         *)
(*                                                                         *)
(* DUA knows the settings, or is yet to read them; the TU was told them    *)
(* last, or is yet to be told them, or to ask.  That it keeps what it was  *)
(* told is the invariant of TUControl.                                     *)
(***************************************************************************)
EXTENDS ConfigSync, TUControl_proofs

SyncType ==
  /\ {hw, known} \subseteq Settings
  /\ {interrupt, lostMsg, lostIrq} \subseteq BOOLEAN
  /\ stage \in Stages
  /\ commands \in Seq(Settings)
  /\ requests \in Nat

Heard == ~interrupt /\ ~lostIrq

KnownInv == stage \in {"open", "announce", "loop"} /\ Heard => known = hw

\* Nobody will send, nor ask for, the settings.
Settled == stage = "loop" /\ ~lostMsg /\ up /\ ~Booting /\ requests = 0

\* The command that will be carried out last.
LastTold(s) == IF commands = <<>> THEN told = {s} ELSE commands[Len(commands)] = s

ToldInv == Heard /\ Settled => LastTold(hw)

SyncInv == IInv /\ SyncType /\ KnownInv /\ ToldInv

-----------------------------------------------------------------------------
\* After a sending the TU will have been told these settings last.
LEMMA Sending ==
  ASSUME SyncType, NEW s \in Settings, SendConfigModeMsg(s)
  PROVE  /\ commands' \in Seq(Settings) /\ lostMsg' \in BOOLEAN
         /\ ~lostMsg' => LastTold(s)'
<1>1. commands \in Seq(Settings)
  BY DEF SyncType
<1>2. CASE Len(commands) < MaxInbox
  <2>1. commands' = Append(commands, s) /\ lostMsg' = FALSE
    BY <1>2 DEF SendConfigModeMsg
  <2>2. commands' \in Seq(Settings) /\ commands' # <<>> /\ commands'[Len(commands')] = s
    BY <1>1, <2>1
  <2>3. QED
    BY <2>1, <2>2 DEF LastTold
<1>3. CASE ~(Len(commands) < MaxInbox)
  BY <1>1, <1>3 DEF SendConfigModeMsg
<1>4. QED
  BY <1>2, <1>3

\* DUA and the network leave the TU alone.
LEMMA TUAlone ==
  ASSUME IInv, UNCHANGED tuVars
  PROVE  IInv' /\ UNCHANGED <<todo, up, told>> /\ (Booting' <=> Booting)
<1>1. UNCHANGED <<reg, ksine, setup, todo, up, job, told>>
  BY DEF tuVars
<1>2. IInv'
  BY <1>1, KeepInv
<1>3. QED
  BY <1>1, <1>2 DEF Booting

\* The steps of the TU: it has still to ask, or is told, in their order, what is
\* in its socket.
LEMMA TUStep ==
  ASSUME SyncInv, Unit, UNCHANGED duaVars
  PROVE  SyncInv'
<1>1. UNCHANGED <<hw, interrupt, known, stage, lostMsg, lostIrq>>
  BY DEF duaVars
<1>2. IInv'
  BY StepInv DEF SyncInv, Next
<1>3. KnownInv'
  BY <1>1 DEF SyncInv, KnownInv, Heard
<1>4. CASE Step
  <2>1. /\ todo # <<>> /\ todo \in Seq(Access) /\ todo' = Tail(todo) /\ Execute(Head(todo))
        /\ UNCHANGED <<up, commands, told>> /\ requests \in Nat
    BY <1>4 DEF SyncInv, SyncType, IInv, BootInv, Step
  <2>2. CASE Head(todo).op = "request"
    <3>1. requests' = requests + 1
      BY <2>1, <2>2 DEF Execute
    <3>2. SyncType'
      BY <1>1, <2>1, <3>1 DEF SyncInv, SyncType
    <3>3. ToldInv'
      BY <2>1, <3>1 DEF ToldInv, Settled
    <3>4. QED
      BY <1>2, <1>3, <3>2, <3>3 DEF SyncInv
  <2>3. CASE Head(todo).op # "request"
    <3>1. requests' = requests
      BY <2>1, <2>3 DEF Execute
    <3>2. Booting => Booting'
      <4> SUFFICES ASSUME NEW i \in DOMAIN todo, todo[i].op = "request" PROVE Booting'
        BY DEF Booting
      <4>1. i # 1
        BY <2>1, <2>3, Rest
      <4>2. i - 1 \in DOMAIN todo' /\ todo'[i - 1] = todo[i]
        BY <2>1, <4>1, Rest
      <4>3. QED
        BY <4>2 DEF Booting
    <3>3. SyncType'
      BY <1>1, <2>1, <3>1 DEF SyncInv, SyncType
    <3>4. ToldInv'
      BY <1>1, <2>1, <3>1, <3>2 DEF SyncInv, ToldInv, Settled, Heard, LastTold
    <3>5. QED
      BY <1>2, <1>3, <3>3, <3>4 DEF SyncInv
  <2>4. QED
    BY <2>2, <2>3
<1>5. CASE ConfigModeCommand
  <2>1. /\ commands # <<>> /\ commands' = Tail(commands) /\ told' = {Head(commands)}
        /\ UNCHANGED <<up, requests>> /\ commands \in Seq(Settings)
        /\ up /\ todo = <<>>
    BY <1>5 DEF ConfigModeCommand, Dispatch, Idle, SyncInv, SyncType
  <2>2. ~Booting
    BY <2>1 DEF Booting
  <2>3. SyncType'
    BY <1>1, <2>1 DEF SyncInv, SyncType
  <2>4. CASE Len(commands) = 1
    <3>1. commands' = <<>> /\ Head(commands) = commands[Len(commands)]
      BY <2>1, <2>4
    <3>2. ToldInv'
      BY <1>1, <2>1, <2>2, <3>1 DEF SyncInv, ToldInv, Settled, Heard, LastTold
    <3>3. QED
      BY <1>2, <1>3, <2>3, <3>2 DEF SyncInv
  <2>5. CASE Len(commands) # 1
    <3>1. commands' # <<>> /\ commands'[Len(commands')] = commands[Len(commands)]
      <4>1. PICK n : n = Len(commands)
        OBVIOUS
      <4>2. n \in Nat /\ n > 1 /\ Len(commands') = n - 1
        BY <2>1, <2>5, <4>1
      <4>3. \A i \in 1 .. n - 1 : commands'[i] = commands[i + 1]
        BY <2>1, <4>1
      <4>4. n - 1 \in 1 .. n - 1 /\ n - 1 + 1 = n
        BY <4>2
      <4>5. commands'[n - 1] = commands[n]
        BY <4>3, <4>4
      <4>6. commands' # <<>>
        BY <4>2
      <4>7. QED
        BY <4>1, <4>2, <4>5, <4>6
    <3>2. ToldInv'
      BY <1>1, <2>1, <2>2, <3>1 DEF SyncInv, ToldInv, Settled, Heard, LastTold
    <3>3. QED
      BY <1>2, <1>3, <2>3, <3>2 DEF SyncInv
  <2>6. QED
    BY <2>4, <2>5
<1>6. CASE Crash \/ Restart
  <2>1. UNCHANGED <<commands, requests>> /\ (~up' \/ todo' = Boot)
    BY <1>6 DEF Crash, Restart
  <2>2. todo' = Boot => Booting'
    BY DEF Boot, Booting
  <2>3. SyncType'
    BY <1>1, <2>1 DEF SyncInv, SyncType
  <2>4. ToldInv'
    BY <2>1, <2>2 DEF ToldInv, Settled
  <2>5. QED
    BY <1>2, <1>3, <2>3, <2>4 DEF SyncInv
<1>7. QED
  BY <1>4, <1>5, <1>6 DEF Unit

\* What DUA sends are the settings of its hardware, if it has heard of them.
LEMMA DUASends ==
  ASSUME SyncInv, DUAAnnounce \/ ConfigInterrupt \/ AnswerRequest
  PROVE  SyncInv'
<1>1. /\ SyncType /\ KnownInv /\ IInv
  BY DEF SyncInv
<1>2. /\ stage \in {"announce", "loop"} /\ stage' = "loop"
      /\ hw' = hw /\ known' \in Settings /\ {interrupt', lostIrq'} \subseteq BOOLEAN
      /\ requests' \in Nat /\ SendConfigModeMsg(known') /\ UNCHANGED tuVars
      /\ Heard' => known' = hw
  <2>1. CASE DUAAnnounce
    BY <1>1, <2>1 DEF DUAAnnounce, SyncType, KnownInv, Heard
  <2>2. CASE ConfigInterrupt
    BY <1>1, <2>2 DEF ConfigInterrupt, SyncType, Heard
  <2>3. CASE AnswerRequest
    BY <1>1, <2>3 DEF AnswerRequest, SyncType, KnownInv, Heard
  <2>4. QED
    BY <2>1, <2>2, <2>3
<1>3. PICK s \in Settings : s = known'
  BY <1>2
<1>4. /\ commands' \in Seq(Settings) /\ lostMsg' \in BOOLEAN
      /\ ~lostMsg' => LastTold(s)'
  BY <1>1, <1>2, <1>3, Sending
<1>5. IInv'
  BY <1>1, <1>2, TUAlone
<1>6. SyncType'
  BY <1>1, <1>2, <1>4 DEF SyncType, Stages
<1>7. KnownInv'
  BY <1>2 DEF KnownInv
<1>8. ToldInv'
  BY <1>2, <1>3, <1>4 DEF ToldInv, Settled, LastTold
<1>9. QED
  BY <1>5, <1>6, <1>7, <1>8 DEF SyncInv

\* The other steps of DUA, the hardware and the network.
LEMMA OthersStep ==
  ASSUME SyncInv, UNCHANGED tuVars,
         \/ DUAInitialize \/ DUAOpen \/ ReadSettings \/ DUACrash \/ DUARestart
         \/ \E s \in Settings : ChangeSettings(s)
         \/ Lose \/ Drop
  PROVE  SyncInv'
<1>1. /\ IInv' /\ UNCHANGED <<todo, up, told>> /\ (Booting' <=> Booting)
      /\ SyncType /\ KnownInv /\ ToldInv
  BY TUAlone DEF SyncInv
<1>2. CASE DUAInitialize
  <2>1. SyncType' /\ KnownInv' /\ ToldInv'
    BY <1>1, <1>2 DEF DUAInitialize, SyncType, Stages, KnownInv, ToldInv, Settled
  <2>2. QED
    BY <1>1, <2>1 DEF SyncInv
<1>3. CASE DUAOpen
  <2>1. SyncType' /\ KnownInv' /\ ToldInv'
    BY <1>1, <1>3 DEF DUAOpen, SyncType, Stages, KnownInv, Heard, ToldInv, Settled
  <2>2. QED
    BY <1>1, <2>1 DEF SyncInv
<1>4. CASE ReadSettings
  <2>1. SyncType' /\ KnownInv' /\ ToldInv'
    BY <1>1, <1>4 DEF ReadSettings, SyncType, Stages, KnownInv, ToldInv, Settled, Heard,
       LastTold
  <2>2. QED
    BY <1>1, <2>1 DEF SyncInv
<1>5. CASE DUACrash \/ DUARestart
  <2>1. requests' \in Nat
    BY <1>1, <1>5 DEF DUACrash, DUARestart, SyncType
  <2>2. SyncType' /\ KnownInv' /\ ToldInv'
    BY <1>1, <1>5, <2>1 DEF DUACrash, DUARestart, SyncType, Stages, KnownInv, ToldInv,
       Settled
  <2>3. QED
    BY <1>1, <2>2 DEF SyncInv
<1>6. ASSUME NEW s \in Settings, ChangeSettings(s) PROVE SyncInv'
  <2>1. /\ UNCHANGED <<known, stage, lostMsg, commands, requests>>
        /\ hw' = s /\ interrupt' \in BOOLEAN
        /\ lostIrq' = (lostIrq \/ (~interrupt' /\ stage = "open"))
        /\ stage \in {"announce", "loop"} => interrupt'
    BY <1>6 DEF ChangeSettings
  <2>2. SyncType'
    BY <1>1, <2>1 DEF SyncType
  <2>3. KnownInv' /\ ToldInv'
    BY <2>1 DEF KnownInv, ToldInv, Settled, Heard
  <2>4. QED
    BY <1>1, <2>2, <2>3 DEF SyncInv
<1>7. CASE Lose
  <2>1. /\ UNCHANGED <<hw, interrupt, known, stage, lostIrq>> /\ lostMsg' = TRUE
    BY <1>7 DEF Lose
  <2>2. commands' \in Seq(Settings) /\ requests' \in Nat
    BY <1>1, <1>7 DEF Lose, SyncType
  <2>3. SyncType' /\ KnownInv' /\ ToldInv'
    BY <1>1, <2>1, <2>2 DEF SyncType, KnownInv, ToldInv, Settled, Heard
  <2>4. QED
    BY <1>1, <2>3 DEF SyncInv
<1>8. CASE Drop
  <2>1. /\ UNCHANGED <<hw, interrupt, known, stage, lostMsg, lostIrq>>
        /\ ~up \/ stage = "down"
    BY <1>8 DEF Drop, duaVars
  <2>2. commands' \in Seq(Settings) /\ requests' \in Nat
    BY <1>1, <1>8 DEF Drop, SyncType
  <2>3. SyncType' /\ KnownInv' /\ ToldInv'
    BY <1>1, <2>1, <2>2 DEF SyncType, KnownInv, ToldInv, Settled, Heard
  <2>4. QED
    BY <1>1, <2>3 DEF SyncInv
<1>9. QED
  BY <1>2, <1>3, <1>4, <1>5, <1>6, <1>7, <1>8

LEMMA SyncStarts == SyncInit => SyncInv
<1> SUFFICES ASSUME SyncInit PROVE SyncInv
  OBVIOUS
<1>1. IInv
  BY InitInv DEF SyncInit
<1>2. SyncType
  <2>1. commands = <<>> /\ requests = 0
    BY DEF SyncInit, Init
  <2>2. /\ hw \in Settings /\ known \in Settings /\ stage = "init"
        /\ interrupt \in BOOLEAN /\ lostMsg = FALSE /\ lostIrq = FALSE
    BY DEF SyncInit
  <2>3. {interrupt, lostMsg, lostIrq} \subseteq BOOLEAN
    BY <2>2
  <2>4. commands \in Seq(Settings) /\ requests \in Nat
    BY <2>1
  <2>5. QED
    BY <2>2, <2>3, <2>4 DEF SyncType, Stages
<1>3. KnownInv /\ ToldInv
  BY DEF SyncInit, KnownInv, ToldInv, Settled
<1>4. QED
  BY <1>1, <1>2, <1>3 DEF SyncInv

LEMMA SyncSteps == SyncInv /\ [SyncNext]_syncVars => SyncInv'
<1> SUFFICES ASSUME SyncInv, [SyncNext]_syncVars PROVE SyncInv'
  OBVIOUS
<1>1. CASE Unit /\ UNCHANGED duaVars
  BY <1>1, TUStep
<1>2. CASE DUAAnnounce \/ ConfigInterrupt \/ AnswerRequest
  BY <1>2, DUASends
<1>3. CASE \/ DUAInitialize \/ DUAOpen \/ ReadSettings \/ DUACrash \/ DUARestart
           \/ \E s \in Settings : ChangeSettings(s)
           \/ Lose \/ Drop
  <2>1. UNCHANGED tuVars
    BY <1>3 DEF DUAInitialize, DUAOpen, ReadSettings, DUACrash, DUARestart,
       ChangeSettings, Lose, Drop
  <2>2. QED
    BY <1>3, <2>1, OthersStep
<1>4. CASE UNCHANGED syncVars
  <2>1. UNCHANGED vars /\ UNCHANGED duaVars
    BY <1>4 DEF syncVars
  <2>2. IInv'
    BY <2>1, StepInv DEF SyncInv
  <2>3. SyncType' /\ KnownInv' /\ ToldInv'
    BY <2>1 DEF vars, duaVars, SyncInv, SyncType, KnownInv, ToldInv, Settled, Heard,
       LastTold, Booting
  <2>4. QED
    BY <2>2, <2>3 DEF SyncInv
<1>5. QED
  BY <1>1, <1>2, <1>3, <1>4 DEF SyncNext

\* When nothing is under way and the last word was not lost, the register of the
\* TU says what DUA's hardware says, whichever of the two started or died last
\* (SendConfigModeMsg, processLocalHWCommandMsg).
THEOREM Agrees == SyncSpec => []QuietAgrees
<1>1. SyncInv => QuietAgrees
  <2> SUFFICES ASSUME SyncInv, Idle, stage = "loop", commands = <<>>, requests = 0,
                      ~interrupt, ~lostMsg, ~lostIrq
               PROVE  reg \cap Configured = SettingBits(hw)
    BY DEF QuietAgrees
  <2>1. up /\ ~Booting
    BY DEF Idle, Booting
  <2>2. told = {hw}
    BY <2>1 DEF SyncInv, ToldInv, Heard, Settled, LastTold
  <2>3. QED
    BY <2>2, ShowsTold DEF SyncInv, ConfigurationKept
<1>2. QED
  BY <1>1, SyncStarts, SyncSteps, PTL DEF SyncSpec

=============================================================================
