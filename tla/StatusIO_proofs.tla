--------------------------- MODULE StatusIO_proofs ---------------------------
(***************************************************************************)
(* For any inputs, thresholds, peers and limit, SWCStatus flags silent     *)
(* peers, publishes the flag, and lets the overall status follow the       *)
(* inputs.  For any numbers of retries, the handlers of DUA that call the  *)
(* I/O module implement SWCStatus, so that what is proved of it holds of   *)
(* them.                                                                   *)
(***************************************************************************)
EXTENDS StatusIO, TLAPS

\* The pure functions return what their declarations allow.
LEMMA FunctionTypes ==
  /\ \A good \in BOOLEAN : HealthOf(good) \in Health
  /\ \A signals : TempOf(signals) \in Health /\ ATBOf(signals) \in Health
  /\ \A count : RolledOf(count) \in RolledUp
  /\ \A bits : BoardOf(bits) \in RolledUp
  /\ \A config : Verdict(config) \in Health
BY DEF HealthOf, TempOf, ATBOf, RolledOf, BoardOf, Verdict, Health, RolledUp

\* A tick reads the share of the inputs whose turn it is.
LEMMA ShareOfTurn ==
  ASSUME turn \in 0 .. 2, ReadSWCStatus(DataTypes[turn + 1])
  PROVE  \/ turn = 0 /\ \E seen \in Seen : ReadConfig(seen)
         \/ turn = 1 /\ ReadRolledUp
         \/ turn = 2 /\ ReadDU
<1>1. /\ DataTypes[1] = "CONFIG"
      /\ DataTypes[2] = "DCU_ROLLED_UP"
      /\ DataTypes[3] = "DU"
  BY DEF DataTypes
<1>2. turn = 0 \/ turn = 1 \/ turn = 2
  OBVIOUS
<1>3. QED
  BY <1>1, <1>2 DEF ReadSWCStatus

\* Inputs older than the last tick are seen as they are.
LEMMA SeenTypes ==
  ASSUME TypeOK, NEW seen \in Seen
  PROVE  /\ seen.config \in Configs
         /\ age # 0 => seen.config = hw.config /\ seen.signals = hw.signals
BY DEF Seen, TypeOK, Configs

\* What each way of reading writes to the TWGS register, and what it keeps.
LEMMA RegisterWrites ==
  ASSUME TypeOK
  PROVE  /\ \A seen : ReadConfig(seen) =>
              /\ twgs'.overall = Verdict(seen.config) /\ twgs'.config = seen.config
              /\ twgs'.temp = temp' /\ twgs'.atb = atb'
              /\ twgs'.rolled = twgs.rolled /\ twgs'.du = twgs.du
         /\ ReadRolledUp =>
              /\ twgs'.overall = Verdict(hw.config) /\ twgs'.config = twgs.config
              /\ twgs'.temp = twgs.temp /\ twgs'.atb = twgs.atb
              /\ twgs'.rolled = rolled' /\ twgs'.du = twgs.du
         /\ ReadDU =>
              /\ twgs'.overall = Verdict(hw.config) /\ twgs'.config = twgs.config
              /\ twgs'.temp = twgs.temp /\ twgs'.atb = twgs.atb
              /\ twgs'.rolled = twgs.rolled
              /\ twgs'.du = [g \in Groups |-> du[g]]
<1>1. DOMAIN twgs = {"overall", "type", "config", "temp", "atb", "rolled", "du"}
  BY DEF TypeOK
<1>2. ASSUME NEW seen, ReadConfig(seen)
      PROVE  /\ twgs'.overall = Verdict(seen.config) /\ twgs'.config = seen.config
             /\ twgs'.temp = temp' /\ twgs'.atb = atb'
             /\ twgs'.rolled = twgs.rolled /\ twgs'.du = twgs.du
  BY <1>1, <1>2 DEF ReadConfig
<1>3. ASSUME ReadRolledUp
      PROVE  /\ twgs'.overall = Verdict(hw.config) /\ twgs'.config = twgs.config
             /\ twgs'.temp = twgs.temp /\ twgs'.atb = twgs.atb
             /\ twgs'.rolled = rolled' /\ twgs'.du = twgs.du
  BY <1>1, <1>3 DEF ReadRolledUp
<1>4. ASSUME ReadDU
      PROVE  /\ twgs'.overall = Verdict(hw.config) /\ twgs'.config = twgs.config
             /\ twgs'.temp = twgs.temp /\ twgs'.atb = twgs.atb
             /\ twgs'.rolled = twgs.rolled
             /\ twgs'.du = [g \in Groups |-> du[g]]
  BY <1>1, <1>4 DEF ReadDU
<1>5. QED
  BY <1>2, <1>3, <1>4

\* A report carries one of the rolled up values.
LEMMA ReportedValue ==
  ASSUME NEW p \in Peers, SendReport(p)
  PROVE  \E s \in RolledUp : Report(p, s)
BY FunctionTypes DEF SendReport, TUBoardOf

\* The inputs are what the assumption on HWStates allows.
LEMMA InputTypes ==
  ASSUME NEW h \in HWStates
  PROVE  h.config \in Configs /\ h.board \in Boards
BY DEF Configs, Boards

LEMMA PeerNames == Peers \subseteq Groups \cup {"TU"} /\ "ALPHA" \notin Peers
BY StatusAssumption DEF Groups

-----------------------------------------------------------------------------
(* Type correctness. *)

LEMMA TypeInit == Init => TypeOK
<1> SUFFICES ASSUME Init PROVE TypeOK
  OBVIOUS
<1>1. hw \in HWStates
  BY DEF Init
<1>2. /\ temp \in Health /\ atb \in Health
      /\ rolled \in [Groups -> RolledUp]
      /\ du \in [Groups \cup {"TU"} -> DUStatus]
  BY FunctionTypes DEF Init, RolledUp, DUStatus
<1>3. twgs \in [overall : Health, type : {"CONFIG", "DCU_ROLLED_UP", "DU"},
                config : Configs, temp : Health, atb : Health,
                rolled : [Groups -> RolledUp], du : [Groups -> DUStatus]]
  <2>1. HealthOf(hw.config # "CONFIG_ERR") \in Health
    BY FunctionTypes
  <2>2. [g \in Groups |-> "GREEN"] \in [Groups -> DUStatus]
    BY DEF DUStatus, RolledUp
  <2>3. hw.config \in Configs
    BY <1>1, InputTypes
  <2>4. QED
    BY <1>2, <2>1, <2>2, <2>3 DEF Init
<1>4. /\ turn \in 0 .. 2 /\ age \in 0 .. Settled
      /\ missed \in [Peers -> 0 .. Limit] /\ silence \in [Peers -> 0 .. Deaf]
  BY StatusAssumption DEF Init, Settled, Deaf
<1>5. QED
  BY <1>1, <1>2, <1>3, <1>4 DEF TypeOK

\* What the three ways of reading leave in the variables that they write.
LEMMA ReadTypes ==
  ASSUME TypeOK, (\E seen \in Seen : ReadConfig(seen)) \/ ReadRolledUp \/ ReadDU
  PROVE  /\ temp' \in Health /\ atb' \in Health
         /\ rolled' \in [Groups -> RolledUp]
         /\ twgs' \in [overall : Health, type : {"CONFIG", "DCU_ROLLED_UP", "DU"},
                       config : Configs, temp : Health, atb : Health,
                       rolled : [Groups -> RolledUp], du : [Groups -> DUStatus]]
<1>1. Verdict(hw.config) \in Health /\ hw.config \in Configs
  BY FunctionTypes, InputTypes DEF TypeOK
<1>2. ASSUME NEW seen \in Seen, ReadConfig(seen)
      PROVE  /\ temp' \in Health /\ atb' \in Health
             /\ rolled' \in [Groups -> RolledUp]
             /\ twgs' \in [overall : Health, type : {"CONFIG", "DCU_ROLLED_UP", "DU"},
                           config : Configs, temp : Health, atb : Health,
                           rolled : [Groups -> RolledUp], du : [Groups -> DUStatus]]
  <2>1. temp' \in Health /\ atb' \in Health /\ rolled' = rolled
    BY <1>2, FunctionTypes DEF ReadConfig
  <2>2. Verdict(seen.config) \in Health /\ seen.config \in Configs
    BY FunctionTypes, SeenTypes
  <2>3. QED
    BY <1>2, <2>1, <2>2 DEF ReadConfig, TypeOK
<1>3. CASE ReadRolledUp
  <2>1. rolled' \in [Groups -> RolledUp]
    BY <1>3, FunctionTypes DEF ReadRolledUp
  <2>2. QED
    BY <1>1, <1>3, <2>1 DEF ReadRolledUp, TypeOK
<1>4. CASE ReadDU
  <2>1. [g \in Groups |-> du[g]] \in [Groups -> DUStatus]
    BY DEF TypeOK
  <2>2. QED
    BY <1>1, <1>4, <2>1 DEF ReadDU, TypeOK
<1>5. QED
  BY <1>2, <1>3, <1>4

LEMMA TypeStep == TypeOK /\ [Next]_vars => TypeOK'
<1> SUFFICES ASSUME TypeOK, [Next]_vars PROVE TypeOK'
  OBVIOUS
<1> USE StatusAssumption
<1>1. CASE StatusTimer
  <2>1. /\ temp' \in Health /\ atb' \in Health
        /\ rolled' \in [Groups -> RolledUp]
        /\ twgs' \in [overall : Health, type : {"CONFIG", "DCU_ROLLED_UP", "DU"},
                      config : Configs, temp : Health, atb : Health,
                      rolled : [Groups -> RolledUp], du : [Groups -> DUStatus]]
    BY <1>1, ShareOfTurn, ReadTypes DEF StatusTimer, TypeOK
  <2>2. du' \in [Groups \cup {"TU"} -> DUStatus]
    BY <1>1, FunctionTypes DEF StatusTimer, Tick, TypeOK, DUStatus
  <2>3. turn' \in 0 .. 2
    BY <1>1 DEF StatusTimer, Tick, NextTurn, TypeOK
  <2>4. missed' \in [Peers -> 0 .. Limit]
    BY <1>1 DEF StatusTimer, Tick, Overdue, TypeOK
  <2>5. age' \in 0 .. Settled /\ silence' \in [Peers -> 0 .. Deaf]
    BY <1>1 DEF StatusTimer, Tick, AtMost, Aged, TypeOK, Settled, Deaf
  <2>6. hw' \in HWStates
    BY <1>1 DEF StatusTimer, Tick, TypeOK
  <2>7. QED
    BY <2>1, <2>2, <2>3, <2>4, <2>5, <2>6 DEF TypeOK
<1>2. CASE ConfigInterrupt
  <2>1. \E seen \in Seen : ReadConfig(seen)
    BY <1>2 DEF ConfigInterrupt, ReadSWCStatus
  <2>2. QED
    BY <1>2, <2>1, ReadTypes DEF ConfigInterrupt, TypeOK
<1>3. ASSUME NEW p \in Peers, SendReport(p) PROVE TypeOK'
  <2>1. PICK s \in RolledUp : Report(p, s)
    BY <1>3, ReportedValue
  <2>2. du' \in [Groups \cup {"TU"} -> DUStatus]
    BY <2>1 DEF Report, TypeOK, DUStatus
  <2>3. missed' \in [Peers -> 0 .. Limit] /\ silence' \in [Peers -> 0 .. Deaf]
    BY <2>1 DEF Report, TypeOK, Deaf
  <2>4. age' \in 0 .. Settled
    BY <2>1 DEF Report, Aged, TypeOK, Settled
  <2>5. QED
    BY <2>1, <2>2, <2>3, <2>4 DEF Report, TypeOK
<1>4. ASSUME NEW h \in HWStates, Change(h) PROVE TypeOK'
  BY <1>4 DEF Change, TypeOK, Settled
<1>5. CASE UNCHANGED vars
  BY <1>5 DEF vars, TypeOK
<1>6. QED
  BY <1>1, <1>2, <1>3, <1>4, <1>5 DEF Next

\* The variables hold what the code can put there; the counters of silent
\* ticks never pass the limit (handlePreDcuStatusTimer).
THEOREM TypeCorrect == Spec => []TypeOK
BY TypeInit, TypeStep, PTL DEF Spec

-----------------------------------------------------------------------------
(* Silent peers. *)

LEMMA CountInit == Init => CountInv
BY StatusAssumption DEF Init, CountInv, Groups

LEMMA CountStep == TypeOK /\ CountInv /\ [Next]_vars => CountInv'
<1> SUFFICES ASSUME TypeOK, CountInv, [Next]_vars, NEW q \in Peers
             PROVE  (IF silence[q] > Limit THEN du[q] = "ERROR"
                     ELSE missed[q] = silence[q] /\ du[q] # "ERROR")'
  BY DEF CountInv
<1>1. /\ q \in DOMAIN du /\ q # "ALPHA"
      /\ Limit \in Nat /\ Deaf = Limit + 5
      /\ silence \in [Peers -> 0 .. Deaf] /\ missed \in [Peers -> 0 .. Limit]
      /\ du \in [Groups \cup {"TU"} -> DUStatus]
  BY PeerNames, StatusAssumption DEF TypeOK, Deaf
<1>2. CASE StatusTimer
  <2>1. /\ du'[q] = IF missed[q] + 1 > Limit THEN "ERROR" ELSE du[q]
        /\ missed'[q] = IF missed[q] + 1 > Limit THEN 0 ELSE missed[q] + 1
        /\ silence'[q] = IF silence[q] + 1 > Deaf THEN Deaf ELSE silence[q] + 1
    BY <1>1, <1>2 DEF StatusTimer, Tick, Overdue, AtMost
  <2>2. silence[q] \in 0 .. Deaf /\ missed[q] \in 0 .. Limit
    BY <1>1
  <2>3. QED
    BY <1>1, <2>1, <2>2 DEF CountInv
<1>3. CASE ConfigInterrupt
  BY <1>3 DEF ConfigInterrupt, CountInv
<1>4. ASSUME NEW p \in Peers, SendReport(p)
      PROVE  (IF silence[q] > Limit THEN du[q] = "ERROR"
              ELSE missed[q] = silence[q] /\ du[q] # "ERROR")'
  <2>1. PICK s \in RolledUp : Report(p, s)
    BY <1>4, ReportedValue
  <2>2. s # "ERROR"
    BY DEF RolledUp
  <2>3. CASE p = q
    BY <1>1, <2>1, <2>2, <2>3 DEF Report
  <2>4. CASE p # q
    BY <1>1, <2>1, <2>4 DEF Report, CountInv
  <2>5. QED
    BY <2>3, <2>4
<1>5. ASSUME NEW h \in HWStates, Change(h)
      PROVE  (IF silence[q] > Limit THEN du[q] = "ERROR"
              ELSE missed[q] = silence[q] /\ du[q] # "ERROR")'
  BY <1>5 DEF Change, CountInv
<1>6. CASE UNCHANGED vars
  BY <1>6 DEF vars, CountInv
<1>7. QED
  BY <1>2, <1>3, <1>4, <1>5, <1>6 DEF Next

LEMMA Counted == Spec => []CountInv
BY TypeCorrect, CountInit, CountStep, PTL DEF Spec

LEMMA CountFlags == TypeOK /\ CountInv => SilentFlagged
BY DEF CountInv, SilentFlagged

\* A peer is flagged exactly while its silence exceeds the limit, although the
\* counter of the code starts over when it flags (handlePreDcuStatusTimer).
THEOREM Flagged == Spec => []SilentFlagged
BY TypeCorrect, Counted, CountFlags, PTL

LEMMA PublishInit == Init => PublishInv
BY StatusAssumption DEF Init, PublishInv

LEMMA PublishStep ==
  TypeOK /\ CountInv /\ PublishInv /\ [Next]_vars => PublishInv'
<1> SUFFICES ASSUME TypeOK, CountInv, PublishInv, [Next]_vars,
                    "BETA" \in Peers, (silence["BETA"] > Limit)'
             PROVE  (\/ twgs.du["BETA"] = "ERROR"
                     \/ silence["BETA"] = Limit + 1
                     \/ silence["BETA"] = Limit + 2 /\ turn # 0
                     \/ silence["BETA"] = Limit + 3 /\ turn = 2)'
  BY DEF PublishInv
<1>1. /\ Limit \in Nat /\ Deaf = Limit + 5 /\ turn \in 0 .. 2
      /\ silence \in [Peers -> 0 .. Deaf] /\ silence["BETA"] \in 0 .. Deaf
      /\ du \in [Groups \cup {"TU"} -> DUStatus] /\ "BETA" \in Groups
  BY StatusAssumption DEF TypeOK, Deaf, Groups
<1>2. CASE StatusTimer
  <2>1. /\ silence'["BETA"] = IF silence["BETA"] + 1 > Deaf THEN Deaf
                              ELSE silence["BETA"] + 1
        /\ turn' = IF turn + 1 >= 3 THEN 0 ELSE turn + 1
        /\ ReadSWCStatus(DataTypes[turn + 1])
    BY <1>1, <1>2 DEF StatusTimer, Tick, AtMost, NextTurn
  <2>2. \/ turn = 2 /\ twgs'.du = [g \in Groups |-> du[g]]
        \/ turn # 2 /\ twgs'.du = twgs.du
    BY <1>1, <2>1, ShareOfTurn, RegisterWrites
  <2>3. CASE silence["BETA"] <= Limit
    BY <1>1, <2>1, <2>3
  <2>4. CASE silence["BETA"] > Limit
    <3>1. du["BETA"] = "ERROR"
      BY <2>4 DEF CountInv
    <3>2. turn = 2 => twgs'.du["BETA"] = "ERROR"
      BY <1>1, <2>2, <3>1
    <3>3. turn # 2 => twgs'.du = twgs.du
      BY <2>2
    <3>4. QED
      BY <1>1, <2>1, <2>4, <3>2, <3>3 DEF PublishInv
  <2>5. QED
    BY <1>1, <2>3, <2>4
<1>3. CASE ConfigInterrupt
  <2>1. twgs'.du = twgs.du
    BY <1>3, RegisterWrites DEF ConfigInterrupt, ReadSWCStatus
  <2>2. QED
    BY <1>3, <2>1 DEF ConfigInterrupt, PublishInv
<1>4. ASSUME NEW p \in Peers, SendReport(p)
      PROVE  (\/ twgs.du["BETA"] = "ERROR"
              \/ silence["BETA"] = Limit + 1
              \/ silence["BETA"] = Limit + 2 /\ turn # 0
              \/ silence["BETA"] = Limit + 3 /\ turn = 2)'
  <2>1. PICK s \in RolledUp : Report(p, s)
    BY <1>4, ReportedValue
  <2>2. silence'["BETA"] = silence["BETA"]
    BY <1>1, <2>1 DEF Report
  <2>3. QED
    BY <2>1, <2>2 DEF Report, PublishInv
<1>5. ASSUME NEW h \in HWStates, Change(h)
      PROVE  (\/ twgs.du["BETA"] = "ERROR"
              \/ silence["BETA"] = Limit + 1
              \/ silence["BETA"] = Limit + 2 /\ turn # 0
              \/ silence["BETA"] = Limit + 3 /\ turn = 2)'
  BY <1>5 DEF Change, PublishInv
<1>6. CASE UNCHANGED vars
  BY <1>6 DEF vars, PublishInv
<1>7. QED
  BY <1>2, <1>3, <1>4, <1>5, <1>6 DEF Next

LEMMA PublishedSoon == TypeOK /\ PublishInv => SilencePublished
BY StatusAssumption DEF PublishInv, SilencePublished, TypeOK, Deaf

\* The rotation puts the flag of a silent beta unit on the register three ticks
\* later at most (handlePreDcuStatusTimer, readSWCStatus).
THEOREM Published == Spec => []SilencePublished
<1>1. Spec => []PublishInv
  BY TypeCorrect, Counted, PublishInit, PublishStep, PTL DEF Spec
<1>2. QED
  BY <1>1, TypeCorrect, PublishedSoon, PTL

-----------------------------------------------------------------------------
(* Inputs that stay. *)

LEMMA FreshInit == Init => FreshInv
BY DEF Init, FreshInv, LastRead

\* Each share of the inputs grows a tick older, or is read.
LEMMA LastReadStep ==
  ASSUME TypeOK, StatusTimer
  PROVE  /\ turn \in 0 .. 2 /\ age \in 0 .. 5
         /\ age' \in 0 .. 5 /\ age' <= age + 1
         /\ age' # 0 => du'["BETA"] = du["BETA"]
         /\ \A t \in 0 .. 2 : LastRead(t) \in 1 .. 3
         /\ \A t \in 0 .. 2 :
              LastRead(t)' = IF turn = t THEN 1 ELSE LastRead(t) + 1
<1>1. /\ turn \in 0 .. 2 /\ age \in 0 .. 5
      /\ turn' = IF turn + 1 >= 3 THEN 0 ELSE turn + 1
      /\ age' \in 0 .. 5 /\ age' <= age + 1
      /\ age' # 0 => du'["BETA"] = du["BETA"]
  BY DEF TypeOK, StatusTimer, Tick, NextTurn, Aged, AtMost, Settled
<1>2. QED
  BY <1>1 DEF LastRead

LEMMA FreshTick == TypeOK /\ FreshInv /\ StatusTimer => FreshInv'
<1> SUFFICES ASSUME TypeOK, FreshInv, StatusTimer PROVE FreshInv'
  OBVIOUS
<1>1. /\ age \in 0 .. 5 /\ age' \in 0 .. 5 /\ age' <= age + 1
      /\ age' # 0 => du'["BETA"] = du["BETA"]
      /\ LastRead(0) \in 1 .. 3 /\ LastRead(1) \in 1 .. 3 /\ LastRead(2) \in 1 .. 3
      /\ LastRead(0)' = IF turn = 0 THEN 1 ELSE LastRead(0) + 1
      /\ LastRead(1)' = IF turn = 1 THEN 1 ELSE LastRead(1) + 1
      /\ LastRead(2)' = IF turn = 2 THEN 1 ELSE LastRead(2) + 1
  BY LastReadStep
<1>2. hw' = hw /\ du'["ALPHA"] = BoardOf(hw.board)
  BY DEF StatusTimer, Tick, TypeOK, Groups
<1>3. \/ turn = 0 /\ \E seen \in Seen : ReadConfig(seen)
      \/ turn = 1 /\ ReadRolledUp
      \/ turn = 2 /\ ReadDU
  BY ShareOfTurn DEF StatusTimer, TypeOK
<1>4. (age > LastRead(0) =>
         /\ temp = TempOf(hw.signals) /\ twgs.temp = TempOf(hw.signals)
         /\ atb = ATBOf(hw.signals) /\ twgs.atb = ATBOf(hw.signals)
         /\ twgs.config = hw.config)'
  <2>1. CASE turn = 0
    <3>1. PICK seen \in Seen : ReadConfig(seen)
      BY <1>3, <2>1
    <3>2. /\ temp' = TempOf(seen.signals) /\ twgs'.temp = temp'
          /\ atb' = ATBOf(seen.signals) /\ twgs'.atb = atb'
          /\ twgs'.config = seen.config
      BY <3>1, RegisterWrites DEF ReadConfig
    <3>3. age' > LastRead(0)' => seen.config = hw.config /\ seen.signals = hw.signals
      BY <1>1, <2>1, SeenTypes
    <3>4. TempOf(hw.signals)' = TempOf(hw.signals) /\ ATBOf(hw.signals)' = ATBOf(hw.signals)
      BY <1>2 DEF TempOf, ATBOf
    <3>5. QED
      BY <1>2, <3>2, <3>3, <3>4
  <2>2. CASE turn # 0
    <3>1. temp' = temp /\ atb' = atb
      BY <1>3, <2>2 DEF ReadRolledUp, ReadDU
    <3>2. twgs'.temp = twgs.temp /\ twgs'.atb = twgs.atb /\ twgs'.config = twgs.config
      BY <1>3, <2>2, RegisterWrites
    <3>3. age' > LastRead(0)' => age > LastRead(0)
      BY <1>1, <2>2
    <3>4. TempOf(hw.signals)' = TempOf(hw.signals) /\ ATBOf(hw.signals)' = ATBOf(hw.signals)
      BY <1>2 DEF TempOf, ATBOf
    <3>5. QED
      BY <1>2, <3>1, <3>2, <3>3, <3>4 DEF FreshInv
  <2>3. QED
    BY <2>1, <2>2
<1>5. (age >= LastRead(1) => \A g \in Groups :
         rolled[g] = RolledOf(hw.failed[g]) /\ twgs.rolled[g] = RolledOf(hw.failed[g]))'
  <2>1. CASE turn = 1
    <3>1. rolled' = [g \in Groups |-> RolledOf(hw.failed[g])]
      BY <1>3, <2>1 DEF ReadRolledUp
    <3>2. twgs'.rolled = rolled'
      BY <1>3, <2>1, RegisterWrites
    <3>3. QED
      BY <1>2, <3>1, <3>2
  <2>2. CASE turn # 1
    <3>1. rolled' = rolled
      BY <1>3, <2>2 DEF ReadConfig, ReadDU
    <3>2. twgs'.rolled = twgs.rolled
      BY <1>3, <2>2, RegisterWrites
    <3>3. age' >= LastRead(1)' => age >= LastRead(1)
      BY <1>1, <2>2
    <3>4. QED
      BY <1>2, <3>1, <3>2, <3>3 DEF FreshInv
  <2>3. QED
    BY <2>1, <2>2
<1>6. (age > LastRead(2) =>
         twgs.du["ALPHA"] = BoardOf(hw.board) /\ twgs.du["BETA"] = du["BETA"])'
  <2>1. CASE turn = 2
    <3>1. twgs'.du["ALPHA"] = du["ALPHA"] /\ twgs'.du["BETA"] = du["BETA"]
      BY <1>3, <2>1, RegisterWrites DEF Groups
    <3>2. age' > LastRead(2)' => age >= 1 /\ du'["BETA"] = du["BETA"]
      BY <1>1, <2>1
    <3>3. QED
      BY <1>2, <3>1, <3>2 DEF FreshInv
  <2>2. CASE turn # 2
    <3>1. twgs'.du = twgs.du
      BY <1>3, <2>2, RegisterWrites
    <3>2. age' > LastRead(2)' => age > LastRead(2) /\ du'["BETA"] = du["BETA"]
      BY <1>1, <2>2
    <3>3. QED
      BY <1>2, <3>1, <3>2 DEF FreshInv
  <2>3. QED
    BY <2>1, <2>2
<1>7. QED
  BY <1>2, <1>4, <1>5, <1>6 DEF FreshInv

\* When the inputs change, nothing is claimed to be fresh.
LEMMA Reset ==
  ASSUME TypeOK, age' = 0, turn' = turn
  PROVE  FreshInv'
<1>1. turn = 0 \/ turn = 1 \/ turn = 2
  BY DEF TypeOK
<1>2. ~(age > LastRead(0))' /\ ~(age >= LastRead(1))' /\ ~(age > LastRead(2))'
  <2>1. CASE turn = 0
    BY <2>1 DEF LastRead
  <2>2. CASE turn = 1
    BY <2>2 DEF LastRead
  <2>3. CASE turn = 2
    BY <2>3 DEF LastRead
  <2>4. QED
    BY <1>1, <2>1, <2>2, <2>3
<1>3. ~(age >= 1)'
  OBVIOUS
<1>4. QED
  BY <1>2, <1>3 DEF FreshInv

LEMMA FreshStep == TypeOK /\ FreshInv /\ [Next]_vars => FreshInv'
<1> SUFFICES ASSUME TypeOK, FreshInv, [Next]_vars PROVE FreshInv'
  OBVIOUS
<1>1. CASE StatusTimer
  BY <1>1, FreshTick
<1>2. CASE ConfigInterrupt
  <2>1. PICK seen \in Seen : ReadConfig(seen)
    BY <1>2 DEF ConfigInterrupt, ReadSWCStatus
  <2>2. /\ hw' = hw /\ du' = du /\ turn' = turn /\ age' = age /\ rolled' = rolled
        /\ temp' = TempOf(seen.signals) /\ atb' = ATBOf(seen.signals)
    BY <1>2, <2>1 DEF ConfigInterrupt, ReadConfig
  <2>3. /\ twgs'.temp = temp' /\ twgs'.atb = atb' /\ twgs'.config = seen.config
        /\ twgs'.rolled = twgs.rolled /\ twgs'.du = twgs.du
    BY <2>1, RegisterWrites
  <2>4. CASE age = 0
    BY <2>2, <2>4, Reset
  <2>5. CASE age # 0
    <3>1. seen.config = hw.config /\ seen.signals = hw.signals
      BY <2>5, SeenTypes
    <3>2. QED
      BY <2>2, <2>3, <3>1 DEF FreshInv, LastRead, TempOf, ATBOf, RolledOf, BoardOf
  <2>6. QED
    BY <2>4, <2>5
<1>3. ASSUME NEW p \in Peers, SendReport(p) PROVE FreshInv'
  <2>1. PICK s \in RolledUp : Report(p, s)
    BY <1>3, ReportedValue
  <2>2. du'["ALPHA"] = du["ALPHA"]
    BY <2>1, PeerNames DEF Report, TypeOK
  <2>3. CASE du'["BETA"] = du["BETA"]
    <3>1. age' = age
      BY <2>1, <2>3 DEF Report, Aged
    <3>2. QED
      BY <2>1, <2>2, <2>3, <3>1 DEF Report, FreshInv, LastRead
  <2>4. CASE du'["BETA"] # du["BETA"]
    <3>1. age' = 0 /\ turn' = turn
      BY <2>1, <2>4 DEF Report, Aged
    <3>2. QED
      BY <3>1, Reset
  <2>5. QED
    BY <2>3, <2>4
<1>4. ASSUME NEW h \in HWStates, Change(h) PROVE FreshInv'
  BY <1>4, Reset DEF Change
<1>5. CASE UNCHANGED vars
  BY <1>5 DEF vars, FreshInv, LastRead
<1>6. QED
  BY <1>1, <1>2, <1>3, <1>4, <1>5 DEF Next

LEMMA FreshAlways == Spec => []FreshInv
BY TypeCorrect, FreshInit, FreshStep, PTL DEF Spec

LEMMA FreshShows == TypeOK /\ FreshInv => FieldsFollow
<1> SUFFICES ASSUME TypeOK, FreshInv, age = 5
             PROVE  /\ twgs.config = hw.config
                    /\ twgs.temp = TempOf(hw.signals)
                    /\ twgs.atb = ATBOf(hw.signals)
                    /\ \A g \in Groups : twgs.rolled[g] = RolledOf(hw.failed[g])
                    /\ twgs.du["ALPHA"] = BoardOf(hw.board)
                    /\ twgs.du["BETA"] = du["BETA"]
  BY DEF FieldsFollow, Settled
<1>1. LastRead(0) <= 3 /\ LastRead(1) <= 3 /\ LastRead(2) <= 3
  BY DEF LastRead, TypeOK
<1>2. age > LastRead(0) /\ age >= LastRead(1) /\ age > LastRead(2)
  BY <1>1 DEF LastRead, TypeOK
<1>3. QED
  BY <1>2 DEF FreshInv

\* Five ticks after the inputs changed last, every field of the TWGS register
\* shows its input, wherever the rotation stood (readSWCStatus).
THEOREM FieldsCorrect == Spec => []FieldsFollow
BY TypeCorrect, FreshAlways, FreshShows, PTL

LEMMA VerdictInit == Init => OverallFollows
BY DEF Init, OverallFollows, Settled

\* With fresh inputs, the verdict counts every input and no other.
LEMMA FreshVerdict ==
  ASSUME TypeOK, FreshInv, age >= 4
  PROVE  Verdict(hw.config) = "NO_GO" <=> BadInput
<1>1. /\ age \in 0 .. 5
      /\ LastRead(0) \in Nat /\ LastRead(0) <= 3
      /\ LastRead(1) \in Nat /\ LastRead(1) <= 3
  BY DEF LastRead, TypeOK, Settled
<1>2. age > LastRead(0) /\ age >= LastRead(1) /\ age >= 1
  BY <1>1
<1>3. /\ temp = TempOf(hw.signals) /\ atb = ATBOf(hw.signals)
      /\ \A g \in Groups : rolled[g] = RolledOf(hw.failed[g])
      /\ du["ALPHA"] = BoardOf(hw.board)
  BY <1>2 DEF FreshInv
<1>4. /\ temp = "GO" <=> "temp" \in hw.signals
      /\ atb = "GO" <=> {"bit0", "bit1"} \cap hw.signals # {}
  BY <1>3 DEF TempOf, ATBOf, HealthOf
<1>5. \A g \in Groups : rolled[g] # "RED" <=> ~(hw.failed[g] >= RedAt)
  BY <1>3 DEF RolledOf
<1>6. du["ALPHA"] # "RED" <=> "bitOk" \in hw.board /\ "overTemp" \notin hw.board
  BY <1>3 DEF BoardOf
<1>7. (\A g \in Groups : rolled[g] # "RED" /\ du[g] # "RED") <=>
        /\ \A g \in Groups : ~(hw.failed[g] >= RedAt)
        /\ "bitOk" \in hw.board /\ "overTemp" \notin hw.board
        /\ du["BETA"] # "RED"
  BY <1>5, <1>6 DEF Groups
<1>8. QED
  BY <1>4, <1>7 DEF Verdict, HealthOf, BadInput

LEMMA VerdictStep ==
  TypeOK /\ FreshInv /\ OverallFollows /\ [Next]_vars => OverallFollows'
<1> SUFFICES ASSUME TypeOK, FreshInv, OverallFollows, [Next]_vars, age' = 5
             PROVE  twgs'.overall = "NO_GO" <=> BadInput'
  BY DEF OverallFollows, Settled
<1>1. CASE StatusTimer
  <2>1. age >= 4 /\ du'["BETA"] = du["BETA"]
    BY <1>1, LastReadStep
  <2>2. twgs'.overall = Verdict(hw.config)
    BY <1>1, <2>1, ShareOfTurn, RegisterWrites, SeenTypes DEF StatusTimer, TypeOK
  <2>3. BadInput' <=> BadInput
    BY <1>1, <2>1 DEF StatusTimer, Tick, BadInput
  <2>4. QED
    BY <2>1, <2>2, <2>3, FreshVerdict
<1>2. CASE ConfigInterrupt
  <2>1. hw' = hw /\ du' = du /\ age' = age /\ \E seen \in Seen : ReadConfig(seen)
    BY <1>2 DEF ConfigInterrupt, ReadSWCStatus
  <2>2. twgs'.overall = Verdict(hw.config)
    BY <2>1, RegisterWrites, SeenTypes
  <2>3. BadInput' <=> BadInput
    BY <2>1 DEF BadInput
  <2>4. age >= 4
    BY <2>1
  <2>5. QED
    BY <2>2, <2>3, <2>4, FreshVerdict
<1>3. ASSUME NEW p \in Peers, SendReport(p)
      PROVE  twgs'.overall = "NO_GO" <=> BadInput'
  <2>1. PICK s \in RolledUp : Report(p, s)
    BY <1>3, ReportedValue
  <2>2. age = 5 /\ du'["BETA"] = du["BETA"] /\ hw' = hw /\ twgs' = twgs
    BY <2>1 DEF Report, Aged
  <2>3. BadInput' <=> BadInput
    BY <2>2 DEF BadInput
  <2>4. QED
    BY <2>2, <2>3 DEF OverallFollows, Settled
<1>4. ASSUME NEW h \in HWStates, Change(h)
      PROVE  FALSE
  BY <1>4 DEF Change
<1>5. CASE UNCHANGED vars
  BY <1>5 DEF vars, OverallFollows, Settled, BadInput
<1>6. QED
  BY <1>1, <1>2, <1>3, <1>4, <1>5 DEF Next

\* Whatever the inputs, thresholds and the order of ticks, interrupts and
\* reports: five ticks after the inputs changed last, the overall status is
\* NO_GO if and only if one of them is bad (readSWCStatus).
THEOREM OverallCorrect == Spec => []OverallFollows
BY TypeCorrect, FreshAlways, VerdictInit, VerdictStep, PTL DEF Spec

-----------------------------------------------------------------------------
(* StatusIO. *)

\* What a finished call has read is what SWCStatus may have seen.
LEMMA FinishSteps ==
  ASSUME TypeOK, IOInv, ~Resting, NEW signals \in Signals,
         age # 0 => signals = hw.signals, Finish(signals)
  PROVE  [Next]_vars
<1> DEFINE seen == [config |-> call.config, signals |-> signals]
<1>1. call \in Calls
  BY DEF IOInv, Resting, Idle
<1>2. seen \in Seen
  <2>1. call.config \in Configs /\ call.caller \in Callers
    BY <1>1 DEF Calls
  <2>2. age # 0 => call.config = hw.config
    BY DEF IOInv
  <2>3. QED
    BY <2>1, <2>2 DEF Seen
<1>3. ReadConfig(seen)
  BY DEF Finish
<1>4. ReadSWCStatus("CONFIG")
  BY <1>2, <1>3 DEF ReadSWCStatus
<1>5. CASE call.caller = "timer" /\ Tick
  <2>1. turn = 0
    BY <1>5 DEF IOInv
  <2>2. DataTypes[turn + 1] = "CONFIG"
    BY <2>1 DEF DataTypes
  <2>3. StatusTimer
    BY <1>4, <1>5, <2>2 DEF StatusTimer
  <2>4. QED
    BY <2>3 DEF Next
<1>6. CASE UNCHANGED <<hw, du, turn, missed, age, silence>>
  BY <1>4, <1>6 DEF Next, ConfigInterrupt
<1>7. QED
  BY <1>5, <1>6 DEF Finish

\* Every step is a step of SWCStatus or leaves its variables alone.
LEMMA IOStepSteps == TypeOK /\ IOInv /\ [IONext]_ioVars => [Next]_vars
<1> SUFFICES ASSUME TypeOK, IOInv, [IONext]_ioVars PROVE [Next]_vars
  OBVIOUS
<1>1. CASE BeginTimer \/ BeginInterrupt
  BY <1>1 DEF BeginTimer, BeginInterrupt, Begin
<1>2. CASE ConnectFails
  <2>1. CASE call.tries < ConnectRetries
    BY <1>2, <2>1 DEF ConnectFails
  <2>2. CASE ~(call.tries < ConnectRetries)
    <3>1. Finish(Unreachable) /\ ~Resting /\ Unreachable = hw.signals
      BY <1>2, <2>2 DEF ConnectFails, Resting, Reachable
    <3>2. QED
      BY <3>1, FinishSteps, IOAssumption
  <2>3. QED
    BY <2>1, <2>2
<1>3. CASE Connects \/ SendFails \/ Recovers
  BY <1>3 DEF Connects, SendFails, Recovers
<1>4. CASE ReadSucceeds
  <2>1. Finish(hw.signals) /\ ~Resting /\ hw.signals \in Signals
    BY <1>4 DEF ReadSucceeds, Resting, TypeOK, Signals
  <2>2. QED
    BY <2>1, FinishSteps
<1>5. CASE ReadFails
  <2>1. CASE call.reads < ReadRetries
    BY <1>5, <2>1 DEF ReadFails
  <2>2. CASE ~(call.reads < ReadRetries)
    <3>1. Finish(Unreachable) /\ ~Resting /\ ctx = "stale"
      BY <1>5, <2>2 DEF ReadFails, Resting
    <3>2. call.reads # 1
      BY <2>2, IOAssumption
    <3>3. age # 0 => Unreachable = hw.signals
      BY <3>1, <3>2 DEF IOInv, Reachable
    <3>4. QED
      BY <3>1, <3>3, FinishSteps, IOAssumption
  <2>3. QED
    BY <2>1, <2>2
<1>6. CASE OtherTimer
  <2>1. \/ turn = 1 /\ ReadRolledUp
        \/ turn = 2 /\ ReadDU
    BY <1>6 DEF OtherTimer
  <2>2. ReadSWCStatus(DataTypes[turn + 1])
    BY <2>1 DEF ReadSWCStatus, DataTypes
  <2>3. QED
    BY <1>6, <2>2 DEF OtherTimer, StatusTimer, Next
<1>7. ASSUME NEW p \in Peers, IOReport(p) PROVE [Next]_vars
  BY <1>7 DEF IOReport, Next
<1>8. ASSUME NEW h \in HWStates, IOChange(h) PROVE [Next]_vars
  BY <1>8 DEF IOChange, Next
<1>9. CASE Drop \/ UNCHANGED ioVars
  BY <1>9 DEF Drop, ioVars
<1>10. QED
  BY <1>1, <1>2, <1>3, <1>4, <1>5, <1>6, <1>7, <1>8, <1>9 DEF IONext, CallStep

LEMMA IOInvInit == IOInit => IOInv
BY IOAssumption DEF IOInit, IOInv, Idle, Resting, Reachable

\* Finishing a call leaves nothing to be said of it.
LEMMA IOInvFinish ==
  ASSUME call' = Idle, ctx' \in {"none", "live", "stale"}, ctx' = "live" => Reachable'
  PROVE  IOInv'
<1>1. call'.phase = "idle" /\ call' \in {Idle} \cup Calls
  BY DEF Idle
<1>2. QED
  BY <1>1 DEF IOInv, Resting

\* Starting and finishing handlers change neither the inputs nor, but for a
\* tick, how long they have been.
LEMMA FinishKeeps ==
  ASSUME NEW signals, Finish(signals)
  PROVE  hw' = hw /\ call' = Idle
BY DEF Finish, Tick

LEMMA IOInvStep == TypeOK /\ IOInv /\ [IONext]_ioVars => IOInv'
<1> SUFFICES ASSUME TypeOK, IOInv, [IONext]_ioVars PROVE IOInv'
  OBVIOUS
<1> USE IOAssumption
<1>0. Idle.phase = "idle" /\ \A c \in Calls : c.phase # "idle"
  BY DEF Idle, Calls
<1>1. ASSUME NEW caller \in Callers, Begin(caller), caller = "timer" => turn = 0
      PROVE  IOInv'
  <2>1. /\ hw' = hw /\ turn' = turn /\ age' = age /\ ctx' = ctx
        /\ call' = [phase |-> IF ctx = "none" THEN "connect" ELSE "read",
                    caller |-> caller, config |-> hw.config, reads |-> 1, tries |-> 1]
    BY <1>1 DEF Begin, Attempt, vars
  <2>2. hw.config \in Configs
    BY InputTypes DEF TypeOK
  <2>3. call' \in Calls
    BY <1>1, <2>1, <2>2 DEF Calls
  <2>4. /\ call'.phase = IF ctx = "none" THEN "connect" ELSE "read"
        /\ call'.caller = caller /\ call'.config = hw.config /\ call'.reads = 1
    BY <2>1
  <2>5. QED
    BY <1>1, <2>1, <2>3, <2>4 DEF IOInv, Reachable, Resting
<1>2. ASSUME ~Resting,
             NEW p \in {"connect", "read", "recover"},
             NEW n \in 1 .. ReadRetries, NEW t \in 1 .. ConnectRetries,
             call' = [call EXCEPT !.phase = p, !.reads = n, !.tries = t],
             UNCHANGED vars,
             ctx' \in {"none", "live", "stale"},
             ctx' = "live" => Reachable,
             p = "connect" => ctx' = "none",
             p = "read" => ctx' # "none",
             p = "recover" => ctx' = "stale",
             age # 0 /\ Reachable /\ ctx' = "stale" => n = 1
      PROVE  IOInv'
  <2>1. call \in Calls
    BY <1>0, <1>2 DEF IOInv, Resting
  <2>2. /\ call' \in Calls /\ call'.phase = p /\ call'.reads = n
        /\ call'.caller = call.caller /\ call'.config = call.config
    BY <1>2, <2>1 DEF Calls
  <2>3. hw' = hw /\ turn' = turn /\ age' = age
    BY <1>2 DEF vars
  <2>4. QED
    BY <1>2, <2>1, <2>2, <2>3 DEF IOInv, Reachable, Resting
<1>3. ~Resting => /\ call \in Calls
                  /\ call.reads \in 1 .. ReadRetries /\ call.tries \in 1 .. ConnectRetries
                  /\ call = [call EXCEPT !.phase = call.phase, !.reads = call.reads,
                                         !.tries = call.tries]
  BY <1>0 DEF IOInv, Resting, Calls
<1>4. CASE BeginTimer \/ BeginInterrupt
  BY <1>1, <1>4 DEF BeginTimer, BeginInterrupt, Callers
<1>5. CASE ConnectFails
  <2>1. ~Resting /\ ctx' = ctx /\ ctx = "none"
    BY <1>5 DEF ConnectFails, Resting, IOInv
  <2>2. CASE call.tries < ConnectRetries
    <3>1. UNCHANGED vars /\ call' = [call EXCEPT !.tries = call.tries + 1]
      BY <1>5, <2>2 DEF ConnectFails
    <3>2. call' = [call EXCEPT !.phase = "connect", !.reads = call.reads,
                               !.tries = call.tries + 1]
      BY <1>3, <1>5, <2>1, <3>1 DEF ConnectFails, Calls
    <3>3. call.tries + 1 \in 1 .. ConnectRetries /\ call.reads \in 1 .. ReadRetries
      BY <1>3, <2>1, <2>2
    <3>4. QED
      BY <1>2, <2>1, <3>1, <3>2, <3>3
  <2>3. CASE ~(call.tries < ConnectRetries)
    BY <1>5, <2>1, <2>3, FinishKeeps, IOInvFinish DEF ConnectFails
  <2>4. QED
    BY <2>2, <2>3
<1>6. CASE Connects \/ Recovers
  <2>1. /\ ~Resting /\ Reachable /\ ctx' = "live" /\ UNCHANGED vars
        /\ call' = [call EXCEPT !.phase = "read"]
    BY <1>6 DEF Connects, Recovers, Resting
  <2>2. call' = [call EXCEPT !.phase = "read", !.reads = call.reads, !.tries = call.tries]
    BY <1>3, <2>1 DEF Calls
  <2>3. QED
    BY <1>2, <1>3, <2>1, <2>2
<1>7. CASE SendFails
  <2>1. /\ ~Resting /\ ctx' = ctx /\ ctx = "stale" /\ UNCHANGED vars
        /\ call' = [call EXCEPT !.phase = "recover"]
    BY <1>7 DEF SendFails, Resting
  <2>2. call' = [call EXCEPT !.phase = "recover", !.reads = call.reads, !.tries = call.tries]
    BY <1>3, <2>1 DEF Calls
  <2>3. age # 0 /\ Reachable => call.reads = 1
    BY <2>1 DEF IOInv
  <2>4. QED
    BY <1>2, <1>3, <2>1, <2>2, <2>3
<1>8. CASE ReadSucceeds
  BY <1>8, FinishKeeps, IOInvFinish DEF ReadSucceeds, IOInv, Reachable
<1>9. CASE ReadFails
  <2>1. ~Resting /\ ctx' = "none"
    BY <1>9 DEF ReadFails, Resting
  <2>2. CASE call.reads < ReadRetries
    <3>1. /\ UNCHANGED vars
          /\ call' = [[call EXCEPT !.reads = call.reads + 1] EXCEPT
                        !.phase = IF ctx' = "none" THEN "connect" ELSE "read", !.tries = 1]
      BY <1>9, <2>2 DEF ReadFails, Attempt
    <3>2. call' = [call EXCEPT !.phase = "connect", !.reads = call.reads + 1, !.tries = 1]
      BY <1>3, <2>1, <3>1 DEF Calls
    <3>3. call.reads + 1 \in 1 .. ReadRetries /\ 1 \in 1 .. ConnectRetries
      BY <1>3, <2>1, <2>2
    <3>4. QED
      BY <1>2, <2>1, <3>1, <3>2, <3>3
  <2>3. CASE ~(call.reads < ReadRetries)
    BY <1>9, <2>1, <2>3, FinishKeeps, IOInvFinish DEF ReadFails
  <2>4. QED
    BY <2>2, <2>3
<1>10. CASE OtherTimer
  <2>1. Resting /\ ctx' = ctx /\ call' = call /\ hw' = hw
    BY <1>10 DEF OtherTimer, Tick
  <2>2. QED
    BY <1>0, <2>1 DEF IOInv, Resting, Reachable
<1>11. ASSUME NEW p \in Peers, IOReport(p) PROVE IOInv'
  <2>1. Resting /\ ctx' = ctx /\ call' = call /\ hw' = hw
    BY <1>11 DEF IOReport, SendReport, Report
  <2>2. QED
    BY <2>1 DEF IOInv, Resting, Reachable
<1>12. ASSUME NEW h \in HWStates, IOChange(h) PROVE IOInv'
  <2>1. /\ call' = call /\ age' = 0 /\ turn' = turn /\ hw' = h
        /\ ctx' = IF ctx = "live" /\ h.signals = Unreachable THEN "stale" ELSE ctx
    BY <1>12 DEF IOChange, Change
  <2>2. QED
    BY <2>1 DEF IOInv, Resting, Reachable
<1>13. CASE Drop
  <2>1. /\ call' = call /\ ctx' = "stale" /\ UNCHANGED vars /\ Resting
    BY <1>13 DEF Drop
  <2>2. QED
    BY <2>1 DEF IOInv, Resting, Reachable
<1>14. CASE UNCHANGED ioVars
  BY <1>14 DEF ioVars, vars, IOInv, Resting, Reachable
<1>15. QED
  BY <1>4, <1>5, <1>6, <1>7, <1>8, <1>9, <1>10, <1>11, <1>12, <1>13, <1>14
  DEF IONext, CallStep

\* With any number of attempts to connect and at least two to read, whatever
\* the module does: the handlers that block in readStatus implement the
\* aggregation in which a reading of inputs older than the last tick is exact.
THEOREM Implements == IOSpec => ImplementsStatus
<1>1. IOInit => Init
  BY DEF IOInit
<1>2. Init => TypeOK
  BY TypeInit
<1>3. TypeOK /\ IOInv /\ [IONext]_ioVars => TypeOK'
  BY IOStepSteps, TypeStep
<1>4. IOSpec => Init /\ [][Next]_vars
  BY <1>1, <1>2, <1>3, IOInvInit, IOInvStep, IOStepSteps, PTL DEF IOSpec
<1>5. QED
  BY <1>4 DEF ImplementsStatus, Spec

\* The state of the call and of the connection agree with the module and with
\* the age of the inputs (IOMHWMgr::readStatus, ensureConnected).
THEOREM CallCorrect == IOSpec => []IOInv
<1>1. TypeOK /\ IOInv /\ [IONext]_ioVars => TypeOK' /\ IOInv'
  BY IOStepSteps, TypeStep, IOInvStep
<1>2. IOInit => TypeOK /\ IOInv
  BY TypeInit, IOInvInit DEF IOInit
<1>3. QED
  BY <1>1, <1>2, PTL DEF IOSpec

\* Five ticks after the inputs changed last the TWGS register shows them and the
\* verdict on them, and silent peers are flagged in time, however the handlers
\* were held up by the I/O module.
THEOREM StatusCorrect ==
  IOSpec => [](OverallFollows /\ FieldsFollow /\ SilentFlagged /\ SilencePublished)
BY Implements, OverallCorrect, FieldsCorrect, Flagged, Published, PTL
   DEF ImplementsStatus

=============================================================================
