----------------------------- MODULE SWCStatus -----------------------------
(***************************************************************************)
(* The status aggregation of the alpha unit (DUA).                         *)
(*                                                                         *)
(* On each tick of the status timer DUA refreshes one third of what it     *)
(* knows, computes the overall status, and writes both to the register     *)
(* that the firmware sends to the TWGS.  The beta unit and the test unit   *)
(* report by UDP; a peer that stays silent is flagged.                     *)
(***************************************************************************)
EXTENDS Integers, FiniteSets

CONSTANTS
  Peers,     \* the reporting units: subset of {"BETA", "TU"}
  Limit,     \* ticks without a report that are tolerated; 5 in the code
  YellowAt,  \* SAP_YELLOW_OP_THRESHOLD
  RedAt,     \* SAP_RED_OP_THRESHOLD
  HWStates   \* what the inputs of DUA may be: the system configuration register
             \* (config), the inputs that the I/O module has on (signals), the
             \* number of NO_GO DCUs of each group (failed), the bits of the
             \* board status register (board)

Groups    == {"ALPHA", "BETA"}
BoardBits == {"bitOk", "ready", "highTemp", "overTemp"}

ASSUME StatusAssumption ==
  /\ Peers \subseteq {"BETA", "TU"}
  /\ Limit \in Nat
  /\ {YellowAt, RedAt} \subseteq Nat /\ YellowAt < RedAt
  /\ HWStates \subseteq
       [config : {"CONFIG_ERR", "SWCR", "SWC", "JOINT"},
        signals : SUBSET {"temp", "bit0", "bit1"},
        failed : [Groups -> Nat],
        board : SUBSET BoardBits]

Configs   == {h.config : h \in HWStates}
Signals   == {h.signals : h \in HWStates}
Boards    == {h.board : h \in HWStates}

Health    == {"GO", "NO_GO"}
RolledUp  == {"GREEN", "YELLOW", "RED"}
DUStatus  == RolledUp \cup {"ERROR"}
DataTypes == <<"CONFIG", "DCU_ROLLED_UP", "DU">>

VARIABLES
  hw,        \* external: the inputs that DUA reads
  temp,      \* _tempStatus
  atb,       \* _atbStatus
  rolled,    \* _alphaDCURolledUpStatus and _betaDCURolledUpStatus
  du,        \* _alphaDUStatus, _betaDUStatus and _tuStatus: overallStatus
  twgs,      \* the TWGS status register
  turn,      \* statusCounter of handlePreDcuStatusTimer
  missed,    \* _statusTimerExpiredBetweenReceivingStatusFromDUB and ...TU
  age,       \* history: ticks since hw or the status of DUB changed last, up to
             \* Settled
  silence    \* history: ticks since the peer's last report, up to Deaf

vars == <<hw, temp, atb, rolled, du, twgs, turn, missed, age, silence>>

Settled == 5
Deaf    == Limit + 5

AtMost(bound, n) == IF n > bound THEN bound ELSE n

-----------------------------------------------------------------------------
(* Pure functions of the inputs. *)

HealthOf(good) == IF good THEN "GO" ELSE "NO_GO"

\* What is left of an I/O module that cannot be reached, after all retries.
Unreachable == {}

\* getIOModuleStatus
TempOf(signals) == HealthOf("temp" \in signals)
ATBOf(signals)  == HealthOf({"bit0", "bit1"} \cap signals # {})

\* computeDCURolledUpStatus
RolledOf(count) ==
  IF count >= RedAt THEN "RED" ELSE IF count >= YellowAt THEN "YELLOW" ELSE "GREEN"

\* readDUStatus
BoardOf(bits) ==
  IF "bitOk" \notin bits \/ "overTemp" \in bits THEN "RED"
  ELSE IF "ready" \notin bits \/ "highTemp" \in bits THEN "YELLOW"
  ELSE "GREEN"

\* readTUStatus
TUBoardOf(bits) == BoardOf(bits)

-----------------------------------------------------------------------------
(* readSWCStatus: the overall status comes first, from what earlier calls   *)
(* have left; then this call's share of the inputs is refreshed.            *)

\* Mutant: the temperature does not count.
VerdictNoTemp(config) ==
  HealthOf(/\ config # "CONFIG_ERR"
           /\ \A g \in Groups : rolled[g] # "RED" /\ du[g] # "RED"
           /\ atb = "GO")

\* The supply voltages and the test unit do not count.
Verdict(config) ==
  HealthOf(/\ config # "CONFIG_ERR"
           /\ \A g \in Groups : rolled[g] # "RED" /\ du[g] # "RED"
           /\ temp = "GO"
           /\ atb = "GO")

\* Asking the I/O module takes the handler time, in which the inputs may change:
\* inputs that are older than the last tick are seen as they are, others as they
\* are, were, or may have been in between.
Seen ==
  IF age = 0 THEN [config : Configs, signals : Signals \cup {Unreachable}]
  ELSE {[config |-> hw.config, signals |-> hw.signals]}

\* Mutant: the I/O module is read after its bits have been written.
ReadConfigLate(seen) ==
  /\ temp' = TempOf(seen.signals)
  /\ atb' = ATBOf(seen.signals)
  /\ twgs' = [twgs EXCEPT !.overall = Verdict(seen.config), !.type = "CONFIG",
                          !.config = seen.config, !.temp = temp, !.atb = atb]
  /\ UNCHANGED rolled

ReadConfig(seen) ==
  /\ temp' = TempOf(seen.signals)
  /\ atb' = ATBOf(seen.signals)
  /\ twgs' = [twgs EXCEPT !.overall = Verdict(seen.config), !.type = "CONFIG",
                          !.config = seen.config, !.temp = temp', !.atb = atb']
  /\ UNCHANGED rolled

ReadRolledUp ==
  /\ rolled' = [g \in Groups |-> RolledOf(hw.failed[g])]
  /\ twgs' = [twgs EXCEPT !.overall = Verdict(hw.config),
                          !.type = "DCU_ROLLED_UP", !.rolled = rolled']
  /\ UNCHANGED <<temp, atb>>

ReadDU ==
  /\ twgs' = [twgs EXCEPT !.overall = Verdict(hw.config), !.type = "DU",
                          !.du = [g \in Groups |-> du[g]]]
  /\ UNCHANGED <<temp, atb, rolled>>

ReadSWCStatus(type) ==
  \/ type = "CONFIG" /\ \E seen \in Seen : ReadConfig(seen)
  \/ type = "DCU_ROLLED_UP" /\ ReadRolledUp
  \/ type = "DU" /\ ReadDU

-----------------------------------------------------------------------------
(* Event handlers. *)

\* A status of DUB other than before is a change of the inputs.
Aged(ticks) == IF du'["BETA"] # du["BETA"] THEN 0 ELSE ticks

Overdue(p) == missed[p] + 1 > Limit

\* Mutant: the counter of a peer is not reset by its report.
ReportUncounted(p, s) ==
  /\ du' = [du EXCEPT ![p] = s]
  /\ silence' = [silence EXCEPT ![p] = 0]
  /\ age' = Aged(age)
  /\ UNCHANGED <<hw, temp, atb, rolled, twgs, turn, missed>>

\* processLocalHWStatusMsg, a status report of DUB or TU.
Report(p, s) ==
  /\ du' = [du EXCEPT ![p] = s]
  /\ missed' = [missed EXCEPT ![p] = 0]
  /\ silence' = [silence EXCEPT ![p] = 0]
  /\ age' = Aged(age)
  /\ UNCHANGED <<hw, temp, atb, rolled, twgs, turn>>

\* The status timers of the peers: DUB and TU judge their board and send that.
SendReport(p) ==
  \E bits \in Boards :
    Report(p, IF p = "TU" THEN TUBoardOf(bits) ELSE BoardOf(bits))

\* Mutant: the rotation skips the DU status.
NextTurnShort == IF turn + 1 >= 2 THEN 0 ELSE turn + 1

NextTurn == IF turn + 1 >= 3 THEN 0 ELSE turn + 1

\* What handlePreDcuStatusTimer does after readSWCStatus.
Tick ==
  /\ turn' = NextTurn
  /\ du' = [u \in DOMAIN du |->
              IF u = "ALPHA" THEN BoardOf(hw.board)
              ELSE IF u \in Peers /\ Overdue(u) THEN "ERROR" ELSE du[u]]
  /\ missed' = [p \in Peers |-> IF Overdue(p) THEN 0 ELSE missed[p] + 1]
  /\ age' = Aged(AtMost(Settled, age + 1))
  /\ silence' = [p \in Peers |-> AtMost(Deaf, silence[p] + 1)]
  /\ UNCHANGED hw

\* handlePreDcuStatusTimer
StatusTimer == ReadSWCStatus(DataTypes[turn + 1]) /\ Tick

\* handleConfigInterruptRefresh
ConfigInterrupt ==
  /\ ReadSWCStatus("CONFIG")
  /\ UNCHANGED <<hw, du, turn, missed, age, silence>>

\* External: the inputs change.
Change(h) ==
  /\ h # hw
  /\ hw' = h
  /\ age' = 0
  /\ UNCHANGED <<temp, atb, rolled, du, twgs, turn, missed, silence>>

\* DUHWMgr::initialize ends with a first readSWCStatus(DATA_TYPE_CONFIG_STATUS)
\* on a cleared register, when everything known is still good; start then reads
\* the board status.
Init ==
  /\ hw \in HWStates
  /\ temp = TempOf(hw.signals)
  /\ atb = ATBOf(hw.signals)
  /\ rolled = [g \in Groups |-> "GREEN"]
  /\ du = [u \in Groups \cup {"TU"} |->
             IF u = "ALPHA" THEN BoardOf(hw.board) ELSE "GREEN"]
  /\ twgs = [overall |-> HealthOf(hw.config # "CONFIG_ERR"), type |-> "CONFIG",
             config |-> hw.config, temp |-> temp, atb |-> atb,
             rolled |-> rolled, du |-> [g \in Groups |-> "GREEN"]]
  /\ turn = 0
  /\ missed = [p \in Peers |-> 0]
  /\ age = 0
  /\ silence = [p \in Peers |-> 0]

Next ==
  \/ StatusTimer
  \/ ConfigInterrupt
  \/ \E p \in Peers : SendReport(p)
  \/ \E h \in HWStates : Change(h)

Spec == Init /\ [][Next]_vars

-----------------------------------------------------------------------------
(* Properties. *)

\* Every variable holds what the code can put there; the counters of silent
\* ticks wrap at Limit.
TypeOK ==
  /\ hw \in HWStates
  /\ {temp, atb} \subseteq Health
  /\ rolled \in [Groups -> RolledUp]
  /\ du \in [Groups \cup {"TU"} -> DUStatus]
  /\ twgs \in [overall : Health, type : {"CONFIG", "DCU_ROLLED_UP", "DU"},
               config : Configs, temp : Health, atb : Health,
               rolled : [Groups -> RolledUp], du : [Groups -> DUStatus]]
  /\ turn \in 0 .. 2
  /\ missed \in [Peers -> 0 .. Limit]
  /\ age \in 0 .. Settled
  /\ silence \in [Peers -> 0 .. Deaf]

BadInput ==
  \/ hw.config = "CONFIG_ERR"
  \/ "temp" \notin hw.signals
  \/ {"bit0", "bit1"} \cap hw.signals = {}
  \/ \E g \in Groups : hw.failed[g] >= RedAt
  \/ "bitOk" \notin hw.board
  \/ "overTemp" \in hw.board
  \/ du["BETA"] = "RED"

\* Inputs that have not changed for Settled ticks are all counted in the
\* overall status on the register, and nothing else is: no fault is held up
\* longer by the rotation, and none outlives its cause.
OverallFollows == age = Settled => (twgs.overall = "NO_GO" <=> BadInput)

\* By then the register also shows each input as it is.
FieldsFollow ==
  age = Settled =>
    /\ twgs.config = hw.config
    /\ twgs.temp = TempOf(hw.signals)
    /\ twgs.atb = ATBOf(hw.signals)
    /\ \A g \in Groups : twgs.rolled[g] = RolledOf(hw.failed[g])
    /\ twgs.du["ALPHA"] = BoardOf(hw.board)
    /\ twgs.du["BETA"] = du["BETA"]

\* A peer is flagged as long as it has been silent for more than Limit ticks,
\* and only then.
SilentFlagged ==
  \A p \in Peers : du[p] = "ERROR" <=> silence[p] > Limit

\* Three ticks later at most, the TWGS sees a silent beta unit.
SilencePublished ==
  "BETA" \in Peers /\ silence["BETA"] > Limit + 3 => twgs.du["BETA"] = "ERROR"

-----------------------------------------------------------------------------
(* What the invariants above need, to be inductive. *)

\* Up to the limit, the counter of the code is the silence of the peer.
CountInv ==
  \A p \in Peers :
    IF silence[p] > Limit THEN du[p] = "ERROR"
    ELSE missed[p] = silence[p] /\ du[p] # "ERROR"

\* The rotation reaches the DU status within three ticks of the flag.
PublishInv ==
  "BETA" \in Peers /\ silence["BETA"] > Limit =>
    \/ twgs.du["BETA"] = "ERROR"
    \/ silence["BETA"] = Limit + 1
    \/ silence["BETA"] = Limit + 2 /\ turn # 0
    \/ silence["BETA"] = Limit + 3 /\ turn = 2

\* How many ticks ago the rotation had its turn t.
LastRead(t) == IF turn > t THEN turn - t ELSE turn + 3 - t

\* What has been read since the inputs changed is what they are.
FreshInv ==
  /\ age > LastRead(0) =>
       /\ temp = TempOf(hw.signals) /\ twgs.temp = TempOf(hw.signals)
       /\ atb = ATBOf(hw.signals) /\ twgs.atb = ATBOf(hw.signals)
       /\ twgs.config = hw.config
  /\ age >= LastRead(1) => \A g \in Groups :
       rolled[g] = RolledOf(hw.failed[g]) /\ twgs.rolled[g] = RolledOf(hw.failed[g])
  /\ age >= 1 => du["ALPHA"] = BoardOf(hw.board)
  /\ age > LastRead(2) =>
       twgs.du["ALPHA"] = BoardOf(hw.board) /\ twgs.du["BETA"] = du["BETA"]

=============================================================================
