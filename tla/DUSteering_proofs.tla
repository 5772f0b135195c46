------------------------- MODULE DUSteering_proofs -------------------------
(***************************************************************************)
(* Proofs about DUSteering, for either unit, with and without the test     *)
(* mode, any angles and any number of crashes.                             *)
(*                                                                         *)
(* A register field and a steering word are cells; a write and a latch     *)
(* assign cells.  The invariant speaks of the accesses that the running    *)
(* handler has still to make: what the last assignment of a cell leaves    *)
(* there, what a cell holds that none of them assigns, and what stands in  *)
(* the cells when the trigger fires.                                       *)
(***************************************************************************)
EXTENDS DUSteering, TLAPS

Fields == {"force", "src", "valid", "dcuCmd", "trigger", "swc", "olte"}

Width == [force |-> {"NORMAL", "TEST"}, src |-> {"Analog", "Digital"},
          valid |-> {"VALID", "INVALID"},
          dcuCmd |-> {"NONE", "BORESIGHT", "CALIBRATION"}, trigger |-> {0, 1},
          swc |-> {"ONLINE", "OFFLINE"}, olte |-> {"ONLINE", "OFFLINE"}]

Contents == UNION {Width[x] : x \in Fields}

\* What an access writes: some of the fields, each within its width.
Partial == {f \in UNION {[D -> Contents] : D \in SUBSET Fields} :
              \A x \in DOMAIN f : f[x] \in Width[x]}

Units   == {"ALPHA", "BETA"}
Writes  == {Write(f) : f \in Partial}
Latches == {Latch(u, a) : u \in Units, a \in Angles}
Access  == Writes \cup Latches \cup {Refresh, Consume, AnalogIfOnline, Listen}

Assigns(a, x) == \/ a.op = "write" /\ x \in DOMAIN a.fields
                 \/ a.op = "latch" /\ x = a.unit
Given(a, x)   == IF a.op = "write" THEN a.fields[x] ELSE a.angle
Cell(x)       == IF x \in Units THEN ksine[x] ELSE brd[x]

Fires(a) == a.op = "write" /\ "trigger" \in DOMAIN a.fields /\ a.fields["trigger"] = 1
Release  == Write([trigger |-> 0])

\* The handlers end with the register at rest.
Rest == [force |-> ForceMode, src |-> "Analog", valid |-> "VALID", trigger |-> 0]

EndsAtRest(p) ==
  \A x \in DOMAIN Rest : \A i \in DOMAIN p :
    Assigns(p[i], x) /\ (\A j \in DOMAIN p : j > i => ~Assigns(p[j], x))
      => Given(p[i], x) = Rest[x]

\* What cell x must hold when the trigger fires for command j.
Used == Units \cup {"valid", "dcuCmd"}

Required(x, v, j) ==
  /\ x = "ALPHA" => v = j.alpha
  /\ x = "BETA"  => v = j.beta
  /\ x = "valid" => (v = "INVALID" <=> "On" \in {j.RLCP, j.RLSC})
  /\ x = "dcuCmd" /\ j.RLSC = "On" => v = "CALIBRATION"
  /\ x = "dcuCmd" /\ j.RLSC = "Off" /\ j.RLCP = "On" => v = "BORESIGHT"

StageInv ==
  /\ todo \in Seq(Access)
  /\ ~up => todo = <<>> /\ ~listening
  /\ up /\ ~listening => \E i \in DOMAIN todo : todo[i] = Listen
  /\ \A i \in DOMAIN todo : todo[i] = Listen => ~listening /\ i = Len(todo)

\* What is left of a handler brings every cell to rest.
RestInv ==
  up => /\ EndsAtRest(todo)
        /\ \A x \in DOMAIN Rest :
             (\A i \in DOMAIN todo : ~Assigns(todo[i], x)) => Cell(x) = Rest[x]

\* An access that will fire the trigger finds what the command asks for.
FireInv ==
  listening => \A i \in DOMAIN todo : Fires(todo[i]) =>
    /\ i + 1 \in DOMAIN todo /\ todo[i + 1] = Release
    /\ \A x \in Used :
         /\ (\A k \in 1 .. i : ~Assigns(todo[k], x)) => Required(x, Cell(x), job)
         /\ \A k \in 1 .. i :
              /\ Assigns(todo[k], x)
              /\ \A m \in 1 .. i : m > k => ~Assigns(todo[m], x)
              => Required(x, Given(todo[k], x), job)

FiredInv ==
  Triggered => /\ todo # <<>> /\ Head(todo) = Release
               /\ \A x \in Used : Required(x, Cell(x), job)

\* A command that will fire was accepted, and reads no modes on its way.
OfflineInv ==
  /\ listening => \A i \in DOMAIN todo : Fires(todo[i]) =>
       \A k \in DOMAIN todo : todo[k].op \in {"write", "latch"}
  /\ listening /\ (brd["trigger"] = 1 \/ \E i \in DOMAIN todo : Fires(todo[i])) =>
       ForceTest \/ Offline(hwMode) \/ pending \/ lost

\* Modes that may be stale will be read.
Known == modes = hwMode /\ brd["swc"] = hwMode["swc"] /\ brd["olte"] = hwMode["olte"]

Forgets(a) == a = Consume \/ Assigns(a, "swc") \/ Assigns(a, "olte")

RefreshesAfterForgetting(p) ==
  \A i \in DOMAIN p : Forgets(p[i]) => \E j \in DOMAIN p : j > i /\ p[j] = Refresh

ModesInv ==
  up => /\ RefreshesAfterForgetting(todo)
        /\ pending \/ lost \/ Known \/ \E j \in DOMAIN todo : todo[j] = Refresh

BaseInv == TypeOK /\ StageInv /\ RestInv
IInv == BaseInv /\ FireInv /\ FiredInv
AlphaInv == ModesInv /\ OfflineInv

-----------------------------------------------------------------------------
(* The register. *)

\* A board is a function from the fields to contents within their widths.
LEMMA BoardFields ==
  ASSUME NEW b
  PROVE  b \in Boards <=> /\ b \in [Fields -> Contents]
                          /\ \A x \in Fields : b[x] \in Width[x]
<1>1. ASSUME b \in Boards
      PROVE  b = [x \in Fields |-> b[x]] /\ \A x \in Fields : b[x] \in Width[x]
  <2>1. b = [x \in Fields |-> b[x]]
    BY <1>1 DEF Boards, Fields
  <2>2. \A x \in Fields : b[x] \in Width[x]
    BY <1>1 DEF Boards, Fields, Width
  <2>3. QED
    BY <2>1, <2>2
<1>2. ASSUME b \in [Fields -> Contents], \A x \in Fields : b[x] \in Width[x]
      PROVE  b \in Boards
  <2>1. b = [force |-> b["force"], src |-> b["src"], valid |-> b["valid"],
             dcuCmd |-> b["dcuCmd"], trigger |-> b["trigger"], swc |-> b["swc"],
             olte |-> b["olte"]]
    BY <1>2 DEF Fields
  <2>2. QED
    BY <1>2, <2>1 DEF Boards, Fields, Width
<1>3. QED
  BY <1>1, <1>2 DEF Contents

\* Writing some fields of a board gives a board, and leaves the others alone.
LEMMA Updated ==
  ASSUME NEW f \in Partial, NEW b \in Boards
  PROVE  /\ UpdateReg(f, b) \in Boards
         /\ \A x \in Fields :
              UpdateReg(f, b)[x] = IF x \in DOMAIN f THEN f[x] ELSE b[x]
<1>1. b \in [Fields -> Contents] /\ \A x \in Fields : b[x] \in Width[x]
  BY BoardFields
<1>2. DOMAIN f \subseteq Fields /\ \A x \in DOMAIN f : f[x] \in Width[x]
  BY DEF Partial
<1>3. UpdateReg(f, b) = [x \in Fields |-> IF x \in DOMAIN f THEN f[x] ELSE b[x]]
  BY <1>1 DEF UpdateReg
<1>4. QED
  BY <1>1, <1>2, <1>3, BoardFields DEF Contents

LEMMA ModesPartial == \A m \in Modes : m \in Partial /\ DOMAIN m = {"swc", "olte"}
BY DEF Modes, Partial, Contents, Fields, Width

-----------------------------------------------------------------------------
(* One access. *)

\* The accesses that remain after the first one.
LEMMA Remain ==
  ASSUME todo \in Seq(Access), todo # <<>>, todo' = Tail(todo)
  PROVE  /\ todo' \in Seq(Access)
         /\ 1 \in DOMAIN todo /\ Head(todo) = todo[1] /\ todo[1] \in Access
         /\ \A i \in DOMAIN todo' : i \in Nat /\ i > 0 /\ i + 1 \in DOMAIN todo /\ todo'[i] = todo[i + 1]
         /\ \A i \in DOMAIN todo : i \in Nat /\ (i = 1 \/ (i > 1 /\ i - 1 \in DOMAIN todo' /\ todo[i] = todo'[i - 1]))
         /\ Len(todo) \in Nat /\ Len(todo') = Len(todo) - 1
OBVIOUS

\* An access assigns its cells; of the others it changes only the modes and, to
\* what it is at rest, the source.
LEMMA AccessCell ==
  ASSUME TypeOK, StageInv, Step, NEW x \in Units \cup Fields
  PROVE  /\ Assigns(todo[1], x) => Cell(x)' = Given(todo[1], x)
         /\ ~Assigns(todo[1], x) =>
              \/ Cell(x)' = Cell(x)
              \/ x \in {"swc", "olte"} /\ todo[1] = Refresh
              \/ x = "src" /\ Cell(x)' = "Analog"
<1>1. /\ todo # <<>> /\ Execute(todo[1]) /\ todo[1] \in Access
      /\ brd \in Boards /\ hwMode \in Modes
  BY Remain DEF StageInv, Step, TypeOK
<1>2. x \in Units <=> x \notin Fields
  BY DEF Units, Fields
<1>3. CASE todo[1] \in Writes
  <2>1. PICK f \in Partial : todo[1] = Write(f)
    BY <1>3 DEF Writes
  <2>2. brd' = UpdateReg(f, brd) /\ ksine' = ksine
    BY <1>1, <2>1 DEF Execute, Write
  <2>3. DOMAIN f \subseteq Fields
    BY DEF Partial
  <2>4. x \in Fields => brd'[x] = IF x \in DOMAIN f THEN f[x] ELSE brd[x]
    BY <1>1, <2>2, Updated
  <2>5. Assigns(todo[1], x) <=> x \in DOMAIN f
    BY <2>1 DEF Assigns, Write
  <2>6. Given(todo[1], x) = f[x]
    BY <2>1 DEF Given, Write
  <2>7. QED
    BY <1>2, <2>2, <2>3, <2>4, <2>5, <2>6 DEF Cell
<1>4. CASE todo[1] \in Latches
  <2>1. PICK u \in Units, a \in Angles : todo[1] = Latch(u, a)
    BY <1>4 DEF Latches
  <2>2. brd' = brd /\ ksine' = [ksine EXCEPT ![u] = a]
    BY <1>1, <2>1 DEF Execute, Latch
  <2>3. /\ Assigns(todo[1], x) <=> x = u
        /\ Given(todo[1], x) = a
    BY <2>1 DEF Assigns, Given, Latch
  <2>4. QED
    BY <1>2, <2>2, <2>3 DEF Cell, TypeOK, Units
<1>5. CASE todo[1] = Refresh
  <2>1. brd' = UpdateReg(hwMode, brd) /\ ksine' = ksine /\ ~Assigns(todo[1], x)
    BY <1>1, <1>5 DEF Execute, Refresh, Assigns
  <2>2. x \in Fields => brd'[x] = IF x \in {"swc", "olte"} THEN hwMode[x] ELSE brd[x]
    BY <1>1, <2>1, Updated, ModesPartial
  <2>3. QED
    BY <1>2, <1>5, <2>1, <2>2 DEF Cell
<1>6. CASE todo[1] = AnalogIfOnline
  <2>1. /\ brd' = IF modes.swc = "ONLINE" THEN [brd EXCEPT !.src = "Analog"] ELSE brd
        /\ ksine' = ksine /\ ~Assigns(todo[1], x)
    BY <1>1, <1>6 DEF Execute, AnalogIfOnline, Assigns
  <2>2. brd \in [Fields -> Contents]
    BY <1>1, BoardFields
  <2>3. x \in Fields => (brd'[x] = brd[x] \/ (x = "src" /\ brd'[x] = "Analog"))
    BY <2>1, <2>2 DEF Fields
  <2>4. QED
    BY <1>2, <2>1, <2>3 DEF Cell
<1>7. CASE todo[1] \in {Consume, Listen}
  <2>1. brd' = brd /\ ksine' = ksine /\ ~Assigns(todo[1], x)
    BY <1>1, <1>7 DEF Execute, Consume, Listen, Assigns
  <2>2. QED
    BY <2>1 DEF Cell
<1>8. QED
  BY <1>1, <1>3, <1>4, <1>5, <1>6, <1>7 DEF Access

LEMMA StepType == TypeOK /\ StageInv /\ Step => TypeOK'
<1> SUFFICES ASSUME TypeOK, StageInv, Step PROVE TypeOK'
  OBVIOUS
<1>1. /\ todo # <<>> /\ Execute(todo[1]) /\ todo[1] \in Access
      /\ up /\ UNCHANGED <<hwMode, up, crashes, job>>
  BY Remain DEF StageInv, Step, TypeOK
<1>2. CASE todo[1] \in Writes
  <2>1. PICK f \in Partial : todo[1] = Write(f)
    BY <1>2 DEF Writes
  <2>2. brd' = UpdateReg(f, brd) /\ UNCHANGED <<ksine, modes, pending, listening, lost>>
    BY <1>1, <2>1 DEF Execute, Write
  <2>3. brd' \in Boards
    BY <2>2, Updated DEF TypeOK
  <2>4. QED
    BY <1>1, <2>2, <2>3 DEF TypeOK
<1>3. CASE todo[1] \in Latches
  <2>1. PICK u \in Units, a \in Angles : todo[1] = Latch(u, a)
    BY <1>3 DEF Latches
  <2>2. ksine' = [ksine EXCEPT ![u] = a] /\ UNCHANGED <<brd, modes, pending, listening, lost>>
    BY <1>1, <2>1 DEF Execute, Latch
  <2>3. ksine' \in [{"ALPHA", "BETA"} -> Angles]
    BY <2>2 DEF TypeOK, Units
  <2>4. QED
    BY <1>1, <2>2, <2>3 DEF TypeOK
<1>4. CASE todo[1] = Refresh
  <2>1. /\ modes' = hwMode /\ brd' = UpdateReg(hwMode, brd) /\ lost' = FALSE
        /\ UNCHANGED <<ksine, pending, listening>>
    BY <1>1, <1>4 DEF Execute, Refresh
  <2>2. brd' \in Boards
    BY <2>1, Updated, ModesPartial DEF TypeOK
  <2>3. QED
    BY <1>1, <2>1, <2>2 DEF TypeOK
<1>5. CASE todo[1] = AnalogIfOnline
  <2>1. /\ brd' = IF modes.swc = "ONLINE" THEN [brd EXCEPT !.src = "Analog"] ELSE brd
        /\ UNCHANGED <<ksine, modes, pending, listening, lost>>
    BY <1>1, <1>5 DEF Execute, AnalogIfOnline
  <2>2. [brd EXCEPT !.src = "Analog"] \in Boards
    BY DEF TypeOK, Boards
  <2>3. brd' \in Boards
    BY <2>1, <2>2 DEF TypeOK
  <2>4. QED
    BY <1>1, <2>1, <2>3 DEF TypeOK
<1>6. CASE todo[1] = Consume
  <2>1. pending' = FALSE /\ UNCHANGED <<brd, ksine, modes, listening, lost>>
    BY <1>1, <1>6 DEF Execute, Consume
  <2>2. QED
    BY <1>1, <2>1 DEF TypeOK
<1>7. CASE todo[1] = Listen
  <2>1. listening' = TRUE /\ UNCHANGED <<brd, ksine, modes, pending, lost>>
    BY <1>1, <1>7 DEF Execute, Listen
  <2>2. QED
    BY <1>1, <2>1 DEF TypeOK
<1>8. QED
  BY <1>1, <1>2, <1>3, <1>4, <1>5, <1>6, <1>7 DEF Access

\* What an access does to the control: the device opens, the interrupt is
\* consumed, the modes are read.
LEMMA AccessControl ==
  ASSUME TypeOK, StageInv, Step
  PROVE  /\ listening' <=> listening \/ todo[1] = Listen
         /\ IF todo[1] = Refresh THEN modes' = hwMode /\ lost' = FALSE
                                 ELSE modes' = modes /\ lost' = lost
         /\ pending' <=> pending /\ todo[1] # Consume
<1>1. /\ todo # <<>> /\ Execute(todo[1]) /\ todo[1] \in Access
      /\ {pending, listening, lost} \subseteq BOOLEAN
  BY Remain DEF StageInv, Step, TypeOK
<1>2. CASE todo[1] \in Writes
  BY <1>1, <1>2 DEF Writes, Write, Execute, Refresh, Consume, Listen
<1>3. CASE todo[1] \in Latches
  BY <1>1, <1>3 DEF Latches, Latch, Execute, Refresh, Consume, Listen
<1>4. CASE todo[1] \in {Refresh, AnalogIfOnline}
  BY <1>1, <1>4 DEF Execute, Refresh, Consume, Listen, AnalogIfOnline
<1>5. CASE todo[1] = Consume
  <2>1. pending' = FALSE /\ UNCHANGED <<modes, lost, listening>>
    BY <1>1, <1>5 DEF Execute, Consume
  <2>2. QED
    BY <1>5, <2>1 DEF Consume, Refresh, Listen
<1>6. CASE todo[1] = Listen
  <2>1. listening' = TRUE /\ UNCHANGED <<modes, lost, pending>>
    BY <1>1, <1>6 DEF Execute, Listen
  <2>2. QED
    BY <1>6, <2>1 DEF Consume, Refresh, Listen
<1>7. QED
  BY <1>1, <1>2, <1>3, <1>4, <1>5, <1>6 DEF Access

LEMMA StepStage == TypeOK /\ StageInv /\ Step => StageInv'
<1> SUFFICES ASSUME TypeOK, StageInv, Step PROVE StageInv'
  OBVIOUS
<1>1. /\ todo # <<>> /\ todo \in Seq(Access) /\ todo' = Tail(todo)
      /\ up' = up /\ up /\ (listening' <=> listening \/ todo[1] = Listen)
  BY AccessControl DEF StageInv, Step
<1>2. todo' \in Seq(Access)
  BY <1>1, Remain
<1>3. ASSUME ~listening' PROVE \E i \in DOMAIN todo' : todo'[i] = Listen
  <2>1. PICK i \in DOMAIN todo : todo[i] = Listen
    BY <1>1, <1>3 DEF StageInv
  <2>2. i # 1
    BY <1>1, <1>3, <2>1
  <2>3. QED
    BY <1>1, <2>1, <2>2, Remain
<1>4. ASSUME NEW i \in DOMAIN todo', todo'[i] = Listen
      PROVE  ~listening' /\ i = Len(todo')
  <2>1. i + 1 \in DOMAIN todo /\ todo[i + 1] = Listen /\ i \in Nat /\ i > 0
    BY <1>1, <1>4, Remain
  <2>2. ~listening /\ i + 1 = Len(todo)
    BY <2>1 DEF StageInv
  <2>3. todo[1] # Listen
    <3>1. 1 # Len(todo) /\ 1 \in DOMAIN todo
      BY <1>1, <2>1, <2>2, Remain
    <3>2. QED
      BY <3>1 DEF StageInv
  <2>4. Len(todo') = Len(todo) - 1 /\ Len(todo) \in Nat
    BY <1>1, Remain
  <2>5. i = Len(todo')
    BY <2>1, <2>2, <2>4
  <2>6. QED
    BY <1>1, <2>2, <2>3, <2>5
<1>5. QED
  BY <1>1, <1>2, <1>3, <1>4 DEF StageInv

LEMMA StepRest == TypeOK /\ StageInv /\ RestInv /\ Step => RestInv'
<1> SUFFICES ASSUME TypeOK, StageInv, RestInv, Step PROVE RestInv'
  OBVIOUS
<1>1. /\ todo # <<>> /\ todo \in Seq(Access) /\ todo' = Tail(todo) /\ up
  BY DEF StageInv, Step
<1>2. EndsAtRest(todo')
  <2> SUFFICES ASSUME NEW x \in DOMAIN Rest, NEW i \in DOMAIN todo', Assigns(todo'[i], x),
                      \A j \in DOMAIN todo' : j > i => ~Assigns(todo'[j], x)
               PROVE  Given(todo'[i], x) = Rest[x]
    BY DEF EndsAtRest
  <2>1. i + 1 \in DOMAIN todo /\ todo'[i] = todo[i + 1] /\ i \in Nat /\ i > 0
    BY <1>1, Remain
  <2>2. ASSUME NEW j \in DOMAIN todo, j > i + 1 PROVE ~Assigns(todo[j], x)
    <3>1. j \in Nat /\ j - 1 \in DOMAIN todo' /\ todo[j] = todo'[j - 1]
      BY <1>1, <2>1, <2>2, Remain
    <3>2. QED
      BY <2>1, <2>2, <3>1
  <2>3. QED
    BY <1>1, <2>1, <2>2 DEF RestInv, EndsAtRest
<1>3. ASSUME NEW x \in DOMAIN Rest, \A i \in DOMAIN todo' : ~Assigns(todo'[i], x)
      PROVE  Cell(x)' = Rest[x]
  <2>1. x \in Units \cup Fields /\ x \notin {"swc", "olte"} /\ (x = "src" => Rest[x] = "Analog")
    BY DEF Rest, Fields
  <2>2. \A i \in DOMAIN todo : i > 1 => ~Assigns(todo[i], x)
    BY <1>1, <1>3, Remain
  <2>3. CASE Assigns(todo[1], x)
    <3>1. Given(todo[1], x) = Rest[x]
      BY <1>1, <2>2, <2>3, Remain DEF RestInv, EndsAtRest
    <3>2. QED
      BY <2>1, <2>3, <3>1, AccessCell
  <2>4. CASE ~Assigns(todo[1], x)
    <3>1. Cell(x) = Rest[x]
      <4>1. \A i \in DOMAIN todo : ~Assigns(todo[i], x)
        BY <1>1, <2>2, <2>4, Remain
      <4>2. QED
        BY <1>1, <4>1 DEF RestInv
    <3>2. QED
      BY <2>1, <2>4, <3>1, AccessCell
  <2>5. QED
    BY <2>3, <2>4
<1>4. QED
  BY <1>2, <1>3 DEF RestInv

\* The device is opened by the last access, so nothing fires before.
LEMMA StillListening ==
  ASSUME TypeOK, StageInv, Step, listening'
  PROVE  listening \/ todo' = <<>>
<1>1. /\ todo # <<>> /\ todo \in Seq(Access) /\ todo' = Tail(todo)
  BY DEF StageInv, Step
<1>2. CASE todo[1] = Listen
  <2>1. 1 = Len(todo)
    BY <1>1, <1>2, Remain DEF StageInv
  <2>2. QED
    BY <1>1, <2>1
<1>3. QED
  BY <1>2, AccessControl

LEMMA StepFire == TypeOK /\ StageInv /\ FireInv /\ Step => FireInv'
<1> SUFFICES ASSUME TypeOK, StageInv, FireInv, Step, listening',
                    NEW i \in DOMAIN todo', Fires(todo'[i])
             PROVE  /\ i + 1 \in DOMAIN todo' /\ todo'[i + 1] = Release
                    /\ \A x \in Used :
                         /\ (\A k \in 1 .. i : ~Assigns(todo'[k], x)) =>
                              Required(x, Cell(x)', job')
                         /\ \A k \in 1 .. i :
                              /\ Assigns(todo'[k], x)
                              /\ \A m \in 1 .. i : m > k => ~Assigns(todo'[m], x)
                              => Required(x, Given(todo'[k], x), job')
  BY DEF FireInv, Cell
<1>1. /\ todo # <<>> /\ todo \in Seq(Access) /\ todo' = Tail(todo) /\ job' = job
  BY DEF StageInv, Step
<1>2. /\ i + 1 \in DOMAIN todo /\ todo'[i] = todo[i + 1] /\ i \in Nat /\ i > 0
      /\ listening
  BY <1>1, Remain, StillListening
<1>3. /\ i + 2 \in DOMAIN todo /\ todo[i + 2] = Release
      /\ \A x \in Used :
           /\ (\A k \in 1 .. i + 1 : ~Assigns(todo[k], x)) => Required(x, Cell(x), job)
           /\ \A k \in 1 .. i + 1 :
                /\ Assigns(todo[k], x)
                /\ \A m \in 1 .. i + 1 : m > k => ~Assigns(todo[m], x)
                => Required(x, Given(todo[k], x), job)
  <2>1. i + 1 + 1 = i + 2
    BY <1>2
  <2>2. QED
    BY <1>2, <2>1 DEF FireInv
<1>4. /\ i + 1 \in DOMAIN todo' /\ todo'[i + 1] = Release
  <2>1. i + 2 # 1 /\ i + 2 - 1 = i + 1
    BY <1>2
  <2>2. QED
    BY <1>1, <1>3, <2>1, Remain
<1>5. \A k \in 1 .. i : k + 1 \in 2 .. i + 1 /\ todo'[k] = todo[k + 1]
  BY <1>1, <1>2, Remain
<1>6. \A k \in 2 .. i + 1 : k - 1 \in 1 .. i /\ todo[k] = todo'[k - 1]
  BY <1>2, <1>5
<1>7. ASSUME NEW x \in Used, \A k \in 1 .. i : ~Assigns(todo'[k], x)
      PROVE  Required(x, Cell(x)', job')
  <2>1. \A k \in 2 .. i + 1 : ~Assigns(todo[k], x)
    BY <1>6, <1>7
  <2>2. 1 \in 1 .. i + 1 /\ \A k \in 1 .. i + 1 : k = 1 \/ k \in 2 .. i + 1
    BY <1>2
  <2>3. x \in Units \cup Fields /\ x \notin {"swc", "olte", "src"}
    BY DEF Used, Units, Fields
  <2>4. CASE Assigns(todo[1], x)
    <3>1. Required(x, Given(todo[1], x), job)
      BY <1>3, <2>1, <2>2, <2>4
    <3>2. QED
      BY <1>1, <2>3, <2>4, <3>1, AccessCell
  <2>5. CASE ~Assigns(todo[1], x)
    <3>1. Required(x, Cell(x), job)
      BY <1>3, <2>1, <2>2, <2>5
    <3>2. QED
      BY <1>1, <2>3, <2>5, <3>1, AccessCell
  <2>6. QED
    BY <2>4, <2>5
<1>8. ASSUME NEW x \in Used, NEW k \in 1 .. i, Assigns(todo'[k], x),
             \A m \in 1 .. i : m > k => ~Assigns(todo'[m], x)
      PROVE  Required(x, Given(todo'[k], x), job')
  <2>1. k + 1 \in 1 .. i + 1 /\ todo'[k] = todo[k + 1]
    BY <1>2, <1>5
  <2>2. ASSUME NEW m \in 1 .. i + 1, m > k + 1 PROVE ~Assigns(todo[m], x)
    <3>1. m \in 2 .. i + 1 /\ m - 1 > k
      BY <2>2
    <3>2. QED
      BY <1>6, <1>8, <3>1
  <2>3. QED
    BY <1>1, <1>3, <1>8, <2>1, <2>2
<1>9. QED
  BY <1>4, <1>7, <1>8

\* Where the trigger is 1 after an access, that access has set it.
LEMMA JustFired ==
  ASSUME TypeOK, StageInv, RestInv, FiredInv, Step, listening', brd'["trigger"] = 1
  PROVE  listening /\ Fires(todo[1])
<1>1. /\ todo # <<>> /\ todo \in Seq(Access) /\ todo' = Tail(todo) /\ job' = job
      /\ 1 \in DOMAIN todo /\ Head(todo) = todo[1] /\ up' /\ todo' \in Seq(Access)
  BY Remain DEF StageInv, Step
<1>2. listening
  <2>1. ASSUME todo' = <<>> PROVE FALSE
    <3>1. Cell("trigger")' = Rest["trigger"]
      BY <1>1, <2>1, StepRest DEF RestInv, Rest, Cell
    <3>2. QED
      BY <3>1 DEF Cell, Rest, Units
  <2>2. QED
    BY <2>1, StillListening
<1>3. Fires(todo[1])
  <2>1. CASE Assigns(todo[1], "trigger")
    <3>1. Given(todo[1], "trigger") = 1 /\ todo[1] \in Access
      BY <1>1, <2>1, AccessCell, Remain DEF Cell, Units, Fields
    <3>2. todo[1].op = "write"
      BY <2>1, <3>1 DEF Access, Latches, Latch, Writes, Write, Refresh, Consume, Listen,
         AnalogIfOnline, Assigns, Units
    <3>3. QED
      BY <2>1, <3>1, <3>2 DEF Assigns, Given, Fires
  <2>2. CASE ~Assigns(todo[1], "trigger")
    <3>1. brd["trigger"] = 1
      BY <2>2, AccessCell DEF Cell, Units, Fields
    <3>2. todo[1] = Release
      BY <1>1, <1>2, <3>1 DEF FiredInv, Triggered
    <3>3. QED
      BY <2>2, <3>2 DEF Release, Write, Assigns
  <2>3. QED
    BY <2>1, <2>2
<1>4. QED
  BY <1>2, <1>3

LEMMA StepFired ==
  TypeOK /\ StageInv /\ RestInv /\ FireInv /\ FiredInv /\ Step => FiredInv'
<1> SUFFICES ASSUME TypeOK, StageInv, RestInv, FireInv, FiredInv, Step,
                    listening', brd'["trigger"] = 1
             PROVE  /\ todo' # <<>> /\ Head(todo') = Release
                    /\ \A x \in Used : Required(x, Cell(x)', job')
  BY DEF FiredInv, Triggered, Cell
<1>1. /\ todo # <<>> /\ todo \in Seq(Access) /\ todo' = Tail(todo) /\ job' = job
      /\ 1 \in DOMAIN todo /\ todo' \in Seq(Access)
  BY Remain DEF StageInv, Step
<1>2. listening /\ Fires(todo[1])
  BY JustFired
<1>4. /\ 2 \in DOMAIN todo /\ todo[2] = Release
      /\ \A x \in Used :
           /\ ~Assigns(todo[1], x) => Required(x, Cell(x), job)
           /\ Assigns(todo[1], x) => Required(x, Given(todo[1], x), job)
  BY <1>1, <1>2 DEF FireInv
<1>5. todo' # <<>> /\ Head(todo') = Release
  <2>1. 1 \in DOMAIN todo' /\ todo'[1] = todo[2]
    BY <1>1, <1>4, Remain
  <2>2. todo' # <<>>
    BY <2>1
  <2>3. Head(todo') = todo'[1]
    BY <1>1, <2>2
  <2>4. QED
    BY <1>4, <2>1, <2>2, <2>3
<1>6. ASSUME NEW x \in Used PROVE Required(x, Cell(x)', job')
  <2>1. x \in Units \cup Fields /\ x \notin {"swc", "olte", "src"}
    BY DEF Used, Units, Fields
  <2>2. QED
    BY <1>1, <1>4, <2>1, AccessCell
<1>7. QED
  BY <1>5, <1>6

LEMMA StepOffline ==
  TypeOK /\ StageInv /\ RestInv /\ FiredInv /\ OfflineInv /\ Step => OfflineInv'
<1> SUFFICES ASSUME TypeOK, StageInv, RestInv, FiredInv, OfflineInv, Step, listening'
             PROVE  /\ \A i \in DOMAIN todo' : Fires(todo'[i]) =>
                         \A k \in DOMAIN todo' : todo'[k].op \in {"write", "latch"}
                    /\ (brd'["trigger"] = 1 \/ \E i \in DOMAIN todo' : Fires(todo'[i])) =>
                         ForceTest \/ Offline(hwMode') \/ pending' \/ lost'
  BY DEF OfflineInv
<1>1. /\ todo # <<>> /\ todo \in Seq(Access) /\ todo' = Tail(todo) /\ hwMode' = hwMode
      /\ 1 \in DOMAIN todo
  BY Remain DEF StageInv, Step
<1>2. ASSUME NEW i \in DOMAIN todo', Fires(todo'[i])
      PROVE  listening /\ \A k \in DOMAIN todo : todo[k].op \in {"write", "latch"}
  <2>1. i + 1 \in DOMAIN todo /\ todo'[i] = todo[i + 1]
    BY <1>1, Remain
  <2>2. listening
    BY <1>1, <2>1, StillListening
  <2>3. QED
    BY <1>2, <2>1, <2>2 DEF OfflineInv
<1>3. \A k \in DOMAIN todo' : k + 1 \in DOMAIN todo /\ todo'[k] = todo[k + 1]
  BY <1>1, Remain
<1>4. ASSUME brd'["trigger"] = 1 \/ \E i \in DOMAIN todo' : Fires(todo'[i])
      PROVE  /\ listening /\ todo[1].op \in {"write", "latch"}
             /\ \E i \in DOMAIN todo : Fires(todo[i])
  <2>1. CASE brd'["trigger"] = 1
    BY <1>1, <2>1, JustFired DEF OfflineInv
  <2>2. CASE \E i \in DOMAIN todo' : Fires(todo'[i])
    BY <1>1, <1>2, <1>3, <2>2
  <2>3. QED
    BY <1>4, <2>1, <2>2
<1>5. ASSUME brd'["trigger"] = 1 \/ \E i \in DOMAIN todo' : Fires(todo'[i])
      PROVE  ForceTest \/ Offline(hwMode') \/ pending' \/ lost'
  <2>1. ForceTest \/ Offline(hwMode) \/ pending \/ lost
    BY <1>4, <1>5 DEF OfflineInv
  <2>2. todo[1] # Refresh /\ todo[1] # Consume
    BY <1>4, <1>5 DEF Refresh, Consume
  <2>3. QED
    BY <1>1, <2>1, <2>2, AccessControl
<1>6. QED
  BY <1>2, <1>3, <1>5

LEMMA StepModes == TypeOK /\ StageInv /\ ModesInv /\ Step => ModesInv'
<1> SUFFICES ASSUME TypeOK, StageInv, ModesInv, Step PROVE ModesInv'
  OBVIOUS
<1>1. /\ todo # <<>> /\ todo \in Seq(Access) /\ todo' = Tail(todo) /\ hwMode' = hwMode
      /\ 1 \in DOMAIN todo /\ up
      /\ \A i \in DOMAIN todo' : i \in Nat /\ i > 0 /\ i + 1 \in DOMAIN todo /\ todo'[i] = todo[i + 1]
      /\ \A i \in DOMAIN todo :
           /\ i \in Nat
           /\ i = 1 \/ (i > 1 /\ i - 1 \in DOMAIN todo' /\ todo[i] = todo'[i - 1])
  BY Remain DEF StageInv, Step
<1>2. ASSUME NEW i \in DOMAIN todo', Forgets(todo'[i])
      PROVE  \E j \in DOMAIN todo' : j > i /\ todo'[j] = Refresh
  <2>1. PICK j \in DOMAIN todo : j > i + 1 /\ todo[j] = Refresh
    BY <1>1, <1>2 DEF ModesInv, RefreshesAfterForgetting
  <2>2. j # 1 /\ j - 1 > i
    BY <1>1, <2>1
  <2>3. QED
    BY <1>1, <2>1, <2>2
<1>3. pending' \/ lost' \/ Known' \/ \E j \in DOMAIN todo' : todo'[j] = Refresh
  <2>1. CASE todo[1] = Refresh
    <3>1. modes' = hwMode'
      BY <1>1, <2>1, AccessControl
    <3>2. brd' = UpdateReg(hwMode, brd)
      BY <2>1, <1>1 DEF Step, Execute, Refresh
    <3>3. brd'["swc"] = hwMode["swc"] /\ brd'["olte"] = hwMode["olte"]
      BY <3>2, Updated, ModesPartial DEF TypeOK, Fields
    <3>4. QED
      BY <1>1, <3>1, <3>3 DEF Known
  <2>2. CASE Forgets(todo[1])
    <3>1. PICK j \in DOMAIN todo : j > 1 /\ todo[j] = Refresh
      BY <1>1, <2>2 DEF ModesInv, RefreshesAfterForgetting
    <3>2. QED
      BY <1>1, <3>1
  <2>3. CASE todo[1] # Refresh /\ ~Forgets(todo[1])
    <3>1. todo[1] # Consume /\ ~Assigns(todo[1], "swc") /\ ~Assigns(todo[1], "olte")
      BY <2>3 DEF Forgets
    <3>2. modes' = modes /\ (pending' <=> pending) /\ lost' = lost
      BY <2>3, <3>1, AccessControl
    <3>3. brd'["swc"] = brd["swc"] /\ brd'["olte"] = brd["olte"]
      BY <2>3, <3>1, AccessCell DEF Cell, Units, Fields
    <3>4. CASE \E j \in DOMAIN todo : todo[j] = Refresh
      BY <1>1, <2>3, <3>4
    <3>5. CASE pending \/ lost \/ Known
      BY <1>1, <3>2, <3>3, <3>5 DEF Known
    <3>6. QED
      BY <1>1, <3>4, <3>5 DEF ModesInv
  <2>4. QED
    BY <2>1, <2>2, <2>3
<1>4. QED
  BY <1>2, <1>3 DEF ModesInv, RefreshesAfterForgetting

-----------------------------------------------------------------------------
(* The programs. *)

\* The written records are partial boards.
LEMMA WrittenFields ==
  /\ [src |-> "Digital"] \in Partial /\ DOMAIN [src |-> "Digital"] = {"src"}
  /\ [src |-> "Analog"] \in Partial /\ DOMAIN [src |-> "Analog"] = {"src"}
  /\ \A v \in {"VALID", "INVALID"} :
       [valid |-> v] \in Partial /\ DOMAIN [valid |-> v] = {"valid"}
  /\ \A d \in {"BORESIGHT", "CALIBRATION"} :
       [dcuCmd |-> d] \in Partial /\ DOMAIN [dcuCmd |-> d] = {"dcuCmd"}
  /\ \A t \in {0, 1} :
       [trigger |-> t] \in Partial /\ DOMAIN [trigger |-> t] = {"trigger"}
  /\ [force |-> ForceMode] \in Partial /\ DOMAIN [force |-> ForceMode] = {"force"}
  /\ ResetBoard \in Partial /\ DOMAIN ResetBoard = Fields
<1> USE DEF Partial, Contents, Fields, Width
<1>1. [src |-> "Digital"] \in Partial /\ DOMAIN [src |-> "Digital"] = {"src"}
  OBVIOUS
<1>2. [src |-> "Analog"] \in Partial /\ DOMAIN [src |-> "Analog"] = {"src"}
  OBVIOUS
<1>3. \A v \in {"VALID", "INVALID"} :
       [valid |-> v] \in Partial /\ DOMAIN [valid |-> v] = {"valid"}
  OBVIOUS
<1>4. \A d \in {"BORESIGHT", "CALIBRATION"} :
       [dcuCmd |-> d] \in Partial /\ DOMAIN [dcuCmd |-> d] = {"dcuCmd"}
  OBVIOUS
<1>5. \A t \in {0, 1} :
       [trigger |-> t] \in Partial /\ DOMAIN [trigger |-> t] = {"trigger"}
  OBVIOUS
<1>6. [force |-> ForceMode] \in Partial /\ DOMAIN [force |-> ForceMode] = {"force"}
  <2>1. ForceMode \in {"NORMAL", "TEST"}
    BY DEF ForceMode
  <2>2. QED
    BY <2>1
<1>7. ResetBoard \in Partial /\ DOMAIN ResetBoard = Fields
  BY DEF ResetBoard
<1>8. QED
  BY <1>1, <1>2, <1>3, <1>4, <1>5, <1>6, <1>7

\* A write or a latch of a handler, and the cells it assigns.
LEMMA WriteFacts ==
  ASSUME NEW f \in Partial
  PROVE  /\ Write(f) \in Access
         /\ \A x : Assigns(Write(f), x) <=> x \in DOMAIN f
         /\ \A x : Given(Write(f), x) = f[x]
         /\ Write(f).op = "write" /\ Write(f) \notin {Refresh, Consume, Listen}
BY DEF Write, Access, Writes, Assigns, Given, Refresh, Consume, Listen

LEMMA LatchFacts ==
  ASSUME NEW u \in Units, NEW a \in Angles
  PROVE  /\ Latch(u, a) \in Access
         /\ \A x : Assigns(Latch(u, a), x) <=> x = u
         /\ \A x : Given(Latch(u, a), x) = a
         /\ Latch(u, a).op = "latch" /\ Latch(u, a) \notin {Refresh, Consume, Listen}
BY DEF Latch, Access, Latches, Assigns, Given, Refresh, Consume, Listen

LEMMA OtherFacts ==
  ASSUME NEW a \in {Refresh, Consume, AnalogIfOnline, Listen}
  PROVE  a \in Access /\ ~Fires(a) /\ \A x : ~Assigns(a, x)
BY DEF Access, Fires, Assigns, Refresh, Consume, AnalogIfOnline, Listen

LEMMA Joined ==
  ASSUME NEW p \in Seq(Access), NEW q \in Seq(Access), NEW r, r = p \o q
  PROVE  /\ r \in Seq(Access) /\ Len(r) = Len(p) + Len(q)
         /\ \A i \in 1 .. Len(p) : r[i] = p[i]
         /\ \A i \in 1 .. Len(q) : r[Len(p) + i] = q[i]
OBVIOUS

LEMMA Appended ==
  ASSUME NEW S, NEW p \in Seq(S), NEW a \in S, NEW r, r = p \o <<a>>
  PROVE  /\ r \in Seq(S) /\ Len(r) = Len(p) + 1
         /\ \A i \in 1 .. Len(p) : r[i] = p[i]
         /\ r[Len(p) + 1] = a
OBVIOUS

\* The two writes of a command to the DCUs, if it is given.
LEMMA CommandElements ==
  ASSUME NEW w, NEW d \in {"BORESIGHT", "CALIBRATION"}
  PROVE  LET q == DCUCommand(w, d) IN
         /\ q \in Seq(Access) /\ Len(q) = IF w = "On" THEN 2 ELSE 0
         /\ w = "On" => q[1] = Write([valid |-> "INVALID"]) /\ q[2] = Write([dcuCmd |-> d])
<1>1. Write([valid |-> "INVALID"]) \in Access /\ Write([dcuCmd |-> d]) \in Access
  BY WrittenFields, WriteFacts
<1>2. QED
  BY <1>1 DEF DCUCommand

\* Where the accesses of a steering command stand: m of them send the DCUs to
\* boresight, n to calibration.
LEMMA SteeringElements ==
  ASSUME NEW c \in Commands
  PROVE  \E m \in {0, 2}, n \in {0, 2} : LET p == Steering(c) IN
         /\ p \in Seq(Access) /\ DOMAIN p = 1 .. m + n + 7
         /\ m = 2 <=> c.RLCP = "On"
         /\ n = 2 <=> c.RLSC = "On"
         /\ p[1] = Write([src |-> "Digital"])
         /\ p[2] = Latch("ALPHA", c.alpha) /\ p[3] = Latch("BETA", c.beta)
         /\ m = 2 => p[4] = Write([valid |-> "INVALID"]) /\ p[5] = Write([dcuCmd |-> "BORESIGHT"])
         /\ n = 2 => p[m + 4] = Write([valid |-> "INVALID"]) /\ p[m + 5] = Write([dcuCmd |-> "CALIBRATION"])
         /\ p[m + n + 4] = Write([trigger |-> 1]) /\ p[m + n + 5] = Write([trigger |-> 0])
         /\ p[m + n + 6] = Write([valid |-> "VALID"]) /\ p[m + n + 7] = Write([src |-> "Analog"])
<1>1. PICK a, b1, b2 : a = Write([src |-> "Digital"]) /\ b1 = Latch("ALPHA", c.alpha)
                       /\ b2 = Latch("BETA", c.beta)
  OBVIOUS
<1>2. PICK x : x = DCUCommand(c.RLCP, "BORESIGHT")
  OBVIOUS
<1>3. PICK y : y = DCUCommand(c.RLSC, "CALIBRATION")
  OBVIOUS
<1>4. PICK d, e, f, g : /\ d = Write([trigger |-> 1]) /\ e = Write([trigger |-> 0])
                        /\ f = Write([valid |-> "VALID"]) /\ g = Write([src |-> "Analog"])
  OBVIOUS
<1>5. PICK p : p = Steering(c)
  OBVIOUS
<1>6. PICK m, n : m = Len(x) /\ n = Len(y)
  OBVIOUS
<1>7. {a, b1, b2, d, e, f, g} \subseteq Access
  BY <1>1, <1>4, WrittenFields, WriteFacts, LatchFacts DEF Commands, Units
<1>8. /\ x \in Seq(Access) /\ m = IF c.RLCP = "On" THEN 2 ELSE 0
      /\ c.RLCP = "On" => x[1] = Write([valid |-> "INVALID"]) /\ x[2] = Write([dcuCmd |-> "BORESIGHT"])
  BY <1>2, <1>6, CommandElements
<1>9. /\ y \in Seq(Access) /\ n = IF c.RLSC = "On" THEN 2 ELSE 0
      /\ c.RLSC = "On" => y[1] = Write([valid |-> "INVALID"]) /\ y[2] = Write([dcuCmd |-> "CALIBRATION"])
  BY <1>3, <1>6, CommandElements
<1>10. PICK q : q = <<a, b1, b2>> \o x
  OBVIOUS
<1>11. /\ q \in Seq(Access) /\ Len(q) = m + 3 /\ q[1] = a /\ q[2] = b1 /\ q[3] = b2
       /\ c.RLCP = "On" => q[4] = x[1] /\ q[5] = x[2]
  <2>1. <<a, b1, b2>> \in Seq(Access) /\ Len(<<a, b1, b2>>) = 3
    BY <1>7
  <2>2. /\ q \in Seq(Access) /\ Len(q) = 3 + m
        /\ \A i \in 1 .. 3 : q[i] = <<a, b1, b2>>[i]
        /\ \A i \in 1 .. m : q[3 + i] = x[i]
    <3>1. Len(x) = m
      BY <1>6
    <3>2. /\ q \in Seq(Access) /\ Len(q) = Len(<<a, b1, b2>>) + Len(x)
          /\ \A i \in 1 .. Len(<<a, b1, b2>>) : q[i] = <<a, b1, b2>>[i]
          /\ \A i \in 1 .. Len(x) : q[Len(<<a, b1, b2>>) + i] = x[i]
      BY <1>8, <1>10, <2>1, Joined
    <3>3. QED
      BY <2>1, <3>1, <3>2
  <2>3. c.RLCP = "On" => 1 \in 1 .. m /\ 2 \in 1 .. m
    BY <1>8
  <2>4. m \in Nat /\ q[4] = q[3 + 1] /\ q[5] = q[3 + 2]
    BY <1>8
  <2>5. QED
    BY <2>2, <2>3, <2>4
<1>12. PICK r : r = q \o y
  OBVIOUS
<1>13. /\ r \in Seq(Access) /\ Len(r) = m + n + 3
       /\ \A i \in 1 .. m + 3 : r[i] = q[i]
       /\ c.RLSC = "On" => r[m + 4] = y[1] /\ r[m + 5] = y[2]
  <2>1. /\ r \in Seq(Access) /\ Len(r) = Len(q) + Len(y)
        /\ \A i \in 1 .. Len(q) : r[i] = q[i]
        /\ \A i \in 1 .. Len(y) : r[Len(q) + i] = y[i]
    <3>1. q \in Seq(Access) /\ y \in Seq(Access)
      BY <1>9, <1>11
    <3>2. QED
      BY <3>1, <1>12, Joined
  <2>2. Len(q) = m + 3 /\ Len(y) = n /\ m \in {0, 2} /\ n \in {0, 2}
    BY <1>6, <1>8, <1>9, <1>11
  <2>3. c.RLSC = "On" => r[m + 3 + 1] = y[1] /\ r[m + 3 + 2] = y[2]
    BY <1>9, <2>1, <2>2
  <2>4. m + 3 + n = m + n + 3 /\ m + 3 + 1 = m + 4 /\ m + 3 + 2 = m + 5
    BY <2>2
  <2>5. QED
    BY <2>1, <2>2, <2>3, <2>4
<1>14. p = r \o <<d, e>> \o <<f, g>>
  BY <1>1, <1>2, <1>3, <1>4, <1>5, <1>10, <1>12 DEF Steering, ToggleSWTrigger
<1>15. /\ p \in Seq(Access) /\ Len(p) = m + n + 7
       /\ \A i \in 1 .. m + n + 3 : p[i] = r[i]
       /\ p[m + n + 4] = d /\ p[m + n + 5] = e /\ p[m + n + 6] = f /\ p[m + n + 7] = g
  <2>1. m \in {0, 2} /\ n \in {0, 2}
    BY <1>8, <1>9
  <2>2. <<d, e>> \in Seq(Access) /\ <<f, g>> \in Seq(Access)
    BY <1>7
  <2>3. PICK s : s = r \o <<d, e>>
    OBVIOUS
  <2>4. /\ s \in Seq(Access) /\ Len(s) = m + n + 5
        /\ \A i \in 1 .. m + n + 3 : s[i] = r[i]
        /\ s[m + n + 4] = d /\ s[m + n + 5] = e
    BY <1>13, <2>1, <2>2, <2>3
  <2>5. p = s \o <<f, g>>
    BY <1>14, <2>3
  <2>6. QED
    BY <2>1, <2>2, <2>4, <2>5
<1>16. m \in {0, 2} /\ n \in {0, 2}
  BY <1>8, <1>9
<1>17. /\ p[1] = a /\ p[2] = b1 /\ p[3] = b2
       /\ m = 2 => p[4] = x[1] /\ p[5] = x[2]
       /\ n = 2 => p[m + 4] = y[1] /\ p[m + 5] = y[2]
  <2>1. \A i \in 1 .. m + 3 : p[i] = q[i]
    BY <1>13, <1>15, <1>16
  <2>2. p[1] = a /\ p[2] = b1 /\ p[3] = b2
    BY <1>11, <1>16, <2>1
  <2>3. m = 2 => p[4] = x[1] /\ p[5] = x[2]
    BY <1>8, <1>11, <2>1
  <2>4. n = 2 => p[m + 4] = y[1] /\ p[m + 5] = y[2]
    BY <1>9, <1>13, <1>15, <1>16
  <2>5. QED
    BY <2>2, <2>3, <2>4
<1>18. /\ DOMAIN p = 1 .. m + n + 7
       /\ m = 2 <=> c.RLCP = "On"
       /\ n = 2 <=> c.RLSC = "On"
  BY <1>8, <1>9, <1>15
<1>19. /\ m = 2 => p[4] = Write([valid |-> "INVALID"]) /\ p[5] = Write([dcuCmd |-> "BORESIGHT"])
       /\ n = 2 => p[m + 4] = Write([valid |-> "INVALID"]) /\ p[m + 5] = Write([dcuCmd |-> "CALIBRATION"])
  BY <1>8, <1>9, <1>17, <1>18
<1>20. /\ p \in Seq(Access)
       /\ p[1] = Write([src |-> "Digital"])
       /\ p[2] = Latch("ALPHA", c.alpha) /\ p[3] = Latch("BETA", c.beta)
       /\ p[m + n + 4] = Write([trigger |-> 1]) /\ p[m + n + 5] = Write([trigger |-> 0])
       /\ p[m + n + 6] = Write([valid |-> "VALID"]) /\ p[m + n + 7] = Write([src |-> "Analog"])
  BY <1>1, <1>4, <1>15, <1>17
<1>21. QED
  BY <1>5, <1>16, <1>18, <1>19, <1>20

\* The access gives one cell a value, and no other cell.
Sets(a, x, v) == (\A y : Assigns(a, y) <=> y = x) /\ Given(a, x) = v

\* The cells that the accesses of a steering command set, in their order; the
\* trigger fires once.
LEMMA SteeringSets ==
  ASSUME NEW c \in Commands
  PROVE  \E m \in {0, 2}, n \in {0, 2} : LET p == Steering(c) IN
         /\ p \in Seq(Access) /\ DOMAIN p = 1 .. m + n + 7
         /\ m = 2 <=> c.RLCP = "On"
         /\ n = 2 <=> c.RLSC = "On"
         /\ Sets(p[1], "src", "Digital")
         /\ Sets(p[2], "ALPHA", c.alpha) /\ Sets(p[3], "BETA", c.beta)
         /\ m = 2 => Sets(p[4], "valid", "INVALID") /\ Sets(p[5], "dcuCmd", "BORESIGHT")
         /\ n = 2 => Sets(p[m + 4], "valid", "INVALID") /\ Sets(p[m + 5], "dcuCmd", "CALIBRATION")
         /\ Sets(p[m + n + 4], "trigger", 1)
         /\ Sets(p[m + n + 5], "trigger", 0) /\ p[m + n + 5] = Release
         /\ Sets(p[m + n + 6], "valid", "VALID") /\ Sets(p[m + n + 7], "src", "Analog")
         /\ \A i \in DOMAIN p : p[i].op \in {"write", "latch"} /\ (Fires(p[i]) => i = m + n + 4)
<1>1. PICK p : p = Steering(c)
  OBVIOUS
<1>2. PICK m \in {0, 2}, n \in {0, 2} :
         /\ p \in Seq(Access) /\ DOMAIN p = 1 .. m + n + 7
         /\ m = 2 <=> c.RLCP = "On"
         /\ n = 2 <=> c.RLSC = "On"
         /\ p[1] = Write([src |-> "Digital"])
         /\ p[2] = Latch("ALPHA", c.alpha) /\ p[3] = Latch("BETA", c.beta)
         /\ m = 2 => p[4] = Write([valid |-> "INVALID"]) /\ p[5] = Write([dcuCmd |-> "BORESIGHT"])
         /\ n = 2 => p[m + 4] = Write([valid |-> "INVALID"]) /\ p[m + 5] = Write([dcuCmd |-> "CALIBRATION"])
         /\ p[m + n + 4] = Write([trigger |-> 1]) /\ p[m + n + 5] = Write([trigger |-> 0])
         /\ p[m + n + 6] = Write([valid |-> "VALID"]) /\ p[m + n + 7] = Write([src |-> "Analog"])
  BY <1>1, SteeringElements
<1>3. \A f \in Partial : \A x : DOMAIN f = {x} => Sets(Write(f), x, f[x])
  BY WriteFacts DEF Sets
<1>4. /\ Sets(Write([src |-> "Digital"]), "src", "Digital")
      /\ Sets(Write([src |-> "Analog"]), "src", "Analog")
      /\ Sets(Write([valid |-> "VALID"]), "valid", "VALID")
      /\ Sets(Write([valid |-> "INVALID"]), "valid", "INVALID")
      /\ Sets(Write([dcuCmd |-> "BORESIGHT"]), "dcuCmd", "BORESIGHT")
      /\ Sets(Write([dcuCmd |-> "CALIBRATION"]), "dcuCmd", "CALIBRATION")
      /\ Sets(Write([trigger |-> 0]), "trigger", 0)
      /\ Sets(Write([trigger |-> 1]), "trigger", 1)
  <2>1. Sets(Write([src |-> "Digital"]), "src", [src |-> "Digital"]["src"])
    BY <1>3, WrittenFields
  <2>2. Sets(Write([src |-> "Analog"]), "src", [src |-> "Analog"]["src"])
    BY <1>3, WrittenFields
  <2>3. \A v \in {"VALID", "INVALID"} : Sets(Write([valid |-> v]), "valid", [valid |-> v]["valid"])
    BY <1>3, WrittenFields
  <2>4. \A v \in {"BORESIGHT", "CALIBRATION"} : Sets(Write([dcuCmd |-> v]), "dcuCmd", [dcuCmd |-> v]["dcuCmd"])
    BY <1>3, WrittenFields
  <2>5. \A v \in {0, 1} : Sets(Write([trigger |-> v]), "trigger", [trigger |-> v]["trigger"])
    BY <1>3, WrittenFields
  <2>6. QED
    BY <2>1, <2>2, <2>3, <2>4, <2>5
<1>5. Sets(Latch("ALPHA", c.alpha), "ALPHA", c.alpha) /\ Sets(Latch("BETA", c.beta), "BETA", c.beta)
  BY LatchFacts DEF Sets, Units, Commands
<1>6. /\ Sets(p[1], "src", "Digital")
      /\ Sets(p[2], "ALPHA", c.alpha) /\ Sets(p[3], "BETA", c.beta)
      /\ m = 2 => Sets(p[4], "valid", "INVALID") /\ Sets(p[5], "dcuCmd", "BORESIGHT")
      /\ n = 2 => Sets(p[m + 4], "valid", "INVALID") /\ Sets(p[m + 5], "dcuCmd", "CALIBRATION")
      /\ Sets(p[m + n + 4], "trigger", 1)
      /\ Sets(p[m + n + 5], "trigger", 0) /\ p[m + n + 5] = Release
      /\ Sets(p[m + n + 6], "valid", "VALID") /\ Sets(p[m + n + 7], "src", "Analog")
  BY <1>2, <1>4, <1>5 DEF Release
<1>7. \A i \in 1 .. m + n + 7 :
        \/ i \in {1, 2, 3, m + n + 4, m + n + 5, m + n + 6, m + n + 7}
        \/ m = 2 /\ i \in {4, 5}
        \/ n = 2 /\ i \in {m + 4, m + 5}
  OBVIOUS
<1>8. \A i \in DOMAIN p : p[i].op \in {"write", "latch"}
  <2>1. \A f : Write(f).op = "write"
    BY DEF Write
  <2>2. \A u, a : Latch(u, a).op = "latch"
    BY DEF Latch
  <2>3. /\ p[1].op = "write" /\ p[2].op = "latch" /\ p[3].op = "latch"
        /\ p[m + n + 4].op = "write" /\ p[m + n + 5].op = "write"
        /\ p[m + n + 6].op = "write" /\ p[m + n + 7].op = "write"
    BY <1>2, <2>1, <2>2
  <2>4. m = 2 => p[4].op = "write" /\ p[5].op = "write"
    BY <1>2, <2>1
  <2>5. n = 2 => p[m + 4].op = "write" /\ p[m + 5].op = "write"
    BY <1>2, <2>1
  <2>6. SUFFICES ASSUME NEW i \in 1 .. m + n + 7 PROVE p[i].op \in {"write", "latch"}
    BY <1>2
  <2>7. QED
    BY <1>7, <2>3, <2>4, <2>5
<1>9. ASSUME NEW i \in DOMAIN p, Fires(p[i]), i # m + n + 4 PROVE FALSE
  <2>1. p[i].op = "write" /\ Assigns(p[i], "trigger") /\ p[i].fields["trigger"] = 1
    BY <1>9 DEF Fires, Assigns
  <2>2. i = m + n + 5
    BY <1>2, <1>6, <1>7, <1>9, <2>1 DEF Sets
  <2>3. Given(p[i], "trigger") = 1
    BY <2>1 DEF Given
  <2>4. QED
    BY <1>6, <2>2, <2>3 DEF Sets
<1>10. QED
  BY <1>1, <1>2, <1>6, <1>8, <1>9

\* A steering command leaves the register at rest, and fires the trigger with
\* what it asks for, if the words were valid before it.
LEMMA SteeringLegal ==
  ASSUME NEW c \in Commands
  PROVE  LET p == Steering(c) IN
         /\ p \in Seq(Access)
         /\ \A i \in DOMAIN p : p[i].op \in {"write", "latch"}
         /\ EndsAtRest(p)
         /\ \A x : \A i \in DOMAIN p : Assigns(p[i], x) => x \notin {"swc", "olte"}
         /\ \A i \in DOMAIN p : Fires(p[i]) =>
              /\ i + 1 \in DOMAIN p /\ p[i + 1] = Release
              /\ \A x \in Used :
                   /\ (\A k \in 1 .. i : ~Assigns(p[k], x)) =>
                        \A v : (x = "valid" => v = "VALID") => Required(x, v, c)
                   /\ \A k \in 1 .. i :
                        /\ Assigns(p[k], x)
                        /\ \A j \in 1 .. i : j > k => ~Assigns(p[j], x)
                        => Required(x, Given(p[k], x), c)
<1>1. PICK p : p = Steering(c)
  OBVIOUS
<1>2. PICK m \in {0, 2}, n \in {0, 2} :
         /\ p \in Seq(Access) /\ DOMAIN p = 1 .. m + n + 7
         /\ m = 2 <=> c.RLCP = "On"
         /\ n = 2 <=> c.RLSC = "On"
         /\ Sets(p[1], "src", "Digital")
         /\ Sets(p[2], "ALPHA", c.alpha) /\ Sets(p[3], "BETA", c.beta)
         /\ m = 2 => Sets(p[4], "valid", "INVALID") /\ Sets(p[5], "dcuCmd", "BORESIGHT")
         /\ n = 2 => Sets(p[m + 4], "valid", "INVALID") /\ Sets(p[m + 5], "dcuCmd", "CALIBRATION")
         /\ Sets(p[m + n + 4], "trigger", 1)
         /\ Sets(p[m + n + 5], "trigger", 0) /\ p[m + n + 5] = Release
         /\ Sets(p[m + n + 6], "valid", "VALID") /\ Sets(p[m + n + 7], "src", "Analog")
         /\ \A i \in DOMAIN p : p[i].op \in {"write", "latch"} /\ (Fires(p[i]) => i = m + n + 4)
  BY <1>1, SteeringSets
<1>3. \A i \in 1 .. m + n + 7 :
        \/ i \in {1, 2, 3, m + n + 4, m + n + 5, m + n + 6, m + n + 7}
        \/ m = 2 /\ i \in {4, 5}
        \/ n = 2 /\ i \in {m + 4, m + 5}
  OBVIOUS
<1>4. ASSUME NEW x, NEW i \in DOMAIN p, Assigns(p[i], x)
      PROVE  /\ x \in {"src", "ALPHA", "BETA", "valid", "dcuCmd", "trigger"}
             /\ x = "src" => i \in {1, m + n + 7}
             /\ x = "trigger" => i \in {m + n + 4, m + n + 5}
             /\ x = "ALPHA" => i = 2
             /\ x = "BETA" => i = 3
             /\ x = "dcuCmd" => (m = 2 /\ i = 5) \/ (n = 2 /\ i = m + 5)
             /\ x = "valid" => \/ i = m + n + 6
                               \/ m = 2 /\ i = 4
                               \/ n = 2 /\ i = m + 4
  BY <1>2, <1>3, <1>4 DEF Sets
<1>5. EndsAtRest(p)
  <2> SUFFICES ASSUME NEW x \in DOMAIN Rest, NEW i \in DOMAIN p, Assigns(p[i], x),
                      \A j \in DOMAIN p : j > i => ~Assigns(p[j], x)
               PROVE  Given(p[i], x) = Rest[x]
    BY DEF EndsAtRest
  <2>1. x \in {"src", "valid", "trigger"}
    BY <1>4 DEF Rest
  <2>2. CASE x = "src"
    <3>1. m + n + 7 \in DOMAIN p /\ Assigns(p[m + n + 7], x)
      BY <1>2, <2>2 DEF Sets
    <3>2. i = m + n + 7
      BY <1>2, <1>4, <2>2, <3>1
    <3>3. QED
      BY <1>2, <2>2, <3>2 DEF Sets, Rest
  <2>3. CASE x = "valid"
    <3>1. m + n + 6 \in DOMAIN p /\ Assigns(p[m + n + 6], x)
      BY <1>2, <2>3 DEF Sets
    <3>2. i = m + n + 6
      BY <1>2, <1>4, <2>3, <3>1
    <3>3. QED
      BY <1>2, <2>3, <3>2 DEF Sets, Rest
  <2>4. CASE x = "trigger"
    <3>1. m + n + 5 \in DOMAIN p /\ Assigns(p[m + n + 5], x)
      BY <1>2, <2>4 DEF Sets
    <3>2. i = m + n + 5
      BY <1>2, <1>4, <2>4, <3>1
    <3>3. QED
      BY <1>2, <2>4, <3>2 DEF Sets, Rest
  <2>5. QED
    BY <2>1, <2>2, <2>3, <2>4
<1>6. ASSUME NEW i \in DOMAIN p, Fires(p[i])
      PROVE  i + 1 \in DOMAIN p /\ p[i + 1] = Release /\ i = m + n + 4
  <2>1. i = m + n + 4
    BY <1>2, <1>6
  <2>2. i + 1 = m + n + 5
    BY <2>1
  <2>3. QED
    BY <1>2, <2>1, <2>2
<1>7. ASSUME NEW x \in Used, \A k \in 1 .. m + n + 4 : ~Assigns(p[k], x),
             NEW v, x = "valid" => v = "VALID"
      PROVE  Required(x, v, c)
  <2>1. {2, 3} \subseteq 1 .. m + n + 4 /\ Assigns(p[2], "ALPHA") /\ Assigns(p[3], "BETA")
    BY <1>2 DEF Sets
  <2>2. x \in {"valid", "dcuCmd"}
    BY <1>7, <2>1 DEF Used, Units
  <2>3. m = 0
    <3>1. ASSUME m = 2 PROVE FALSE
      <4>1. {4, 5} \subseteq 1 .. m + n + 4 /\ Assigns(p[4], "valid") /\ Assigns(p[5], "dcuCmd")
        BY <1>2, <3>1 DEF Sets
      <4>2. QED
        BY <1>7, <2>2, <4>1
    <3>2. QED
      BY <3>1
  <2>4. n = 0
    <3>1. ASSUME n = 2 PROVE FALSE
      <4>1. {m + 4, m + 5} \subseteq 1 .. m + n + 4 /\ Assigns(p[m + 4], "valid") /\ Assigns(p[m + 5], "dcuCmd")
        BY <1>2, <3>1 DEF Sets
      <4>2. QED
        BY <1>7, <2>2, <4>1
    <3>2. QED
      BY <3>1
  <2>5. c.RLCP = "Off" /\ c.RLSC = "Off"
    BY <1>2, <2>3, <2>4 DEF Commands
  <2>6. QED
    BY <1>7, <2>2, <2>5 DEF Required
<1>8. ASSUME NEW x \in Used, NEW k \in 1 .. m + n + 4, Assigns(p[k], x),
             \A j \in 1 .. m + n + 4 : j > k => ~Assigns(p[j], x)
      PROVE  Required(x, Given(p[k], x), c)
  <2>1. k \in DOMAIN p
    BY <1>2
  <2>2. x = "ALPHA" => k = 2 /\ Given(p[k], x) = c.alpha
    BY <1>2, <1>4, <1>8, <2>1 DEF Sets
  <2>3. x = "BETA" => k = 3 /\ Given(p[k], x) = c.beta
    BY <1>2, <1>4, <1>8, <2>1 DEF Sets
  <2>4. x = "valid" => Given(p[k], x) = "INVALID" /\ (m = 2 \/ n = 2)
    <3>1. x = "valid" => (m = 2 /\ k = 4) \/ (n = 2 /\ k = m + 4)
      BY <1>4, <1>8, <2>1
    <3>2. QED
      BY <1>2, <3>1 DEF Sets
  <2>5. x = "dcuCmd" /\ n = 2 => Given(p[k], x) = "CALIBRATION"
    <3>1. ASSUME x = "dcuCmd", n = 2 PROVE k = m + 5
      <4>1. m + 5 \in 1 .. m + n + 4 /\ Assigns(p[m + 5], x)
        BY <1>2, <3>1 DEF Sets
      <4>2. (m = 2 /\ k = 5) \/ k = m + 5
        BY <1>4, <1>8, <2>1, <3>1
      <4>3. QED
        BY <1>8, <4>1, <4>2
    <3>2. QED
      BY <1>2, <3>1 DEF Sets
  <2>6. x = "dcuCmd" /\ n # 2 => Given(p[k], x) = "BORESIGHT"
    BY <1>2, <1>4, <1>8, <2>1 DEF Sets
  <2>7. c.RLSC \in {"On", "Off"} /\ c.RLCP \in {"On", "Off"}
    BY DEF Commands
  <2>8. x \in {"ALPHA", "BETA", "valid", "dcuCmd"}
    BY DEF Used, Units
  <2>9. QED
    BY <1>2, <2>2, <2>3, <2>4, <2>5, <2>6, <2>7, <2>8 DEF Required
<1>9. \A x : \A i \in DOMAIN p : Assigns(p[i], x) => x \notin {"swc", "olte"}
  BY <1>4
<1>10. \A i \in DOMAIN p : Fires(p[i]) =>
         \A x \in Used :
           /\ (\A k \in 1 .. i : ~Assigns(p[k], x)) =>
                \A v : (x = "valid" => v = "VALID") => Required(x, v, c)
           /\ \A k \in 1 .. i :
                /\ Assigns(p[k], x)
                /\ \A j \in 1 .. i : j > k => ~Assigns(p[j], x)
                => Required(x, Given(p[k], x), c)
  BY <1>6, <1>7, <1>8
<1>11. QED
  BY <1>1, <1>2, <1>5, <1>6, <1>9, <1>10

\* The handlers of the interrupts and of the timer write no field.
Quiet == {Refresh, Consume, AnalogIfOnline}

LEMMA QuietPrograms ==
  /\ {ConfigProgram, TimerProgram, ScanLimitProgram} \subseteq Seq(Quiet)
  /\ Unit = "ALPHA" => \A p \in {ConfigProgram, TimerProgram, ScanLimitProgram} :
                         RefreshesAfterForgetting(p)
<1>1. /\ Refresh # Consume /\ AnalogIfOnline # Consume
      /\ ~Forgets(Refresh) /\ ~Forgets(AnalogIfOnline)
  <2>1. Refresh # Consume /\ AnalogIfOnline # Consume
    BY DEF Refresh, Consume, AnalogIfOnline
  <2>2. QED
    BY <2>1, OtherFacts DEF Forgets
<1>2. PICK r, d, a : r = Refresh /\ d = Consume /\ a = AnalogIfOnline
  OBVIOUS
<1>3. /\ ConfigProgram = <<d>> \o (IF Unit = "ALPHA" THEN <<r>> ELSE <<>>) \o <<a>>
      /\ TimerProgram = IF Unit = "ALPHA" THEN <<r>> ELSE <<>>
      /\ ScanLimitProgram = <<r>>
  BY <1>2 DEF ConfigProgram, TimerProgram, ScanLimitProgram
<1>4. {r, d, a} \subseteq Quiet
  BY <1>2 DEF Quiet
<1>5. {ConfigProgram, TimerProgram, ScanLimitProgram} \subseteq Seq(Quiet)
  BY <1>3, <1>4
<1>6. ASSUME Unit = "ALPHA" PROVE RefreshesAfterForgetting(ConfigProgram)
  <2>1. /\ DOMAIN ConfigProgram = 1 .. 3 /\ ConfigProgram[1] = d
        /\ ConfigProgram[2] = r /\ ConfigProgram[3] = a
    <3>1. ConfigProgram = <<d>> \o <<r>> \o <<a>>
      BY <1>3, <1>6
    <3>2. r \in Quiet /\ a \in Quiet
      BY <1>4
    <3>3. PICK s, q : s = <<d>> /\ q = s \o <<r>>
      OBVIOUS
    <3>4. q \in Seq(Quiet) /\ Len(q) = 2 /\ q[1] = d /\ q[2] = r
      <4>1. s \in Seq(Quiet) /\ Len(s) = 1 /\ s[1] = d
        BY <1>4, <3>3
      <4>2. /\ q \in Seq(Quiet) /\ Len(q) = Len(s) + 1 /\ q[Len(s) + 1] = r
            /\ \A i \in 1 .. Len(s) : q[i] = s[i]
        <5>1. r \in Quiet /\ q = s \o <<r>>
          BY <3>2, <3>3
        <5>2. s \in Seq(Quiet)
          BY <4>1
        <5>3. QED
          BY <5>1, <5>2, Appended
      <4>3. QED
        BY <4>1, <4>2
    <3>5. ConfigProgram = q \o <<a>>
      BY <3>1, <3>3
    <3>6. /\ ConfigProgram \in Seq(Quiet) /\ Len(ConfigProgram) = 3
          /\ \A i \in 1 .. 2 : ConfigProgram[i] = q[i]
          /\ ConfigProgram[3] = a
      <4>1. /\ ConfigProgram \in Seq(Quiet) /\ Len(ConfigProgram) = Len(q) + 1
            /\ \A i \in 1 .. Len(q) : ConfigProgram[i] = q[i]
            /\ ConfigProgram[Len(q) + 1] = a
        BY <3>2, <3>4, <3>5, Appended
      <4>2. QED
        BY <3>4, <4>1
    <3>7. DOMAIN ConfigProgram = 1 .. 3
      BY <3>6
    <3>8. QED
      BY <3>4, <3>6, <3>7
  <2>2. \A i \in DOMAIN ConfigProgram : Forgets(ConfigProgram[i]) => i = 1
    BY <1>1, <1>2, <2>1
  <2>3. 2 \in DOMAIN ConfigProgram /\ 2 > 1 /\ ConfigProgram[2] = Refresh
    BY <1>2, <2>1
  <2>4. QED
    BY <2>2, <2>3 DEF RefreshesAfterForgetting
<1>7. ASSUME NEW p \in {TimerProgram, ScanLimitProgram} PROVE RefreshesAfterForgetting(p)
  <2>1. \A i \in DOMAIN p : p[i] = Refresh
    BY <1>2, <1>3, <1>7
  <2>2. QED
    BY <1>1, <2>1 DEF RefreshesAfterForgetting
<1>8. QED
  BY <1>5, <1>6, <1>7

\* Where the accesses of the initialization stand.
LEMMA BootElements ==
  \E n \in {0, 1} : LET p == Boot IN
    /\ p \in Seq(Access) /\ DOMAIN p = 1 .. n + 8 /\ Len(p) = n + 8
    /\ p[1] = Write(ResetBoard) /\ p[2] = Write([force |-> ForceMode]) /\ p[3] = Refresh
    /\ p[4] = Write([force |-> "TEST", src |-> "Digital", dcuCmd |-> "BORESIGHT",
                     valid |-> "INVALID"])
    /\ p[5] = Write([trigger |-> 1]) /\ p[6] = Write([trigger |-> 0])
    /\ p[7] = Write(AtRest(ForceMode))
    /\ n = 1 => p[8] = Refresh
    /\ p[n + 8] = Listen
<1>1. PICK a, b, d : /\ a = Write(ResetBoard) /\ b = Write([force |-> ForceMode])
                     /\ d = Write([force |-> "TEST", src |-> "Digital",
                                   dcuCmd |-> "BORESIGHT", valid |-> "INVALID"])
  OBVIOUS
<1>2. PICK e, f, g : /\ e = Write([trigger |-> 1]) /\ f = Write([trigger |-> 0])
                     /\ g = Write(AtRest(ForceMode))
  OBVIOUS
<1>3. PICK r, l : r = Refresh /\ l = Listen
  OBVIOUS
<1>4. PICK p : p = Boot
  OBVIOUS
<1>5. {a, b, d, e, f, g, r, l} \subseteq Access
  <2>1. [force |-> "TEST", src |-> "Digital", dcuCmd |-> "BORESIGHT", valid |-> "INVALID"] \in Partial
    BY DEF Partial, Contents, Fields, Width
  <2>2. AtRest(ForceMode) \in Partial
    <3>1. ForceMode \in {"NORMAL", "TEST"}
      BY DEF ForceMode
    <3>2. QED
      BY <3>1 DEF Partial, Contents, Fields, Width, AtRest
  <2>3. QED
    BY <1>1, <1>2, <1>3, <2>1, <2>2, WrittenFields, WriteFacts, OtherFacts
<1>6. PICK n : n = Len(FirstStatus)
  OBVIOUS
<1>7. n \in {0, 1} /\ FirstStatus \in Seq(Access) /\ (n = 1 => FirstStatus[1] = r)
  BY <1>3, <1>5, <1>6 DEF FirstStatus
<1>8. p = <<a, b, r, d>> \o <<e, f>> \o <<g>> \o FirstStatus \o <<l>>
  BY <1>1, <1>2, <1>3, <1>4 DEF Boot, ToggleSWTrigger
<1>9. PICK h : h = <<a, b, r, d>> \o <<e, f>> \o <<g>>
  OBVIOUS
<1>10. /\ h \in Seq(Access) /\ Len(h) = 7
       /\ h[1] = a /\ h[2] = b /\ h[3] = r /\ h[4] = d /\ h[5] = e /\ h[6] = f /\ h[7] = g
  <2>1. <<a, b, r, d>> \in Seq(Access) /\ <<e, f>> \in Seq(Access) /\ <<g>> \in Seq(Access)
    BY <1>5
  <2>2. PICK i : i = <<a, b, r, d>> \o <<e, f>>
    OBVIOUS
  <2>3. /\ i \in Seq(Access) /\ Len(i) = 6
        /\ i[1] = a /\ i[2] = b /\ i[3] = r /\ i[4] = d /\ i[5] = e /\ i[6] = f
    <3>1. /\ i \in Seq(Access) /\ Len(i) = Len(<<a, b, r, d>>) + Len(<<e, f>>)
          /\ \A j \in 1 .. Len(<<a, b, r, d>>) : i[j] = <<a, b, r, d>>[j]
          /\ \A j \in 1 .. Len(<<e, f>>) : i[Len(<<a, b, r, d>>) + j] = <<e, f>>[j]
      BY <2>1, <2>2, Joined
    <3>2. Len(<<a, b, r, d>>) = 4 /\ Len(<<e, f>>) = 2
      OBVIOUS
    <3>3. 4 + 1 = 5 /\ 4 + 2 = 6
      OBVIOUS
    <3>4. QED
      BY <3>1, <3>2, <3>3
  <2>4. h = i \o <<g>>
    BY <1>9, <2>2
  <2>5. /\ h \in Seq(Access) /\ Len(h) = Len(i) + 1
        /\ \A j \in 1 .. Len(i) : h[j] = i[j]
        /\ h[Len(i) + 1] = g
    <3>1. g \in Access /\ i \in Seq(Access)
      BY <1>5, <2>3
    <3>2. QED
      BY <3>1, <2>4, Appended
  <2>6. h[7] = g /\ Len(h) = 7 /\ \A j \in 1 .. 6 : h[j] = i[j]
    BY <2>3, <2>5
  <2>7. QED
    BY <2>3, <2>5, <2>6
<1>11. h \in Seq(Access) /\ Len(h) = 7
  BY <1>10
<1>12. PICK q : q = h \o FirstStatus
  OBVIOUS
<1>13. /\ q \in Seq(Access) /\ Len(q) = Len(h) + Len(FirstStatus)
       /\ \A i \in 1 .. Len(h) : q[i] = h[i]
       /\ \A i \in 1 .. Len(FirstStatus) : q[Len(h) + i] = FirstStatus[i]
  <2>1. h \in Seq(Access) /\ FirstStatus \in Seq(Access)
    BY <1>7, <1>11
  <2>2. QED
    BY <1>12, <2>1, Joined
<1>14. /\ Len(q) = n + 7 /\ \A i \in 1 .. 7 : q[i] = h[i]
       /\ n = 1 => q[8] = r
  BY <1>6, <1>7, <1>11, <1>13
<1>15. <<l>> \in Seq(Access) /\ Len(<<l>>) = 1 /\ <<l>>[1] = l
  BY <1>5
<1>16. /\ p \in Seq(Access) /\ Len(p) = Len(q) + Len(<<l>>)
       /\ \A i \in 1 .. Len(q) : p[i] = q[i]
       /\ \A i \in 1 .. Len(<<l>>) : p[Len(q) + i] = <<l>>[i]
  <2>1. q \in Seq(Access) /\ <<l>> \in Seq(Access) /\ p = q \o <<l>>
    BY <1>8, <1>9, <1>12, <1>13, <1>15
  <2>2. QED
    BY <2>1, Joined
<1>17. /\ Len(p) = n + 8 /\ \A i \in 1 .. 7 : p[i] = h[i]
       /\ n = 1 => p[8] = r
       /\ p[n + 8] = l
  <2>1. Len(p) = n + 7 + 1 /\ p[n + 7 + 1] = l
    BY <1>14, <1>15, <1>16
  <2>2. \A i \in 1 .. 7 : i \in 1 .. n + 7
    BY <1>7
  <2>3. n = 1 => 8 \in 1 .. n + 7
    OBVIOUS
  <2>4. n + 7 + 1 = n + 8
    BY <1>7
  <2>5. QED
    BY <1>14, <1>16, <2>1, <2>2, <2>3, <2>4
<1>18. DOMAIN p = 1 .. n + 8
  BY <1>16, <1>17
<1>19. /\ p[1] = a /\ p[2] = b /\ p[3] = r /\ p[4] = d /\ p[5] = e /\ p[6] = f /\ p[7] = g
  BY <1>10, <1>17
<1>20. /\ p[1] = Write(ResetBoard) /\ p[2] = Write([force |-> ForceMode]) /\ p[3] = Refresh
       /\ p[4] = Write([force |-> "TEST", src |-> "Digital", dcuCmd |-> "BORESIGHT",
                        valid |-> "INVALID"])
       /\ p[5] = Write([trigger |-> 1]) /\ p[6] = Write([trigger |-> 0])
       /\ p[7] = Write(AtRest(ForceMode))
       /\ n = 1 => p[8] = Refresh
       /\ p[n + 8] = Listen
  BY <1>1, <1>2, <1>3, <1>17, <1>19
<1>21. QED
  BY <1>4, <1>7, <1>16, <1>17, <1>18, <1>20

\* The initialization puts every cell of rest there, reads the modes after the
\* reset, and opens the device last.
LEMMA BootLegal ==
  LET p == Boot IN
  /\ p \in Seq(Access)
  /\ \E i \in DOMAIN p : p[i] = Listen
  /\ \A i \in DOMAIN p : p[i] = Listen => i = Len(p)
  /\ \A x \in DOMAIN Rest : \E i \in DOMAIN p : Assigns(p[i], x)
  /\ EndsAtRest(p)
  /\ RefreshesAfterForgetting(p)
  /\ \E i \in DOMAIN p : p[i] = Refresh
<1>1. PICK p : p = Boot
  OBVIOUS
<1>2. PICK n \in {0, 1} :
    /\ p \in Seq(Access) /\ DOMAIN p = 1 .. n + 8 /\ Len(p) = n + 8
    /\ p[1] = Write(ResetBoard) /\ p[2] = Write([force |-> ForceMode]) /\ p[3] = Refresh
    /\ p[4] = Write([force |-> "TEST", src |-> "Digital", dcuCmd |-> "BORESIGHT",
                     valid |-> "INVALID"])
    /\ p[5] = Write([trigger |-> 1]) /\ p[6] = Write([trigger |-> 0])
    /\ p[7] = Write(AtRest(ForceMode))
    /\ n = 1 => p[8] = Refresh
    /\ p[n + 8] = Listen
  BY <1>1, BootElements
<1>3. \A i \in 1 .. n + 8 : i \in 1 .. 7 \/ (n = 1 /\ i = 8) \/ i = n + 8
  OBVIOUS
<1>4. /\ \A f : Write(f) \notin {Refresh, Listen, Consume}
      /\ \A f, x : Assigns(Write(f), x) <=> x \in DOMAIN f
      /\ \A f, x : Given(Write(f), x) = f[x]
      /\ Refresh # Listen /\ Refresh # Consume /\ Listen # Consume
      /\ \A x : ~Assigns(Refresh, x) /\ ~Assigns(Listen, x)
  BY DEF Write, Assigns, Given, Refresh, Listen, Consume
<1>5. /\ \E i \in DOMAIN p : p[i] = Listen
      /\ \A i \in DOMAIN p : p[i] = Listen => i = Len(p)
  <2>1. n + 8 \in DOMAIN p
    BY <1>2
  <2>2. \A i \in 1 .. 7 : p[i] # Listen
    <3>1. \A i \in 1 .. 7 : i \in {1, 2, 3, 4, 5, 6, 7}
      OBVIOUS
    <3>2. p[1] # Listen /\ p[2] # Listen /\ p[3] # Listen /\ p[4] # Listen /\ p[5] # Listen
          /\ p[6] # Listen /\ p[7] # Listen
      BY <1>2, <1>4
    <3>3. QED
      BY <3>1, <3>2
  <2>3. n = 1 => p[8] # Listen
    BY <1>2, <1>4
  <2>4. QED
    BY <1>2, <1>3, <2>1, <2>2, <2>3
<1>6. /\ \A x : Assigns(p[7], x) <=> x \in {"force", "src", "dcuCmd", "valid"}
      /\ Given(p[7], "force") = ForceMode /\ Given(p[7], "src") = "Analog"
      /\ Given(p[7], "valid") = "VALID"
      /\ \A x : Assigns(p[6], x) <=> x = "trigger"
      /\ Given(p[6], "trigger") = 0
  <2>1. \A x : Assigns(p[7], x) <=> x \in {"force", "src", "dcuCmd", "valid"}
    BY <1>2, <1>4 DEF AtRest
  <2>2. \A x : Given(p[7], x) = AtRest(ForceMode)[x]
    BY <1>2, <1>4
  <2>3. AtRest(ForceMode)["force"] = ForceMode /\ AtRest(ForceMode)["src"] = "Analog"
        /\ AtRest(ForceMode)["valid"] = "VALID"
    BY DEF AtRest
  <2>4. /\ \A x : Assigns(p[6], x) <=> x = "trigger"
        /\ Given(p[6], "trigger") = 0
    BY <1>2, <1>4
  <2>5. QED
    BY <2>1, <2>2, <2>3, <2>4
<1>7. \A x : \A i \in DOMAIN p : i > 7 => ~Assigns(p[i], x)
  BY <1>2, <1>3, <1>4
<1>8. 6 \in DOMAIN p /\ 7 \in DOMAIN p /\ 3 \in DOMAIN p
  BY <1>2
<1>9. \A x \in DOMAIN Rest : x = "trigger" \/ x \in {"force", "src", "valid"}
  BY DEF Rest
<1>10. \A x \in DOMAIN Rest : \E i \in DOMAIN p : Assigns(p[i], x)
  BY <1>6, <1>8, <1>9
<1>11. EndsAtRest(p)
  <2> SUFFICES ASSUME NEW x \in DOMAIN Rest, NEW i \in DOMAIN p, Assigns(p[i], x),
                      \A j \in DOMAIN p : j > i => ~Assigns(p[j], x)
               PROVE  Given(p[i], x) = Rest[x]
    BY DEF EndsAtRest
  <2>1. i \in 1 .. 7
    BY <1>2, <1>7
  <2>2. CASE x = "trigger"
    <3>1. i = 6
      <4>1. i # 7 /\ ~(6 > i)
        BY <1>6, <1>8, <2>2
      <4>2. QED
        BY <2>1, <4>1
    <3>2. QED
      BY <1>6, <2>2, <3>1 DEF Rest
  <2>3. CASE x \in {"force", "src", "valid"}
    <3>1. i = 7
      <4>1. ~(7 > i)
        BY <1>6, <1>8, <2>3
      <4>2. QED
        BY <2>1, <4>1
    <3>2. QED
      BY <1>6, <2>3, <3>1 DEF Rest
  <2>4. QED
    BY <1>9, <2>2, <2>3
<1>12. RefreshesAfterForgetting(p)
  <2> SUFFICES ASSUME NEW i \in DOMAIN p, Forgets(p[i]) PROVE i < 3
    BY <1>2, <1>8 DEF RefreshesAfterForgetting
  <2>1. \A f : Forgets(Write(f)) => "swc" \in DOMAIN f \/ "olte" \in DOMAIN f
    BY <1>4 DEF Forgets
  <2>2. ~Forgets(Refresh) /\ ~Forgets(Listen)
    BY <1>4 DEF Forgets
  <2>3. ~Forgets(p[3]) /\ ~Forgets(p[5]) /\ ~Forgets(p[6])
    BY <1>2, <2>1, <2>2
  <2>4. ~Forgets(p[4])
    <3>1. DOMAIN [force |-> "TEST", src |-> "Digital", dcuCmd |-> "BORESIGHT",
                  valid |-> "INVALID"] = {"force", "src", "dcuCmd", "valid"}
      OBVIOUS
    <3>2. ~Forgets(Write([force |-> "TEST", src |-> "Digital", dcuCmd |-> "BORESIGHT",
                          valid |-> "INVALID"]))
      BY <2>1, <3>1
    <3>3. QED
      BY <1>2, <3>2
  <2>5. ~Forgets(p[7])
    <3>1. DOMAIN AtRest(ForceMode) = {"force", "src", "dcuCmd", "valid"}
      BY DEF AtRest
    <3>2. ~Forgets(Write(AtRest(ForceMode)))
      BY <2>1, <3>1
    <3>3. QED
      BY <1>2, <3>2
  <2>6. i \in {1, 2, 3, 4, 5, 6, 7} \/ p[i] = Refresh \/ p[i] = Listen
    BY <1>2, <1>3
  <2>7. QED
    BY <2>2, <2>3, <2>4, <2>5, <2>6
<1>13. QED
  BY <1>1, <1>2, <1>5, <1>8, <1>10, <1>11, <1>12

-----------------------------------------------------------------------------
(* The other actions. *)

\* Between handlers the cells of rest are at rest, and nothing fires.
LEMMA AtIdle ==
  ASSUME TypeOK, RestInv, Idle
  PROVE  up /\ ~Triggered /\ \A x \in DOMAIN Rest : Cell(x) = Rest[x]
<1>1. up /\ todo = <<>>
  BY DEF TypeOK, Idle
<1>2. \A x \in DOMAIN Rest : Cell(x) = Rest[x]
  BY <1>1 DEF RestInv
<1>3. brd["trigger"] = 0
  BY <1>2 DEF Rest, Cell, Units
<1>4. QED
  BY <1>1, <1>2, <1>3 DEF Triggered

\* A handler that writes no field and ends in rest can be dispatched.
LEMMA DispatchQuiet ==
  ASSUME IInv, NEW p \in Seq(Quiet), Dispatch(p), UNCHANGED job
  PROVE  /\ IInv' /\ OfflineInv'
         /\ ModesInv /\ RefreshesAfterForgetting(p) => ModesInv'
<1>1. /\ TypeOK /\ StageInv /\ RestInv /\ Idle /\ todo = <<>> /\ listening
  BY DEF IInv, BaseInv, Dispatch, Idle
<1>2. /\ todo' = p
      /\ UNCHANGED <<hwMode, pending, modes, brd, ksine, listening, up, crashes, lost, job>>
  BY DEF Dispatch
<1>3. \A i \in DOMAIN p : /\ p[i] \in Quiet /\ p[i] \in Access
                          /\ ~Fires(p[i]) /\ p[i] # Listen /\ \A x : ~Assigns(p[i], x)
  <2>1. \A a \in Quiet : a \in Access /\ ~Fires(a) /\ \A x : ~Assigns(a, x)
    BY OtherFacts DEF Quiet
  <2>2. \A a \in Quiet : a # Listen
    BY DEF Quiet, Refresh, Consume, AnalogIfOnline, Listen
  <2>3. \A i \in DOMAIN p : p[i] \in Quiet
    OBVIOUS
  <2>4. QED
    BY <2>1, <2>2, <2>3
<1>4. p \in Seq(Access)
  BY <1>3
<1>5. up /\ ~Triggered /\ \A x \in DOMAIN Rest : Cell(x) = Rest[x]
  BY <1>1, AtIdle
<1>6. TypeOK'
  BY <1>1, <1>2 DEF TypeOK
<1>7. StageInv'
  BY <1>1, <1>2, <1>3, <1>4, <1>5 DEF StageInv
<1>8. RestInv'
  <2>1. EndsAtRest(todo')
    BY <1>2, <1>3 DEF EndsAtRest
  <2>2. \A x : Cell(x)' = Cell(x)
    BY <1>2 DEF Cell
  <2>3. QED
    BY <1>5, <2>1, <2>2 DEF RestInv
<1>9. FireInv'
  BY <1>2, <1>3 DEF FireInv
<1>10. brd'["trigger"] # 1
  BY <1>1, <1>2, <1>5 DEF Triggered
<1>11. FiredInv'
  BY <1>10 DEF FiredInv, Triggered
<1>12. OfflineInv'
  BY <1>2, <1>3, <1>10 DEF OfflineInv
<1>13. ASSUME ModesInv, RefreshesAfterForgetting(p) PROVE ModesInv'
  BY <1>1, <1>2, <1>5, <1>13 DEF ModesInv, Known
<1>14. QED
  BY <1>6, <1>7, <1>8, <1>9, <1>11, <1>12, <1>13 DEF IInv, BaseInv

LEMMA DispatchSteering ==
  ASSUME IInv, NEW c \in Commands, SteeringCommand(c)
  PROVE  /\ IInv'
         /\ AlphaInv => AlphaInv'
<1>1. /\ TypeOK /\ StageInv /\ RestInv /\ Idle /\ todo = <<>> /\ listening
  BY DEF IInv, BaseInv, SteeringCommand, Dispatch, Idle
<1>2. PICK p : p = Steering(c)
  OBVIOUS
<1>3. /\ todo' = p /\ job' = c /\ Accepts
      /\ UNCHANGED <<hwMode, pending, modes, brd, ksine, listening, up, crashes, lost>>
  BY <1>2 DEF SteeringCommand, Dispatch
<1>4. /\ p \in Seq(Access)
      /\ \A i \in DOMAIN p : p[i].op \in {"write", "latch"}
      /\ EndsAtRest(p)
      /\ \A x : \A i \in DOMAIN p : Assigns(p[i], x) => x \notin {"swc", "olte"}
      /\ \A i \in DOMAIN p : Fires(p[i]) =>
           /\ i + 1 \in DOMAIN p /\ p[i + 1] = Release
           /\ \A x \in Used :
                /\ (\A k \in 1 .. i : ~Assigns(p[k], x)) =>
                     \A v : (x = "valid" => v = "VALID") => Required(x, v, c)
                /\ \A k \in 1 .. i :
                     /\ Assigns(p[k], x)
                     /\ \A j \in 1 .. i : j > k => ~Assigns(p[j], x)
                     => Required(x, Given(p[k], x), c)
  BY <1>2, SteeringLegal
<1>5. up /\ ~Triggered /\ \A x \in DOMAIN Rest : Cell(x) = Rest[x]
  BY <1>1, AtIdle
<1>6. \A x : Cell(x)' = Cell(x)
  BY <1>3 DEF Cell
<1>7. \A i \in DOMAIN p : p[i] # Listen /\ p[i] # Consume
  BY <1>4 DEF Listen, Consume
<1>8. TypeOK'
  BY <1>1, <1>3 DEF TypeOK
<1>9. StageInv'
  BY <1>1, <1>3, <1>4, <1>5, <1>7 DEF StageInv
<1>10. RestInv'
  BY <1>3, <1>4, <1>5, <1>6 DEF RestInv
<1>11. FireInv'
  <2> SUFFICES ASSUME NEW i \in DOMAIN p, Fires(p[i])
               PROVE  /\ i + 1 \in DOMAIN p /\ p[i + 1] = Release
                      /\ \A x \in Used :
                           /\ (\A k \in 1 .. i : ~Assigns(p[k], x)) => Required(x, Cell(x), c)
                           /\ \A k \in 1 .. i :
                                /\ Assigns(p[k], x)
                                /\ \A m \in 1 .. i : m > k => ~Assigns(p[m], x)
                                => Required(x, Given(p[k], x), c)
    BY <1>3, <1>6 DEF FireInv
  <2>1. Cell("valid") = "VALID"
    BY <1>5 DEF Rest
  <2>2. QED
    BY <1>4, <2>1
<1>12. brd'["trigger"] # 1
  BY <1>1, <1>3, <1>5 DEF Triggered
<1>13. FiredInv'
  BY <1>12 DEF FiredInv, Triggered
<1>14. IInv'
  BY <1>8, <1>9, <1>10, <1>11, <1>13 DEF IInv, BaseInv
<1>15. ASSUME AlphaInv PROVE AlphaInv'
  <2>1. pending \/ lost \/ Known
    BY <1>1, <1>5, <1>15 DEF AlphaInv, ModesInv
  <2>2. ModesInv'
    <3>1. RefreshesAfterForgetting(p)
      BY <1>4, <1>7 DEF RefreshesAfterForgetting, Forgets
    <3>2. QED
      BY <1>3, <2>1, <3>1 DEF ModesInv, Known
  <2>3. ForceTest \/ Offline(hwMode) \/ pending \/ lost
    BY <1>3, <2>1 DEF Accepts, Known
  <2>4. OfflineInv'
    BY <1>3, <1>4, <2>3 DEF OfflineInv
  <2>5. QED
    BY <2>2, <2>4 DEF AlphaInv
<1>16. QED
  BY <1>14, <1>15

\* A mode change is announced, or it is lost.
LEMMA ModeChange ==
  ASSUME IInv, NEW m \in Modes, ChangeMode(m)
  PROVE  IInv' /\ (AlphaInv => AlphaInv')
<1>1. /\ UNCHANGED <<modes, brd, ksine, todo, listening, up, crashes, job>>
      /\ hwMode' = m /\ pending' \in BOOLEAN /\ lost' = (lost \/ ~pending')
  BY DEF ChangeMode
<1>2. TypeOK'
  <2>1. TypeOK /\ lost' \in BOOLEAN
    BY <1>1 DEF IInv, BaseInv
  <2>2. QED
    BY <1>1, <2>1 DEF TypeOK
<1>3. \A x : Cell(x)' = Cell(x)
  BY <1>1 DEF Cell
<1>4. StageInv' /\ RestInv'
  BY <1>1, <1>3 DEF IInv, BaseInv, StageInv, RestInv
<1>5. FireInv' /\ FiredInv'
  BY <1>1, <1>3 DEF IInv, FireInv, FiredInv, Triggered
<1>6. pending' \/ lost'
  BY <1>1
<1>7. ASSUME AlphaInv PROVE AlphaInv'
  BY <1>1, <1>6, <1>7 DEF AlphaInv, ModesInv, OfflineInv
<1>8. QED
  BY <1>2, <1>4, <1>5, <1>7 DEF IInv, BaseInv

\* A program that starts up, at first or again.
LEMMA Booting == TypeOK /\ up /\ ~listening /\ todo = Boot => IInv /\ AlphaInv
<1> SUFFICES ASSUME TypeOK, up, ~listening, todo = Boot PROVE IInv /\ AlphaInv
  OBVIOUS
<1>1. PICK p : p = Boot
  OBVIOUS
<1>2. /\ p \in Seq(Access)
      /\ \E i \in DOMAIN p : p[i] = Listen
      /\ \A i \in DOMAIN p : p[i] = Listen => i = Len(p)
      /\ \A x \in DOMAIN Rest : \E i \in DOMAIN p : Assigns(p[i], x)
      /\ EndsAtRest(p)
      /\ RefreshesAfterForgetting(p)
      /\ \E i \in DOMAIN p : p[i] = Refresh
  BY <1>1, BootLegal
<1>3. todo = p
  BY <1>1
<1>4. StageInv
  BY <1>2, <1>3 DEF StageInv
<1>5. RestInv
  BY <1>2, <1>3 DEF RestInv
<1>6. FireInv /\ FiredInv /\ OfflineInv
  BY DEF FireInv, FiredInv, OfflineInv, Triggered
<1>7. ModesInv
  BY <1>2, <1>3 DEF ModesInv
<1>8. QED
  BY <1>4, <1>5, <1>6, <1>7 DEF IInv, BaseInv, AlphaInv

LEMMA Initial == Init => IInv /\ AlphaInv
<1> SUFFICES ASSUME Init PROVE IInv /\ AlphaInv
  OBVIOUS
<1>1. TypeOK
  <2>1. brd \in Boards
    BY DEF Init, ResetBoard, Boards
  <2>2. modes \in Modes /\ hwMode \in Modes
    BY DEF Init, Modes
  <2>3. crashes \in 0 .. MaxCrashes
    BY SteeringAssumption DEF Init
  <2>4. QED
    BY <2>1, <2>2, <2>3 DEF Init, TypeOK
<1>2. up /\ ~listening /\ todo = Boot
  BY DEF Init
<1>3. QED
  BY <1>1, <1>2, Booting

LEMMA Restarts ==
  ASSUME IInv, Restart
  PROVE  IInv' /\ AlphaInv'
<1>1. TypeOK'
  BY DEF IInv, BaseInv, TypeOK, Restart
<1>2. up' /\ ~listening' /\ todo' = Boot'
  <2>1. ~listening
    BY DEF IInv, BaseInv, StageInv, Restart
  <2>2. Boot' = Boot
    BY DEF Boot, FirstStatus, ToggleSWTrigger, AtRest
  <2>3. QED
    BY <2>1, <2>2 DEF Restart
<1>3. (TypeOK /\ up /\ ~listening /\ todo = Boot)' => (IInv /\ AlphaInv)'
  BY Booting, PTL
<1>4. QED
  BY <1>1, <1>2, <1>3

LEMMA Crashes ==
  ASSUME IInv, Crash
  PROVE  IInv' /\ AlphaInv'
<1>1. /\ up' = FALSE /\ todo' = <<>> /\ listening' = FALSE /\ crashes' = crashes + 1
      /\ crashes < MaxCrashes
      /\ UNCHANGED <<hwMode, pending, modes, brd, ksine, job, lost>>
  BY DEF Crash
<1>2. TypeOK'
  <2>1. TypeOK /\ MaxCrashes \in Nat
    BY SteeringAssumption DEF IInv, BaseInv
  <2>2. crashes' \in 0 .. MaxCrashes
    BY <1>1, <2>1 DEF TypeOK
  <2>3. QED
    BY <1>1, <2>1, <2>2 DEF TypeOK
<1>3. StageInv' /\ RestInv' /\ FireInv' /\ FiredInv'
  BY <1>1 DEF StageInv, RestInv, FireInv, FiredInv, Triggered
<1>4. AlphaInv'
  BY <1>1 DEF AlphaInv, ModesInv, OfflineInv
<1>5. QED
  BY <1>2, <1>3, <1>4 DEF IInv, BaseInv

LEMMA Stutters == IInv /\ UNCHANGED vars => IInv' /\ (AlphaInv => AlphaInv')
<1> SUFFICES ASSUME IInv, UNCHANGED vars PROVE IInv' /\ (AlphaInv => AlphaInv')
  OBVIOUS
<1>1. UNCHANGED <<hwMode, pending, modes, brd, ksine, todo, listening, up, crashes, job, lost>>
  BY DEF vars
<1>2. \A x : Cell(x)' = Cell(x)
  BY <1>1 DEF Cell
<1>3. TypeOK' /\ StageInv' /\ RestInv'
  BY <1>1, <1>2 DEF IInv, BaseInv, TypeOK, StageInv, RestInv
<1>4. FireInv' /\ FiredInv'
  BY <1>1, <1>2 DEF IInv, FireInv, FiredInv, Triggered
<1>5. AlphaInv => AlphaInv'
  BY <1>1 DEF AlphaInv, ModesInv, OfflineInv, Known
<1>6. QED
  BY <1>3, <1>4, <1>5 DEF IInv, BaseInv

\* Every step keeps the invariant, and on the alpha unit what is known of the
\* modes too.
LEMMA Inductive ==
  ASSUME IInv, [Next]_vars
  PROVE  IInv' /\ (Unit = "ALPHA" /\ AlphaInv => AlphaInv')
<1>1. TypeOK /\ StageInv /\ RestInv /\ FireInv /\ FiredInv
  BY DEF IInv, BaseInv
<1>2. CASE Step
  <2>1. IInv'
    BY <1>1, <1>2, StepType, StepStage, StepRest, StepFire, StepFired DEF IInv, BaseInv
  <2>2. AlphaInv => AlphaInv'
    BY <1>1, <1>2, StepModes, StepOffline DEF AlphaInv
  <2>3. QED
    BY <2>1, <2>2
<1>3. ASSUME NEW c \in Commands, SteeringCommand(c)
      PROVE  IInv' /\ (AlphaInv => AlphaInv')
  BY <1>3, DispatchSteering
<1>4. ASSUME NEW p \in {ConfigProgram, TimerProgram, ScanLimitProgram},
             Dispatch(p), UNCHANGED job
      PROVE  IInv' /\ (Unit = "ALPHA" /\ AlphaInv => AlphaInv')
  <2>1. p \in Seq(Quiet)
    BY QuietPrograms
  <2>2. Unit = "ALPHA" => RefreshesAfterForgetting(p)
    BY QuietPrograms
  <2>3. QED
    BY <1>4, <2>1, <2>2, DispatchQuiet DEF AlphaInv
<1>5. ASSUME NEW m \in Modes, ChangeMode(m)
      PROVE  IInv' /\ (AlphaInv => AlphaInv')
  BY <1>5, ModeChange
<1>6. CASE Crash
  BY <1>6, Crashes
<1>7. CASE Restart
  BY <1>7, Restarts
<1>8. CASE UNCHANGED vars
  BY <1>8, Stutters
<1>9. CASE ConfigInterrupt \/ StatusTimer \/ ScanLimitInterrupt
  BY <1>4, <1>9 DEF ConfigInterrupt, StatusTimer, ScanLimitInterrupt
<1>10. QED
  BY <1>2, <1>3, <1>5, <1>6, <1>7, <1>8, <1>9 DEF Next

-----------------------------------------------------------------------------
(* The theorems. *)

LEMMA Invariant == Spec => [](IInv /\ (Unit = "ALPHA" => AlphaInv))
<1>1. Init => IInv /\ (Unit = "ALPHA" => AlphaInv)
  BY Initial
<1>2. IInv /\ (Unit = "ALPHA" => AlphaInv) /\ [Next]_vars
        => (IInv /\ (Unit = "ALPHA" => AlphaInv))'
  BY Inductive
<1>3. QED
  BY <1>1, <1>2, PTL DEF Spec

\* The register fields keep to their widths, and a process that listens is up.
THEOREM TypeCorrect == Spec => []TypeOK
<1>1. IInv => TypeOK
  BY DEF IInv, BaseInv
<1>2. QED
  BY <1>1, Invariant, PTL

\* Between handlers the register is at rest, whatever command was cut short by
\* a crash before (handleSteeringCommand, DUHWMgr::initialize).
THEOREM RestingIsAnalog == Spec => []RestsAnalog
<1>1. IInv => RestsAnalog
  <2> SUFFICES ASSUME IInv, Idle
               PROVE  /\ brd.src = "Analog" /\ brd.valid = "VALID" /\ brd.trigger = 0
                      /\ brd.force = ForceMode
    BY DEF RestsAnalog
  <2>1. \A x \in DOMAIN Rest : Cell(x) = Rest[x]
    BY AtIdle DEF IInv, BaseInv
  <2>2. QED
    BY <2>1 DEF Rest, Cell, Units
<1>2. QED
  BY <1>1, Invariant, PTL

\* The trigger fires with the two words of the command obeyed last, marked
\* invalid exactly when the DCUs are to boresight or calibrate instead.
THEOREM FiresRight == Spec => []FiresAsCommanded
<1>1. IInv => FiresAsCommanded
  <2> SUFFICES ASSUME IInv, Triggered
               PROVE  /\ ksine["ALPHA"] = job.alpha /\ ksine["BETA"] = job.beta
                      /\ brd.valid = "INVALID" <=> "On" \in {job.RLCP, job.RLSC}
                      /\ job.RLSC = "On" => brd.dcuCmd = "CALIBRATION"
                      /\ job.RLSC = "Off" /\ job.RLCP = "On" => brd.dcuCmd = "BORESIGHT"
    BY DEF FiresAsCommanded
  <2>1. \A x \in Used : Required(x, Cell(x), job)
    BY DEF IInv, FiredInv
  <2>2. Required("ALPHA", ksine["ALPHA"], job) /\ Required("BETA", ksine["BETA"], job)
    BY <2>1 DEF Used, Units, Cell
  <2>3. Required("valid", brd["valid"], job) /\ Required("dcuCmd", brd["dcuCmd"], job)
    BY <2>1 DEF Used, Units, Cell
  <2>4. QED
    BY <2>2, <2>3 DEF Required
<1>2. QED
  BY <1>1, Invariant, PTL

\* On the alpha unit the modes known between handlers are the current ones,
\* unless their interrupt waits or was lost (handleConfigInterruptRefresh).
THEOREM ModesAreCurrent ==
  ASSUME Unit = "ALPHA"
  PROVE  Spec => []ModesCurrent
<1>1. ModesInv /\ IInv => ModesCurrent
  <2> SUFFICES ASSUME ModesInv, IInv, Idle, ~pending, ~lost
               PROVE  /\ modes = hwMode
                      /\ brd.swc = hwMode.swc /\ brd.olte = hwMode.olte
    BY DEF ModesCurrent
  <2>1. up /\ todo = <<>>
    BY DEF IInv, BaseInv, TypeOK, Idle
  <2>2. Known
    BY <2>1 DEF ModesInv
  <2>3. QED
    BY <2>2 DEF Known
<1>2. Spec => [](IInv /\ AlphaInv)
  BY Invariant, PTL
<1>3. AlphaInv => ModesInv
  BY DEF AlphaInv
<1>4. QED
  BY <1>1, <1>2, <1>3, PTL

\* On the alpha unit digital steering fires only offline or in force test mode,
\* but for a mode change that the application cannot know of yet.
THEOREM OnlyOffline ==
  ASSUME Unit = "ALPHA"
  PROVE  Spec => []OfflineOnly
<1>1. AlphaInv => OfflineOnly
  BY DEF AlphaInv, OfflineInv, OfflineOnly, Triggered
<1>2. Spec => [](IInv /\ AlphaInv)
  BY Invariant, PTL
<1>3. QED
  BY <1>1, <1>2, PTL

=============================================================================
