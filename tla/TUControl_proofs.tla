------------------------- MODULE TUControl_proofs -------------------------
(***************************************************************************)
(* Proofs about TUControl, for any steering commands, tests, settings and  *)
(* bounds.                                                                 *)
(*                                                                         *)
(* What a handler has still to do is a sequence of register accesses.  The *)
(* invariant says what each access that is left does, and what the         *)
(* register is where none is left that touches a bit.  The check of the    *)
(* words is exact by the arithmetic of rounding.                           *)
(***************************************************************************)
EXTENDS TUControl, SequenceTheorems, TLAPS

Adopt   == [op |-> "adopt"]
Request == [op |-> "request"]
Release == Put({Trigger}, {})
Signals == {Trigger, RLCP, RLSC}

Puts    == {Put(f, b) : f \in SUBSET Int, b \in SUBSET Int}
Latches == {Latch(c.alpha, c.beta, Single) : c \in Steerings}
             \cup {Latch(t.alpha, t.beta, t.setup) : t \in Tests}
Access  == Puts \cup Latches \cup {Adopt, Request}

Touches(i, b) == i.op = "put" /\ b \in i.field \cup i.bits
Fires(i)      == i.op = "put" /\ Trigger \in i.bits

Untouched(b) == \A i \in DOMAIN todo : ~Touches(todo[i], b)
Latched == ksine = [ALPHA |-> job.alpha, BETA |-> job.beta] /\ setup = job.setup
Flagged(f, bits) == f \in bits <=> f \in job.flags

BootInv ==
  /\ up \in BOOLEAN
  /\ todo \in Seq(Access)
  /\ ~up => todo = <<>> /\ told = {}
  /\ Booting => /\ told = {}
                /\ \/ todo = Boot
                   \/ todo = <<Request>> /\ reg \cap Signals = {}
  /\ ~Booting => \A i \in DOMAIN todo : todo[i] # Adopt

\* What is left to do makes, for every bit of the configuration, what was told.
ConfigInv ==
  \A s \in told : \A b \in Configured :
    /\ Untouched(b) => (b \in reg <=> b \in SettingBits(s))
    /\ \A i \in DOMAIN todo :
         Touches(todo[i], b) => (b \in todo[i].bits <=> b \in SettingBits(s))

\* What is left to do ends with the signals off.
OffInv ==
  \A f \in Signals :
    /\ Untouched(f) => f \notin reg
    /\ \A i \in DOMAIN todo :
         Touches(todo[i], f) /\ (\A j \in DOMAIN todo : j > i => ~Touches(todo[j], f))
           => f \notin todo[i].bits

\* The words are latched first, as the job says.
LatchInv ==
  \A i \in DOMAIN todo : todo[i].op = "latch" =>
    /\ i = 1
    /\ todo[i] = Latch(job.alpha, job.beta, job.setup)

\* An access that will set the trigger finds words and signals as the job says.
FireInv ==
  \A i \in DOMAIN todo : Fires(todo[i]) =>
    /\ i + 1 \in DOMAIN todo /\ todo[i + 1] = Release
    /\ todo[1].op # "latch" => Latched
    /\ \A f \in {RLCP, RLSC} :
         /\ (\A j \in 1 .. i : ~Touches(todo[j], f)) => Flagged(f, reg)
         /\ \A j \in 1 .. i : Touches(todo[j], f) => f \in job.flags /\ f \in todo[j].bits

FiredInv ==
  Trigger \in reg =>
    /\ todo # <<>> /\ Head(todo) = Release
    /\ Latched
    /\ \A f \in {RLCP, RLSC} : Flagged(f, reg)

SignalInv == up /\ ~Booting => OffInv /\ LatchInv /\ FireInv /\ FiredInv

JobInv == job.flags \subseteq {RLCP, RLSC}

IInv == BootInv /\ ConfigInv /\ SignalInv /\ JobInv

-----------------------------------------------------------------------------
(* One access. *)

\* The accesses that remain after the first one.
LEMMA Rest ==
  ASSUME todo \in Seq(Access), todo # <<>>, todo' = Tail(todo)
  PROVE  /\ todo' \in Seq(Access)
         /\ 1 \in DOMAIN todo /\ Head(todo) = todo[1] /\ todo[1] \in Access
         /\ \A i \in DOMAIN todo' : i \in Nat /\ i + 1 \in DOMAIN todo /\ todo'[i] = todo[i + 1]
         /\ \A i \in DOMAIN todo : i \in Nat /\ (i = 1 \/ (i - 1 \in DOMAIN todo' /\ todo[i] = todo'[i - 1]))
         /\ \A i \in DOMAIN todo' : i > 0
OBVIOUS

\* An access of a running handler changes the bits it touches and no other.
LEMMA AccessBit ==
  ASSUME BootInv, Step, ~Booting, NEW b
  PROVE  b \in reg' <=> IF Touches(todo[1], b) THEN b \in todo[1].bits ELSE b \in reg
<1>1. /\ todo # <<>> /\ todo \in Seq(Access) /\ todo' = Tail(todo)
      /\ Execute(Head(todo))
  BY DEF BootInv, Step
<1>2. 1 \in DOMAIN todo /\ Head(todo) = todo[1] /\ todo[1] \in Access
  BY <1>1, Rest
<1>3. todo[1] # Adopt
  BY <1>2 DEF BootInv
<1>4. CASE todo[1] \in Puts
  <2>1. PICK f \in SUBSET Int, c \in SUBSET Int : todo[1] = Put(f, c)
    BY <1>4 DEF Puts
  <2>2. reg' = UpdateReg(f, c, reg)
    BY <1>1, <1>2, <2>1 DEF Execute, Put
  <2>3. QED
    BY <2>1, <2>2 DEF UpdateReg, Touches, Put
<1>5. CASE todo[1] \in Latches \cup {Request}
  <2>1. todo[1].op \in {"latch", "request"}
    BY <1>5 DEF Latches, Latch, Request
  <2>2. QED
    BY <1>1, <1>2, <2>1 DEF Execute, Touches
<1>6. QED
  BY <1>2, <1>3, <1>4, <1>5 DEF Access

LEMMA AccessLatch ==
  ASSUME BootInv, Step, ~Booting
  PROVE  IF todo[1].op = "latch"
         THEN ksine' = [ALPHA |-> todo[1].alpha, BETA |-> todo[1].beta] /\ setup' = todo[1].setup
         ELSE ksine' = ksine /\ setup' = setup
<1>1. todo # <<>> /\ Execute(Head(todo)) /\ Head(todo) = todo[1]
  BY Rest DEF BootInv, Step
<1>2. QED
  BY <1>1 DEF Execute

\* The registers that are adopted at the start are shifted past the signals.
LEMMA AdoptedOff == ReadMask(BoardControl, reg) \cap Signals = {}
<1>1. Lowest(BoardControl) = 2
  BY DEF Lowest, BoardControl
<1>2. QED
  BY <1>1 DEF ReadMask, BoardControl, Signals, Trigger, RLCP, RLSC

LEMMA StepBoot == BootInv /\ Step => BootInv'
<1> SUFFICES ASSUME BootInv, Step PROVE BootInv'
  OBVIOUS
<1>1. /\ todo # <<>> /\ todo \in Seq(Access) /\ todo' = Tail(todo)
      /\ up' = up /\ told' = told /\ up
      /\ Execute(Head(todo))
  BY DEF BootInv, Step
<1>2. CASE todo = Boot
  <2>1. todo' = <<Request>> /\ Head(todo) = Adopt
    BY <1>1, <1>2 DEF Boot, Adopt, Request
  <2>2. reg' = ReadMask(BoardControl, reg)
    BY <1>1, <2>1 DEF Execute, Adopt
  <2>3. Booting
    BY <1>2 DEF Booting, Boot
  <2>4. Booting'
    BY <2>1 DEF Booting, Request
  <2>5. QED
    BY <1>1, <2>1, <2>2, <2>3, <2>4, AdoptedOff, Rest DEF BootInv
<1>3. CASE todo = <<Request>>
  <2>1. todo' = <<>>
    BY <1>1, <1>3
  <2>2. QED
    BY <1>1, <2>1 DEF BootInv, Booting
<1>4. CASE ~Booting
  <2>1. ~Booting'
    BY <1>1, <1>4, Rest DEF Booting
  <2>2. \A i \in DOMAIN todo' : todo'[i] # Adopt
    BY <1>1, <1>4, Rest DEF BootInv
  <2>3. QED
    BY <1>1, <2>1, <2>2, Rest DEF BootInv
<1>5. QED
  BY <1>2, <1>3, <1>4 DEF BootInv

LEMMA StepConfig == BootInv /\ ConfigInv /\ Step => ConfigInv'
<1> SUFFICES ASSUME BootInv, ConfigInv, Step, NEW s \in told', NEW b \in Configured
             PROVE  /\ Untouched(b)' => (b \in reg' <=> b \in SettingBits(s))
                    /\ \A i \in DOMAIN todo' :
                         Touches(todo'[i], b) => (b \in todo'[i].bits <=> b \in SettingBits(s))
  BY DEF ConfigInv
<1>1. todo # <<>> /\ todo \in Seq(Access) /\ todo' = Tail(todo) /\ s \in told
  BY DEF BootInv, Step
<1>2. ~Booting
  BY <1>1 DEF BootInv
<1>3. b \in reg' <=> IF Touches(todo[1], b) THEN b \in todo[1].bits ELSE b \in reg
  BY <1>2, AccessBit
<1>4. /\ Untouched(b) => (b \in reg <=> b \in SettingBits(s))
      /\ \A i \in DOMAIN todo :
           Touches(todo[i], b) => (b \in todo[i].bits <=> b \in SettingBits(s))
  BY <1>1 DEF ConfigInv
<1>5. Untouched(b)' /\ ~Touches(todo[1], b) => Untouched(b)
  BY <1>1, Rest DEF Untouched
<1>6. QED
  BY <1>1, <1>3, <1>4, <1>5, Rest

\* What is left is described by the same formulas, the access made moved into
\* the state.
LEMMA StepOff ==
  BootInv /\ ~Booting /\ OffInv /\ Step => OffInv'
<1> SUFFICES ASSUME BootInv, ~Booting, OffInv, Step, NEW f \in Signals
             PROVE  /\ Untouched(f)' => f \notin reg'
                    /\ \A i \in DOMAIN todo' :
                         Touches(todo'[i], f)
                         /\ (\A j \in DOMAIN todo' : j > i => ~Touches(todo'[j], f))
                           => f \notin todo'[i].bits
  BY DEF OffInv
<1>1. todo # <<>> /\ todo \in Seq(Access) /\ todo' = Tail(todo)
  BY DEF BootInv, Step
<1>2. f \in reg' <=> IF Touches(todo[1], f) THEN f \in todo[1].bits ELSE f \in reg
  BY AccessBit
<1>3. Untouched(f)' => f \notin reg'
  <2>1. SUFFICES ASSUME Untouched(f)' PROVE f \notin reg'
    OBVIOUS
  <2>2. \A j \in DOMAIN todo : j # 1 => ~Touches(todo[j], f)
    BY <1>1, <2>1, Rest DEF Untouched
  <2>3. CASE Touches(todo[1], f)
    <3>1. 1 \in DOMAIN todo
      BY <1>1, Rest
    <3>2. \A j \in DOMAIN todo : j > 1 => ~Touches(todo[j], f)
      BY <2>2
    <3>3. f \notin todo[1].bits
      BY <2>3, <3>1, <3>2 DEF OffInv
    <3>4. QED
      BY <1>2, <2>3, <3>3
  <2>4. CASE ~Touches(todo[1], f)
    <3>1. Untouched(f)
      BY <2>2, <2>4 DEF Untouched
    <3>2. QED
      BY <1>2, <2>4, <3>1 DEF OffInv
  <2>5. QED
    BY <2>3, <2>4
<1>4. ASSUME NEW i \in DOMAIN todo', Touches(todo'[i], f),
             \A j \in DOMAIN todo' : j > i => ~Touches(todo'[j], f)
      PROVE  f \notin todo'[i].bits
  <2>1. i \in Nat /\ i + 1 \in DOMAIN todo /\ todo'[i] = todo[i + 1]
    BY <1>1, Rest
  <2>2. ASSUME NEW j \in DOMAIN todo, j > i + 1
        PROVE  ~Touches(todo[j], f)
    <3>1. j \in Nat /\ j - 1 \in DOMAIN todo' /\ todo[j] = todo'[j - 1] /\ j - 1 > i
      BY <1>1, <2>1, <2>2, Rest
    <3>2. QED
      BY <1>4, <3>1
  <2>3. QED
    BY <1>4, <2>1, <2>2 DEF OffInv
<1>5. QED
  BY <1>3, <1>4

LEMMA StepLatch == BootInv /\ ~Booting /\ LatchInv /\ Step => LatchInv'
<1> SUFFICES ASSUME BootInv, ~Booting, LatchInv, Step
             PROVE  \A i \in DOMAIN todo' : todo'[i].op # "latch"
  BY DEF LatchInv
<1>1. todo # <<>> /\ todo \in Seq(Access) /\ todo' = Tail(todo)
  BY DEF BootInv, Step
<1>2. ASSUME NEW i \in DOMAIN todo'
      PROVE  todo'[i].op # "latch"
  <2>1. i > 0 /\ i \in Nat /\ i + 1 \in DOMAIN todo /\ todo'[i] = todo[i + 1]
    BY <1>1, Rest
  <2>2. QED
    BY <2>1 DEF LatchInv
<1>3. QED
  BY <1>2

\* After the first access the words are those of the job, if the trigger is still to come.
LEMMA StepLatched ==
  ASSUME BootInv, ~Booting, LatchInv, Step,
         todo[1].op # "latch" => Latched
  PROVE  Latched'
<1>1. todo # <<>> /\ 1 \in DOMAIN todo /\ job' = job
  BY Rest DEF BootInv, Step
<1>2. CASE todo[1].op = "latch"
  <2>1. todo[1] = Latch(job.alpha, job.beta, job.setup)
    BY <1>1, <1>2 DEF LatchInv
  <2>2. ksine' = [ALPHA |-> job.alpha, BETA |-> job.beta] /\ setup' = job.setup
    BY <1>2, <2>1, AccessLatch DEF Latch
  <2>3. QED
    BY <1>1, <2>2 DEF Latched
<1>3. CASE todo[1].op # "latch"
  BY <1>1, <1>3, AccessLatch DEF Latched
<1>4. QED
  BY <1>2, <1>3

LEMMA StepFire ==
  BootInv /\ ~Booting /\ LatchInv /\ FireInv /\ Step => FireInv'
<1> SUFFICES ASSUME BootInv, ~Booting, LatchInv, FireInv, Step,
                    NEW i \in DOMAIN todo', Fires(todo'[i])
             PROVE  /\ i + 1 \in DOMAIN todo' /\ todo'[i + 1] = Release
                    /\ Latched'
                    /\ \A f \in {RLCP, RLSC} :
                         /\ (\A j \in 1 .. i : ~Touches(todo'[j], f)) => Flagged(f, reg)'
                         /\ \A j \in 1 .. i : Touches(todo'[j], f) =>
                              f \in job'.flags /\ f \in todo'[j].bits
  BY DEF FireInv
<1>1. todo # <<>> /\ todo \in Seq(Access) /\ todo' = Tail(todo) /\ job' = job
  BY DEF BootInv, Step
<1>2. /\ i \in Nat /\ i > 0 /\ i + 1 \in DOMAIN todo /\ Fires(todo[i + 1])
      /\ \A j \in 1 .. i : todo'[j] = todo[j + 1]
  <2>1. DOMAIN todo' = 1 .. Len(todo')
    BY <1>1
  <2>2. QED
    BY <1>1, <2>1, Rest
<1>3. /\ i + 2 \in DOMAIN todo /\ todo[i + 2] = Release
      /\ todo[1].op # "latch" => Latched
      /\ \A f \in {RLCP, RLSC} :
           /\ (\A j \in 1 .. i + 1 : ~Touches(todo[j], f)) => Flagged(f, reg)
           /\ \A j \in 1 .. i + 1 : Touches(todo[j], f) =>
                f \in job.flags /\ f \in todo[j].bits
  BY <1>2 DEF FireInv
<1>4. i + 1 \in DOMAIN todo' /\ todo'[i + 1] = Release
  BY <1>1, <1>2, <1>3, Rest
<1>5. Latched'
  BY <1>3, StepLatched
<1>6. ASSUME NEW f \in {RLCP, RLSC}
      PROVE  /\ (\A j \in 1 .. i : ~Touches(todo'[j], f)) => Flagged(f, reg)'
             /\ \A j \in 1 .. i : Touches(todo'[j], f) => f \in job'.flags /\ f \in todo'[j].bits
  <2>1. f \in reg' <=> IF Touches(todo[1], f) THEN f \in todo[1].bits ELSE f \in reg
    BY AccessBit
  <2>2. ASSUME \A j \in 1 .. i : ~Touches(todo'[j], f) PROVE Flagged(f, reg)'
    <3>1. \A j \in 1 .. i + 1 : j = 1 \/ (j - 1 \in 1 .. i /\ todo'[j - 1] = todo[j])
      BY <1>2
    <3>2. ~Touches(todo[1], f) => Flagged(f, reg)
      BY <1>3, <2>2, <3>1
    <3>3. Touches(todo[1], f) => f \in job.flags /\ f \in todo[1].bits
      BY <1>2, <1>3
    <3>4. QED
      BY <1>1, <2>1, <3>2, <3>3 DEF Flagged
  <2>3. ASSUME NEW j \in 1 .. i, Touches(todo'[j], f)
        PROVE  f \in job'.flags /\ f \in todo'[j].bits
    BY <1>1, <1>2, <1>3, <2>3
  <2>4. QED
    BY <2>2, <2>3
<1>7. QED
  BY <1>4, <1>5, <1>6

LEMMA StepFired ==
  BootInv /\ ~Booting /\ LatchInv /\ FireInv /\ FiredInv /\ Step => FiredInv'
<1> SUFFICES ASSUME BootInv, ~Booting, LatchInv, FireInv, FiredInv, Step, Trigger \in reg'
             PROVE  /\ todo' # <<>> /\ Head(todo') = Release
                    /\ Latched'
                    /\ \A f \in {RLCP, RLSC} : Flagged(f, reg)'
  BY DEF FiredInv
<1>1. todo # <<>> /\ todo \in Seq(Access) /\ todo' = Tail(todo) /\ job' = job
  BY DEF BootInv, Step
<1>2. 1 \in DOMAIN todo /\ Head(todo) = todo[1]
  BY <1>1, Rest
<1>3. IF Touches(todo[1], Trigger) THEN Trigger \in todo[1].bits ELSE Trigger \in reg
  BY AccessBit
<1>4. Trigger \notin reg
  BY <1>2, <1>3 DEF FiredInv, Release, Put, Touches
<1>5. Fires(todo[1])
  BY <1>3, <1>4 DEF Fires, Touches
<1>6. /\ 2 \in DOMAIN todo /\ todo[2] = Release
      /\ todo[1].op # "latch" => Latched
      /\ \A f \in {RLCP, RLSC} :
           /\ (\A j \in 1 .. 1 : ~Touches(todo[j], f)) => Flagged(f, reg)
           /\ \A j \in 1 .. 1 : Touches(todo[j], f) => f \in job.flags /\ f \in todo[j].bits
  BY <1>2, <1>5 DEF FireInv
<1>7. todo' # <<>> /\ Head(todo') = Release
  <2>1. 1 \in DOMAIN todo' /\ todo'[1] = todo[2] /\ todo' \in Seq(Access)
    BY <1>1, <1>6, Rest
  <2>2. QED
    BY <1>6, <2>1
<1>8. Latched'
  BY <1>6, StepLatched
<1>9. ASSUME NEW f \in {RLCP, RLSC} PROVE Flagged(f, reg)'
  <2>1. f \in reg' <=> IF Touches(todo[1], f) THEN f \in todo[1].bits ELSE f \in reg
    BY AccessBit
  <2>2. QED
    BY <1>1, <1>6, <2>1 DEF Flagged
<1>10. QED
  BY <1>7, <1>8, <1>9

LEMMA StepSignal == BootInv /\ SignalInv /\ Step => SignalInv'
<1> SUFFICES ASSUME BootInv, SignalInv, Step, up', ~Booting'
             PROVE  OffInv' /\ LatchInv' /\ FireInv' /\ FiredInv'
  BY DEF SignalInv
<1>1. todo # <<>> /\ todo' = Tail(todo) /\ up
  BY DEF BootInv, Step
<1>2. CASE Booting
  <2>1. todo = <<Request>> /\ reg \cap Signals = {}
    <3>1. todo = Boot => Booting'
      BY <1>1 DEF Boot, Booting
    <3>2. QED
      BY <1>2, <3>1 DEF BootInv
  <2>2. todo' = <<>> /\ reg' = reg
    BY <1>1, <2>1 DEF Step, Execute, Request
  <2>3. QED
    BY <2>1, <2>2 DEF OffInv, LatchInv, FireInv, FiredInv, Signals
<1>3. CASE ~Booting
  <2>1. OffInv /\ LatchInv /\ FireInv /\ FiredInv
    BY <1>1, <1>3 DEF SignalInv
  <2>2. QED
    BY <1>3, <2>1, StepOff, StepLatch, StepFire, StepFired
<1>4. QED
  BY <1>2, <1>3

-----------------------------------------------------------------------------
(* The programs. *)

\* A program a handler may be given: it ends with the signals off, latches the
\* words first and, when it sets the trigger, has set the signals of the job.
Legal(p, j) ==
  /\ p \in Seq(Access)
  /\ \A i \in DOMAIN p : p[i].op \notin {"adopt", "request"}
  /\ \A f \in Signals : \A i \in DOMAIN p :
       Touches(p[i], f) /\ (\A k \in DOMAIN p : k > i => ~Touches(p[k], f)) => f \notin p[i].bits
  /\ \A i \in DOMAIN p : p[i].op = "latch" => i = 1 /\ p[i] = Latch(j.alpha, j.beta, j.setup)
  /\ \A i \in DOMAIN p : Fires(p[i]) =>
       /\ p[1].op = "latch"
       /\ i + 1 \in DOMAIN p /\ p[i + 1] = Release
       /\ \A f \in {RLCP, RLSC} :
            /\ (\A k \in 1 .. i : ~Touches(p[k], f)) => f \notin j.flags
            /\ \A k \in 1 .. i : Touches(p[k], f) => f \in j.flags /\ f \in p[k].bits

Aside(p) == \A i \in DOMAIN p : \A b \in Configured : ~Touches(p[i], b)

LEMMA PutAccess ==
  ASSUME NEW f \in SUBSET Int, NEW b \in SUBSET Int
  PROVE  Put(f, b) \in Access
BY DEF Access, Puts

LEMMA SignalElements ==
  ASSUME NEW w, NEW b \in Int
  PROVE  /\ SignalOn(w, b) \in Seq(Access)
         /\ Len(SignalOn(w, b)) = IF w = "On" THEN 1 ELSE 0
         /\ w = "On" => SignalOn(w, b)[1] = Put({b}, {b})
<1>1. Put({b}, {b}) \in Access
  BY PutAccess
<1>2. QED
  BY <1>1 DEF SignalOn

\* Where the accesses of a steering command stand: n of RLCP and RLSC are set.
LEMMA SteeringElements ==
  ASSUME NEW c \in Steerings
  PROVE  \E n \in 0 .. 2 : LET p == Steering(c) IN
         /\ p \in Seq(Access) /\ DOMAIN p = 1 .. n + 5
         /\ p[1] = Latch(c.alpha, c.beta, Single)
         /\ p[n + 2] = Put({Trigger}, {Trigger}) /\ p[n + 3] = Put({Trigger}, {})
         /\ p[n + 4] = Put({RLCP}, {}) /\ p[n + 5] = Put({RLSC}, {})
         /\ c.RLCP = "On" => p[2] = Put({RLCP}, {RLCP}) /\ n > 0
         /\ c.RLSC = "On" => p[n + 1] = Put({RLSC}, {RLSC}) /\ n > 0
         /\ \A i \in DOMAIN p : \/ i = 1
                                \/ c.RLCP = "On" /\ i = 2
                                \/ c.RLSC = "On" /\ i = n + 1
                                \/ i \in {n + 2, n + 3, n + 4, n + 5}
<1>1. PICK a : a = Latch(c.alpha, c.beta, Single)
  OBVIOUS
<1>2. PICK x : x = SignalOn(c.RLCP, RLCP)
  OBVIOUS
<1>3. PICK y : y = SignalOn(c.RLSC, RLSC)
  OBVIOUS
<1>4. PICK d, e, f, g : /\ d = Put({Trigger}, {Trigger}) /\ e = Put({Trigger}, {})
                        /\ f = Put({RLCP}, {}) /\ g = Put({RLSC}, {})
  OBVIOUS
<1>5. PICK p : p = Steering(c)
  OBVIOUS
<1>6. PICK n : n = Len(x) + Len(y)
  OBVIOUS
<1>7. /\ RLCP \in Int /\ RLSC \in Int
      /\ a \in Access /\ d \in Access /\ e \in Access /\ f \in Access /\ g \in Access
  BY <1>1, <1>4, PutAccess DEF Access, Latches, Trigger, RLCP, RLSC
<1>8. /\ x \in Seq(Access) /\ Len(x) = IF c.RLCP = "On" THEN 1 ELSE 0
      /\ c.RLCP = "On" => x[1] = Put({RLCP}, {RLCP})
  BY <1>2, <1>7, SignalElements
<1>9. /\ y \in Seq(Access) /\ Len(y) = IF c.RLSC = "On" THEN 1 ELSE 0
      /\ c.RLSC = "On" => y[1] = Put({RLSC}, {RLSC})
  BY <1>3, <1>7, SignalElements
<1>10. PICK q : q = <<a>> \o x \o y
  OBVIOUS
<1>11. /\ q \in Seq(Access) /\ Len(q) = n + 1 /\ q[1] = a /\ n \in 0 .. 2
       /\ c.RLCP = "On" => q[2] = Put({RLCP}, {RLCP}) /\ n > 0
       /\ c.RLSC = "On" => q[n + 1] = Put({RLSC}, {RLSC}) /\ n > 0
  <2>1. <<a>> \o x \in Seq(Access) /\ Len(<<a>> \o x) = 1 + Len(x)
    <3>1. a \in Access /\ x \in Seq(Access)
      BY <1>7, <1>8
    <3>2. QED
      BY <3>1
  <2>2. n \in 0 .. 2 /\ Len(x) \in Nat /\ Len(y) \in Nat
    BY <1>6, <1>8, <1>9
  <2>3. q \in Seq(Access) /\ Len(q) = n + 1
    BY <1>6, <1>8, <1>9, <1>10, <2>1
  <2>4. q[1] = a
    BY <1>7, <1>8, <1>9, <1>10, <2>1
  <2>5. ASSUME c.RLCP = "On" PROVE q[2] = Put({RLCP}, {RLCP}) /\ n > 0
    BY <1>6, <1>7, <1>8, <1>9, <1>10, <2>1, <2>2, <2>5
  <2>6. ASSUME c.RLSC = "On" PROVE q[n + 1] = Put({RLSC}, {RLSC}) /\ n > 0
    BY <1>6, <1>7, <1>8, <1>9, <1>10, <2>1, <2>2, <2>6
  <2>7. QED
    BY <2>2, <2>3, <2>4, <2>5, <2>6
<1>12. p = q \o <<d, e>> \o <<f, g>>
  BY <1>1, <1>2, <1>3, <1>4, <1>5, <1>10 DEF Steering, ToggleRLTDSignal
<1>13. /\ p \in Seq(Access) /\ Len(p) = n + 5
       /\ \A i \in 1 .. n + 1 : p[i] = q[i]
       /\ p[n + 2] = d /\ p[n + 3] = e /\ p[n + 4] = f /\ p[n + 5] = g
  <2>1. q \o <<d, e>> \in Seq(Access) /\ Len(q \o <<d, e>>) = n + 3
    BY <1>7, <1>11
  <2>2. QED
    BY <1>7, <1>11, <1>12, <2>1
<1>14. /\ p[1] = a /\ DOMAIN p = 1 .. n + 5
       /\ c.RLCP = "On" => p[2] = Put({RLCP}, {RLCP}) /\ n > 0
       /\ c.RLSC = "On" => p[n + 1] = Put({RLSC}, {RLSC}) /\ n > 0
  BY <1>11, <1>13
<1>15. \A i \in DOMAIN p : \/ i = 1
                           \/ c.RLCP = "On" /\ i = 2
                           \/ c.RLSC = "On" /\ i = n + 1
                           \/ i \in {n + 2, n + 3, n + 4, n + 5}
  <2>1. n = (IF c.RLCP = "On" THEN 1 ELSE 0) + (IF c.RLSC = "On" THEN 1 ELSE 0)
    BY <1>6, <1>8, <1>9
  <2>2. \A i \in 1 .. n + 5 : i \in {1, n + 2, n + 3, n + 4, n + 5} \/ i \in 2 .. n + 1
    BY <1>11
  <2>3. \A i \in 2 .. n + 1 : (c.RLCP = "On" /\ i = 2) \/ (c.RLSC = "On" /\ i = n + 1)
    BY <2>1
  <2>4. QED
    BY <1>14, <2>2, <2>3
<1>16. QED
  BY <1>1, <1>4, <1>5, <1>11, <1>13, <1>14, <1>15

SteeringJob(c) ==
  [alpha |-> c.alpha, beta |-> c.beta, setup |-> Single,
   flags |-> (IF c.RLCP = "On" THEN {RLCP} ELSE {}) \cup (IF c.RLSC = "On" THEN {RLSC} ELSE {})]
StressJob(t) == [alpha |-> t.alpha, beta |-> t.beta, setup |-> t.setup, flags |-> {}]

LEMMA SteeringLegal ==
  ASSUME NEW c \in Steerings
  PROVE  Legal(Steering(c), SteeringJob(c)) /\ Aside(Steering(c))
<1> SUFFICES ASSUME NEW p, p = Steering(c)
             PROVE  Legal(p, SteeringJob(c)) /\ Aside(p)
  OBVIOUS
<1> DEFINE a == Latch(c.alpha, c.beta, Single)
<1>5. PICK n \in 0 .. 2 :
         /\ p \in Seq(Access) /\ DOMAIN p = 1 .. n + 5
         /\ p[1] = a
         /\ p[n + 2] = Put({Trigger}, {Trigger}) /\ p[n + 3] = Put({Trigger}, {})
         /\ p[n + 4] = Put({RLCP}, {}) /\ p[n + 5] = Put({RLSC}, {})
         /\ c.RLCP = "On" => p[2] = Put({RLCP}, {RLCP}) /\ n > 0
         /\ c.RLSC = "On" => p[n + 1] = Put({RLSC}, {RLSC}) /\ n > 0
         /\ \A i \in DOMAIN p : \/ i = 1
                                \/ c.RLCP = "On" /\ i = 2
                                \/ c.RLSC = "On" /\ i = n + 1
                                \/ i \in {n + 2, n + 3, n + 4, n + 5}
  BY SteeringElements
<1>6. \A i \in 1 .. n + 5 : \/ i = 1
                            \/ c.RLCP = "On" /\ i = 2
                            \/ c.RLSC = "On" /\ i = n + 1
                            \/ i \in {n + 2, n + 3, n + 4, n + 5}
  BY <1>5
<1>7. a.op = "latch"
  BY DEF Latch
<1> HIDE DEF a
<1>8. \A i \in DOMAIN p : p[i].op \notin {"adopt", "request"}
  BY <1>5, <1>7 DEF Put
<1>9. ASSUME NEW f \in Signals, NEW i \in DOMAIN p, Touches(p[i], f),
             \A k \in DOMAIN p : k > i => ~Touches(p[k], f)
      PROVE  f \notin p[i].bits
  <2>1. /\ Touches(p[n + 3], Trigger) /\ Touches(p[n + 4], RLCP) /\ Touches(p[n + 5], RLSC)
        /\ {n + 3, n + 4, n + 5} \subseteq DOMAIN p
    BY <1>5 DEF Touches, Put
  <2>2. CASE f = Trigger
    <3>1. i \in {n + 3, n + 4, n + 5}
      BY <1>5, <1>9, <2>1, <2>2
    <3>2. QED
      BY <1>5, <3>1, <2>2 DEF Put, Trigger
  <2>3. CASE f = RLCP
    <3>1. i \in {n + 4, n + 5}
      BY <1>5, <1>9, <2>1, <2>3
    <3>2. QED
      BY <1>5, <3>1, <2>3 DEF Put
  <2>4. CASE f = RLSC
    <3>1. i = n + 5
      BY <1>5, <1>9, <2>1, <2>4
    <3>2. QED
      BY <1>5, <3>1, <2>4 DEF Put
  <2>5. QED
    BY <2>2, <2>3, <2>4 DEF Signals
<1>10. \A i \in DOMAIN p : p[i].op = "latch" => i = 1 /\ p[i] = a
  BY <1>5 DEF Put
<1>11. ASSUME NEW i \in DOMAIN p, Fires(p[i])
       PROVE  /\ p[1].op = "latch"
              /\ i + 1 \in DOMAIN p /\ p[i + 1] = Release
              /\ \A f \in {RLCP, RLSC} :
                   /\ (\A k \in 1 .. i : ~Touches(p[k], f)) => f \notin SteeringJob(c).flags
                   /\ \A k \in 1 .. i : Touches(p[k], f) =>
                        f \in SteeringJob(c).flags /\ f \in p[k].bits
  <2>1. i = n + 2
    BY <1>5, <1>7, <1>11 DEF Fires, Put, Trigger, RLCP, RLSC
  <2>2. p[1].op = "latch" /\ i + 1 \in DOMAIN p /\ p[i + 1] = Release
    BY <1>5, <1>7, <2>1 DEF Release
  <2>3. /\ RLCP \in SteeringJob(c).flags <=> c.RLCP = "On"
        /\ RLSC \in SteeringJob(c).flags <=> c.RLSC = "On"
    BY DEF SteeringJob, RLCP, RLSC
  <2>4. ASSUME NEW f \in {RLCP, RLSC}, \A k \in 1 .. i : ~Touches(p[k], f)
        PROVE  f \notin SteeringJob(c).flags
    BY <1>5, <2>1, <2>3, <2>4 DEF Touches, Put
  <2>5. ASSUME NEW f \in {RLCP, RLSC}, NEW k \in 1 .. i, Touches(p[k], f)
        PROVE  f \in SteeringJob(c).flags /\ f \in p[k].bits
    <3>1. k \in DOMAIN p /\ k # 1 /\ k # n + 2
      BY <1>5, <1>7, <2>1, <2>5 DEF Touches, Put, Trigger, RLCP, RLSC
    <3>2. (c.RLCP = "On" /\ k = 2) \/ (c.RLSC = "On" /\ k = n + 1)
      <4>1. k \in 2 .. n + 1
        BY <1>5, <2>1, <3>1
      <4>2. QED
        BY <1>6, <4>1
    <3>3. CASE c.RLCP = "On" /\ k = 2
      <4>1. p[k] = Put({RLCP}, {RLCP})
        BY <1>5, <3>3
      <4>2. QED
        BY <2>3, <2>5, <3>3, <4>1 DEF Touches, Put
    <3>4. CASE c.RLSC = "On" /\ k = n + 1
      <4>1. p[k] = Put({RLSC}, {RLSC})
        BY <1>5, <3>4
      <4>2. QED
        BY <2>3, <2>5, <3>4, <4>1 DEF Touches, Put
    <3>5. QED
      BY <3>2, <3>3, <3>4
  <2>6. QED
    BY <2>2, <2>4, <2>5
<1>12. Aside(p)
  BY <1>5, <1>7 DEF Aside, Touches, Put, Configured, Trigger, RLCP, RLSC
<1>13. a = Latch(SteeringJob(c).alpha, SteeringJob(c).beta, SteeringJob(c).setup)
  BY DEF SteeringJob, a
<1>14. QED
  BY <1>5, <1>8, <1>9, <1>10, <1>11, <1>12, <1>13 DEF Legal

LEMMA StressLegal ==
  ASSUME NEW t \in Tests
  PROVE  Legal(StressTest(t), StressJob(t)) /\ Aside(StressTest(t))
<1>1. PICK a : a = Latch(t.alpha, t.beta, t.setup)
  OBVIOUS
<1>2. PICK d, e : d = Put({Trigger}, {Trigger}) /\ e = Put({Trigger}, {})
  OBVIOUS
<1>3. PICK p : p = StressTest(t)
  OBVIOUS
<1>4. a \in Access /\ d \in Access /\ e \in Access
  BY <1>1, <1>2, PutAccess DEF Access, Latches, Trigger
<1>5. p = <<a>> \o <<d, e>>
  BY <1>1, <1>2, <1>3 DEF StressTest, ToggleRLTDSignal
<1>6. /\ p \in Seq(Access) /\ DOMAIN p = 1 .. 3
      /\ p[1] = a /\ p[2] = d /\ p[3] = e
  BY <1>4, <1>5
<1>7. /\ a.op = "latch" /\ a = Latch(StressJob(t).alpha, StressJob(t).beta, StressJob(t).setup)
      /\ StressJob(t).flags = {}
  BY <1>1 DEF Latch, StressJob
<1>8. \A i \in DOMAIN p : i = 1 \/ i = 2 \/ i = 3
  BY <1>6
<1>9. Aside(p)
  BY <1>2, <1>6, <1>7, <1>8 DEF Aside, Touches, Put, Configured, Trigger
<1>10. \A i \in DOMAIN p : p[i].op \notin {"adopt", "request"}
  BY <1>2, <1>6, <1>7, <1>8 DEF Put
<1>11. ASSUME NEW f \in Signals, NEW i \in DOMAIN p, Touches(p[i], f),
              \A k \in DOMAIN p : k > i => ~Touches(p[k], f)
       PROVE  f \notin p[i].bits
  <2>1. f = Trigger
    BY <1>2, <1>6, <1>7, <1>8, <1>11 DEF Touches, Put
  <2>2. Touches(p[3], Trigger)
    BY <1>2, <1>6 DEF Touches, Put
  <2>3. i = 3
    BY <1>6, <1>8, <1>11, <2>1, <2>2
  <2>4. QED
    BY <1>2, <1>6, <2>3 DEF Put
<1>12. \A i \in DOMAIN p : p[i].op = "latch" => i = 1 /\ p[i] = a
  BY <1>2, <1>6, <1>8 DEF Put
<1>13. ASSUME NEW i \in DOMAIN p, Fires(p[i])
       PROVE  /\ p[1].op = "latch"
              /\ i + 1 \in DOMAIN p /\ p[i + 1] = Release
              /\ \A f \in {RLCP, RLSC} : \A k \in 1 .. i : ~Touches(p[k], f)
  <2>1. i = 2
    BY <1>2, <1>6, <1>7, <1>8, <1>13 DEF Fires, Put
  <2>2. \A f \in {RLCP, RLSC} : \A k \in 1 .. 2 : ~Touches(p[k], f)
    BY <1>2, <1>6, <1>7 DEF Touches, Put, Trigger, RLCP, RLSC
  <2>3. QED
    BY <1>2, <1>6, <1>7, <2>1, <2>2 DEF Release
<1>14. QED
  BY <1>3, <1>6, <1>7, <1>9, <1>10, <1>11, <1>12, <1>13 DEF Legal

\* A program of puts that touch no signal is legal, whatever the job.
LEMMA PutsLegal ==
  ASSUME NEW p \in Seq(Puts), NEW j,
         \A i \in DOMAIN p : \A f \in Signals : ~Touches(p[i], f)
  PROVE  Legal(p, j)
<1>1. \A i \in DOMAIN p : p[i].op = "put" /\ p[i] \in Access
  BY DEF Puts, Put, Access
<1>2. p \in Seq(Access)
  BY <1>1
<1>3. \A i \in DOMAIN p : ~Fires(p[i])
  BY DEF Fires, Touches, Signals
<1>4. QED
  BY <1>1, <1>2, <1>3 DEF Legal

LEMMA ShutdownLegal ==
  LET p == <<Put({ShutdownBit}, {ShutdownBit})>>
  IN  Aside(p) /\ \A j : Legal(p, j)
<1> DEFINE p == <<Put({ShutdownBit}, {ShutdownBit})>>
<1>1. p \in Seq(Puts) /\ DOMAIN p = {1} /\ p[1] = Put({ShutdownBit}, {ShutdownBit})
  BY DEF Puts, ShutdownBit
<1>2. \A b : Touches(p[1], b) <=> b = ShutdownBit
  BY <1>1 DEF Touches, Put
<1>3. Aside(p) /\ \A i \in DOMAIN p : \A f \in Signals : ~Touches(p[i], f)
  BY <1>1, <1>2 DEF Aside, Configured, Signals, ShutdownBit, Trigger, RLCP, RLSC
<1>4. QED
  BY <1>1, <1>3, PutsLegal

LEMMA FieldBitsRange ==
  ASSUME NEW first \in Nat, NEW width \in Nat, NEW value
  PROVE  FieldBits(first, width, value) \subseteq first .. first + width - 1
BY DEF FieldBits

LEMMA SettingRange ==
  ASSUME NEW s
  PROVE  /\ FieldBits(ConfigBit, 2, s.config) \subseteq {5, 6}
         /\ FieldBits(ModeBit, 1, s.mode) \subseteq {4}
         /\ FieldBits(OLTEBit, 1, s.olte) \subseteq {7}
<1>1. FieldBits(ConfigBit, 2, s.config) \subseteq 5 .. 5 + 2 - 1
  BY FieldBitsRange DEF ConfigBit
<1>2. FieldBits(ModeBit, 1, s.mode) \subseteq 4 .. 4 + 1 - 1
  BY FieldBitsRange DEF ModeBit
<1>3. FieldBits(OLTEBit, 1, s.olte) \subseteq 7 .. 7 + 1 - 1
  BY FieldBitsRange DEF OLTEBit
<1>4. QED
  BY <1>1, <1>2, <1>3

\* A configuration command touches every bit of the configuration, and gives it
\* the value of the setting.
LEMMA ConfigLegal ==
  ASSUME NEW s
  PROVE  LET p == ConfigMode(s) IN
         /\ \A j : Legal(p, j)
         /\ \A b \in Configured :
              /\ \E i \in DOMAIN p : Touches(p[i], b)
              /\ \A i \in DOMAIN p : Touches(p[i], b) =>
                   (b \in p[i].bits <=> b \in SettingBits(s))
<1>1. PICK x, y, z : /\ x = FieldBits(ConfigBit, 2, s.config)
                     /\ y = FieldBits(ModeBit, 1, s.mode)
                     /\ z = FieldBits(OLTEBit, 1, s.olte)
  OBVIOUS
<1>2. x \subseteq {5, 6} /\ y \subseteq {4} /\ z \subseteq {7}
  BY <1>1, SettingRange
<1>3. PICK p : p = ConfigMode(s)
  OBVIOUS
<1>4. p = <<Put({5, 6}, x), Put({4}, y), Put({7}, z)>>
  <2>1. {ConfigBit, ConfigBit + 1} = {5, 6} /\ ModeBit = 4 /\ OLTEBit = 7
    BY DEF ConfigBit, ModeBit, OLTEBit
  <2>2. QED
    BY <1>1, <1>3, <2>1 DEF ConfigMode
<1>5. Put({5, 6}, x) \in Puts /\ Put({4}, y) \in Puts /\ Put({7}, z) \in Puts
  BY <1>2 DEF Puts
<1>6. p \in Seq(Puts) /\ DOMAIN p = 1 .. 3
  BY <1>4, <1>5
<1>7. \A b : /\ Touches(p[1], b) <=> b \in {5, 6}
             /\ Touches(p[2], b) <=> b \in {4}
             /\ Touches(p[3], b) <=> b \in {7}
  BY <1>2, <1>4 DEF Touches, Put
<1>8. p[1].bits = x /\ p[2].bits = y /\ p[3].bits = z
  BY <1>4 DEF Put
<1>9. \A i \in DOMAIN p : \A f \in Signals : ~Touches(p[i], f)
  BY <1>6, <1>7 DEF Signals, Trigger, RLCP, RLSC
<1>10. ASSUME NEW b \in Configured
       PROVE  /\ \E i \in DOMAIN p : Touches(p[i], b)
              /\ \A i \in DOMAIN p : Touches(p[i], b) =>
                   (b \in p[i].bits <=> b \in SettingBits(s))
  <2>1. b \in {4, 5, 6, 7}
    BY DEF Configured
  <2>2. b \in SettingBits(s) <=> b \in x \/ b \in y \/ b \in z
    BY <1>1 DEF SettingBits
  <2>3. QED
    BY <1>2, <1>6, <1>7, <1>8, <2>1, <2>2
<1>11. \A j : Legal(p, j)
  BY <1>6, <1>9, PutsLegal
<1>12. QED
  BY <1>3, <1>10, <1>11

-----------------------------------------------------------------------------
(* The actions. *)

LEMMA IdleOff ==
  ASSUME IInv, Idle
  PROVE  ~Booting /\ reg \cap Signals = {} /\ DOMAIN todo = {}
<1>1. todo = <<>> /\ up
  BY DEF Idle
<1>2. ~Booting /\ DOMAIN todo = {}
  BY <1>1 DEF Booting
<1>3. \A f \in Signals : Untouched(f)
  BY <1>2 DEF Untouched
<1>4. QED
  BY <1>1, <1>2, <1>3 DEF IInv, SignalInv, OffInv

LEMMA DispatchBoot ==
  ASSUME IInv, NEW p, Dispatch(p), Legal(p, job')
  PROVE  BootInv' /\ ~Booting' /\ up'
<1>1. todo' = p /\ up' = up /\ up /\ p \in Seq(Access)
  BY DEF Dispatch, Idle, Legal
<1>2. \A i \in DOMAIN p : p[i].op # "request" /\ p[i] # Adopt
  BY DEF Legal, Adopt
<1>3. ~Booting'
  BY <1>1, <1>2 DEF Booting
<1>4. QED
  BY <1>1, <1>2, <1>3 DEF BootInv

LEMMA DispatchSignal ==
  ASSUME IInv, NEW p, Dispatch(p), Legal(p, job')
  PROVE  SignalInv'
<1>1. todo' = p /\ reg' = reg /\ reg \cap Signals = {}
  BY IdleOff DEF Dispatch
<1>2. OffInv' /\ LatchInv'
  BY <1>1 DEF OffInv, LatchInv, Legal, Untouched
<1>3. FiredInv'
  BY <1>1 DEF FiredInv, Signals
<1>4. ASSUME NEW i \in DOMAIN todo', Fires(todo'[i])
      PROVE  /\ i + 1 \in DOMAIN todo' /\ todo'[i + 1] = Release
             /\ todo'[1].op = "latch"
             /\ \A f \in {RLCP, RLSC} :
                  /\ (\A j \in 1 .. i : ~Touches(todo'[j], f)) => Flagged(f, reg)'
                  /\ \A j \in 1 .. i : Touches(todo'[j], f) =>
                       f \in job'.flags /\ f \in todo'[j].bits
  <2>1. /\ p[1].op = "latch"
        /\ i + 1 \in DOMAIN p /\ p[i + 1] = Release
        /\ \A f \in {RLCP, RLSC} :
             /\ (\A k \in 1 .. i : ~Touches(p[k], f)) => f \notin job'.flags
             /\ \A k \in 1 .. i : Touches(p[k], f) => f \in job'.flags /\ f \in p[k].bits
    BY <1>1, <1>4 DEF Legal
  <2>2. \A f \in {RLCP, RLSC} : f \notin reg'
    BY <1>1 DEF Signals
  <2>3. QED
    BY <1>1, <2>1, <2>2 DEF Flagged
<1>5. FireInv'
  BY <1>4 DEF FireInv
<1>6. QED
  BY <1>2, <1>3, <1>5 DEF SignalInv

\* A handler that leaves the configuration aside.
LEMMA DispatchAside ==
  ASSUME IInv, NEW p, Dispatch(p), Aside(p), told' = told
  PROVE  ConfigInv'
<1>1. todo' = p /\ reg' = reg /\ DOMAIN todo = {}
  BY IdleOff DEF Dispatch
<1>2. ASSUME NEW s \in told, NEW b \in Configured
      PROVE  (b \in reg <=> b \in SettingBits(s)) /\ \A i \in DOMAIN p : ~Touches(p[i], b)
  <2>1. Untouched(b)
    BY <1>1 DEF Untouched
  <2>2. QED
    BY <2>1 DEF IInv, ConfigInv, Aside
<1>3. QED
  BY <1>1, <1>2 DEF ConfigInv

\* The invariant speaks of these variables alone.
LEMMA KeepInv == IInv /\ UNCHANGED <<reg, ksine, setup, todo, up, job, told>> => IInv'
BY DEF IInv, BootInv, ConfigInv, SignalInv, JobInv, Booting, OffInv, LatchInv,
   FireInv, FiredInv, Untouched, Latched, Flagged

\* A unit that boots has still to adopt the registers.
THEOREM InitInv == Init => IInv
<1> SUFFICES ASSUME Init PROVE IInv
  OBVIOUS
<1>1. todo = <<Adopt, Request>>
  BY DEF Init, Boot, Adopt, Request
<1>2. todo \in Seq(Access) /\ Booting
  BY <1>1 DEF Access, Booting, Request
<1>3. BootInv /\ SignalInv
  BY <1>2 DEF Init, BootInv, SignalInv
<1>4. QED
  BY <1>3 DEF Init, IInv, ConfigInv, JobInv, Nobody

\* Every access, command, crash and restart keeps the invariant.
THEOREM StepInv == IInv /\ [Next]_vars => IInv'
<1> SUFFICES ASSUME IInv, [Next]_vars PROVE IInv'
  OBVIOUS
<1>1. CASE Step
  <2>1. JobInv'
    BY <1>1 DEF Step, IInv, JobInv
  <2>2. QED
    BY <1>1, <2>1, StepBoot, StepConfig, StepSignal DEF IInv
<1>2. ASSUME NEW c \in Steerings, SteeringCommand(c)
      PROVE  IInv'
  <2>1. Dispatch(Steering(c)) /\ job' = SteeringJob(c) /\ told' = told
    BY <1>2 DEF SteeringCommand, SteeringJob
  <2>2. Legal(Steering(c), job') /\ Aside(Steering(c))
    BY <2>1, SteeringLegal
  <2>3. JobInv'
    BY <2>1 DEF JobInv, SteeringJob
  <2>4. QED
    BY <2>1, <2>2, <2>3, DispatchBoot, DispatchSignal, DispatchAside DEF IInv
<1>3. ASSUME NEW t \in Tests, StressTestCommand(t)
      PROVE  IInv'
  <2>1. Dispatch(StressTest(t)) /\ job' = StressJob(t) /\ told' = told
    BY <1>3 DEF StressTestCommand, StressJob
  <2>2. Legal(StressTest(t), job') /\ Aside(StressTest(t))
    BY <2>1, StressLegal
  <2>3. JobInv'
    BY <2>1 DEF JobInv, StressJob
  <2>4. QED
    BY <2>1, <2>2, <2>3, DispatchBoot, DispatchSignal, DispatchAside DEF IInv
<1>4. CASE ShutdownCommand
  <2> DEFINE p == <<Put({ShutdownBit}, {ShutdownBit})>>
  <2>1. Dispatch(p) /\ job' = job /\ told' = told
    BY <1>4 DEF ShutdownCommand
  <2>2. Legal(p, job') /\ Aside(p)
    BY ShutdownLegal
  <2>3. JobInv'
    BY <2>1 DEF JobInv, IInv
  <2> HIDE DEF p
  <2>4. QED
    BY <2>1, <2>2, <2>3, DispatchBoot, DispatchSignal, DispatchAside DEF IInv
<1>5. CASE ConfigModeCommand
  <2> DEFINE s == Head(commands)
             p == ConfigMode(s)
  <2>1. Dispatch(p) /\ job' = job /\ told' = {s}
    BY <1>5 DEF ConfigModeCommand
  <2>2. /\ Legal(p, job')
        /\ \A b \in Configured :
             /\ \E i \in DOMAIN p : Touches(p[i], b)
             /\ \A i \in DOMAIN p : Touches(p[i], b) => (b \in p[i].bits <=> b \in SettingBits(s))
    BY ConfigLegal
  <2>3. JobInv'
    BY <2>1 DEF JobInv, IInv
  <2>4. todo' = p
    BY <2>1 DEF Dispatch
  <2> HIDE DEF p, s
  <2>5. ConfigInv'
    BY <2>1, <2>2, <2>4 DEF ConfigInv, Untouched
  <2>6. QED
    BY <2>1, <2>2, <2>3, <2>5, DispatchBoot, DispatchSignal DEF IInv
<1>6. CASE Crash
  <2>1. ~up' /\ todo' = <<>> /\ told' = {} /\ job' = job /\ up' \in BOOLEAN
    BY <1>6 DEF Crash
  <2>2. ~Booting'
    BY <2>1 DEF Booting
  <2>3. QED
    BY <2>1, <2>2 DEF IInv, BootInv, ConfigInv, SignalInv, JobInv
<1>7. CASE Restart
  <2>1. todo' = <<Adopt, Request>> /\ up' = TRUE /\ told' = {} /\ job' = job
    BY <1>7 DEF Restart, Boot, Adopt, Request, IInv, BootInv
  <2>2. todo' \in Seq(Access) /\ Booting'
    BY <2>1 DEF Access, Booting, Request
  <2>3. todo' = Boot
    BY <1>7 DEF Restart
  <2>4. QED
    BY <2>1, <2>2, <2>3 DEF IInv, BootInv, ConfigInv, SignalInv, JobInv
<1>8. CASE UNCHANGED <<reg, ksine, setup, todo, up, job, told>>
  BY <1>8, KeepInv
<1>9. QED
  BY <1>1, <1>2, <1>3, <1>4, <1>5, <1>6, <1>7, <1>8
     DEF Next, Unit, TestServer, SLInterrupt, Tell, vars

\* What is left of a handler and the register it works on always fit.
THEOREM Invariance == Spec => []IInv
BY InitInv, StepInv, PTL DEF Spec

\* The action that starts is the one asked for last, whatever was done before
\* and wherever a crash has cut it off.
THEOREM StartsRight == Spec => []StartsAsCommanded
<1>1. IInv => StartsAsCommanded
  <2> SUFFICES ASSUME IInv, Trigger \in reg, up, ~Booting
               PROVE  /\ ksine = [ALPHA |-> job.alpha, BETA |-> job.beta]
                      /\ setup = job.setup
                      /\ reg \cap {RLCP, RLSC} = job.flags
    BY DEF StartsAsCommanded
  <2>1. Latched /\ \A f \in {RLCP, RLSC} : Flagged(f, reg)
    BY DEF IInv, SignalInv, FiredInv
  <2>2. job.flags \subseteq {RLCP, RLSC}
    BY DEF IInv, JobInv
  <2>3. QED
    BY <2>1, <2>2 DEF Latched, Flagged
<1>2. QED
  BY <1>1, Invariance, PTL

\* Where nothing is left to do, the register shows what was told.
LEMMA ShowsTold == IInv => ConfigurationKept
<1> SUFFICES ASSUME IInv, Idle, NEW s \in told
             PROVE  reg \cap Configured = SettingBits(s)
  BY DEF ConfigurationKept
<1>1. \A b \in Configured : b \in reg <=> b \in SettingBits(s)
  BY IdleOff DEF IInv, ConfigInv, Untouched
<1>2. SettingBits(s) \subseteq Configured
  BY SettingRange DEF SettingBits, Configured
<1>3. QED
  BY <1>1, <1>2

\* No steering command, stress test or shutdown disturbs the configuration told
\* last, and a configuration command replaces every bit of it.
THEOREM ConfigurationIsKept == Spec => []ConfigurationKept
BY ShowsTold, Invariance, PTL

-----------------------------------------------------------------------------
(* The scan limit check. *)

LEMMA SquareGrows ==
  ASSUME NEW x \in Int, NEW y \in Int, 0 <= x, x <= y
  PROVE  x * x <= y * y
OBVIOUS

\* Of the points that read as a word, the rounded one is the nearest to zero.
LEMMA RoundedIsNearest ==
  ASSUME NEW k \in Int, NEW x \in HalfAStep(Count * k)
  PROVE  Rounded(Count * k) * Rounded(Count * k) <= x * x
<1>1. x \in Int /\ 2 * k - 1 <= x /\ x <= 2 * k + 1
  BY DEF HalfAStep, Count
<1>2. CASE k > 0
  <2>1. Rounded(Count * k) = 2 * k - 1
    BY <1>2 DEF Rounded, Sign, Count
  <2>2. 2 * k - 1 \in Int /\ 0 <= 2 * k - 1
    BY <1>2
  <2>3. QED
    BY <1>1, <2>1, <2>2, SquareGrows
<1>3. CASE k < 0
  <2>1. Rounded(Count * k) = 2 * k + 1
    BY <1>3 DEF Rounded, Sign, Count
  <2>2. -(2 * k + 1) \in Int /\ 0 <= -(2 * k + 1) /\ -(2 * k + 1) <= -x /\ -x \in Int
    BY <1>1, <1>3
  <2>3. (-(2 * k + 1)) * (-(2 * k + 1)) <= (-x) * (-x)
    BY <2>2, SquareGrows
  <2>4. QED
    BY <1>1, <2>1, <2>3
<1>4. CASE k = 0
  <2>1. Rounded(Count * k) = 0
    BY <1>4 DEF Rounded, Sign, Count
  <2>2. x * x >= 0
    BY <1>1
  <2>3. QED
    BY <2>1, <2>2
<1>5. QED
  BY <1>2, <1>3, <1>4

\* How much rounding may change the square of a word, if the result is within
\* the limit of w.
LEMMA RoundedBounds ==
  ASSUME NEW k \in Int, NEW r, r = Rounded(Count * k), r * r <= WLimit
  PROVE  /\ r \in Int
         /\ r * r <= (Count * k) * (Count * k)
         /\ (Count * k) * (Count * k) <= r * r + 2013
<1>1. PICK a \in Int : a = Count * k
  BY DEF Count
<1>2. r \in Int /\ ((r = a - 1 /\ a > 0) \/ (r = a + 1 /\ a < 0) \/ (r = 0 /\ a = 0))
  BY <1>1 DEF Rounded, Sign
<1>3. r * r < 1007 * 1007
  BY <1>2, SMT DEF WLimit
<1>4. -1006 <= r /\ r <= 1006
  <2>1. r >= 1007 => 1007 * 1007 <= r * r
    BY <1>2, SquareGrows
  <2>2. r <= -1007 => 1007 * 1007 <= (-r) * (-r)
    <3>1. r <= -1007 => -r \in Int /\ 1007 <= -r
      BY <1>2
    <3>2. QED
      BY <3>1, SquareGrows
  <2>3. (-r) * (-r) = r * r
    BY <1>2
  <2>4. QED
    BY <1>2, <1>3, <2>1, <2>2, <2>3
<1>5. CASE r = a - 1 /\ a > 0
  <2>1. a = r + 1 /\ r >= 0
    BY <1>2, <1>5
  <2>2. a * a = r * r + 2 * r + 1
    BY <1>2, <2>1
  <2>3. QED
    BY <1>1, <1>2, <1>4, <2>1, <2>2
<1>6. CASE r = a + 1 /\ a < 0
  <2>1. a = r - 1 /\ r <= 0
    BY <1>2, <1>6
  <2>2. a * a = r * r - 2 * r + 1
    BY <1>2, <2>1
  <2>3. QED
    BY <1>1, <1>2, <1>4, <2>1, <2>2
<1>7. CASE r = 0 /\ a = 0
  BY <1>1, <1>2, <1>7
<1>8. QED
  BY <1>2, <1>5, <1>6, <1>7

LEMMA RoundedHalfAStep ==
  ASSUME NEW k \in Int
  PROVE  Rounded(Count * k) \in HalfAStep(Count * k)
BY DEF Rounded, Sign, HalfAStep, Count

\* Half a step more does not leave the sphere.
LEMMA LimitInSphere ==
  ASSUME NEW j \in Int, NEW k \in Int, WithinW(Count * j, Count * k)
  PROVE  LET a == Count * j
             b == Count * k
         IN  /\ Square(Rounded(a), Rounded(b)) <= WLimit
             /\ Square(a, b) <= Sphere
             /\ ~CosineExceeds(a) /\ ~CosineExceeds(b)
<1>1. PICK r, q : r = Rounded(Count * j) /\ q = Rounded(Count * k)
  OBVIOUS
<1>2. PICK x \in HalfAStep(Count * j), y \in HalfAStep(Count * k) : Square(x, y) <= WLimit
  BY DEF WithinW
<1>3. r * r <= x * x /\ q * q <= y * y
  BY <1>1, RoundedIsNearest
<1>4. x \in Int /\ y \in Int /\ r \in Int /\ q \in Int
  BY <1>1 DEF HalfAStep, Count, Rounded, Sign
<1>5. PICK rr \in Int, qq \in Int, xx \in Int, yy \in Int :
        rr = r * r /\ qq = q * q /\ xx = x * x /\ yy = y * y
  BY <1>4
<1>6. rr >= 0 /\ qq >= 0 /\ rr + qq <= WLimit
  <2>1. rr >= 0 /\ qq >= 0
    BY <1>4, <1>5
  <2>2. xx + yy <= WLimit
    BY <1>2, <1>5 DEF Square
  <2>3. QED
    BY <1>3, <1>5, <2>1, <2>2, SMT DEF WLimit
<1>7. rr <= WLimit /\ qq <= WLimit
  BY <1>6, SMT DEF WLimit
<1>8. PICK aa \in Int, bb \in Int : aa = (Count * j) * (Count * j) /\ bb = (Count * k) * (Count * k)
  BY DEF Count
<1>9. aa <= rr + 2013 /\ bb <= qq + 2013
  <2>1. r * r <= WLimit /\ q * q <= WLimit
    BY <1>5, <1>7
  <2>2. (Count * j) * (Count * j) <= r * r + 2013
    BY <1>1, <2>1, RoundedBounds
  <2>3. (Count * k) * (Count * k) <= q * q + 2013
    BY <1>1, <2>1, RoundedBounds
  <2>4. QED
    BY <1>5, <1>8, <2>2, <2>3
<1>10. aa >= 0 /\ bb >= 0
  BY <1>8 DEF Count
<1>11. aa + bb <= Sphere /\ aa <= Sphere /\ bb <= Sphere
  BY <1>6, <1>9, <1>10, SMT DEF WLimit, Sphere
<1>12. QED
  BY <1>1, <1>5, <1>6, <1>8, <1>11, SMT DEF Square, CosineExceeds, Sphere

\* The check lets pass, of all pairs of words, exactly those whose elevation is
\* not too low and of which a point within half a step is within the limit of w.
THEOREM CheckIsExact ==
  ASSUME NEW j \in Int, NEW k \in Int
  PROVE  RunSWScanLimitCheck(j, k) <=>
           ~TooLow(Count * j, Count * k) /\ WithinW(Count * j, Count * k)
<1>1. ASSUME WithinW(Count * j, Count * k), ~TooLow(Count * j, Count * k)
      PROVE  RunSWScanLimitCheck(j, k)
  <2>1. PICK a, b : a = Count * j /\ b = Count * k
    OBVIOUS
  <2>2. PICK r, q : r = Rounded(a) /\ q = Rounded(b)
    OBVIOUS
  <2>3. Square(r, q) <= WLimit /\ Square(a, b) <= Sphere /\ ~TooLow(a, b)
    BY <1>1, <2>1, <2>2, LimitInSphere
  <2>4. ~CosineExceeds(r) /\ ~CosineExceeds(q)
    <3>1. r \in Int /\ q \in Int
      BY <2>1, <2>2 DEF Count, Rounded, Sign
    <3>2. PICK rr \in Int, qq \in Int : rr = r * r /\ qq = q * q /\ rr >= 0 /\ qq >= 0
      BY <3>1
    <3>3. rr + qq <= WLimit
      BY <2>3, <3>2 DEF Square
    <3>4. rr <= Sphere /\ qq <= Sphere
      BY <3>2, <3>3, SMT DEF WLimit, Sphere
    <3>5. QED
      BY <3>2, <3>4, SMT DEF CosineExceeds, Sphere
  <2>5. ~(Square(r, q) > WLimit)
    <3>1. Square(r, q) \in Int
      BY <2>1, <2>2 DEF Count, Rounded, Sign, Square
    <3>2. QED
      BY <2>3, <3>1, SMT DEF WLimit
  <2>6. ~Exceeds(r, q)
    BY <2>4, <2>5 DEF Exceeds
  <2>7. QED
    BY <2>1, <2>2, <2>3, <2>6, SMT DEF RunSWScanLimitCheck
<1>2. ASSUME RunSWScanLimitCheck(j, k)
      PROVE  WithinW(Count * j, Count * k) /\ ~TooLow(Count * j, Count * k)
  <2>1. PICK a, b : a = Count * j /\ b = Count * k
    OBVIOUS
  <2>2. PICK r, q : r = Rounded(a) /\ q = Rounded(b)
    OBVIOUS
  <2>3. ~TooLow(a, b) /\ (Exceeds(a, b) => ~Exceeds(r, q))
    BY <1>2, <2>1, <2>2, SMT DEF RunSWScanLimitCheck
  <2>4. CASE Exceeds(a, b)
    <3>1. ~(Square(r, q) > WLimit)
      BY <2>3, <2>4 DEF Exceeds
    <3>2. Square(r, q) \in Int
      BY <2>1, <2>2 DEF Count, Rounded, Sign, Square
    <3>3. Square(r, q) <= WLimit
      BY <3>1, <3>2, SMT DEF WLimit
    <3>4. r \in HalfAStep(a) /\ q \in HalfAStep(b)
      BY <2>1, <2>2, RoundedHalfAStep
    <3>5. QED
      BY <2>1, <2>3, <3>3, <3>4 DEF WithinW
  <2>5. CASE ~Exceeds(a, b)
    <3>1. ~(Square(a, b) > WLimit)
      BY <2>5 DEF Exceeds
    <3>2. Square(a, b) \in Int /\ a \in HalfAStep(a) /\ b \in HalfAStep(b)
      BY <2>1 DEF Count, Square, HalfAStep
    <3>3. Square(a, b) <= WLimit
      BY <3>1, <3>2, SMT DEF WLimit
    <3>4. QED
      BY <2>1, <2>3, <3>2, <3>3 DEF WithinW
  <2>6. QED
    BY <2>4, <2>5
<1>3. QED
  BY <1>1, <1>2

-----------------------------------------------------------------------------
\* Words are integers, and the logged check is that of a pair of words.
WordsInv ==
  /\ ksine.ALPHA \in Int /\ ksine.BETA \in Int
  /\ \A l \in limit : \E j, k \in Int :
       l = [alpha |-> j, beta |-> k, passed |-> RunSWScanLimitCheck(j, k)]

LEMMA LatchedWords ==
  ASSUME BootInv, Step
  PROVE  \/ ksine' = ksine
         \/ ksine'.ALPHA \in Int /\ ksine'.BETA \in Int
<1>1. todo # <<>> /\ Head(todo) \in Access /\ Execute(Head(todo))
  BY DEF BootInv, Step
<1>2. CASE Head(todo).op = "latch"
  <2>1. Head(todo) \in Latches
    BY <1>1, <1>2 DEF Access, Puts, Put, Adopt, Request
  <2>2. Head(todo).alpha \in Int /\ Head(todo).beta \in Int
    BY <2>1, ControlAssumption DEF Latches, Latch
  <2>3. ksine' = [ALPHA |-> Head(todo).alpha, BETA |-> Head(todo).beta]
    BY <1>1, <1>2 DEF Execute
  <2>4. QED
    BY <2>2, <2>3
<1>3. CASE Head(todo).op # "latch"
  BY <1>1, <1>3 DEF Execute
<1>4. QED
  BY <1>2, <1>3

\* Every check that is logged gives the words the half step of their rounding
\* and no more.
THEOREM HalfAStepTolerated == Spec => []ToleratesHalfAStep
<1>1. Init => WordsInv
  BY DEF Init, WordsInv
<1>2. IInv /\ WordsInv /\ [Next]_vars => WordsInv'
  <2> SUFFICES ASSUME IInv, WordsInv, [Next]_vars PROVE WordsInv'
    OBVIOUS
  <2>1. CASE Step
    <3>1. limit' = limit
      BY <2>1 DEF Step
    <3>2. ksine'.ALPHA \in Int /\ ksine'.BETA \in Int
      BY <2>1, LatchedWords DEF IInv, WordsInv
    <3>3. QED
      BY <3>1, <3>2 DEF WordsInv
  <2>2. CASE SLInterrupt
    BY <2>2 DEF SLInterrupt, WordsInv
  <2>3. CASE ksine' = ksine /\ (limit' = limit \/ limit' = {})
    BY <2>3 DEF WordsInv
  <2>4. QED
    BY <2>1, <2>2, <2>3 DEF Next, Unit, TestServer, SteeringCommand, StressTestCommand,
       ShutdownCommand, ConfigModeCommand, Dispatch, Crash, Restart, Tell, vars
<1>3. WordsInv => ToleratesHalfAStep
  <2> SUFFICES ASSUME WordsInv, NEW l \in limit
               PROVE  l.passed <=> /\ ~TooLow(Count * l.alpha, Count * l.beta)
                                   /\ WithinW(Count * l.alpha, Count * l.beta)
    BY DEF ToleratesHalfAStep
  <2>1. PICK j \in Int, k \in Int :
          l = [alpha |-> j, beta |-> k, passed |-> RunSWScanLimitCheck(j, k)]
    BY DEF WordsInv
  <2>2. /\ l.alpha = j /\ l.beta = k
        /\ l.passed <=> RunSWScanLimitCheck(j, k)
    BY <2>1
  <2>3. QED
    BY <2>2, CheckIsExact
<1>4. QED
  BY <1>1, <1>2, <1>3, Invariance, PTL DEF Spec

=============================================================================
