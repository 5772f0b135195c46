----------------------------- MODULE FairService ----------------------------
(***************************************************************************)
(* What the event processor promises its devices, without saying how: the  *)
(* requests of a source are served one at a time, each of them is served   *)
(* in the end, and while a source waits no other source is served more     *)
(* often than Patience allows.  The requests of all sources are forgotten  *)
(* when the process ends.                                                  *)
(***************************************************************************)
EXTENDS Naturals

CONSTANTS
  Sources,   \* who can ask for service
  Patience   \* Patience[t][s]: how often s may be served while t waits

VARIABLES
  load,      \* load[s]: the requests of s that wait
  overtaken  \* overtaken[t][s]: how often s was served since t waits

serviceVars == <<load, overtaken>>

Unserved == [s \in Sources |-> 0]
Fresh    == [t \in Sources |-> Unserved]

ServiceInit == load = Unserved /\ overtaken = Fresh

Ask(s) ==
  /\ load' = [load EXCEPT ![s] = @ + 1]
  /\ UNCHANGED overtaken

\* Whoever waits, s itself excepted, has seen s go first once more.
Overtake(s) ==
  [t \in Sources |-> IF t # s /\ load[t] > 0
                     THEN [overtaken[t] EXCEPT ![s] = @ + 1]
                     ELSE Unserved]

Serve(s) ==
  /\ load[s] > 0
  /\ \A t \in Sources \ {s} : load[t] > 0 => overtaken[t][s] < Patience[t][s]
  /\ load' = [load EXCEPT ![s] = @ - 1]
  /\ overtaken' = Overtake(s)

Forget == load' = Unserved /\ overtaken' = Fresh

ServiceNext == Forget \/ \E s \in Sources : Ask(s) \/ Serve(s)

ServiceSafety == ServiceInit /\ [][ServiceNext]_serviceVars

ServiceLiveness ==
  \A s \in Sources : []<>(load[s] = 0) \/ []<><<Serve(s)>>_serviceVars

=============================================================================
