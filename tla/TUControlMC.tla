---------------------------- MODULE TUControlMC ----------------------------
(***************************************************************************)
(* Inputs for model checking TUControl.                                    *)
(***************************************************************************)
EXTENDS TUControl

\* Inside; a word whose u is outside its limit; one at the limit of w, passed
\* only when rounded; one that fails rounded as well.
Words == {[alpha |-> 1, beta |-> 2], [alpha |-> 0, beta |-> 470],
          [alpha |-> -100, beta |-> -493], [alpha |-> 100, beta |-> -494]}

AllSteerings == {[alpha |-> w.alpha, beta |-> w.beta, RLCP |-> p, RLSC |-> c] :
                   w \in Words, p \in {"On", "Off"}, c \in {"On", "Off"}}

\* Below the limit of the elevation, and beyond the sphere.
AllTests == {[alpha |-> -372, beta |-> 0, setup |-> "stress"],
             [alpha |-> 600, beta |-> 0, setup |-> "stress"]}

\* They differ in every bit of the register.
TwoSettings  == {[config |-> 1, mode |-> 0, olte |-> 1],
                 [config |-> 2, mode |-> 1, olte |-> 0]}

=============================================================================
