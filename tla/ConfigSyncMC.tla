---------------------------- MODULE ConfigSyncMC ----------------------------
(***************************************************************************)
(* Inputs for model checking ConfigSync.                                   *)
(***************************************************************************)
EXTENDS ConfigSync

\* They differ in every bit of the register.
TwoSettings == {[config |-> 1, mode |-> 0, olte |-> 1],
                [config |-> 2, mode |-> 1, olte |-> 0]}

=============================================================================
