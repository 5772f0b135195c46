------------------------------ MODULE AppLifeMC -----------------------------
(***************************************************************************)
(* Devices for model checking AppLife.                                     *)
(***************************************************************************)
EXTENDS AppLife

\* The hardware is initialised between the two.
TwoDevices == <<"testServer", "timer">>

=============================================================================
