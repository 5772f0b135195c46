----------------------------- MODULE StatusIOMC -----------------------------
(***************************************************************************)
(* Inputs for model checking SWCStatus and StatusIO.                       *)
(***************************************************************************)
EXTENDS StatusIO

Good == [config |-> "SWCR", signals |-> {"temp", "bit0"},
         failed |-> [ALPHA |-> 0, BETA |-> 1], board |-> {"bitOk", "ready"}]

Away    == [Good EXCEPT !.signals = Unreachable]
Mixed   == [Good EXCEPT !.config = "CONFIG_ERR"]
Hot     == [Good EXCEPT !.signals = {"bit1"}]
Failing == [Good EXCEPT !.failed["ALPHA"] = 2]
Burning == [Good EXCEPT !.board = {"bitOk", "overTemp"}]

\* Every kind of fault alone: an invalid configuration, the temperature, an
\* I/O module that does not answer, too many failed DCUs, a bad board.
SingleFaults == {Good, Away, Mixed, Hot, Failing, Burning}

=============================================================================
