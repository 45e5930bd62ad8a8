---------------------------- MODULE MCFujiUnitTable ----------------------------
(* A small instance of FujiUnitTable for TLC. *)
EXTENDS FujiUnitTable, TLC

\* The modem port, whose drivers may be in ROM, and MacTCP, which has none.
MCPorts == <<<<".AOut", ".AIn">>, <<".IPP">>>>
MCRom == (0 :> ".AOut") @@ (1 :> ".AIn")

===============================================================================
