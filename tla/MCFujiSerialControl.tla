------------------------- MODULE MCFujiSerialControl --------------------------
(* A small instance of FujiSerialControl for TLC. *)
EXTENDS FujiSerialControl

CONSTANTS AIn, AOut,  \* drivers
          rA, rB, wA  \* requests

MCDriverOf == [r \in Req |-> IF r = wA THEN AOut ELSE AIn]
MCReqCount == [r \in Req |-> IF r = wA THEN 2 ELSE 1]

\* The installer entered both.
Both == <<AIn, AOut>>

===============================================================================
