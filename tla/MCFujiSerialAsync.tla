-------------------------- MODULE MCFujiSerialAsync ---------------------------
(* Small instances of FujiSerialAsync for TLC. *)
EXTENDS FujiSerialAsync

CONSTANTS Fuji, AIn, AOut,   \* drivers
          rA, rB, wA, wB     \* requests

MCDriverOf == [r \in Req |-> CASE r = rA -> AIn [] r = wA -> AOut [] OTHER -> Fuji]
MCReqCount == [r \in Req |-> CASE r = rA -> 2 [] r = wA -> 3 [] OTHER -> 1]
\* A smaller load for the liveness run; two reads compete for the incoming bytes.
MCSmallCount == [r \in Req |-> IF r = wA THEN 3 ELSE 1]

\* .Fuji is entered by the installer; the serial ports enter themselves on first use.
FujiOnly == <<Fuji>>

===============================================================================
