------------------------------- MODULE MCMacNdev ------------------------------
(* Small instances of MacNdev for TLC. *)
EXTENDS MacNdev

\* MAC_NDEV_KNOCK_SEQ, and a shorter one for runs that keep a history.
CodeKnock == <<0, 70, 85, 74, 73>>
ShortKnock == <<0, 70, 85>>

MCBlocks == {Data(1), Magic, Request(<<7>>)}

===============================================================================
