---------------------------- MODULE MCFujiHandshake ----------------------------
(* Small instances of FujiHandshake for TLC. *)
EXTENDS FujiHandshake

\* A knock of three sectors.  Other programs read and write its second (on the other
\* drive: the count of knocks is common to all) and its last one too, not the first:
\* who knocks in full arms the device again.  And on the other drive the sector with
\* the number of the FujiNet file's.
ShortKnock == <<0, 70, 85>>
MCOthers == {<<1, 85>>, <<2, 70>>, <<2, 9>>}

===============================================================================
