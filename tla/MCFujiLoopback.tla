---------------------------- MODULE MCFujiLoopback -----------------------------
(* A small instance of FujiLoopback for TLC: lengths in units of 250 bytes, so  *)
(* that a block carries two, the FIFO eight, and the largest message is three.  *)
EXTENDS FujiLoopback

===============================================================================
