----------------------- MODULE MCSynchronizedBuffer -----------------------
(***************************************************************************)
(* Instances of SynchronizedBuffer for TLC: an item of 1 byte is small, one *)
(* of 8 bytes is truncated, two small ones fill the default buffer.         *)
(***************************************************************************)
EXTENDS SynchronizedBuffer

MCSizes  == {1, 8}
MCLimits == {0, 4}
MCClock  == 1..3
=============================================================================
