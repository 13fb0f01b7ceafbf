----------------------------- MODULE MCUac2RingBuf -----------------------------
(* A 32-byte ring: four frames, of which three can be queued; packets that  *)
(* fit, packets that wrap and a packet longer than the ring.                *)
EXTENDS Uac2RingBuf

MCWriteLens == {8, 16, 40}
MCReadLens  == {8, 16, 40}
================================================================================
