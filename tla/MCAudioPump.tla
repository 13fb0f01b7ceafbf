------------------------------ MODULE MCAudioPump ------------------------------
(* Three buffers; a ring of 8 frames, in which every zone of the drop servo *)
(* has a fill level; one driver fault at any point.                         *)
EXTENDS AudioPump, TLC

ApbSymmetry == Permutations(Apbs)
MCPacketFrames == {1, 2}
MCOneSize == {7}
================================================================================
