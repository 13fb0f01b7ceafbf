------------------------------- MODULE MCSeqTrack -------------------------------
(* Three buffers, a log of four entries, numbers that wrap at eight.        *)
EXTENDS SeqTrack, TLC

ApbSymmetry == Permutations(Apbs)
================================================================================
