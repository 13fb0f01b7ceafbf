-------------------------------- MODULE PcmFifo --------------------------------
(***************************************************************************)
(* What the PCM ring buffer promises its two users: a bounded queue of     *)
(* whole 8-byte stereo frames.  The USB side appends the stream's bytes in *)
(* order, possibly fewer than it offered; the pump takes them in order or  *)
(* drops a prefix; stopping the engine empties the queue and restarts the  *)
(* numbering of the stream.                                                *)
(***************************************************************************)
EXTENDS Integers, Sequences

CONSTANT CAPACITY   \* bytes in the ring (UAC2_RINGBUF_CAPACITY)

VARIABLES
  fifo,   \* the queued bytes, each named by its position in the stream
  next,   \* position of the next byte the host sends
  out     \* the bytes the last read delivered

fifoVars == <<fifo, next, out>>

WholeFrames(k) == k % 8 = 0

FifoInit ==
  /\ fifo = <<>>
  /\ next = 0
  /\ out = <<>>

Put(k) ==
  /\ WholeFrames(k)
  /\ Len(fifo) + k <= CAPACITY - 8
  /\ fifo' = fifo \o [i \in 1..k |-> next + i - 1]
  /\ next' = next + k
  /\ UNCHANGED out

Take(k) ==
  /\ WholeFrames(k)
  /\ out' = SubSeq(fifo, 1, k)
  /\ fifo' = SubSeq(fifo, k + 1, Len(fifo))
  /\ UNCHANGED next

DropOldest(k) ==
  /\ WholeFrames(k)
  /\ fifo' = SubSeq(fifo, k + 1, Len(fifo))
  /\ UNCHANGED <<next, out>>

Clear ==
  /\ fifo' = <<>>
  /\ next' = 0
  /\ UNCHANGED out

FifoNext ==
  \/ \E k \in 1..CAPACITY : Put(k)
  \/ \E k \in 1..Len(fifo) : Take(k) \/ DropOldest(k)
  \/ Clear

FifoSpec == FifoInit /\ [][FifoNext]_fifoVars
================================================================================
