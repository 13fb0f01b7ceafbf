--------------------------------- MODULE Outbox ---------------------------------
(***************************************************************************)
(* The outbox of include/uac2_asmp.h: a byte ring through which the worker *)
(* on the sub-core hands lines of text to the monitor thread of the main   *)
(* core.  The worker's side is outbox_write of worker/monw/monw.c, split   *)
(* where the other core may come in: after its look at the two indices,    *)
(* and at the store of the head that publishes the line.  The monitor's    *)
(* side is its drain loop, split between the fwrite and the store of tail. *)
(*                                                                         *)
(* A byte is known by the line it belongs to and its place in it.          *)
(***************************************************************************)
EXTENDS Integers, Sequences

CONSTANTS
  SIZE,          \* UAC2_ASMP_OUTBOX_SIZE
  Word           \* unsigned arithmetic is modulo this (2^32)

ASSUME OutboxAssumption == SIZE \in Nat \ {0} /\ Word \in Nat /\ Word > 2 * SIZE

VARIABLES
  outbox,        \* the bytes
  out_head, out_tail, out_dropped,
  at             \* where outbox_write decided to put the line it is writing

outboxVars == <<outbox, out_head, out_tail, out_dropped, at>>

Blank == [line |-> <<0, 0>>, pos |-> 0]      \* what the memset of the boot leaves

OutboxInit ==
  /\ outbox = [a \in 0..(SIZE - 1) |-> Blank]
  /\ out_head = 0 /\ out_tail = 0 /\ out_dropped = 0 /\ at = 0

Used == IF out_head >= out_tail THEN out_head - out_tail
        ELSE SIZE - (out_tail - out_head)
Free == (SIZE - 1 - Used) % Word

(* The first byte of the line, or of the ring if it would not fit before    *)
(* the end.  The bytes skipped were counted as free.                        *)
Start(len) == IF out_head + len > SIZE THEN 0 ELSE out_head

Refused(len) ==
  /\ len > Free
  /\ out_dropped' = out_dropped + 1
  /\ UNCHANGED <<outbox, out_head, out_tail, at>>
Placed(len) ==
  /\ len <= Free
  /\ at' = Start(len)
  /\ UNCHANGED <<outbox, out_head, out_tail, out_dropped>>

Commit(line, len) ==
  /\ outbox' = [a \in 0..(SIZE - 1) |->
                  IF a \in at..(at + len - 1) THEN [line |-> line, pos |-> a - at + 1]
                  ELSE outbox[a]]
  /\ out_head' = at + len
  /\ UNCHANGED <<out_tail, out_dropped, at>>

(* What one turn of the drain loop prints, with the head it has loaded, and *)
(* the tail it leaves.                                                      *)
ChunkEnd(head) == IF head > out_tail THEN head ELSE SIZE
(* Deviant: tail follows the head at once, also around the end.             *)
TailAfter_Jumps(head) == head
TailAfter(head) == IF head > out_tail THEN head ELSE 0
Chunk(head) == [i \in 1..(ChunkEnd(head) - out_tail) |-> outbox[out_tail + i - 1]]

(* From its i-th byte on, a piece of output shows the n bytes of line l.    *)
StartsWhole(bytes, i, l, n) ==
  i + n - 1 <= Len(bytes) /\ \A j \in 1..n : bytes[i + j - 1] = [line |-> l, pos |-> j]

OutboxTypes ==
  /\ out_head \in 0..SIZE /\ out_tail \in 0..SIZE /\ at \in 0..SIZE
  /\ out_dropped \in Nat
================================================================================
