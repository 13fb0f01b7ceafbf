------------------------------ MODULE Uac2RingBuf ------------------------------
(***************************************************************************)
(* The lock-free single-producer single-consumer PCM ring of               *)
(* include/uac2_ringbuf.h, at the level of its index loads and stores and  *)
(* of its memcpy calls.  The producer is the USB ISR (uac2_audio_write),   *)
(* the consumer the pump thread; the main task resets the ring when it     *)
(* stops the engine (uac2_audio_stop -> uac2_ringbuf_init).                *)
(*                                                                         *)
(* Producer and consumer interleave at every load, memcpy and store, which *)
(* covers the ISR preempting the pump and the "SMP-ready" claim of the     *)
(* header.  The reset runs in task context while the pump is not reading   *)
(* (is_playing is false and the pump outranks the main task); the ISR may  *)
(* interrupt it between any two of its stores and then runs to completion. *)
(*                                                                         *)
(* A byte is named by its position in the stream since the last reset, so  *)
(* buf, w, r, dest and out together say which byte is where.               *)
(***************************************************************************)
EXTENDS Integers, Sequences

CONSTANTS
  CAPACITY,     \* UAC2_RINGBUF_CAPACITY, 128 KiB in the code
  WriteLens,    \* packet lengths the ISR offers
  ReadLens,     \* lengths the pump asks for
  MaxBytes      \* bound: bytes accepted between two resets

ASSUME RingAssumption ==
  /\ CAPACITY \in Nat /\ CAPACITY >= 16 /\ CAPACITY % 8 = 0
  /\ MaxBytes \in Nat
  \* uac2_audio_write refuses a length with len & 7 # 0; the pump asks for
  \* min(fill level, 2048) or 2040 bytes.
  /\ \A n \in WriteLens \cup ReadLens : n \in Nat /\ n > 0 /\ n % 8 = 0

VARIABLES
  buf,          \* the byte array
  head, tail,   \* the atomic indices
  w, r,         \* stream bytes accepted / given up since the last reset
  wpc, wlen,    \* the producer's call in progress: its step and its length
  rpc, rlen,    \* the consumer's call in progress: its step and its length
  rhead,        \* the head a flush in progress has loaded
  dest,         \* the buffer the consumer's memcpy fills
  out,          \* what the last completed read delivered
  rst           \* the reset in progress

prod == <<wpc, wlen>>
cons == <<rpc, rlen, rhead>>
vars == <<buf, head, tail, w, r, prod, cons, dest, out, rst>>

Index   == 0..CAPACITY - 1
Silence == -1                  \* a byte memset to zero

Wrap(i)      == IF i >= CAPACITY THEN i - CAPACITY ELSE i   \* i & (CAPACITY - 1)
(* A name with an underscore is a variant of the definition it precedes that *)
(* deviates from the code; no specification uses it.  Here: truncation to    *)
(* what fits instead of to whole frames.                                     *)
Aligned_Bytes(n) == n
Aligned(n)   == n - (n % 8)                                 \* n & ~7
AvailRead(h, t)  == IF h >= t THEN h - t ELSE CAPACITY - (t - h)
(* Deviant: no byte is kept free, so a full ring looks empty. *)
AvailWrite_Full(h, t) == CAPACITY - AvailRead(h, t)
AvailWrite(h, t) == (CAPACITY - 1) - AvailRead(h, t)
Granted(n, avail) == IF n > avail THEN Aligned(avail) ELSE n

Init ==
  /\ buf = [i \in Index |-> Silence]
  /\ head = 0 /\ tail = 0
  /\ w = 0 /\ r = 0
  /\ wpc = "idle" /\ wlen = 0
  /\ rpc = "idle" /\ rlen = 0 /\ rhead = 0
  /\ dest = [i \in Index |-> Silence]
  /\ out = <<>>
  /\ rst = "none"

--------------------------------------------------------------------------------
(* uac2_ringbuf_write: load the indices and settle the length, copy up to   *)
(* the end of the array, copy the rest to its start, store head.            *)

WriteBegin(n) ==
  LET k == Granted(n, AvailWrite(head, tail)) IN
  /\ wpc = "idle"
  /\ k > 0
  /\ w + k <= MaxBytes
  /\ wpc' = "copy" /\ wlen' = k
  /\ UNCHANGED <<buf, head, tail, w, r, cons, dest, out, rst>>

(* Deviant: the part of the packet past the array's end is not copied.      *)
WriteCopy_DropsRest ==
  /\ wpc = "copy"
  /\ buf' = [i \in Index |->
               IF head <= i /\ i < head + wlen THEN w + (i - head) ELSE buf[i]]
  /\ wpc' = "publish"
  /\ UNCHANGED <<wlen, head, tail, w, r, cons, dest, out, rst>>

WriteCopy ==
  /\ wpc = "copy"
  /\ buf' = [i \in Index |->
               IF head <= i /\ i < head + wlen THEN w + (i - head) ELSE buf[i]]
  /\ wpc' = IF wlen <= CAPACITY - head THEN "publish" ELSE "wrap"
  /\ UNCHANGED <<wlen, head, tail, w, r, cons, dest, out, rst>>

WriteCopyWrapped ==
  LET first == CAPACITY - head IN
  /\ wpc = "wrap"
  /\ buf' = [i \in Index |-> IF i < wlen - first THEN w + first + i ELSE buf[i]]
  /\ wpc' = "publish"
  /\ UNCHANGED <<wlen, head, tail, w, r, cons, dest, out, rst>>

(* Deviant: the mask is forgotten on the path that does not wrap. *)
WritePublish_Unmasked ==
  /\ wpc = "publish"
  /\ head' = IF head + wlen <= CAPACITY THEN head + wlen ELSE Wrap(head + wlen)
  /\ w' = w + wlen
  /\ wpc' = "idle" /\ wlen' = 0
  /\ UNCHANGED <<buf, tail, r, cons, dest, out, rst>>

WritePublish ==
  /\ wpc = "publish"
  /\ head' = Wrap(head + wlen)
  /\ w' = w + wlen
  /\ wpc' = "idle" /\ wlen' = 0
  /\ UNCHANGED <<buf, tail, r, cons, dest, out, rst>>

Producer ==
  \/ \E n \in WriteLens : WriteBegin(n)
  \/ WriteCopy \/ WriteCopyWrapped \/ WritePublish

--------------------------------------------------------------------------------
(* uac2_ringbuf_read and uac2_ringbuf_flush, called by the pump.            *)

ReadBegin(n) ==
  LET k == Granted(n, AvailRead(head, tail)) IN
  /\ rpc = "idle"
  /\ rst = "none"
  /\ k > 0
  /\ rpc' = "copy" /\ rlen' = k
  /\ UNCHANGED <<rhead, buf, head, tail, w, r, prod, dest, out, rst>>

ReadCopy ==
  LET first == CAPACITY - tail IN
  /\ rpc = "copy"
  /\ dest' = [i \in Index |-> IF i < rlen /\ i < first THEN buf[tail + i] ELSE dest[i]]
  /\ rpc' = IF rlen <= first THEN "publish" ELSE "wrap"
  /\ UNCHANGED <<rlen, rhead, buf, head, tail, w, r, prod, out, rst>>

(* Deviant: the second memcpy does not restart at the array's first byte. *)
ReadCopyWrapped_Shifted ==
  LET first == CAPACITY - tail IN
  /\ rpc = "wrap"
  /\ dest' = [i \in Index |-> IF first <= i /\ i < rlen THEN buf[i] ELSE dest[i]]
  /\ rpc' = "publish"
  /\ UNCHANGED <<rlen, rhead, buf, head, tail, w, r, prod, out, rst>>

ReadCopyWrapped ==
  LET first == CAPACITY - tail IN
  /\ rpc = "wrap"
  /\ dest' = [i \in Index |-> IF first <= i /\ i < rlen THEN buf[i - first] ELSE dest[i]]
  /\ rpc' = "publish"
  /\ UNCHANGED <<rlen, rhead, buf, head, tail, w, r, prod, out, rst>>

ReadPublish ==
  /\ rpc = "publish"
  /\ tail' = Wrap(tail + rlen)
  /\ r' = r + rlen
  /\ out' = [i \in 1..rlen |-> dest[i - 1]]
  /\ dest' = [i \in Index |-> Silence]
  /\ rpc' = "idle" /\ rlen' = 0 /\ rhead' = 0
  /\ UNCHANGED <<buf, head, w, prod, rst>>

FlushLoad ==
  /\ rpc = "idle"
  /\ rst = "none"
  /\ rpc' = "flush" /\ rlen' = AvailRead(head, tail) /\ rhead' = head
  /\ UNCHANGED <<buf, head, tail, w, r, prod, dest, out, rst>>

FlushStore ==
  /\ rpc = "flush"
  /\ tail' = rhead
  /\ r' = r + rlen
  /\ rpc' = "idle" /\ rlen' = 0 /\ rhead' = 0
  /\ UNCHANGED <<buf, head, w, prod, dest, out, rst>>

Consumer ==
  \/ \E n \in ReadLens : ReadBegin(n)
  \/ ReadCopy \/ ReadCopyWrapped \/ ReadPublish
  \/ FlushLoad \/ FlushStore

--------------------------------------------------------------------------------
(* uac2_ringbuf_init: memset over the structure, in ascending addresses:    *)
(* the array, then head, then tail.                                         *)

ResetBuffer ==
  /\ rst = "none" /\ rpc = "idle" /\ wpc = "idle"
  /\ buf' = [i \in Index |-> Silence]
  /\ rst' = "head"
  /\ UNCHANGED <<head, tail, w, r, prod, cons, dest, out>>

(* Deviant: the reset leaves head where the old stream ended. *)
ResetHead_Forgotten ==
  /\ rst = "head" /\ wpc = "idle"
  /\ w' = 0 /\ r' = 0
  /\ rst' = "tail"
  /\ UNCHANGED <<buf, head, tail, prod, cons, dest, out>>

ResetHead ==
  /\ rst = "head" /\ wpc = "idle"
  /\ head' = 0
  /\ w' = 0 /\ r' = 0
  /\ rst' = "tail"
  /\ UNCHANGED <<buf, tail, prod, cons, dest, out>>

ResetTail ==
  /\ rst = "tail" /\ wpc = "idle"
  /\ tail' = 0
  /\ rst' = "none"
  /\ UNCHANGED <<buf, head, w, r, prod, cons, dest, out>>

Reset == ResetBuffer \/ ResetHead \/ ResetTail

Next == Producer \/ Consumer \/ Reset

Spec == Init /\ [][Next]_vars

--------------------------------------------------------------------------------
Level == AvailRead(head, tail)

TypeOK ==
  /\ buf \in [Index -> Nat \cup {Silence}]
  /\ head \in Index /\ tail \in Index
  /\ w \in Nat /\ r \in Nat
  /\ wpc \in {"idle", "copy", "wrap", "publish"}
  /\ rpc \in {"idle", "copy", "wrap", "publish", "flush"}
  /\ wlen \in 0..CAPACITY - 8 /\ rlen \in 0..CAPACITY - 8
  /\ rhead \in Index
  /\ dest \in [Index -> Nat \cup {Silence}]
  /\ out \in Seq(Nat \cup {Silence})
  /\ rst \in {"none", "head", "tail"}

(* Both indices stay on 8-byte stereo-frame boundaries whatever truncation, *)
(* wrap-around, flush and reset did (the CRITICAL comment at lines 59-62),  *)
(* and the ring is never so full that head meets tail from behind.          *)
FramesAligned ==
  /\ head % 8 = 0 /\ tail % 8 = 0
  /\ Level <= CAPACITY - 8

(* Outside a reset the published bytes are exactly the stream from r to w,  *)
(* in order: no byte is lost, repeated, reordered or overwritten unread.    *)
UnreadIntact ==
  rst = "none" =>
    /\ w = r + Level
    /\ \A i \in Index : i < Level => buf[Wrap(tail + i)] = r + i

(* The bytes a memcpy of the producer is writing and the bytes a memcpy of  *)
(* the consumer is reading never overlap: the copies need no lock.          *)
Claimed == {Wrap(head + i) : i \in {j \in Index : j < wlen}}
Reading == {Wrap(tail + i) : i \in {j \in Index : j < rlen}}
CopiesDisjoint ==
  (wpc # "idle" /\ rpc # "idle") => Claimed \cap Reading = {}

(* A read that is about to release its bytes copied the next bytes of the   *)
(* stream and nothing else, even when the copy went around the end.         *)
ReadsNextBytes ==
  rpc = "publish" => \A i \in Index : i < rlen => dest[i] = r + i

(* A packet that an interrupt writes while the reset has cleared head but   *)
(* not yet tail survives the reset: it is the start of the new stream.      *)
ResetKeepsNewPackets ==
  rst = "tail" => /\ w = head /\ r = 0
                  /\ \A i \in Index : i < head => buf[i] = i

--------------------------------------------------------------------------------
(* The ring implements the bounded queue of frames.  While a reset is       *)
(* between its stores the queue is what the reset will leave.               *)
Queued ==
  CASE rst = "none" -> [i \in 1..Level |-> buf[Wrap(tail + i - 1)]]
    [] rst = "head" -> <<>>
    [] rst = "tail" -> [i \in 1..head |-> buf[i - 1]]

Fifo == INSTANCE PcmFifo WITH
  fifo <- Queued, next <- IF rst = "head" THEN 0 ELSE w, out <- out

(* Every step of the ring is a step of the queue or changes nothing of it.  *)
ImplementsFifo == Fifo!FifoSpec
================================================================================
