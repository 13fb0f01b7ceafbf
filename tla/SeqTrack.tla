-------------------------------- MODULE SeqTrack --------------------------------
(***************************************************************************)
(* The sequence audit of src/uac2_audio_dma.c: every buffer given to the   *)
(* driver gets the next number in a log, every DEQUEUE message looks its   *)
(* buffer up and compares the number with the last one completed.          *)
(*                                                                         *)
(* The pump thread makes every call once playing has begun.  The driver is *)
(* external: it completes its queue in order, and as faults (the ones the  *)
(* audit is there for) it may complete a later buffer first, lose one, or  *)
(* report one twice.  Numbers count modulo 2^32 in the code, Modulus here. *)
(***************************************************************************)
EXTENDS Integers, Sequences, FiniteSets, SequencesExt, FiniteSetsExt

CONSTANTS
  Apbs,          \* the audio buffers
  None,          \* NULL
  LogLen,        \* entries of the log (32)
  Modulus,       \* numbers wrap here (2^32)
  MaxEnqueues,   \* bound: enqueues in a run
  MaxFaults      \* bound: faults of the driver in a run

ASSUME SeqAssumption ==
  /\ None \notin Apbs
  /\ IsFiniteSet(Apbs) /\ Cardinality(Apbs) <= LogLen   \* 16 and 32 in the code
  /\ LogLen \in Nat \ {0} /\ Modulus \in Nat \ {0}
  /\ MaxEnqueues \in Nat /\ MaxFaults \in Nat

Slots == 0..(LogLen - 1)
Numbers == 0..(Modulus - 1)

VARIABLES
  enq_seq_next, seq_log_ptr, seq_log_seq, seq_log_head,
  last_deq_seq, dup_count, gap_count, first_dup_seq, first_gap_seq,
  free,          \* the pool
  drv,           \* buffers queued in the driver, oldest first
  msgs,          \* DEQUEUE messages not yet received
  (* History.  A serial is a number that never wraps.                       *)
  serial,        \* enqueues so far
  latest,        \* the serial of the last enqueue of each buffer
  done,          \* the serials received, in that order
  prompt,        \* no message came after its buffer had been enqueued again,
                 \* nor after LogLen other enqueues
  faults         \* faults so far, by kind

logVars   == <<enq_seq_next, seq_log_ptr, seq_log_seq, seq_log_head>>
countVars == <<last_deq_seq, dup_count, gap_count, first_dup_seq, first_gap_seq>>
history   == <<serial, latest, done, prompt>>
vars == <<logVars, countVars, free, drv, msgs, history, faults>>

Kinds == {"overtake", "loss", "replay"}
(* What the driver holds of an enqueue, and reports when it is played.      *)
Item == [apb : Apbs, serial : Nat]

Init ==
  /\ enq_seq_next = 0 /\ seq_log_head = 0
  /\ seq_log_ptr = [i \in Slots |-> None] /\ seq_log_seq = [i \in Slots |-> 0]
  /\ last_deq_seq = 0 /\ dup_count = 0 /\ gap_count = 0
  /\ first_dup_seq = 0 /\ first_gap_seq = 0
  /\ free = Apbs /\ drv = <<>> /\ msgs = <<>>
  /\ serial = 0 /\ latest = [b \in Apbs |-> 0] /\ done = <<>> /\ prompt = TRUE
  /\ faults = [k \in Kinds |-> 0]

Plus1(n) == (n + 1) % Modulus

(* Deviant: the head of the log is not masked.                              *)
NextSlot_Unmasked(i) == i + 1
NextSlot(i) == (i + 1) % LogLen

--------------------------------------------------------------------------------
(* A successful ENQUEUEBUFFER, then track_enqueue.                          *)
Enqueue(b) ==
  /\ serial < MaxEnqueues
  /\ b \in free
  /\ free' = free \ {b}
  /\ drv' = Append(drv, [apb |-> b, serial |-> serial + 1])
  /\ enq_seq_next' = Plus1(enq_seq_next)
  /\ seq_log_ptr' = [seq_log_ptr EXCEPT ![seq_log_head] = b]
  /\ seq_log_seq' = [seq_log_seq EXCEPT ![seq_log_head] = Plus1(enq_seq_next)]
  /\ seq_log_head' = NextSlot(seq_log_head)
  /\ serial' = serial + 1 /\ latest' = [latest EXCEPT ![b] = serial + 1]
  /\ UNCHANGED <<countVars, msgs, done, prompt, faults>>

--------------------------------------------------------------------------------
(* The driver.                                                              *)

Fault(k) ==
  /\ FoldFunction(+, 0, faults) < MaxFaults
  /\ faults' = [faults EXCEPT ![k] = @ + 1]

Complete ==
  /\ drv # <<>>
  /\ msgs' = Append(msgs, Head(drv)) /\ drv' = Tail(drv)
  /\ UNCHANGED faults

(* A buffer behind the first one is reported before it.                     *)
CompleteLater ==
  /\ Fault("overtake")
  /\ \E k \in 2..Len(drv) : msgs' = Append(msgs, drv[k]) /\ drv' = RemoveAt(drv, k)

Lose ==
  /\ drv # <<>> /\ Fault("loss")
  /\ drv' = Tail(drv) /\ UNCHANGED msgs

(* The completion interrupt comes twice for one buffer.                     *)
Replay ==
  /\ drv # <<>> /\ Fault("replay")
  /\ msgs' = msgs \o <<Head(drv), Head(drv)>> /\ drv' = Tail(drv)

Driver == (Complete \/ CompleteLater \/ Lose \/ Replay)
          /\ UNCHANGED <<logVars, countVars, free, history>>

--------------------------------------------------------------------------------
(* drain_audio_msgs: track_dequeue, then back to the pool.                  *)

Entries(b) == {i \in Slots : seq_log_ptr[i] = b}
Found(b) == Entries(b) # {}
Entry(b) == Min(Entries(b))
(* 0 stands for "unknown": no entry, or one whose number is 0.              *)
Lookup(b) == IF Found(b) THEN seq_log_seq[Entry(b)] ELSE 0

(* Deviant: the entry is left in the log.                                   *)
Consume_Kept(b) == UNCHANGED seq_log_ptr
Consume(b) ==
  seq_log_ptr' = IF Found(b) THEN [seq_log_ptr EXCEPT ![Entry(b)] = None]
                 ELSE seq_log_ptr

(* Deviant: a late number becomes the last one again.                       *)
Judge_TakesLate(s) ==
  LET next == s = Plus1(last_deq_seq)
      late == ~next /\ s <= last_deq_seq
  IN
  IF s = 0 THEN UNCHANGED countVars
  ELSE /\ last_deq_seq' = s
       /\ dup_count' = dup_count + (IF late THEN 1 ELSE 0)
       /\ gap_count' = gap_count + (IF next \/ late THEN 0 ELSE 1)
       /\ UNCHANGED <<first_dup_seq, first_gap_seq>>

(* Deviant: a gap is counted without catching up with it.                   *)
Judge_StaysBehind(s) ==
  LET next == s = Plus1(last_deq_seq)
      late == ~next /\ s <= last_deq_seq
      gap  == ~next /\ ~late
  IN
  IF s = 0 THEN UNCHANGED countVars
  ELSE /\ last_deq_seq' = IF next THEN s ELSE last_deq_seq
       /\ dup_count' = dup_count + (IF late THEN 1 ELSE 0)
       /\ gap_count' = gap_count + (IF gap THEN 1 ELSE 0)
       /\ first_dup_seq' = IF late /\ first_dup_seq = 0 THEN s ELSE first_dup_seq
       /\ first_gap_seq' = IF gap THEN s ELSE first_gap_seq

Judge(s) ==
  LET next == s = Plus1(last_deq_seq)
      late == ~next /\ s <= last_deq_seq
      gap  == ~next /\ ~late
  IN
  IF s = 0 THEN UNCHANGED countVars
  ELSE /\ last_deq_seq' = IF late THEN last_deq_seq ELSE s
       /\ dup_count' = dup_count + (IF late THEN 1 ELSE 0)
       /\ gap_count' = gap_count + (IF gap THEN 1 ELSE 0)
       /\ first_dup_seq' = IF late /\ first_dup_seq = 0 THEN s ELSE first_dup_seq
       /\ first_gap_seq' = IF gap /\ first_gap_seq = 0 THEN s ELSE first_gap_seq

Receive ==
  /\ msgs # <<>> /\ msgs' = Tail(msgs)
  /\ LET m == Head(msgs) IN
     /\ Consume(m.apb) /\ Judge(Lookup(m.apb))
     /\ free' = free \union {m.apb}
     /\ done' = Append(done, m.serial)
     /\ prompt' = (prompt /\ latest[m.apb] = m.serial /\ serial - m.serial < LogLen)
  /\ UNCHANGED <<enq_seq_next, seq_log_seq, seq_log_head, drv, serial, latest, faults>>

Next == (\E b \in Apbs : Enqueue(b)) \/ Driver \/ Receive

Spec == Init /\ [][Next]_vars

--------------------------------------------------------------------------------
LogTypes ==
  /\ enq_seq_next \in Numbers /\ seq_log_head \in Slots
  /\ seq_log_ptr \in [Slots -> Apbs \union {None}]
  /\ seq_log_seq \in [Slots -> Numbers]
CountTypes ==
  /\ last_deq_seq \in Numbers /\ first_dup_seq \in Numbers /\ first_gap_seq \in Numbers
  /\ dup_count \in Nat /\ gap_count \in Nat
QueueTypes ==
  /\ free \subseteq Apbs /\ drv \in Seq(Item) /\ msgs \in Seq(Item)
  /\ serial \in 0..MaxEnqueues /\ latest \in [Apbs -> Nat]
  /\ done \in Seq(Nat) /\ prompt \in BOOLEAN
  /\ faults \in [Kinds -> Nat]
TypeOK == LogTypes /\ CountTypes /\ QueueTypes

Only(K) == \A k \in Kinds \ K : faults[k] = 0
Unwrapped == serial < Modulus
Delivered == ToSet(done)

(* A driver that plays in order and reports once is never accused before    *)
(* the 32-bit counter wraps.  After the wrap the code accuses it for ever:  *)
(* number 0 reads as unknown, the last number stays at its maximum, and     *)
(* every later completion counts as a duplicate.                            *)
CleanRun ==
  Only({}) =>
    LET n == Len(done)
        since == n - (Modulus - 1)
    IN /\ gap_count = 0
       /\ last_deq_seq = IF since > 0 THEN Modulus - 1 ELSE n
       /\ dup_count = IF since > 0 THEN since - n \div Modulus ELSE 0

(* Every enqueue still in the driver or in a message has its own number in  *)
(* the log, as long as the log is long enough: no entry of an earlier use   *)
(* of the same buffer is found instead.                                     *)
EntriesAccurate ==
  Only({"overtake", "loss"}) =>
    \A m \in ToSet(drv \o msgs) :
      serial - m.serial < LogLen => Lookup(m.apb) = m.serial % Modulus

(* Lost buffers are noticed when a later one completes: one gap for each    *)
(* run of losses, the first of them located by first_gap_seq, and no        *)
(* duplicate reported.                                                      *)
LossExact ==
  (Only({"loss"}) /\ Unwrapped) =>
    LET missing == (1..last_deq_seq) \ Delivered IN
    /\ dup_count = 0
    /\ gap_count = Cardinality({s \in missing : s + 1 \in Delivered})
    /\ first_gap_seq = IF missing = {} THEN 0
                       ELSE Min({s \in Delivered : s > Min(missing)})

(* dup_count counts the buffers that completed after a later one, unless so *)
(* much later that the log had reused their entry.                          *)
DupIsOvertaken ==
  (Only({"overtake", "loss"}) /\ Unwrapped /\ prompt) =>
    dup_count = Cardinality({i \in DOMAIN done : \E j \in 1..(i - 1) : done[j] > done[i]})
================================================================================
