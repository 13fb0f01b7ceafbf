----------------------------- MODULE SeqTrackProofs -----------------------------
(***************************************************************************)
(* Safety of the sequence audit for every set of buffers that fits in the  *)
(* log, every length of the log, every modulus of the numbers and any      *)
(* number of enqueues and of faults.                                       *)
(***************************************************************************)
EXTENDS SeqTrack, NumberLemmas, SequenceTheorems

Without(K) == \A k \in K : faults[k] = 0
InOrder  == Without({"overtake"})
OneEach  == Without({"replay"})
Lossless == Without({"loss"})

(* Where the log keeps the number of a serial.                              *)
SlotOf(s) == (s - 1) % LogLen

(* The last serial received, 0 before the first.                            *)
LastDone == IF done = <<>> THEN 0 ELSE done[Len(done)]

Received(s) == s = 0 \/ s \in Delivered

(* Serials and their numbers.                                               *)
SerialInv ==
  /\ enq_seq_next = serial % Modulus /\ seq_log_head = serial % LogLen
  /\ \A b \in Apbs : latest[b] \in 0..serial
  /\ \A b, c \in Apbs : latest[b] = latest[c] /\ latest[b] # 0 => b = c
  /\ \A i \in DOMAIN done : done[i] \in 1..serial

(* The driver holds serials in order, and nothing it has reported.          *)
DriverInv ==
  /\ \A i \in DOMAIN drv : drv[i].serial \in 1..serial /\ drv[i].serial \notin Delivered
  /\ \A i \in DOMAIN msgs : msgs[i].serial \in 1..serial
  /\ \A i, j \in DOMAIN drv : i < j => drv[i].serial < drv[j].serial
  /\ \A i \in DOMAIN drv, j \in DOMAIN msgs : drv[i].serial # msgs[j].serial

(* As long as no message is about a buffer enqueued again: a buffer has at  *)
(* most one entry, its last, from its enqueue to its report, unless others  *)
(* have pushed it out.                                                      *)
QueuedIsLatest == \A i \in DOMAIN drv : drv[i].serial = latest[drv[i].apb]
FreeIsReceived == \A b \in free : Received(latest[b])
EntryIsLatest ==
  \A i \in Slots : seq_log_ptr[i] \in Apbs =>
    LET s == latest[seq_log_ptr[i]] IN
    ~Received(s) /\ i = SlotOf(s) /\ seq_log_seq[i] = s % Modulus
EntryIsKept ==
  \A b \in Apbs : ~Received(latest[b]) /\ serial - latest[b] < LogLen
                    => seq_log_ptr[SlotOf(latest[b])] = b

Trusted == prompt \/ OneEach
LogExact == QueuedIsLatest /\ FreeIsReceived /\ EntryIsLatest /\ EntryIsKept
LogInv == Trusted => LogExact

(* Every report is the only one and about the last use of its buffer.       *)
ReportIsLatest ==
  \A i \in DOMAIN msgs :
    msgs[i].serial = latest[msgs[i].apb] /\ ~Received(msgs[i].serial)
ReportIsOnly == \A i, j \in DOMAIN msgs : msgs[i].serial = msgs[j].serial => i = j
ReportInv == OneEach => ReportIsLatest /\ ReportIsOnly

(* Reports in order.                                                        *)
Ordered ==
  /\ \A i \in DOMAIN done : done[i] <= LastDone
  /\ \A i \in DOMAIN msgs : LastDone <= msgs[i].serial
  /\ \A i, j \in DOMAIN msgs : i < j => msgs[i].serial <= msgs[j].serial
  /\ \A i \in DOMAIN msgs, j \in DOMAIN drv : msgs[i].serial < drv[j].serial
  /\ \A j \in DOMAIN drv : LastDone < drv[j].serial
OrderInv == InOrder => Ordered

(* A serial not received, not in a message and not in the driver is lost.   *)
ConservedInv ==
  Lossless => \A s \in 1..serial : \/ s \in Delivered
                                   \/ \E i \in DOMAIN msgs : msgs[i].serial = s
                                   \/ \E i \in DOMAIN drv : drv[i].serial = s

(* Every serial since the last one received still is the last of its buffer.*)
WindowInv ==
  InOrder /\ OneEach =>
    \A s \in (LastDone + 1)..serial : \E b \in Apbs : latest[b] = s

CleanInv == Only({}) => Len(done) = LastDone

(* The counters.                                                            *)
Missing == (1..last_deq_seq) \ Delivered

Gaps == {s \in Missing : s + 1 \in Delivered}
FirstGap ==
  /\ Missing = {} => first_gap_seq = 0
  /\ Missing # {} =>
       \E lo \in Missing :
         /\ \A s \in Missing : lo <= s
         /\ first_gap_seq \in Delivered /\ lo < first_gap_seq
         /\ \A s \in Delivered : lo < s => first_gap_seq <= s

LossCounted ==
  /\ last_deq_seq = LastDone /\ dup_count = 0
  /\ gap_count = Cardinality(Gaps) /\ FirstGap
LossInv == Only({"loss"}) /\ Unwrapped => LossCounted

Overtaken == {i \in DOMAIN done : \E j \in 1..(i - 1) : done[j] > done[i]}
OvertakenCounted ==
  /\ Received(last_deq_seq)
  /\ \A i \in DOMAIN done : done[i] <= last_deq_seq
  /\ dup_count = Cardinality(Overtaken)
MaxInv == Only({"overtake", "loss"}) /\ Unwrapped /\ prompt => OvertakenCounted

NothingCounted == last_deq_seq = LastDone /\ dup_count = 0 /\ gap_count = 0
ReplayInv == Only({"replay"}) /\ Unwrapped /\ prompt => NothingCounted

AuditInv == SerialInv /\ DriverInv /\ LogInv /\ ReportInv
FlowInv  == OrderInv /\ ConservedInv /\ WindowInv /\ CleanInv
CountInv == CleanRun /\ LossInv /\ MaxInv /\ ReplayInv
IInv == TypeOK /\ AuditInv /\ FlowInv /\ CountInv
--------------------------------------------------------------------------------
(* Serials less than the log's length apart have slots of their own.        *)
LEMMA SlotType ==
  ASSUME NEW s \in Nat \ {0}
  PROVE  SlotOf(s) \in Slots
  BY ModDef, SeqAssumption, s - 1 \in Nat DEF SeqAssumption, SlotOf, Slots

LEMMA SlotsApart ==
  ASSUME NEW s \in Nat \ {0}, NEW t \in Nat \ {0}, s < t, t - s < LogLen
  PROVE  SlotOf(s) # SlotOf(t)
  <1> DEFINE p == (s - 1) \div LogLen
             q == (t - 1) \div LogLen
  <1>0. LogLen \in Nat \ {0}  BY SeqAssumption DEF SeqAssumption
  <1>1. s - 1 \in Nat /\ t - 1 \in Nat  OBVIOUS
  <1>2. /\ p \in Nat /\ s - 1 = LogLen * p + SlotOf(s)
        /\ q \in Nat /\ t - 1 = LogLen * q + SlotOf(t)
    BY <1>0, <1>1, ModDef DEF SlotOf
  <1>3. SlotOf(s) \in Nat /\ SlotOf(t) \in Nat
    BY <1>0, SlotType DEF Slots
  <1>4. SUFFICES ASSUME SlotOf(s) = SlotOf(t) PROVE FALSE  OBVIOUS
  <1> HIDE DEF p, q
  <1>5. LogLen * p \in Int /\ LogLen * q \in Int  BY <1>0, <1>2
  <1>6. ~(p < q)
    <2> SUFFICES ASSUME p < q PROVE FALSE  OBVIOUS
    <2>1. LogLen * p + LogLen <= LogLen * q  BY <1>0, <1>2, MultipleApart
    <2> QED  BY <1>0, <1>2, <1>3, <1>4, <1>5, <2>1
  <1>7. ~(q < p)
    <2> SUFFICES ASSUME q < p PROVE FALSE  OBVIOUS
    <2>1. LogLen * q + LogLen <= LogLen * p  BY <1>0, <1>2, MultipleApart
    <2> QED  BY <1>0, <1>2, <1>3, <1>4, <1>5, <2>1
  <1>8. p = q  BY <1>2, <1>6, <1>7
  <1> QED  BY <1>2, <1>3, <1>4, <1>5, <1>8

--------------------------------------------------------------------------------
(* The pool of entries.                                                     *)
LEMMA LookupType ==
  ASSUME TypeOK, NEW b \in Apbs
  PROVE  /\ Entries(b) \subseteq Slots /\ Slots \subseteq Nat
         /\ Lookup(b) \in Numbers
         /\ Found(b) => Entry(b) \in Slots /\ seq_log_ptr[Entry(b)] = b
  <1>1. Entries(b) \subseteq Slots /\ Slots \subseteq Nat
    BY SeqAssumption DEF SeqAssumption, Entries, Slots
  <1>2. Found(b) => Entry(b) \in Entries(b)
    BY <1>1, MinMember DEF Found, Entry
  <1>3. 0 \in Numbers  BY SeqAssumption DEF SeqAssumption, Numbers
  <1> QED
    BY <1>1, <1>2, <1>3 DEF Lookup, Entries, TypeOK, LogTypes

(* A queue without one of its places.                                       *)
LEMMA RemoveAtProperties ==
  ASSUME NEW S, NEW q \in Seq(S), NEW k \in 1..Len(q)
  PROVE  /\ RemoveAt(q, k) \in Seq(S)
         /\ Len(RemoveAt(q, k)) = Len(q) - 1
         /\ \A i \in 1..(Len(q) - 1) :
              RemoveAt(q, k)[i] = IF i < k THEN q[i] ELSE q[i + 1]
  <1> DEFINE a == SubSeq(q, 1, k - 1)
             z == SubSeq(q, k + 1, Len(q))
  <1>1. /\ a \in Seq(S) /\ Len(a) = k - 1
        /\ \A i \in 1..(k - 1) : a[i] = q[i]
    BY SubSeqProperties
  <1>2. /\ z \in Seq(S) /\ Len(z) = Len(q) - k
        /\ \A i \in 1..(Len(q) - k) : z[i] = q[k + i]
    BY SubSeqProperties
  <1>3. RemoveAt(q, k) = a \o z  BY DEF RemoveAt
  <1> HIDE DEF a, z
  <1>4. /\ a \o z \in Seq(S) /\ Len(a \o z) = Len(a) + Len(z)
        /\ \A i \in 1..(Len(a) + Len(z)) :
             (a \o z)[i] = IF i <= Len(a) THEN a[i] ELSE z[i - Len(a)]
    BY <1>1, <1>2, ConcatProperties
  <1>5. Len(q) \in Nat /\ Len(a) + Len(z) = Len(q) - 1  BY <1>1, <1>2
  <1>6. ASSUME NEW i \in 1..(Len(q) - 1)
        PROVE  (a \o z)[i] = IF i < k THEN q[i] ELSE q[i + 1]
    <2>1. (a \o z)[i] = IF i <= k - 1 THEN a[i] ELSE z[i - (k - 1)]
      BY <1>1, <1>4, <1>5
    <2>2. CASE i < k  BY <1>1, <1>5, <2>1, <2>2
    <2>3. CASE i >= k
      <3>1. i - (k - 1) \in 1..(Len(q) - k) /\ k + (i - (k - 1)) = i + 1
        BY <1>5, <2>3
      <3> QED  BY <1>2, <2>1, <2>3, <3>1
    <2> QED  BY <1>5, <2>2, <2>3
  <1> QED  BY <1>3, <1>4, <1>5, <1>6

--------------------------------------------------------------------------------
(* What each step does, place by place.                                     *)
LEMMA EnqueueFacts ==
  ASSUME TypeOK, NEW b \in free, Enqueue(b)
  PROVE  /\ b \in Apbs /\ serial \in Nat /\ serial' = serial + 1
         /\ drv' \in Seq(Item) /\ Len(drv') = Len(drv) + 1
         /\ \A i \in 1..Len(drv) : drv'[i] = drv[i]
         /\ drv'[Len(drv) + 1].apb = b /\ drv'[Len(drv) + 1].serial = serial + 1
         /\ latest' \in [Apbs -> Nat]
         /\ \A c \in Apbs : latest'[c] = IF c = b THEN serial + 1 ELSE latest[c]
         /\ Delivered' = Delivered /\ LastDone' = LastDone
  <1>1. b \in Apbs /\ serial \in Nat /\ drv \in Seq(Item)
    BY SeqAssumption DEF SeqAssumption, TypeOK, QueueTypes
  <1>2. [apb |-> b, serial |-> serial + 1] \in Item
    BY <1>1 DEF Item
  <1> QED
    BY <1>1, <1>2, AppendProperties
    DEF Enqueue, TypeOK, QueueTypes, Delivered, LastDone

(* The driver lets go of the buffer at place k, and reports it or does not. *)
Moved(k) ==
  /\ drv' \in Seq(Item) /\ Len(drv') = Len(drv) - 1
  /\ \A i \in 1..Len(drv') : drv'[i] = IF i < k THEN drv[i] ELSE drv[i + 1]
  /\ msgs' \in Seq(Item) /\ Len(msgs') \in Len(msgs)..(Len(msgs) + 2)
  /\ \A i \in 1..Len(msgs') : msgs'[i] = IF i <= Len(msgs) THEN msgs[i] ELSE drv[k]
  /\ faults' \in [Kinds -> Nat]
  /\ \A x \in Kinds : faults[x] <= faults'[x]
  /\ faults'["overtake"] = 0 => k = 1
  /\ faults'["loss"] = 0 => Len(msgs) < Len(msgs')
  /\ faults'["replay"] = 0 => Len(msgs') <= Len(msgs) + 1

LEMMA DriverFacts ==
  ASSUME TypeOK, Driver
  PROVE  \E k \in 1..Len(drv) : Moved(k)
  <1>0. drv \in Seq(Item) /\ msgs \in Seq(Item) /\ faults \in [Kinds -> Nat]
    BY DEF TypeOK, QueueTypes
  <1>1. ASSUME NEW x \in Kinds, Fault(x)
        PROVE  /\ faults' \in [Kinds -> Nat] /\ faults'[x] # 0
               /\ \A y \in Kinds : faults[y] <= faults'[y]
    <2>1. faults' = [faults EXCEPT ![x] = faults[x] + 1]  BY <1>1, Zenon DEF Fault
    <2>2. \A y \in Kinds : faults[y] \in Nat  BY <1>0
    <2> QED  BY <1>0, <2>1, <2>2
  <1>2. CASE CompleteLater
    <2>1. PICK k \in 2..Len(drv) : msgs' = Append(msgs, drv[k]) /\ drv' = RemoveAt(drv, k)
      BY <1>2, Zenon DEF CompleteLater
    <2>2. Len(drv) \in Nat /\ k \in 1..Len(drv) /\ drv[k] \in Item  BY <1>0
    <2>3. /\ msgs' \in Seq(Item) /\ Len(msgs') = Len(msgs) + 1
          /\ \A i \in 1..Len(msgs') :
               msgs'[i] = IF i <= Len(msgs) THEN msgs[i] ELSE drv[k]
      BY <1>0, <2>1, <2>2, AppendProperties
    <2>4. /\ drv' \in Seq(Item) /\ Len(drv') = Len(drv) - 1
          /\ \A i \in 1..Len(drv') : drv'[i] = IF i < k THEN drv[i] ELSE drv[i + 1]
      BY <1>0, <2>1, <2>2, RemoveAtProperties
    <2>5. Fault("overtake") /\ "overtake" \in Kinds
      BY <1>2, Zenon DEF CompleteLater, Kinds
    <2>6. Len(msgs) \in Nat  BY <1>0
    <2>7. Moved(k)  BY <1>1, <2>2, <2>3, <2>4, <2>5, <2>6 DEF Moved
    <2> QED  BY <2>2, <2>7
  <1>3. CASE Complete \/ Lose \/ Replay
    <2>1. drv # <<>> /\ drv' = Tail(drv)
      BY <1>3, Zenon DEF Complete, Lose, Replay
    <2>2. /\ 1 \in 1..Len(drv) /\ Head(drv) = drv[1] /\ drv[1] \in Item
          /\ drv' \in Seq(Item) /\ Len(drv') = Len(drv) - 1
          /\ \A i \in 1..Len(drv') : drv'[i] = drv[i + 1]
      BY <1>0, <2>1, HeadTailProperties
    <2>3. Len(msgs) \in Nat /\ Len(drv') \in Nat  BY <1>0, <2>2
    <2> SUFFICES Moved(1)  BY <2>2
    <2>4. CASE Complete
      <3>1. msgs' = Append(msgs, drv[1]) /\ faults' = faults
        BY <2>2, <2>4 DEF Complete
      <3>2. /\ msgs' \in Seq(Item) /\ Len(msgs') = Len(msgs) + 1
            /\ \A i \in 1..Len(msgs') :
                 msgs'[i] = IF i <= Len(msgs) THEN msgs[i] ELSE drv[1]
        BY <1>0, <2>2, <3>1, AppendProperties
      <3>3. \A x \in Kinds : faults[x] \in Nat  BY <1>0
      <3> QED  BY <1>0, <2>2, <2>3, <3>1, <3>2, <3>3 DEF Moved
    <2>5. CASE Lose
      <3>1. msgs' = msgs /\ Fault("loss") /\ "loss" \in Kinds
        BY <2>5, Zenon DEF Lose, Kinds
      <3> QED  BY <1>0, <1>1, <2>2, <2>3, <3>1 DEF Moved
    <2>6. CASE Replay
      <3> DEFINE twice == <<drv[1], drv[1]>>
      <3>1. msgs' = msgs \o twice /\ Fault("replay") /\ "replay" \in Kinds
        BY <2>2, <2>6, Zenon DEF Replay, Kinds
      <3>2. twice \in Seq(Item) /\ Len(twice) = 2 /\ twice[1] = drv[1] /\ twice[2] = drv[1]
        BY <2>2
      <3> HIDE DEF twice
      <3>3. /\ msgs' \in Seq(Item) /\ Len(msgs') = Len(msgs) + Len(twice)
            /\ \A i \in 1..(Len(msgs) + Len(twice)) :
                 msgs'[i] = IF i <= Len(msgs) THEN msgs[i] ELSE twice[i - Len(msgs)]
        BY <1>0, <3>1, <3>2, ConcatProperties
      <3>4. \A i \in 1..Len(msgs') :
                 msgs'[i] = IF i <= Len(msgs) THEN msgs[i] ELSE drv[1]
        BY <2>3, <3>2, <3>3
      <3> QED  BY <1>1, <2>2, <2>3, <3>1, <3>2, <3>3, <3>4 DEF Moved
    <2> QED  BY <1>3, <2>4, <2>5, <2>6
  <1> QED  BY <1>2, <1>3, Zenon DEF Driver

LEMMA ReceiveFacts ==
  ASSUME TypeOK, Receive
  PROVE  /\ 1 \in 1..Len(msgs) /\ msgs[1] \in Item /\ Head(msgs) = msgs[1]
         /\ msgs' \in Seq(Item) /\ Len(msgs') = Len(msgs) - 1
         /\ \A i \in 1..Len(msgs') : msgs'[i] = msgs[i + 1]
         /\ done' \in Seq(Nat) /\ Len(done') = Len(done) + 1
         /\ \A i \in 1..Len(done) : done'[i] = done[i]
         /\ done'[Len(done) + 1] = msgs[1].serial
         /\ Delivered' = Delivered \union {msgs[1].serial}
         /\ LastDone' = msgs[1].serial
         /\ serial \in Nat /\ latest \in [Apbs -> Nat]
  <1>0. /\ msgs \in Seq(Item) /\ done \in Seq(Nat) /\ msgs # <<>>
        /\ serial \in Nat /\ latest \in [Apbs -> Nat]
    BY SeqAssumption DEF SeqAssumption, TypeOK, QueueTypes, Receive
  <1>1. /\ 1 \in 1..Len(msgs) /\ msgs[1] \in Item /\ Head(msgs) = msgs[1]
        /\ msgs' \in Seq(Item) /\ Len(msgs') = Len(msgs) - 1
        /\ \A i \in 1..Len(msgs') : msgs'[i] = msgs[i + 1]
    BY <1>0, HeadTailProperties DEF Receive
  <1>2. done' = Append(done, msgs[1].serial) /\ msgs[1].serial \in Nat
    BY <1>1 DEF Receive, Item
  <1>3. /\ done' \in Seq(Nat) /\ Len(done') = Len(done) + 1 /\ done' # <<>>
        /\ \A i \in 1..Len(done) : done'[i] = done[i]
        /\ done'[Len(done) + 1] = msgs[1].serial
    BY <1>0, <1>2, AppendProperties
  <1>4. Delivered' = Delivered \union {msgs[1].serial}
    <2>1. DOMAIN done = 1..Len(done) /\ DOMAIN done' = 1..(Len(done) + 1)
      BY <1>0, <1>3
    <2>2. 1..(Len(done) + 1) = (1..Len(done)) \union {Len(done) + 1}
      BY <1>0
    <2> QED  BY <1>3, <2>1, <2>2 DEF Delivered, ToSet
  <1> QED  BY <1>0, <1>1, <1>3, <1>4 DEF LastDone

--------------------------------------------------------------------------------
(* Types.                                                                   *)
LEMMA TypeInit == Init => TypeOK
  <1> SUFFICES ASSUME Init PROVE TypeOK  OBVIOUS
  <1> USE SeqAssumption DEF SeqAssumption
  <1>1. 0 \in Numbers /\ 0 \in Slots  BY DEF Numbers, Slots
  <1>2. LogTypes /\ CountTypes  BY <1>1 DEF Init, LogTypes, CountTypes
  <1>3. prompt \in BOOLEAN  BY DEF Init
  <1>4. QueueTypes  BY <1>3 DEF Init, QueueTypes
  <1> QED  BY <1>2, <1>4 DEF TypeOK

LEMMA JudgeType ==
  ASSUME CountTypes, NEW s \in Numbers, Judge(s)
  PROVE  CountTypes'
  BY DEF Judge, CountTypes, countVars

LEMMA TypeStep ==
  ASSUME TypeOK, [Next]_vars
  PROVE  TypeOK'
  <1> USE SeqAssumption DEF SeqAssumption
  <1>1. ASSUME NEW b \in Apbs, Enqueue(b)
        PROVE  TypeOK'
    <2>1. b \in free  BY <1>1 DEF Enqueue
    <2>2. enq_seq_next + 1 \in Nat /\ seq_log_head + 1 \in Nat
      BY DEF TypeOK, LogTypes, Numbers, Slots
    <2>3. Plus1(enq_seq_next) \in Numbers /\ NextSlot(seq_log_head) \in Slots
      BY <2>2, ModDef DEF Plus1, NextSlot, Numbers, Slots
    <2>4. LogTypes'  BY <1>1, <2>3 DEF Enqueue, TypeOK, LogTypes
    <2>5. CountTypes'  BY <1>1 DEF Enqueue, countVars, TypeOK, CountTypes
    <2>6. prompt' \in BOOLEAN  BY <1>1 DEF Enqueue, TypeOK, QueueTypes
    <2>7. UNCHANGED <<msgs, done, faults>> /\ free' \subseteq Apbs
      BY <1>1 DEF Enqueue, TypeOK, QueueTypes
    <2>8. serial' \in 0..MaxEnqueues  BY <1>1 DEF Enqueue, TypeOK, QueueTypes
    <2>9. drv' \in Seq(Item) /\ latest' \in [Apbs -> Nat]
      BY <1>1, <2>1, EnqueueFacts
    <2>10. QueueTypes'
      BY <2>6, <2>7, <2>8, <2>9 DEF TypeOK, QueueTypes
    <2> QED  BY <2>4, <2>5, <2>10 DEF TypeOK
  <1>2. CASE Driver
    <2>1. PICK k \in 1..Len(drv) : Moved(k)  BY <1>2, DriverFacts
    <2>2. LogTypes' /\ CountTypes'
      BY <1>2 DEF Driver, logVars, countVars, TypeOK, LogTypes, CountTypes
    <2>3. prompt' \in BOOLEAN  BY <1>2 DEF Driver, history, TypeOK, QueueTypes
    <2>4. QueueTypes'
      BY <1>2, <2>1, <2>3 DEF Driver, history, Moved, TypeOK, QueueTypes
    <2> QED  BY <2>2, <2>4 DEF TypeOK
  <1>3. CASE Receive
    <2>1. msgs[1].apb \in Apbs  BY <1>3, ReceiveFacts DEF Item
    <2>2. LogTypes'
      BY <1>3, <2>1, ReceiveFacts, LookupType DEF Receive, Consume, TypeOK, LogTypes
    <2>3. CountTypes'
      <3>1. Judge(Lookup(msgs[1].apb)) /\ Lookup(msgs[1].apb) \in Numbers
        BY <1>3, <2>1, ReceiveFacts, LookupType DEF Receive
      <3> QED  BY <3>1, JudgeType DEF TypeOK
    <2>4. prompt' \in BOOLEAN  BY <1>3 DEF Receive, TypeOK, QueueTypes
    <2>5. QueueTypes'
      BY <1>3, <2>1, <2>4, ReceiveFacts DEF Receive, TypeOK, QueueTypes
    <2> QED  BY <2>2, <2>3, <2>5 DEF TypeOK
  <1>4. CASE UNCHANGED vars
    <2>1. prompt' \in BOOLEAN  BY <1>4 DEF vars, history, TypeOK, QueueTypes
    <2> QED
      BY <1>4, <2>1 DEF vars, logVars, countVars, history, TypeOK, LogTypes,
         CountTypes, QueueTypes
  <1> QED  BY <1>1, <1>2, <1>3, <1>4 DEF Next

--------------------------------------------------------------------------------
(* The log and the queues.                                                  *)
LEMMA AuditInit == Init => AuditInv
  <1> SUFFICES ASSUME Init PROVE AuditInv  OBVIOUS
  <1> USE SeqAssumption DEF SeqAssumption, Init
  <1>1. 0 % Modulus = 0 /\ 0 % LogLen = 0  BY ModSmall
  <1>2. SerialInv  BY <1>1 DEF SerialInv
  <1>3. DriverInv /\ ReportInv
    BY DEF DriverInv, ReportInv, ReportIsLatest, ReportIsOnly
  <1>4. LogInv
    BY DEF LogInv, LogExact, QueuedIsLatest, FreeIsReceived, EntryIsLatest, EntryIsKept, Received
  <1> QED  BY <1>2, <1>3, <1>4 DEF AuditInv

LEMMA EnqueueSerial ==
  ASSUME TypeOK, SerialInv, NEW b \in free, Enqueue(b)
  PROVE  SerialInv'
  <1> USE SeqAssumption DEF SeqAssumption
  <1>1. enq_seq_next' = serial' % Modulus /\ seq_log_head' = serial' % LogLen
    BY EnqueueFacts, ModCount DEF SerialInv, Enqueue, Plus1, NextSlot
  <1>2. done' = done  BY DEF Enqueue
  <1>3. \A c \in Apbs : latest'[c] = IF c = b THEN serial + 1 ELSE latest[c]
    BY EnqueueFacts
  <1>4. /\ \A c \in Apbs : latest'[c] \in 0..serial'
        /\ \A c, d \in Apbs : latest'[c] = latest'[d] /\ latest'[c] # 0 => c = d
    <2>1. serial \in Nat /\ serial' = serial + 1 /\ b \in Apbs  BY EnqueueFacts
    <2> QED  BY <1>3, <2>1 DEF SerialInv
  <1>5. \A i \in DOMAIN done' : done'[i] \in 1..serial'
    BY <1>2, EnqueueFacts DEF SerialInv
  <1> QED  BY <1>1, <1>4, <1>5 DEF SerialInv

LEMMA EnqueueDriver ==
  ASSUME TypeOK, SerialInv, DriverInv, NEW b \in free, Enqueue(b)
  PROVE  DriverInv'
  <1>1. /\ drv \in Seq(Item) /\ msgs \in Seq(Item) /\ msgs' = msgs
        /\ DOMAIN drv = 1..Len(drv) /\ Len(drv) \in Nat
        /\ DOMAIN drv' = 1..(Len(drv) + 1)
    BY EnqueueFacts DEF Enqueue, TypeOK, QueueTypes
  <1>2. serial + 1 \notin Delivered
    BY EnqueueFacts DEF SerialInv, Delivered, ToSet
  <1>3. ASSUME NEW i \in DOMAIN drv'
        PROVE  \/ i \in DOMAIN drv /\ drv'[i] = drv[i]
               \/ i = Len(drv) + 1 /\ drv'[i].serial = serial + 1
    BY <1>1, EnqueueFacts
  <1>4. /\ \A i \in DOMAIN drv' : drv'[i].serial \in 1..serial' /\ drv'[i].serial \notin Delivered'
        /\ \A i \in DOMAIN msgs' : msgs'[i].serial \in 1..serial'
    BY <1>1, <1>2, <1>3, EnqueueFacts DEF DriverInv
  <1>5. \A i, j \in DOMAIN drv' : i < j => drv'[i].serial < drv'[j].serial
    BY <1>1, <1>3, EnqueueFacts DEF DriverInv
  <1>6. \A i \in DOMAIN drv', j \in DOMAIN msgs' : drv'[i].serial # msgs'[j].serial
    BY <1>1, <1>3, EnqueueFacts DEF DriverInv
  <1> QED  BY <1>4, <1>5, <1>6 DEF DriverInv

LEMMA EnqueueLog ==
  ASSUME TypeOK, SerialInv, DriverInv, LogInv, NEW b \in free, Enqueue(b)
  PROVE  LogInv'
  <1> USE SeqAssumption DEF SeqAssumption
  <1>1. UNCHANGED <<prompt, faults>>  BY DEF Enqueue
  <1> SUFFICES ASSUME LogExact PROVE LogExact'
    BY <1>1, Zenon DEF LogInv, Trusted, OneEach, Without
  <1>3. /\ b \in Apbs /\ serial \in Nat /\ serial' = serial + 1
        /\ latest \in [Apbs -> Nat] /\ latest' \in [Apbs -> Nat]
        /\ \A c \in Apbs : latest'[c] = IF c = b THEN serial + 1 ELSE latest[c]
        /\ \A c \in Apbs : latest[c] \in 0..serial
        /\ free \subseteq Apbs /\ free' = free \ {b}
    <2>1. free \subseteq Apbs /\ latest \in [Apbs -> Nat]  BY DEF TypeOK, QueueTypes
    <2>2. free' = free \ {b}  BY DEF Enqueue
    <2>3. \A c \in Apbs : latest[c] \in 0..serial  BY DEF SerialInv
    <2> QED  BY <2>1, <2>2, <2>3, EnqueueFacts
  <1>2. \A i \in DOMAIN drv : ~Received(drv[i].serial)
    BY DEF DriverInv, Received
  <1>4. /\ \A c \in Apbs \ {b} : (Received(latest[c]))' <=> Received(latest[c])
        /\ ~(Received(latest[b]))'
    <2>1. Delivered' = Delivered  BY EnqueueFacts
    <2>2. serial + 1 \notin Delivered
      BY EnqueueFacts DEF SerialInv, Delivered, ToSet
    <2> QED  BY <1>3, <2>1, <2>2 DEF Received
  <1>5. /\ seq_log_head \in Slots /\ seq_log_head = SlotOf(serial + 1)
        /\ seq_log_ptr \in [Slots -> Apbs \union {None}]
        /\ seq_log_ptr' = [seq_log_ptr EXCEPT ![seq_log_head] = b]
        /\ seq_log_seq' = [seq_log_seq EXCEPT ![seq_log_head] = (serial + 1) % Modulus]
        /\ seq_log_seq \in [Slots -> Numbers]
    <2>1. seq_log_head = SlotOf(serial + 1)
      BY <1>3, (serial + 1) - 1 = serial DEF SerialInv, SlotOf
    <2>2. Plus1(enq_seq_next) = (serial + 1) % Modulus
      BY <1>3, ModCount DEF SerialInv, Plus1
    <2> QED  BY <2>1, <2>2 DEF Enqueue, TypeOK, LogTypes
  <1>6. QueuedIsLatest'
    <2>1. /\ DOMAIN drv = 1..Len(drv) /\ DOMAIN drv' = 1..(Len(drv) + 1)
          /\ Len(drv) \in Nat /\ \A i \in 1..Len(drv) : drv[i] \in Item
      BY EnqueueFacts DEF TypeOK, QueueTypes
    <2>2. \A i \in 1..Len(drv) : drv[i].apb \in Apbs  BY <2>1 DEF Item
    <2>3. \A i \in 1..Len(drv) : drv[i].apb # b
      BY <1>2, <2>1 DEF LogExact, QueuedIsLatest, FreeIsReceived
    <2>4. ASSUME NEW i \in 1..Len(drv)
          PROVE  drv'[i].serial = latest'[drv'[i].apb]
      <3>1. drv'[i] = drv[i]  BY EnqueueFacts
      <3>2. drv[i].serial = latest[drv[i].apb]  BY <2>1 DEF LogExact, QueuedIsLatest
      <3>3. latest'[drv[i].apb] = latest[drv[i].apb]  BY <1>3, <2>2, <2>3
      <3> QED  BY <3>1, <3>2, <3>3
    <2>5. drv'[Len(drv) + 1].serial = latest'[drv'[Len(drv) + 1].apb]
      BY <1>3, EnqueueFacts
    <2> QED  BY <2>1, <2>4, <2>5 DEF QueuedIsLatest
  <1>7. FreeIsReceived'
    BY <1>3, <1>4 DEF LogExact, FreeIsReceived
  <1>8. EntryIsLatest'
    <2> SUFFICES ASSUME NEW i \in Slots, seq_log_ptr'[i] \in Apbs
                 PROVE  /\ ~(Received(latest[seq_log_ptr[i]]))'
                        /\ i = SlotOf(latest'[seq_log_ptr'[i]])
                        /\ seq_log_seq'[i] = latest'[seq_log_ptr'[i]] % Modulus
      BY DEF EntryIsLatest
    <2>1. CASE i = seq_log_head
      BY <1>3, <1>4, <1>5, <2>1
    <2>2. CASE i # seq_log_head
      <3>1. seq_log_ptr'[i] = seq_log_ptr[i] /\ seq_log_seq'[i] = seq_log_seq[i]
        BY <1>5, <2>2
      <3>2. seq_log_ptr[i] # b
        BY <3>1 DEF LogExact, EntryIsLatest, FreeIsReceived
      <3> QED
        BY <1>3, <1>4, <3>1, <3>2 DEF LogExact, EntryIsLatest
    <2> QED  BY <2>1, <2>2
  <1>9. EntryIsKept'
    <2> SUFFICES ASSUME NEW c \in Apbs, ~(Received(latest[c]))',
                        serial' - latest'[c] < LogLen
                 PROVE  seq_log_ptr'[SlotOf(latest'[c])] = c
      BY DEF EntryIsKept
    <2>1. CASE c = b
      BY <1>3, <1>5, <2>1
    <2>2. CASE c # b
      <3>1. /\ latest'[c] = latest[c] /\ ~Received(latest[c])
            /\ latest[c] \in 1..serial
        BY <1>3, <1>4, <2>2 DEF Received
      <3>2. seq_log_ptr[SlotOf(latest[c])] = c
        BY <1>3, <3>1 DEF LogExact, EntryIsKept
      <3>3. SlotOf(latest[c]) # SlotOf(serial + 1) /\ SlotOf(latest[c]) \in Slots
        BY <1>3, <3>1, SlotsApart, SlotType
      <3> QED  BY <1>5, <3>1, <3>2, <3>3
    <2> QED  BY <2>1, <2>2
  <1> QED  BY <1>6, <1>7, <1>8, <1>9 DEF LogExact

LEMMA EnqueueReport ==
  ASSUME TypeOK, SerialInv, LogInv, ReportInv, NEW b \in free, Enqueue(b)
  PROVE  ReportInv'
  <1>1. UNCHANGED <<msgs, faults>> /\ Delivered' = Delivered
    BY EnqueueFacts DEF Enqueue
  <1> SUFFICES ASSUME OneEach
               PROVE  \A i \in DOMAIN msgs :
                        msgs[i].serial = latest'[msgs[i].apb]
    BY <1>1 DEF ReportInv, ReportIsLatest, ReportIsOnly, OneEach, Without, Received
  <1>2. Received(latest[b])
    BY DEF LogInv, Trusted, LogExact, FreeIsReceived
  <1>3. \A i \in DOMAIN msgs :
          /\ msgs[i].serial = latest[msgs[i].apb] /\ ~Received(msgs[i].serial)
          /\ msgs[i] \in Item
    BY DEF ReportInv, ReportIsLatest, TypeOK, QueueTypes
  <1> QED
    BY <1>2, <1>3, EnqueueFacts DEF Item

LEMMA EnqueueAudit ==
  ASSUME TypeOK, AuditInv, NEW b \in free, Enqueue(b)
  PROVE  AuditInv'
  BY EnqueueSerial, EnqueueDriver, EnqueueLog, EnqueueReport DEF AuditInv

--------------------------------------------------------------------------------
(* A step of the driver takes one place out of the queue.                   *)
LEMMA MovedFacts ==
  ASSUME TypeOK, Driver, NEW k \in 1..Len(drv), Moved(k)
  PROVE  /\ UNCHANGED <<serial, latest, done, prompt, free>>
         /\ UNCHANGED logVars /\ UNCHANGED countVars
         /\ Delivered' = Delivered /\ LastDone' = LastDone
         /\ DOMAIN drv = 1..Len(drv) /\ DOMAIN drv' = 1..Len(drv')
         /\ DOMAIN msgs = 1..Len(msgs) /\ DOMAIN msgs' = 1..Len(msgs')
         /\ Len(drv) \in Nat /\ Len(drv') \in Nat /\ Len(msgs) \in Nat /\ Len(msgs') \in Nat
         /\ Len(drv') = Len(drv) - 1
         /\ \A i \in DOMAIN drv : drv[i] \in Item /\ drv[i].apb \in Apbs /\ drv[i].serial \in Nat
         /\ \A i \in DOMAIN msgs : msgs[i] \in Item /\ msgs[i].serial \in Nat
  <1>1. /\ UNCHANGED <<serial, latest, done, prompt, free>>
        /\ UNCHANGED logVars /\ UNCHANGED countVars
    BY DEF Driver, history
  <1>2. Delivered' = Delivered /\ LastDone' = LastDone
    BY <1>1 DEF Delivered, LastDone
  <1>3. /\ drv \in Seq(Item) /\ msgs \in Seq(Item)
        /\ drv' \in Seq(Item) /\ msgs' \in Seq(Item) /\ Len(drv') = Len(drv) - 1
    BY DEF Moved, TypeOK, QueueTypes
  <1>4. /\ \A i \in 1..Len(drv) : drv[i] \in Item
        /\ \A i \in 1..Len(msgs) : msgs[i] \in Item
    BY <1>3
  <1> QED
    BY <1>1, <1>2, <1>3, <1>4 DEF Item

(* Every place of the two queues afterwards was one before.                 *)
LEMMA MovedPlaces ==
  ASSUME TypeOK, Driver, NEW k \in 1..Len(drv), Moved(k)
  PROVE  /\ \A i \in DOMAIN drv' : \E j \in DOMAIN drv :
              j # k /\ drv'[i] = drv[j] /\ (IF i < k THEN j = i ELSE j = i + 1)
         /\ \A j \in DOMAIN drv : j # k => \E i \in DOMAIN drv' : drv'[i] = drv[j]
         /\ \A i \in DOMAIN msgs' :
              \/ i \in DOMAIN msgs /\ msgs'[i] = msgs[i]
              \/ i > Len(msgs) /\ msgs'[i] = drv[k]
         /\ \A i \in DOMAIN msgs : i \in DOMAIN msgs' /\ msgs'[i] = msgs[i]
         /\ Len(msgs') > Len(msgs) => msgs'[Len(msgs) + 1] = drv[k]
  <1>0. /\ Len(drv) \in Nat /\ Len(msgs) \in Nat /\ Len(msgs') \in Nat
        /\ Len(drv') = Len(drv) - 1 /\ Len(msgs) <= Len(msgs')
        /\ DOMAIN drv = 1..Len(drv) /\ DOMAIN drv' = 1..(Len(drv) - 1)
        /\ DOMAIN msgs = 1..Len(msgs) /\ DOMAIN msgs' = 1..Len(msgs')
    BY MovedFacts DEF Moved
  <1>a. \A i \in 1..(Len(drv) - 1) : drv'[i] = IF i < k THEN drv[i] ELSE drv[i + 1]
    BY <1>0 DEF Moved
  <1>b. \A i \in 1..Len(msgs') : msgs'[i] = IF i <= Len(msgs) THEN msgs[i] ELSE drv[k]
    BY DEF Moved
  <1>1. ASSUME NEW i \in DOMAIN drv'
        PROVE  \E j \in DOMAIN drv :
                 j # k /\ drv'[i] = drv[j] /\ (IF i < k THEN j = i ELSE j = i + 1)
    <2>1. CASE i < k  BY <1>0, <1>a, <2>1
    <2>2. CASE ~(i < k)  BY <1>0, <1>a, <2>2
    <2> QED  BY <2>1, <2>2
  <1>2. ASSUME NEW j \in DOMAIN drv, j # k
        PROVE  \E i \in DOMAIN drv' : drv'[i] = drv[j]
    <2>1. CASE j < k
      <3>1. j \in 1..(Len(drv) - 1)  BY <1>0, <2>1
      <3> QED  BY <1>0, <1>a, <2>1, <3>1
    <2>2. CASE j > k
      <3>1. j - 1 \in 1..(Len(drv) - 1) /\ ~(j - 1 < k) /\ (j - 1) + 1 = j
        BY <1>0, <2>2
      <3>2. drv'[j - 1] = drv[j]  BY <1>a, <3>1
      <3> QED  BY <1>0, <3>1, <3>2
    <2> QED  BY <1>0, <1>2, <2>1, <2>2
  <1>3. /\ \A i \in DOMAIN msgs' :
              \/ i \in DOMAIN msgs /\ msgs'[i] = msgs[i]
              \/ i > Len(msgs) /\ msgs'[i] = drv[k]
        /\ \A i \in DOMAIN msgs : i \in DOMAIN msgs' /\ msgs'[i] = msgs[i]
    BY <1>0, <1>b
  <1>4. Len(msgs') > Len(msgs) => msgs'[Len(msgs) + 1] = drv[k]
    BY <1>0, <1>b
  <1> QED  BY <1>1, <1>2, <1>3, <1>4

LEMMA DriverAudit ==
  ASSUME TypeOK, AuditInv, Driver
  PROVE  AuditInv'
  <1>1. PICK k \in 1..Len(drv) : Moved(k)  BY DriverFacts
  <1>2. SerialInv'
    BY <1>1, MovedFacts DEF AuditInv, SerialInv, logVars
  <1>3. DriverInv'
    <2>1. \A i \in DOMAIN drv' :
            drv'[i].serial \in 1..serial' /\ drv'[i].serial \notin Delivered'
      BY <1>1, MovedFacts, MovedPlaces DEF AuditInv, DriverInv
    <2>2. \A i \in DOMAIN msgs' : msgs'[i].serial \in 1..serial'
      BY <1>1, MovedFacts, MovedPlaces DEF AuditInv, DriverInv
    <2>3. ASSUME NEW i \in DOMAIN drv', NEW j \in DOMAIN drv', i < j
          PROVE  drv'[i].serial < drv'[j].serial
      <3>1. PICK x \in DOMAIN drv : drv'[i] = drv[x] /\ (IF i < k THEN x = i ELSE x = i + 1)
        BY <1>1, MovedPlaces
      <3>2. PICK y \in DOMAIN drv : drv'[j] = drv[y] /\ (IF j < k THEN y = j ELSE y = j + 1)
        BY <1>1, MovedPlaces
      <3>3. x < y  BY <1>1, <2>3, <3>1, <3>2, MovedFacts
      <3> QED  BY <3>1, <3>2, <3>3 DEF AuditInv, DriverInv
    <2>4. ASSUME NEW i \in DOMAIN drv', NEW j \in DOMAIN msgs'
          PROVE  drv'[i].serial # msgs'[j].serial
      <3>1. PICK x \in DOMAIN drv : x # k /\ drv'[i] = drv[x]  BY <1>1, MovedPlaces
      <3>2. CASE j \in DOMAIN msgs /\ msgs'[j] = msgs[j]
        BY <3>1, <3>2 DEF AuditInv, DriverInv
      <3>3. CASE msgs'[j] = drv[k]
        <4>1. k \in DOMAIN drv /\ (x < k \/ k < x)  BY <1>1, <3>1, MovedFacts
        <4>2. drv[x].serial \in Nat /\ drv[k].serial \in Nat  BY <1>1, <4>1, MovedFacts
        <4> QED  BY <3>1, <3>3, <4>1, <4>2 DEF AuditInv, DriverInv
      <3> QED  BY <1>1, <3>2, <3>3, MovedPlaces
    <2> QED  BY <2>1, <2>2, <2>3, <2>4 DEF DriverInv
  <1>4. Trusted' => Trusted
    <2>1. OneEach' => OneEach
      BY <1>1 DEF Moved, OneEach, Without, Kinds, TypeOK, QueueTypes
    <2>2. prompt' = prompt  BY <1>1, MovedFacts
    <2> QED  BY <2>1, <2>2, Zenon DEF Trusted
  <1>5. LogInv'
    <2> SUFFICES ASSUME LogExact PROVE LogExact'
      BY <1>4, Zenon DEF AuditInv, LogInv
    <2>1. QueuedIsLatest'
      BY <1>1, MovedFacts, MovedPlaces DEF LogExact, QueuedIsLatest
    <2>2. FreeIsReceived'
      BY <1>1, MovedFacts DEF LogExact, FreeIsReceived, Received
    <2>3. EntryIsLatest'
      BY <1>1, MovedFacts DEF LogExact, EntryIsLatest, Received, logVars
    <2>4. EntryIsKept'
      BY <1>1, MovedFacts DEF LogExact, EntryIsKept, Received, logVars
    <2> QED  BY <2>1, <2>2, <2>3, <2>4 DEF LogExact
  <1>6. ReportInv'
    <2> SUFFICES ASSUME OneEach' PROVE ReportIsLatest' /\ ReportIsOnly'
      BY DEF ReportInv
    <2>1. OneEach /\ Len(msgs') <= Len(msgs) + 1
      BY <1>1 DEF Moved, OneEach, Without, Kinds, TypeOK, QueueTypes
    <2>2. /\ \A i \in DOMAIN msgs :
              msgs[i].serial = latest[msgs[i].apb] /\ ~Received(msgs[i].serial)
          /\ \A i, j \in DOMAIN msgs : msgs[i].serial = msgs[j].serial => i = j
      BY <2>1 DEF AuditInv, ReportInv, ReportIsLatest, ReportIsOnly
    <2>3. /\ drv[k].serial = latest[drv[k].apb] /\ ~Received(drv[k].serial)
          /\ \A i \in DOMAIN msgs : drv[k].serial # msgs[i].serial
      BY <1>1, <2>1, MovedFacts
      DEF AuditInv, LogInv, Trusted, LogExact, QueuedIsLatest, DriverInv, Received
    <2>4. ReportIsLatest'
      <3> SUFFICES ASSUME NEW i \in DOMAIN msgs'
                   PROVE  /\ msgs'[i].serial = latest'[msgs'[i].apb]
                          /\ ~(Received(msgs[i].serial))'
        BY DEF ReportIsLatest
      <3>1. latest' = latest /\ \A s : (Received(s))' <=> Received(s)
        BY <1>1, MovedFacts DEF Received
      <3>2. CASE i \in DOMAIN msgs /\ msgs'[i] = msgs[i]
        BY <2>2, <3>1, <3>2 DEF Received
      <3>3. CASE msgs'[i] = drv[k]
        BY <2>3, <3>1, <3>3 DEF Received
      <3> QED  BY <1>1, <3>2, <3>3, MovedPlaces
    <2>5. \A i, j \in DOMAIN msgs' : i > Len(msgs) /\ j > Len(msgs) => i = j
      BY <1>1, <2>1, MovedFacts
    <2>6. ReportIsOnly'
      BY <1>1, <2>2, <2>3, <2>5, MovedPlaces DEF ReportIsOnly
    <2> QED  BY <2>4, <2>6
  <1> QED  BY <1>2, <1>3, <1>5, <1>6 DEF AuditInv

--------------------------------------------------------------------------------
(* A message is taken.                                                      *)
LEMMA ReceiveMore ==
  ASSUME TypeOK, Receive
  PROVE  /\ UNCHANGED <<enq_seq_next, seq_log_seq, seq_log_head, drv, serial, latest, faults>>
         /\ free' = free \union {msgs[1].apb}
         /\ msgs[1].apb \in Apbs /\ msgs[1].serial \in Nat
         /\ Judge(Lookup(msgs[1].apb)) /\ Lookup(msgs[1].apb) \in Numbers
         /\ prompt' => prompt /\ latest[msgs[1].apb] = msgs[1].serial
                              /\ serial - msgs[1].serial < LogLen
         /\ \A i \in Slots : seq_log_ptr'[i] =
              IF Found(msgs[1].apb) /\ i = Entry(msgs[1].apb) THEN None ELSE seq_log_ptr[i]
         /\ DOMAIN msgs = 1..Len(msgs) /\ Len(msgs) \in Nat /\ DOMAIN msgs' = 1..(Len(msgs) - 1)
         /\ \A i \in DOMAIN msgs' : i + 1 \in DOMAIN msgs /\ i # 0 /\ msgs'[i] = msgs[i + 1]
         /\ DOMAIN done = 1..Len(done) /\ Len(done) \in Nat /\ DOMAIN done' = 1..(Len(done) + 1)
  <1>1. msgs[1].apb \in Apbs /\ msgs[1].serial \in Nat /\ Head(msgs) = msgs[1]
    BY ReceiveFacts DEF Item
  <1>2. /\ UNCHANGED <<enq_seq_next, seq_log_seq, seq_log_head, drv, serial, latest, faults>>
        /\ free' = free \union {msgs[1].apb}
        /\ Judge(Lookup(msgs[1].apb)) /\ Consume(msgs[1].apb)
    BY <1>1 DEF Receive
  <1>3. Lookup(msgs[1].apb) \in Numbers  BY <1>1, LookupType
  <1>4. prompt' => prompt /\ latest[msgs[1].apb] = msgs[1].serial
                         /\ serial - msgs[1].serial < LogLen
    <2>1. prompt' = (prompt /\ latest[msgs[1].apb] = msgs[1].serial
                           /\ serial - msgs[1].serial < LogLen)
      BY <1>1 DEF Receive
    <2> QED  BY <2>1, Zenon
  <1>5. \A i \in Slots : seq_log_ptr'[i] =
              IF Found(msgs[1].apb) /\ i = Entry(msgs[1].apb) THEN None ELSE seq_log_ptr[i]
    <2>1. seq_log_ptr \in [Slots -> Apbs \union {None}]  BY DEF TypeOK, LogTypes
    <2> QED  BY <1>2, <2>1 DEF Consume
  <1>6. /\ DOMAIN msgs = 1..Len(msgs) /\ Len(msgs) \in Nat /\ DOMAIN msgs' = 1..(Len(msgs) - 1)
        /\ \A i \in DOMAIN msgs' : i + 1 \in DOMAIN msgs /\ i # 0 /\ msgs'[i] = msgs[i + 1]
        /\ DOMAIN done = 1..Len(done) /\ Len(done) \in Nat /\ DOMAIN done' = 1..(Len(done) + 1)
    <2>1. msgs \in Seq(Item) /\ done \in Seq(Nat)  BY DEF TypeOK, QueueTypes
    <2>2. DOMAIN msgs = 1..Len(msgs) /\ Len(msgs) \in Nat /\ DOMAIN done = 1..Len(done) /\ Len(done) \in Nat
      BY <2>1
    <2>3. /\ msgs' \in Seq(Item) /\ Len(msgs') = Len(msgs) - 1
          /\ done' \in Seq(Nat) /\ Len(done') = Len(done) + 1
          /\ \A i \in 1..Len(msgs') : msgs'[i] = msgs[i + 1]
      BY ReceiveFacts
    <2>4. DOMAIN msgs' = 1..(Len(msgs) - 1) /\ DOMAIN done' = 1..(Len(done) + 1)
      BY <2>3
    <2> QED  BY <2>2, <2>3, <2>4
  <1> QED  BY <1>1, <1>2, <1>3, <1>4, <1>5, <1>6

LEMMA ReceiveTrusted ==
  ASSUME TypeOK, AuditInv, Receive, Trusted'
  PROVE  Trusted /\ latest[msgs[1].apb] = msgs[1].serial
  <1>1. CASE prompt'  BY <1>1, ReceiveMore, Zenon DEF Trusted
  <1>2. CASE OneEach'
    <2>1. OneEach  BY <1>2, ReceiveMore DEF OneEach, Without
    <2>2. ReportIsLatest /\ Trusted  BY <2>1, Zenon DEF AuditInv, ReportInv, Trusted
    <2> QED  BY <2>2, ReceiveFacts, ReceiveMore DEF ReportIsLatest
  <1> QED  BY <1>1, <1>2, Zenon DEF Trusted

(* The only entry there is, if any.                                         *)
LEMMA OnlyEntry ==
  ASSUME TypeOK, EntryIsLatest, NEW b \in Apbs, NEW i \in Slots, seq_log_ptr[i] = b
  PROVE  /\ Found(b) /\ Entry(b) = i /\ i = SlotOf(latest[b])
         /\ Lookup(b) = latest[b] % Modulus /\ ~Received(latest[b])
  <1>1. i \in Entries(b) /\ Found(b)  BY DEF Entries, Found
  <1>2. Entry(b) \in Slots /\ seq_log_ptr[Entry(b)] = b  BY <1>1, LookupType
  <1> QED  BY <1>1, <1>2 DEF EntryIsLatest, Lookup

LEMMA ReceiveAudit ==
  ASSUME TypeOK, AuditInv, Receive
  PROVE  AuditInv'
  <1> DEFINE m == msgs[1]
  <1>1. SerialInv'
    <2>1. m.serial \in 1..serial
      BY ReceiveFacts, ReceiveMore DEF AuditInv, DriverInv
    <2>2. ASSUME NEW i \in DOMAIN done' PROVE done'[i] \in 1..serial
      <3>1. CASE i \in DOMAIN done
        BY <3>1, ReceiveFacts, ReceiveMore DEF AuditInv, SerialInv
      <3>2. CASE i = Len(done) + 1
        BY <2>1, <3>2, ReceiveFacts
      <3> QED  BY <3>1, <3>2, ReceiveMore
    <2> QED  BY <2>2, ReceiveMore DEF AuditInv, SerialInv
  <1>2. DriverInv'
    BY ReceiveFacts, ReceiveMore DEF AuditInv, DriverInv
  <1>3. LogInv'
    <2> SUFFICES ASSUME Trusted' PROVE LogExact'
      BY DEF LogInv
    <2>1. LogExact /\ latest[m.apb] = m.serial
      BY ReceiveTrusted DEF AuditInv, LogInv
    <2>2. /\ \A s : (Received(s))' <=> Received(s) \/ s = m.serial
          /\ m.apb \in Apbs /\ latest' = latest /\ serial' = serial
      BY ReceiveFacts, ReceiveMore DEF Received
    <2>3. \A c \in Apbs : ~Received(latest[c]) /\ c # m.apb => latest[c] # m.serial
      BY <2>1, <2>2 DEF AuditInv, SerialInv, Received
    <2>4. QueuedIsLatest'
      BY <2>1, ReceiveMore DEF LogExact, QueuedIsLatest
    <2>5. FreeIsReceived'
      BY <2>1, <2>2, ReceiveMore DEF LogExact, FreeIsReceived
    <2>6. EntryIsLatest'
      <3> SUFFICES ASSUME NEW i \in Slots, seq_log_ptr'[i] \in Apbs
                   PROVE  /\ ~(Received(latest[seq_log_ptr[i]]))'
                          /\ i = SlotOf(latest'[seq_log_ptr'[i]])
                          /\ seq_log_seq'[i] = latest'[seq_log_ptr'[i]] % Modulus
        BY DEF EntryIsLatest
      <3>1. /\ seq_log_ptr'[i] = seq_log_ptr[i]
            /\ ~(Found(m.apb) /\ i = Entry(m.apb))
        BY ReceiveMore, SeqAssumption DEF SeqAssumption
      <3>2. seq_log_ptr[i] # m.apb
        BY <2>1, <2>2, <3>1, OnlyEntry DEF LogExact
      <3> QED
        BY <2>1, <2>2, <2>3, <3>1, <3>2, ReceiveMore DEF LogExact, EntryIsLatest
    <2>7. EntryIsKept'
      <3> SUFFICES ASSUME NEW c \in Apbs, ~(Received(latest[c]))',
                          serial' - latest'[c] < LogLen
                   PROVE  seq_log_ptr'[SlotOf(latest'[c])] = c
        BY DEF EntryIsKept
      <3>1. c # m.apb /\ ~Received(latest[c])  BY <2>1, <2>2
      <3>2. seq_log_ptr[SlotOf(latest[c])] = c
        BY <2>1, <2>2, <3>1 DEF LogExact, EntryIsKept
      <3>3. SlotOf(latest[c]) \in Slots
        BY <2>2, <3>1, SlotType DEF AuditInv, SerialInv, Received
      <3>4. ~(Found(m.apb) /\ SlotOf(latest[c]) = Entry(m.apb))
        BY <2>2, <3>1, <3>2, LookupType
      <3> QED  BY <2>2, <3>2, <3>3, <3>4, ReceiveMore
    <2> QED  BY <2>4, <2>5, <2>6, <2>7 DEF LogExact
  <1>4. ReportInv'
    <2> SUFFICES ASSUME OneEach' PROVE ReportIsLatest' /\ ReportIsOnly'
      BY DEF ReportInv
    <2>1. OneEach  BY ReceiveMore DEF OneEach, Without
    <2>2. ReportIsLatest /\ ReportIsOnly  BY <2>1 DEF AuditInv, ReportInv
    <2>3. 1 \in DOMAIN msgs /\ \A i \in DOMAIN msgs' : i + 1 \in DOMAIN msgs /\ i + 1 # 1
      BY ReceiveMore, ReceiveFacts
    <2>4. ReportIsLatest'
      <3> SUFFICES ASSUME NEW i \in DOMAIN msgs'
                   PROVE  /\ msgs'[i].serial = latest'[msgs'[i].apb]
                          /\ ~(Received(msgs[i].serial))'
        BY DEF ReportIsLatest
      <3>1. msgs'[i] = msgs[i + 1] /\ msgs[i + 1].serial # m.serial
        BY <2>2, <2>3, ReceiveMore DEF ReportIsOnly
      <3> QED  BY <2>2, <2>3, <3>1, ReceiveMore, ReceiveFacts DEF ReportIsLatest, Received
    <2>5. ReportIsOnly'
      <3> SUFFICES ASSUME NEW i \in DOMAIN msgs', NEW j \in DOMAIN msgs',
                          msgs'[i].serial = msgs'[j].serial
                   PROVE  i = j
        BY DEF ReportIsOnly
      <3>1. i + 1 = j + 1  BY <2>2, <2>3, ReceiveMore DEF ReportIsOnly
      <3>2. i \in Int /\ j \in Int  BY ReceiveMore
      <3> QED  BY <3>1, <3>2
    <2> QED  BY <2>4, <2>5
  <1> QED  BY <1>1, <1>2, <1>3, <1>4 DEF AuditInv

--------------------------------------------------------------------------------
(* The order of the reports.                                                *)
LEMMA LastDoneFacts ==
  ASSUME TypeOK, SerialInv
  PROVE  /\ LastDone \in 0..serial /\ Received(LastDone) /\ serial \in Nat
         /\ DOMAIN done = 1..Len(done) /\ Len(done) \in Nat
         /\ \A s : s \in Delivered <=> \E i \in DOMAIN done : done[i] = s
  <1>1. done \in Seq(Nat) /\ serial \in Nat
    BY SeqAssumption DEF SeqAssumption, TypeOK, QueueTypes
  <1>2. DOMAIN done = 1..Len(done) /\ Len(done) \in Nat  BY <1>1
  <1>3. \A s : s \in Delivered <=> \E i \in DOMAIN done : done[i] = s
    BY DEF Delivered, ToSet
  <1>4. CASE done = <<>>  BY <1>1, <1>2, <1>3, <1>4 DEF LastDone, Received
  <1>5. CASE done # <<>>
    <2>1. Len(done) \in DOMAIN done  BY <1>1, <1>5
    <2> QED  BY <1>1, <1>2, <1>3, <1>5, <2>1 DEF LastDone, Received, SerialInv
  <1> QED  BY <1>4, <1>5

LEMMA FaultsFewer ==
  ASSUME TypeOK, NEW k, Moved(k)
  PROVE  /\ InOrder' => InOrder /\ k = 1
         /\ OneEach' => OneEach
         /\ Lossless' => Lossless /\ Len(msgs) < Len(msgs')
         /\ \A K \in SUBSET Kinds : Only(K)' => Only(K)
  <1>1. \A x \in Kinds : faults[x] \in Nat /\ (faults'[x] = 0 => faults[x] = 0)
    BY DEF Moved, TypeOK, QueueTypes
  <1>2. "overtake" \in Kinds /\ "loss" \in Kinds /\ "replay" \in Kinds  BY DEF Kinds
  <1>3. \A K \in SUBSET Kinds : Only(K)' => Only(K)  BY <1>1 DEF Only
  <1> QED
    BY <1>1, <1>2, <1>3 DEF Moved, InOrder, OneEach, Lossless, Without

LEMMA FlowInit == Init => FlowInv
  <1> SUFFICES ASSUME Init PROVE FlowInv  OBVIOUS
  <1> USE DEF Init
  <1>1. OrderInv  BY DEF OrderInv, Ordered
  <1>2. ConservedInv /\ WindowInv /\ CleanInv
    BY DEF ConservedInv, WindowInv, CleanInv, LastDone
  <1> QED  BY <1>1, <1>2 DEF FlowInv

LEMMA EnqueueFlow ==
  ASSUME TypeOK, AuditInv, FlowInv, NEW b \in free, Enqueue(b)
  PROVE  FlowInv'
  <1>1. /\ UNCHANGED <<msgs, done, faults>> /\ Delivered' = Delivered /\ LastDone' = LastDone
        /\ serial \in Nat /\ serial' = serial + 1
    BY EnqueueFacts DEF Enqueue
  <1>2. /\ DOMAIN drv = 1..Len(drv) /\ Len(drv) \in Nat
        /\ DOMAIN drv' = 1..(Len(drv) + 1)
        /\ \A i \in DOMAIN drv : i \in DOMAIN drv' /\ drv'[i] = drv[i]
        /\ Len(drv) + 1 \in DOMAIN drv' /\ drv'[Len(drv) + 1].serial = serial + 1
    <2>1. DOMAIN drv = 1..Len(drv) /\ Len(drv) \in Nat  BY DEF TypeOK, QueueTypes
    <2>2. DOMAIN drv' = 1..(Len(drv) + 1)  BY EnqueueFacts
    <2> QED  BY <2>1, <2>2, EnqueueFacts
  <1>3. UNCHANGED InOrder /\ UNCHANGED OneEach /\ UNCHANGED Lossless /\ UNCHANGED Only({})
    BY <1>1 DEF InOrder, OneEach, Lossless, Without, Only
  <1>4. OrderInv'
    <2> SUFFICES ASSUME InOrder PROVE Ordered'
      BY <1>3 DEF OrderInv
    <2>1. Ordered  BY DEF FlowInv, OrderInv
    <2>2. /\ \A i \in DOMAIN msgs, j \in DOMAIN drv' : msgs[i].serial < drv'[j].serial
          /\ \A j \in DOMAIN drv' : LastDone < drv'[j].serial
      <3>1. /\ \A i \in DOMAIN msgs : msgs[i].serial \in 1..serial
            /\ LastDone \in 0..serial
        BY LastDoneFacts DEF AuditInv, DriverInv
      <3>2. \A j \in DOMAIN drv' : j \in DOMAIN drv \/ j = Len(drv) + 1
        BY <1>2
      <3> QED  BY <1>1, <1>2, <2>1, <3>1, <3>2 DEF Ordered
    <2> QED  BY <1>1, <2>1, <2>2 DEF Ordered
  <1>5. ConservedInv'
    <2> SUFFICES ASSUME Lossless, NEW s \in 1..(serial + 1)
                 PROVE  \/ s \in Delivered
                        \/ \E i \in DOMAIN msgs : msgs[i].serial = s
                        \/ \E i \in DOMAIN drv' : drv'[i].serial = s
      BY <1>1, <1>3 DEF ConservedInv
    <2>1. CASE s = serial + 1  BY <1>2, <2>1
    <2>2. CASE s \in 1..serial
      BY <1>2, <2>2 DEF FlowInv, ConservedInv
    <2> QED  BY <1>1, <2>1, <2>2
  <1>6. WindowInv'
    <2> SUFFICES ASSUME InOrder, OneEach, NEW s \in (LastDone + 1)..(serial + 1)
                 PROVE  \E c \in Apbs : latest'[c] = s
      BY <1>1, <1>3 DEF WindowInv
    <2>1. CASE s = serial + 1  BY <2>1, EnqueueFacts
    <2>2. CASE s \in (LastDone + 1)..serial
      <3>1. PICK c \in Apbs : latest[c] = s  BY <2>2 DEF FlowInv, WindowInv
      <3>2. c # b
        <4>1. Received(latest[b])
          BY DEF AuditInv, LogInv, Trusted, LogExact, FreeIsReceived
        <4>2. \A x \in Delivered : x <= LastDone
          BY LastDoneFacts DEF AuditInv, FlowInv, OrderInv, Ordered
        <4> QED  BY <2>2, <3>1, <4>1, <4>2, LastDoneFacts DEF AuditInv, Received
      <3> QED  BY <3>1, <3>2, EnqueueFacts
    <2> QED  BY <1>1, <2>1, <2>2, LastDoneFacts DEF AuditInv
  <1>7. CleanInv'
    BY <1>1, <1>3 DEF FlowInv, CleanInv
  <1> QED  BY <1>4, <1>5, <1>6, <1>7 DEF FlowInv

LEMMA DriverFlow ==
  ASSUME TypeOK, AuditInv, FlowInv, Driver
  PROVE  FlowInv'
  <1>1. PICK k \in 1..Len(drv) : Moved(k)  BY DriverFacts
  <1>2. /\ UNCHANGED <<serial, latest, done>>
        /\ Delivered' = Delivered /\ LastDone' = LastDone
    BY <1>1, MovedFacts
  <1>3. OrderInv'
    <2> SUFFICES ASSUME InOrder' PROVE Ordered'
      BY DEF OrderInv
    <2>1. Ordered /\ k = 1 /\ 1 \in DOMAIN drv
      BY <1>1, FaultsFewer, MovedFacts DEF FlowInv, OrderInv
    <2>2. \A j \in DOMAIN drv' : j + 1 \in DOMAIN drv /\ 1 < j + 1 /\ drv'[j] = drv[j + 1]
      BY <1>1, <2>1, MovedFacts DEF Moved
    <2>3. \A j \in DOMAIN drv' : drv[1].serial < drv'[j].serial
      BY <2>1, <2>2 DEF AuditInv, DriverInv
    <2>4. ASSUME NEW i \in DOMAIN msgs'
          PROVE  /\ LastDone <= msgs'[i].serial
                 /\ \A j \in DOMAIN drv' : msgs'[i].serial < drv'[j].serial
      <3>1. CASE i \in DOMAIN msgs /\ msgs'[i] = msgs[i]
        BY <2>1, <2>2, <3>1 DEF Ordered
      <3>2. CASE msgs'[i] = drv[k]
        <4>1. LastDone < drv[1].serial /\ LastDone \in Nat /\ drv[1].serial \in Nat
          BY <1>1, <2>1, LastDoneFacts, MovedFacts DEF Ordered, AuditInv
        <4> QED  BY <2>1, <2>3, <3>2, <4>1
      <3> QED  BY <1>1, <3>1, <3>2, MovedPlaces
    <2>5. ASSUME NEW i \in DOMAIN msgs', NEW j \in DOMAIN msgs', i < j
          PROVE  msgs'[i].serial <= msgs'[j].serial
      <3>1. CASE j \in DOMAIN msgs
        <4>1. i \in DOMAIN msgs  BY <1>1, <2>5, <3>1, MovedFacts
        <4> QED  BY <1>1, <2>1, <2>5, <3>1, <4>1, MovedPlaces DEF Ordered
      <3>2. CASE i \in DOMAIN msgs /\ msgs'[j] = drv[k]
        <4>1. msgs'[i] = msgs[i] /\ msgs[i].serial < drv[1].serial
          BY <1>1, <2>1, <3>2, MovedPlaces DEF Ordered
        <4>2. msgs[i].serial \in Nat /\ drv[1].serial \in Nat
          BY <1>1, <2>1, <3>2, MovedFacts
        <4> QED  BY <2>1, <3>2, <4>1, <4>2
      <3>3. CASE msgs'[i] = drv[k] /\ msgs'[j] = drv[k]
        <4>1. drv[k].serial \in Nat  BY <1>1, <2>1, MovedFacts
        <4> QED  BY <3>3, <4>1
      <3> QED  BY <1>1, <3>1, <3>2, <3>3, MovedPlaces
    <2> QED  BY <1>2, <2>1, <2>2, <2>4, <2>5 DEF Ordered
  <1>4. ConservedInv'
    <2> SUFFICES ASSUME Lossless', NEW s \in 1..serial
                 PROVE  \/ s \in Delivered
                        \/ \E i \in DOMAIN msgs' : msgs'[i].serial = s
                        \/ \E i \in DOMAIN drv' : drv'[i].serial = s
      BY <1>2 DEF ConservedInv
    <2>1. Lossless /\ Len(msgs) + 1 \in DOMAIN msgs' /\ msgs'[Len(msgs) + 1] = drv[k]
      BY <1>1, FaultsFewer, MovedFacts, MovedPlaces
    <2>2. CASE s \in Delivered  BY <2>2
    <2>3. CASE \E i \in DOMAIN msgs : msgs[i].serial = s
      BY <1>1, <2>3, MovedPlaces
    <2>4. ASSUME NEW i \in DOMAIN drv, drv[i].serial = s
          PROVE  \/ \E j \in DOMAIN msgs' : msgs'[j].serial = s
                 \/ \E j \in DOMAIN drv' : drv'[j].serial = s
      <3>1. CASE i = k  BY <2>1, <2>4, <3>1
      <3>2. CASE i # k  BY <1>1, <2>4, <3>2, MovedPlaces
      <3> QED  BY <3>1, <3>2
    <2> QED  BY <2>1, <2>2, <2>3, <2>4 DEF FlowInv, ConservedInv
  <1>5. WindowInv'
    BY <1>1, <1>2, FaultsFewer DEF FlowInv, WindowInv
  <1>6. CleanInv'
    BY <1>1, <1>2, FaultsFewer DEF FlowInv, CleanInv
  <1> QED  BY <1>3, <1>4, <1>5, <1>6 DEF FlowInv

(* Nothing lost, the next report is of the next serial or of the last.      *)
LEMMA NextReport ==
  ASSUME TypeOK, AuditInv, FlowInv, Receive, InOrder
  PROVE  /\ msgs[1].serial \in LastDone..serial
         /\ Lossless => msgs[1].serial \in {LastDone, LastDone + 1}
         /\ OneEach => msgs[1].serial > LastDone /\ ~Received(msgs[1].serial)
  <1> DEFINE m == msgs[1]
  <1>1. Ordered  BY DEF FlowInv, OrderInv
  <1>2. LastDone \in 0..serial /\ serial \in Nat /\ Received(LastDone)
        /\ 1 \in DOMAIN msgs /\ m.serial \in 1..serial /\ m.serial >= LastDone
    BY <1>1, LastDoneFacts, ReceiveFacts, ReceiveMore DEF AuditInv, DriverInv, Ordered
  <1>3. OneEach => m.serial > LastDone /\ ~Received(m.serial)
    BY <1>2 DEF AuditInv, ReportInv, ReportIsLatest
  <1>4. ASSUME Lossless, m.serial > LastDone + 1
        PROVE  FALSE
    <2>1. LastDone + 1 \in 1..serial  BY <1>2, <1>4
    <2>2. LastDone + 1 \notin Delivered
      BY <1>1, <1>2, LastDoneFacts DEF AuditInv, Ordered
    <2>3. \A i \in DOMAIN msgs : m.serial <= msgs[i].serial
      <3>1. \A i \in DOMAIN msgs : i = 1 \/ 1 < i  BY ReceiveMore
      <3> QED  BY <1>1, <1>2, <3>1 DEF Ordered
    <2>4. \A i \in DOMAIN drv : m.serial < drv[i].serial
      BY <1>1, <1>2 DEF Ordered
    <2> QED  BY <1>2, <1>4, <2>1, <2>2, <2>3, <2>4 DEF FlowInv, ConservedInv
  <1> QED  BY <1>2, <1>3, <1>4

(* The serials since the last one received belong to buffers of their own,  *)
(* so that there are no more of them than buffers, nor than entries.        *)
LEMMA ReportInWindow ==
  ASSUME TypeOK, AuditInv, FlowInv, Receive, InOrder, OneEach
  PROVE  serial - msgs[1].serial < LogLen
  <1> DEFINE S == (LastDone + 1)..serial
             f == [s \in S |-> CHOOSE c \in Apbs : latest[c] = s]
  <1>1. LastDone \in Nat /\ serial \in Nat /\ LastDone <= serial
    BY LastDoneFacts DEF AuditInv
  <1>2. \A s \in S : f[s] \in Apbs /\ latest[f[s]] = s
    BY DEF FlowInv, WindowInv
  <1>3. f \in Injection(S, Apbs)
    BY <1>2 DEF Injection, IsInjective
  <1>4. IsFiniteSet(Apbs) /\ Cardinality(Apbs) <= LogLen /\ LogLen \in Nat
        /\ Cardinality(Apbs) \in Nat
    BY SeqAssumption, FS_CardinalityType DEF SeqAssumption
  <1>5. Cardinality(S) <= Cardinality(Apbs)
    <2> HIDE DEF f, S
    <2> QED  BY <1>3, <1>4, FS_Injection
  <1>6. Cardinality(S) = serial - LastDone
    <2>1. LastDone + 1 \in Int /\ serial \in Int  BY <1>1
    <2>2. Cardinality(S) = IF LastDone + 1 > serial THEN 0 ELSE serial - (LastDone + 1) + 1
      BY <2>1, FS_Interval
    <2> HIDE DEF S
    <2> QED  BY <1>1, <2>2
  <1>7. msgs[1].serial > LastDone /\ msgs[1].serial \in Nat
    BY NextReport, ReceiveMore
  <1> HIDE DEF S, f
  <1> QED  BY <1>1, <1>4, <1>5, <1>6, <1>7

LEMMA ReceiveFlow ==
  ASSUME TypeOK, AuditInv, FlowInv, Receive
  PROVE  FlowInv'
  <1> DEFINE m == msgs[1]
  <1>1. /\ UNCHANGED <<drv, serial, latest, faults>> /\ LastDone' = m.serial
        /\ Delivered' = Delivered \union {m.serial}
        /\ serial \in Nat /\ m.serial \in Nat /\ 1 \in DOMAIN msgs
        /\ \A i \in DOMAIN msgs' : i + 1 \in DOMAIN msgs /\ 1 < i + 1 /\ msgs'[i] = msgs[i + 1]
    BY ReceiveFacts, ReceiveMore
  <1>2. UNCHANGED InOrder /\ UNCHANGED OneEach /\ UNCHANGED Lossless /\ UNCHANGED Only({})
    BY <1>1 DEF InOrder, OneEach, Lossless, Without, Only
  <1>3. OrderInv'
    <2> SUFFICES ASSUME InOrder PROVE Ordered'
      BY <1>2 DEF OrderInv
    <2>1. Ordered  BY DEF FlowInv, OrderInv
    <2>2. ASSUME NEW i \in DOMAIN done' PROVE done'[i] <= m.serial
      <3>1. CASE i \in DOMAIN done
        <4>1. done'[i] = done[i] /\ done[i] <= LastDone /\ LastDone <= m.serial
          BY <1>1, <2>1, <3>1, ReceiveFacts, LastDoneFacts DEF Ordered, AuditInv
        <4>2. done[i] \in Nat /\ LastDone \in Nat
          BY <3>1, LastDoneFacts DEF AuditInv, SerialInv
        <4> QED  BY <1>1, <4>1, <4>2
      <3>2. CASE i = Len(done) + 1  BY <1>1, <3>2, ReceiveFacts
      <3> QED  BY <3>1, <3>2, ReceiveMore
    <2>3. /\ \A i \in DOMAIN msgs' : m.serial <= msgs'[i].serial
          /\ \A i \in DOMAIN msgs', j \in DOMAIN drv : msgs'[i].serial < drv[j].serial
          /\ \A j \in DOMAIN drv : m.serial < drv[j].serial
      BY <1>1, <2>1 DEF Ordered
    <2>4. ASSUME NEW i \in DOMAIN msgs', NEW j \in DOMAIN msgs', i < j
          PROVE  msgs'[i].serial <= msgs'[j].serial
      <3>1. i \in Int /\ j \in Int /\ i + 1 < j + 1  BY <2>4, ReceiveMore
      <3> QED  BY <1>1, <2>1, <3>1 DEF Ordered
    <2> QED  BY <1>1, <2>2, <2>3, <2>4 DEF Ordered
  <1>4. ConservedInv'
    <2> SUFFICES ASSUME Lossless, NEW s \in 1..serial
                 PROVE  \/ s \in Delivered \union {m.serial}
                        \/ \E i \in DOMAIN msgs' : msgs'[i].serial = s
                        \/ \E i \in DOMAIN drv : drv[i].serial = s
      BY <1>1, <1>2 DEF ConservedInv
    <2>1. ASSUME NEW i \in DOMAIN msgs, msgs[i].serial = s, i # 1
          PROVE  \E j \in DOMAIN msgs' : msgs'[j].serial = s
      <3>1. i - 1 \in DOMAIN msgs' /\ (i - 1) + 1 = i  BY <2>1, ReceiveMore
      <3>2. msgs'[i - 1] = msgs[i]  BY <1>1, <3>1
      <3> QED  BY <2>1, <3>1, <3>2
    <2> QED  BY <2>1 DEF FlowInv, ConservedInv
  <1>5. WindowInv'
    <2> SUFFICES ASSUME InOrder, OneEach, NEW s \in (m.serial + 1)..serial
                 PROVE  \E c \in Apbs : latest[c] = s
      BY <1>1, <1>2 DEF WindowInv
    <2>1. LastDone <= m.serial /\ LastDone \in Nat
      BY NextReport, LastDoneFacts DEF AuditInv
    <2>2. s \in (LastDone + 1)..serial  BY <1>1, <2>1
    <2> QED  BY <2>2 DEF FlowInv, WindowInv
  <1>6. CleanInv'
    <2> SUFFICES ASSUME Only({}) PROVE Len(done') = m.serial
      BY <1>1, <1>2 DEF CleanInv
    <2>1. InOrder /\ OneEach /\ Lossless
      BY DEF Only, Kinds, InOrder, OneEach, Lossless, Without
    <2>2. m.serial = LastDone + 1
      BY <2>1, NextReport, LastDoneFacts DEF AuditInv
    <2> QED  BY <2>2, ReceiveFacts DEF FlowInv, CleanInv
  <1> QED  BY <1>3, <1>4, <1>5, <1>6 DEF FlowInv

--------------------------------------------------------------------------------
(* What the lookup finds.                                                   *)
LEMMA LookupExact ==
  ASSUME TypeOK, AuditInv, Trusted, NEW b \in Apbs
  PROVE  /\ ~Received(latest[b]) /\ serial - latest[b] < LogLen
              => Lookup(b) = latest[b] % Modulus
         /\ Received(latest[b]) => Lookup(b) = 0
  <1>1. LogExact /\ SerialInv  BY DEF AuditInv, LogInv
  <1>2. ASSUME ~Received(latest[b]), serial - latest[b] < LogLen
        PROVE  Lookup(b) = latest[b] % Modulus
    <2>1. seq_log_ptr[SlotOf(latest[b])] = b
      BY <1>1, <1>2 DEF LogExact, EntryIsKept
    <2>2. SlotOf(latest[b]) \in Slots
      BY <1>1, <1>2, SlotType DEF SerialInv, Received
    <2> QED  BY <1>1, <2>1, <2>2, OnlyEntry DEF LogExact
  <1>3. ASSUME Received(latest[b]) PROVE Lookup(b) = 0
    <2>1. Entries(b) = {}
      BY <1>1, <1>3 DEF Entries, LogExact, EntryIsLatest
    <2> QED  BY <2>1 DEF Lookup, Found
  <1> QED  BY <1>2, <1>3

--------------------------------------------------------------------------------
(* The counters: nobody but Receive touches what they are about.            *)
CleanCounts(n, last, dups, gaps) ==
  LET since == n - (Modulus - 1) IN
  /\ gaps = 0
  /\ last = IF since > 0 THEN Modulus - 1 ELSE n
  /\ dups = IF since > 0 THEN since - n \div Modulus ELSE 0

LEMMA CleanRunCounts ==
  CleanRun <=> (Only({}) => CleanCounts(Len(done), last_deq_seq, dup_count, gap_count))
  BY DEF CleanRun, CleanCounts

LEMMA CountInit == Init => CountInv
  <1> SUFFICES ASSUME Init PROVE CountInv  OBVIOUS
  <1> USE DEF Init
  <1>0. Modulus \in Nat \ {0}  BY SeqAssumption DEF SeqAssumption
  <1>1. Len(done) = 0 /\ Delivered = {} /\ LastDone = 0 /\ DOMAIN done = {}
    BY DEF Delivered, ToSet, LastDone
  <1>2. CleanRun  BY <1>0, <1>1, CleanRunCounts DEF CleanCounts
  <1>3. LossInv
    <2>1. Missing = {} /\ Gaps = {}  BY <1>1 DEF Missing, Gaps
    <2> QED  BY <1>1, <2>1, FS_EmptySet DEF LossInv, LossCounted, FirstGap
  <1>4. MaxInv
    <2>1. Overtaken = {}  BY <1>1 DEF Overtaken
    <2> QED  BY <1>1, <2>1, FS_EmptySet DEF MaxInv, OvertakenCounted, Received
  <1>5. ReplayInv  BY <1>1 DEF ReplayInv, NothingCounted
  <1> QED  BY <1>2, <1>3, <1>4, <1>5 DEF CountInv

LEMMA CountKept ==
  ASSUME TypeOK, CountInv, UNCHANGED <<done, prompt>>, UNCHANGED countVars,
         serial <= serial', serial \in Nat, serial' \in Nat,
         \A K \in SUBSET Kinds : Only(K)' => Only(K)
  PROVE  CountInv'
  <1>1. Delivered' = Delivered /\ LastDone' = LastDone
    BY DEF Delivered, LastDone
  <1>2. Unwrapped' => Unwrapped
    BY SeqAssumption DEF SeqAssumption, Unwrapped
  <1>3. /\ Only({})' => Only({})
        /\ Only({"loss"})' => Only({"loss"})
        /\ Only({"overtake", "loss"})' => Only({"overtake", "loss"})
        /\ Only({"replay"})' => Only({"replay"})
    BY DEF Kinds
  <1>4. CleanRun'
    BY <1>3, CleanRunCounts DEF CountInv, countVars, CleanRun
  <1>5. LossInv'
    <2>1. UNCHANGED <<last_deq_seq, dup_count, gap_count, first_gap_seq>>
      BY DEF countVars
    <2>2. Missing' = Missing  BY <1>1, <2>1 DEF Missing
    <2>3. Gaps' = Gaps  BY <1>1, <2>2 DEF Gaps
    <2>4. FirstGap' <=> FirstGap  BY <1>1, <2>1, <2>2, Zenon DEF FirstGap
    <2>5. LossCounted' <=> LossCounted
      BY <1>1, <2>1, <2>3, <2>4, Zenon DEF LossCounted
    <2>6. LossInv  BY Zenon DEF CountInv
    <2>7. Only({"loss"}) /\ Unwrapped => LossCounted  BY <2>6, Zenon DEF LossInv
    <2>8. ASSUME Only({"loss"})', Unwrapped'  PROVE  LossCounted'
      <3>1. Only({"loss"})  BY <1>3, <2>8
      <3>2. Unwrapped  BY <1>2, <2>8, Zenon
      <3>3. LossCounted  BY <2>7, <3>1, <3>2, Zenon
      <3> QED  BY <2>5, <3>3, Zenon
    <2> QED  BY <2>8, Zenon DEF LossInv
  <1>6. MaxInv'
    BY <1>1, <1>2, <1>3, Zenon
    DEF CountInv, MaxInv, OvertakenCounted, Overtaken, Received, countVars
  <1>7. ReplayInv'
    BY <1>1, <1>2, <1>3, Zenon DEF CountInv, ReplayInv, NothingCounted, countVars
  <1> QED  BY <1>4, <1>5, <1>6, <1>7 DEF CountInv

(* One more report of the number after n.                                   *)
LEMMA CleanStep ==
  ASSUME NEW n \in Nat, CleanCounts(n, last_deq_seq, dup_count, gap_count),
         Judge((n + 1) % Modulus)
  PROVE  CleanCounts(n + 1, last_deq_seq', dup_count', gap_count')
  <1> DEFINE M == Modulus
             r == n % M
             q == n \div M
             t == (n + 1) % M
             p == (n + 1) \div M
  <1>0. M \in Nat \ {0}  BY SeqAssumption DEF SeqAssumption
  <1>1. q \in Nat /\ r \in 0..(M - 1) /\ n = M * q + r  BY <1>0, ModDef
  <1>2. \/ r < M - 1 /\ t = r + 1 /\ p = q
        \/ r = M - 1 /\ t = 0 /\ p = q + 1
    BY <1>0, ModSucc
  <1>3. M * q \in Nat /\ (q # 0 => M <= M * q) /\ (q = 0 => M * q = 0)
    <2>1. q # 0 => M * 0 + M <= M * q  BY <1>0, <1>1, MultipleApart
    <2> QED  BY <1>0, <1>1, <2>1
  <1>4. /\ gap_count = 0
        /\ last_deq_seq = IF n - (M - 1) > 0 THEN M - 1 ELSE n
        /\ dup_count = IF n - (M - 1) > 0 THEN n - (M - 1) - q ELSE 0
    BY DEF CleanCounts
  <1>5. Plus1(last_deq_seq) = (last_deq_seq + 1) % M  BY DEF Plus1
  <1>6. Plus1(last_deq_seq) = IF n < M - 1 THEN n + 1 ELSE 0
    <2>1. CASE n < M - 1
      <3>1. last_deq_seq = n /\ n + 1 \in 0..(M - 1)  BY <1>0, <1>4, <2>1
      <3> QED  BY <1>0, <1>5, <2>1, <3>1, ModSmall
    <2>2. CASE n >= M - 1
      <3>1. last_deq_seq = M - 1 /\ M - 1 \in Nat /\ (M - 1) + 1 = M * 1 + 0
        BY <1>0, <1>4, <2>2
      <3>2. (M * 1 + 0) % M = 0  BY <1>0, DivModUnique, 1 \in Nat, 0 \in 0..(M - 1)
      <3> QED  BY <1>0, <1>5, <2>2, <3>1, <3>2
    <2> QED  BY <1>0, <2>1, <2>2
  <1>7. Judge(t)  OBVIOUS
  <1> SUFFICES /\ gap_count' = 0
               /\ last_deq_seq' = IF (n + 1) - (M - 1) > 0 THEN M - 1 ELSE n + 1
               /\ dup_count' = IF (n + 1) - (M - 1) > 0 THEN ((n + 1) - (M - 1)) - p ELSE 0
    BY Zenon DEF CleanCounts
  <1> HIDE DEF M, r, q, t, p
  <1>8. CASE n < M - 1
    <2>1. q = 0 /\ r = n /\ t = n + 1 /\ p = 0  BY <1>0, <1>1, <1>2, <1>3, <1>8
    <2>2. last_deq_seq' = t /\ UNCHANGED <<dup_count, gap_count>>
      BY <1>0, <1>4, <1>6, <1>7, <1>8, <2>1 DEF Judge
    <2> QED  BY <1>0, <1>4, <1>8, <2>1, <2>2
  <1>9. CASE n >= M - 1 /\ t = 0
    <2>1. r = M - 1 /\ p = q + 1  BY <1>1, <1>2, <1>9
    <2>2. UNCHANGED <<last_deq_seq, dup_count, gap_count>>
      BY <1>7, <1>9 DEF Judge, countVars
    <2>3. n = M - 1 => q = 0  BY <1>0, <1>1, <1>3, <2>1
    <2> QED  BY <1>0, <1>1, <1>4, <1>9, <2>1, <2>2, <2>3
  <1>10. CASE n >= M - 1 /\ t # 0
    <2>1. r < M - 1 /\ t = r + 1 /\ p = q  BY <1>1, <1>2, <1>10
    <2>2. n > M - 1 /\ last_deq_seq = M - 1
      BY <1>0, <1>1, <1>3, <1>4, <1>10, <2>1
    <2>3. /\ UNCHANGED <<last_deq_seq, gap_count>> /\ dup_count' = dup_count + 1
      BY <1>0, <1>1, <1>6, <1>7, <1>10, <2>1, <2>2, <1>4 DEF Judge
    <2> QED  BY <1>0, <1>1, <1>4, <1>10, <2>1, <2>2, <2>3
  <1> QED  BY <1>0, <1>8, <1>9, <1>10

LEMMA ReceiveClean ==
  ASSUME TypeOK, AuditInv, FlowInv, CleanRun, Receive
  PROVE  CleanRun'
  <1> DEFINE m == msgs[1]
  <1> SUFFICES ASSUME Only({})
               PROVE  CleanCounts(Len(done) + 1, last_deq_seq', dup_count', gap_count')
    <2>1. Only({})' => Only({}) BY ReceiveMore DEF Only
    <2>2. CleanRun' <=> (Only({})' =>
            CleanCounts(Len(done'), last_deq_seq', dup_count', gap_count'))
      BY DEF CleanRun, CleanCounts
    <2> QED  BY <2>1, <2>2, ReceiveFacts
  <1>1. InOrder /\ OneEach /\ Lossless /\ Trusted
    BY DEF Only, Kinds, InOrder, OneEach, Lossless, Without, Trusted
  <1>2. m.serial = LastDone + 1 /\ ~Received(m.serial) /\ serial - m.serial < LogLen
    BY <1>1, NextReport, ReportInWindow, LastDoneFacts DEF AuditInv
  <1>3. LastDone = Len(done) /\ Len(done) \in Nat
    BY LastDoneFacts DEF FlowInv, CleanInv, AuditInv
  <1>4. latest[m.apb] = m.serial /\ m.apb \in Apbs
    BY <1>1, ReceiveFacts, ReceiveMore DEF AuditInv, ReportInv, ReportIsLatest
  <1>5. Judge((Len(done) + 1) % Modulus)
    BY <1>1, <1>2, <1>3, <1>4, LookupExact, ReceiveMore
  <1>6. CleanCounts(Len(done), last_deq_seq, dup_count, gap_count)
    BY CleanRunCounts
  <1> QED  BY <1>3, <1>5, <1>6, CleanStep

(* Numbers that have not wrapped are serials.                               *)
LEMMA NumberIsSerial ==
  ASSUME TypeOK, Unwrapped, NEW s \in 0..serial
  PROVE  s % Modulus = s /\ s \in Nat
  <1>1. serial \in Nat /\ Modulus \in Nat \ {0} /\ serial < Modulus
    BY SeqAssumption DEF SeqAssumption, TypeOK, QueueTypes, Unwrapped
  <1>2. s \in 0..(Modulus - 1)  BY <1>1
  <1> QED  BY <1>1, <1>2, ModSmall

(* The verdict on an unwrapped number after the number l.                   *)
LEMMA JudgeUnwrapped ==
  ASSUME TypeOK, Unwrapped, NEW l \in 0..serial, last_deq_seq = l,
         NEW s \in 1..serial, Judge(s)
  PROVE  /\ s > l => /\ last_deq_seq' = s /\ dup_count' = dup_count
                     /\ gap_count' = gap_count + (IF s = l + 1 THEN 0 ELSE 1)
                     /\ first_gap_seq' = IF s # l + 1 /\ first_gap_seq = 0 THEN s
                                         ELSE first_gap_seq
         /\ s <= l => last_deq_seq' = l /\ dup_count' = dup_count + 1
  <1>1. /\ serial \in Nat /\ Modulus \in Nat \ {0} /\ serial < Modulus
        /\ dup_count \in Nat /\ gap_count \in Nat
    BY SeqAssumption
    DEF SeqAssumption, TypeOK, QueueTypes, CountTypes, Unwrapped
  <1>2. \/ l + 1 <= Modulus - 1 /\ Plus1(l) = l + 1
        \/ l + 1 = Modulus /\ Plus1(l) = 0
    <2>1. CASE l + 1 <= Modulus - 1
      <3>1. l + 1 \in 0..(Modulus - 1)  BY <2>1
      <3> QED  BY <1>1, <2>1, <3>1, ModSmall DEF Plus1
    <2>2. CASE l + 1 = Modulus
      <3>1. l + 1 = Modulus * 1 + 0  BY <1>1, <2>2
      <3>2. (Modulus * 1 + 0) % Modulus = 0
        BY <1>1, DivModUnique, 1 \in Nat, 0 \in 0..(Modulus - 1)
      <3> QED  BY <2>2, <3>1, <3>2 DEF Plus1
    <2> QED  BY <1>1, <2>1, <2>2
  <1>3. s # 0 /\ s \in Nat /\ l \in Nat  BY <1>1
  <1> QED  BY <1>1, <1>2, <1>3 DEF Judge

LEMMA ReceiveLoss ==
  ASSUME TypeOK, AuditInv, FlowInv, LossInv, Receive
  PROVE  LossInv'
  <1> DEFINE m == msgs[1]
             s == m.serial
             l == LastDone
  <1> SUFFICES ASSUME Only({"loss"}), Unwrapped PROVE LossCounted'
    <2>1. (Only({"loss"}))' => Only({"loss"})  BY ReceiveMore DEF Only
    <2>2. Unwrapped' => Unwrapped  BY ReceiveMore DEF Unwrapped
    <2> QED  BY <2>1, <2>2, Zenon DEF LossInv
  <1>1. InOrder /\ OneEach /\ Trusted
    BY DEF Only, Kinds, InOrder, OneEach, Without, Trusted
  <1>2. LossCounted  BY DEF LossInv
  <1>3. /\ l \in 0..serial /\ serial \in Nat /\ s \in 1..serial /\ s > l
        /\ ~Received(s) /\ serial - s < LogLen
    BY <1>1, NextReport, ReportInWindow, LastDoneFacts DEF AuditInv
  <1>4. latest[m.apb] = s /\ m.apb \in Apbs
    BY <1>1, ReceiveFacts, ReceiveMore DEF AuditInv, ReportInv, ReportIsLatest
  <1>5. Lookup(m.apb) = s
    BY <1>1, <1>3, <1>4, LookupExact, NumberIsSerial
  <1>6. /\ last_deq_seq' = s /\ dup_count' = dup_count
        /\ gap_count' = gap_count + (IF s = l + 1 THEN 0 ELSE 1)
        /\ first_gap_seq' = IF s # l + 1 /\ first_gap_seq = 0 THEN s ELSE first_gap_seq
    <2>1. Judge(s)  BY <1>5, ReceiveMore
    <2>2. last_deq_seq = l  BY <1>2 DEF LossCounted
    <2> HIDE DEF l, s
    <2> QED  BY <1>3, <2>1, <2>2, JudgeUnwrapped
  <1>7. /\ Delivered' = Delivered \union {s} /\ LastDone' = s
        /\ Delivered \subseteq 1..l /\ (l = 0 \/ l \in Delivered)
    <2>1. \A x \in Delivered : x \in 1..serial /\ x <= l
      BY <1>1, LastDoneFacts DEF AuditInv, SerialInv, FlowInv, OrderInv, Ordered
    <2> QED  BY <1>3, <2>1, ReceiveFacts, LastDoneFacts DEF AuditInv, Received
  <1>8. Missing = (1..l) \ Delivered  BY <1>2 DEF LossCounted, Missing
  <1>9. Missing' = Missing \union ((l + 1)..(s - 1))
    BY <1>3, <1>6, <1>7, <1>8 DEF Missing
  <1> HIDE DEF m, s, l
  <1>10. gap_count' = Cardinality(Gaps')
    <2>1. IsFiniteSet(Gaps) /\ s - 1 \notin Gaps /\ Gaps \subseteq 1..l
      <3>1. Gaps \subseteq 1..l  BY <1>8 DEF Gaps
      <3>2. s - 1 \notin Gaps
        BY <1>3, <1>7, <1>8 DEF Gaps, Received
      <3>3. IsFiniteSet(1..l)  BY <1>3, FS_Interval, 1 \in Int, l \in Int
      <3> QED  BY <3>1, <3>2, <3>3, FS_Subset
    <2>2. CASE s = l + 1
      <3>1. Gaps' = Gaps
        BY <1>3, <1>7, <1>8, <1>9, <2>2 DEF Gaps
      <3> QED
        BY <1>2, <1>6, <2>2, <3>1 DEF LossCounted, TypeOK, CountTypes
    <2>3. CASE s # l + 1
      <3>1. Gaps' = Gaps \union {s - 1}
        BY <1>3, <1>7, <1>8, <1>9, <2>3 DEF Gaps
      <3>2. Cardinality(Gaps \union {s - 1}) = Cardinality(Gaps) + 1
        BY <2>1, FS_AddElement
      <3> QED  BY <1>2, <1>6, <2>3, <3>1, <3>2 DEF LossCounted
    <2> QED  BY <2>2, <2>3
  <1>11. FirstGap'
    <2>1. FirstGap  BY <1>2 DEF LossCounted
    <2>2. CASE Missing = {} /\ s = l + 1
      BY <1>3, <1>6, <1>9, <2>1, <2>2 DEF FirstGap
    <2>3. CASE Missing = {} /\ s # l + 1
      <3>1. /\ l + 1 \in Missing' /\ \A x \in Missing' : l + 1 <= x
            /\ first_gap_seq' = s /\ s \in Delivered' /\ l + 1 < s
        BY <1>3, <1>6, <1>7, <1>9, <2>1, <2>3 DEF FirstGap
      <3>2. \A x \in Delivered' : l + 1 < x => s <= x
        BY <1>3, <1>7
      <3> QED  BY <3>1, <3>2 DEF FirstGap
    <2>4. CASE Missing # {}
      <3>1. PICK lo \in Missing :
              /\ \A x \in Missing : lo <= x
              /\ first_gap_seq \in Delivered /\ lo < first_gap_seq
              /\ \A x \in Delivered : lo < x => first_gap_seq <= x
        BY <2>1, <2>4 DEF FirstGap
      <3>2. lo \in 1..l /\ first_gap_seq \in 1..l  BY <1>7, <1>8, <3>1
      <3>3. first_gap_seq' = first_gap_seq  BY <1>3, <1>6, <3>2
      <3>4. lo \in Missing' /\ \A x \in Missing' : lo <= x
        BY <1>3, <1>9, <3>1, <3>2
      <3>5. \A x \in Delivered' : lo < x => first_gap_seq' <= x
        BY <1>3, <1>7, <3>1, <3>2, <3>3
      <3> QED  BY <1>7, <3>1, <3>3, <3>4, <3>5 DEF FirstGap
    <2> QED  BY <2>2, <2>3, <2>4
  <1>12. dup_count' = 0  BY <1>2, <1>6 DEF LossCounted
  <1> QED  BY <1>6, <1>7, <1>10, <1>11, <1>12 DEF LossCounted

LEMMA ReceiveOvertaken ==
  ASSUME TypeOK, AuditInv, FlowInv, MaxInv, Receive
  PROVE  MaxInv'
  <1> DEFINE m == msgs[1]
             s == m.serial
             l == last_deq_seq
  <1> SUFFICES ASSUME Only({"overtake", "loss"}), Unwrapped, prompt'
               PROVE  OvertakenCounted'
    <2>1. (Only({"overtake", "loss"}))' => Only({"overtake", "loss"})
      BY ReceiveMore DEF Only
    <2>2. Unwrapped' => Unwrapped  BY ReceiveMore DEF Unwrapped
    <2> QED  BY <2>1, <2>2, Zenon DEF MaxInv
  <1>1. /\ prompt /\ latest[m.apb] = s /\ serial - s < LogLen /\ m.apb \in Apbs
        /\ s \in Nat /\ 1 \in DOMAIN msgs
    BY ReceiveMore, ReceiveFacts, Zenon
  <1>2. OneEach /\ Trusted
    <2>1. OneEach  BY DEF Only, Kinds, OneEach, Without
    <2> QED  BY <2>1, Zenon DEF Trusted
  <1>3. OvertakenCounted  BY <1>1, Zenon DEF MaxInv
  <1>4. s \in 1..serial /\ ~Received(s)
    BY <1>1, <1>2 DEF AuditInv, DriverInv, ReportInv, ReportIsLatest
  <1>5. Lookup(m.apb) = s
    BY <1>1, <1>2, <1>4, LookupExact, NumberIsSerial
  <1>6. l \in 0..serial /\ serial \in Nat /\ s # l
    BY <1>3, <1>4, LastDoneFacts DEF OvertakenCounted, AuditInv, SerialInv, Received
  <1>7. /\ s > l => last_deq_seq' = s /\ dup_count' = dup_count
        /\ s <= l => last_deq_seq' = l /\ dup_count' = dup_count + 1
    <2>1. Judge(s)  BY <1>5, ReceiveMore
    <2> HIDE DEF l, s
    <2>2. last_deq_seq = l  BY DEF l
    <2> QED  BY <1>4, <1>6, <2>1, <2>2, JudgeUnwrapped
  <1>8. /\ Delivered' = Delivered \union {s}
        /\ DOMAIN done = 1..Len(done) /\ Len(done) \in Nat
        /\ DOMAIN done' = 1..(Len(done) + 1)
        /\ \A i \in 1..Len(done) : done'[i] = done[i]
        /\ done'[Len(done) + 1] = s
        /\ \A i \in 1..Len(done) : done[i] \in Nat /\ done[i] <= l
        /\ l = 0 \/ \E i \in 1..Len(done) : done[i] = l
    <2>1. \A i \in 1..Len(done) : done[i] \in Nat /\ done[i] <= l
      BY <1>3, ReceiveMore DEF OvertakenCounted, AuditInv, SerialInv
    <2>2. l = 0 \/ \E i \in 1..Len(done) : done[i] = l
      BY <1>3, LastDoneFacts DEF OvertakenCounted, AuditInv, Received
    <2> QED  BY <2>1, <2>2, ReceiveFacts, ReceiveMore
  <1>9. Overtaken \subseteq 1..Len(done) /\ IsFiniteSet(Overtaken)
        /\ Len(done) + 1 \notin Overtaken
    <2>1. Overtaken \subseteq 1..Len(done)  BY <1>8 DEF Overtaken
    <2>2. IsFiniteSet(1..Len(done))  BY <1>8, FS_Interval, 1 \in Int, Len(done) \in Int
    <2>3. IsFiniteSet(Overtaken)  BY <2>1, <2>2, FS_Subset
    <2>4. Len(done) + 1 \notin 1..Len(done)  BY <1>8
    <2> QED  BY <2>1, <2>3, <2>4
  <1> HIDE DEF m, s, l
  <1>10. \A i \in 1..Len(done) : i \in Overtaken' <=> i \in Overtaken
    <2> SUFFICES ASSUME NEW i \in 1..Len(done)
                 PROVE  (\E j \in 1..(i - 1) : done'[j] > done'[i])
                          <=> \E j \in 1..(i - 1) : done[j] > done[i]
      BY <1>8 DEF Overtaken
    <2>1. \A j \in 1..(i - 1) : j \in 1..Len(done)  BY <1>8
    <2> QED  BY <1>8, <2>1
  <1>11. CASE s > l
    <2>1. Len(done) + 1 \notin Overtaken'
      <3> SUFFICES ASSUME NEW j \in 1..Len(done) PROVE ~(done'[j] > s)
        BY <1>8 DEF Overtaken
      <3> QED  BY <1>1, <1>6, <1>8, <1>11 DEF s, l
    <2>2. Overtaken' = Overtaken
      BY <1>8, <1>9, <1>10, <2>1 DEF Overtaken
    <2>3. \A i \in DOMAIN done' : done'[i] <= s
      <3>1. \A i \in 1..Len(done) : done'[i] <= s
        BY <1>4, <1>6, <1>8, <1>11
      <3> QED  BY <1>4, <1>8, <3>1
    <2> QED
      BY <1>3, <1>7, <1>8, <1>11, <2>2, <2>3 DEF OvertakenCounted, Received
  <1>12. CASE s <= l
    <2>1. s < l /\ l # 0  BY <1>4, <1>6, <1>12
    <2>2. Len(done) + 1 \in Overtaken'
      <3>1. PICK j \in 1..Len(done) : done[j] = l  BY <1>8, <2>1
      <3>2. Len(done) + 1 \in DOMAIN done' /\ j \in 1..((Len(done) + 1) - 1)
        BY <1>8
      <3>3. done'[j] > done'[Len(done) + 1]  BY <1>4, <1>6, <1>8, <2>1, <3>1
      <3> QED  BY <3>2, <3>3 DEF Overtaken
    <2>3. Overtaken' = Overtaken \union {Len(done) + 1}
      <3>1. Overtaken' \subseteq 1..(Len(done) + 1)  BY <1>8 DEF Overtaken
      <3>2. 1..(Len(done) + 1) = (1..Len(done)) \union {Len(done) + 1}  BY <1>8
      <3> QED  BY <1>9, <1>10, <2>2, <3>1, <3>2
    <2>4. Cardinality(Overtaken') = Cardinality(Overtaken) + 1
      BY <1>9, <2>3, FS_AddElement
    <2>5. \A i \in DOMAIN done' : done'[i] <= l
      <3>1. \A i \in DOMAIN done' : i \in 1..Len(done) \/ i = Len(done) + 1
        BY <1>8
      <3> QED  BY <1>8, <1>12, <3>1
    <2> QED
      BY <1>3, <1>7, <1>8, <1>12, <2>4, <2>5 DEF OvertakenCounted, Received, l
  <1> QED  BY <1>4, <1>6, <1>11, <1>12

LEMMA ReceiveReplay ==
  ASSUME TypeOK, AuditInv, FlowInv, ReplayInv, Receive
  PROVE  ReplayInv'
  <1> DEFINE m == msgs[1]
             s == m.serial
             l == LastDone
  <1> SUFFICES ASSUME Only({"replay"}), Unwrapped, prompt' PROVE NothingCounted'
    <2>1. (Only({"replay"}))' => Only({"replay"})  BY ReceiveMore DEF Only
    <2>2. Unwrapped' => Unwrapped  BY ReceiveMore DEF Unwrapped
    <2> QED  BY <2>1, <2>2, Zenon DEF ReplayInv
  <1>1. /\ prompt /\ latest[m.apb] = s /\ serial - s < LogLen /\ m.apb \in Apbs
    BY ReceiveMore, Zenon
  <1>2. InOrder /\ Lossless  BY DEF Only, Kinds, InOrder, Lossless, Without
  <1>3. Trusted  BY <1>1, Zenon DEF Trusted
  <1>4. NothingCounted  BY <1>1, Zenon DEF ReplayInv
  <1>5. /\ s \in {l, l + 1} /\ s \in 1..serial /\ l \in 0..serial /\ serial \in Nat
        /\ Received(l) /\ LastDone' = s
    BY <1>2, NextReport, ReceiveFacts, ReceiveMore, LastDoneFacts DEF AuditInv, DriverInv
  <1>6. Judge(Lookup(m.apb))  BY ReceiveMore
  <1>7. CASE s = l
    <2>1. Lookup(m.apb) = 0  BY <1>1, <1>3, <1>5, <1>7, LookupExact
    <2>2. UNCHANGED countVars  BY <1>6, <2>1 DEF Judge
    <2> QED  BY <1>4, <1>5, <1>7, <2>2 DEF NothingCounted, countVars
  <1>8. CASE s = l + 1
    <2>1. ~Received(s)
      BY <1>2, <1>5, <1>8, LastDoneFacts
      DEF Received, AuditInv, FlowInv, OrderInv, Ordered, SerialInv
    <2>2. Lookup(m.apb) = s
      BY <1>1, <1>3, <1>5, <2>1, LookupExact, NumberIsSerial
    <2>3. Judge(s) /\ last_deq_seq = l  BY <1>4, <1>6, <2>2 DEF NothingCounted
    <2>4. s > l /\ dup_count \in Nat /\ gap_count \in Nat
      BY <1>5, <1>8 DEF TypeOK, CountTypes
    <2> HIDE DEF m, s, l
    <2>5. last_deq_seq' = s /\ dup_count' = dup_count /\ gap_count' = gap_count + 0
      BY <1>5, <1>8, <2>3, <2>4, JudgeUnwrapped
    <2> QED  BY <1>4, <1>5, <2>4, <2>5 DEF NothingCounted
  <1> QED  BY <1>5, <1>7, <1>8

--------------------------------------------------------------------------------
(* The invariant.                                                           *)
LEMMA Invariance == Spec => []IInv
  <1>1. Init => IInv
    BY TypeInit, AuditInit, FlowInit, CountInit DEF IInv
  <1>2. IInv /\ [Next]_vars => IInv'
    <2> SUFFICES ASSUME IInv, [Next]_vars PROVE IInv'  OBVIOUS
    <2>1. TypeOK' /\ TypeOK /\ AuditInv /\ FlowInv /\ CountInv
      BY TypeStep DEF IInv
    <2>2. ASSUME NEW b \in Apbs, Enqueue(b)
          PROVE  AuditInv' /\ FlowInv' /\ CountInv'
      <3>1. b \in free  BY <2>2 DEF Enqueue
      <3>2. /\ UNCHANGED <<done, prompt>> /\ UNCHANGED countVars /\ UNCHANGED faults
        BY <2>2 DEF Enqueue
      <3>3. serial \in Nat /\ serial' \in Nat /\ serial <= serial'
        BY <2>1, <2>2, <3>1, EnqueueFacts
      <3>4. \A K \in SUBSET Kinds : Only(K)' => Only(K)  BY <3>2 DEF Only
      <3>5. CountInv'  BY <2>1, <3>2, <3>3, <3>4, CountKept
      <3> QED  BY <2>1, <2>2, <3>1, <3>5, EnqueueAudit, EnqueueFlow
    <2>3. CASE Driver
      <3>1. PICK k \in 1..Len(drv) : Moved(k)  BY <2>1, <2>3, DriverFacts
      <3>2. UNCHANGED <<serial, done, prompt>> /\ UNCHANGED countVars
        BY <2>1, <2>3, <3>1, MovedFacts
      <3>3. \A K \in SUBSET Kinds : Only(K)' => Only(K)
        BY <2>1, <3>1, FaultsFewer
      <3>4. serial \in Nat
        BY <2>1, LastDoneFacts DEF AuditInv
      <3>5. CountInv'  BY <2>1, <3>2, <3>3, <3>4, CountKept
      <3> QED  BY <2>1, <2>3, <3>5, DriverAudit, DriverFlow DEF IInv
    <2>4. CASE Receive
      <3>1. CountInv'
        BY <2>1, <2>4, ReceiveClean, ReceiveLoss, ReceiveOvertaken, ReceiveReplay
        DEF CountInv
      <3> QED  BY <2>1, <2>4, <3>1, ReceiveAudit, ReceiveFlow DEF IInv
    <2>5. CASE UNCHANGED vars
      <3> USE <2>5 DEF vars, logVars, countVars, history
      <3>1. /\ UNCHANGED <<enq_seq_next, seq_log_ptr, seq_log_seq, seq_log_head>>
            /\ UNCHANGED <<free, drv, msgs, serial, latest, done, prompt, faults>>
            /\ UNCHANGED countVars
        OBVIOUS
      <3>2. Delivered' = Delivered /\ LastDone' = LastDone
        BY <3>1 DEF Delivered, LastDone
      <3>3. \A s : (Received(s))' <=> Received(s)  BY <3>2 DEF Received
      <3>4. SerialInv' /\ DriverInv'
        BY <2>1, <3>1, <3>2 DEF AuditInv, SerialInv, DriverInv
      <3>5. UNCHANGED InOrder /\ UNCHANGED OneEach /\ UNCHANGED Lossless /\ UNCHANGED Only({})
        BY <3>1 DEF InOrder, OneEach, Lossless, Without, Only
      <3>6. Trusted' <=> Trusted
        <4>1. UNCHANGED prompt  BY <3>1
        <4>2. UNCHANGED OneEach  BY <3>5
        <4> QED  BY ONLY <4>1, <4>2, Zenon DEF Trusted
      <3>7. LogInv'
        BY <2>1, <3>1, <3>2, <3>6
        DEF AuditInv, LogInv, LogExact, QueuedIsLatest, FreeIsReceived, EntryIsLatest,
            EntryIsKept, Received
      <3>8. ReportInv'
        BY <2>1, <3>1, <3>2, <3>5
        DEF AuditInv, ReportInv, ReportIsLatest, ReportIsOnly, Received
      <3>9. FlowInv'
        BY <2>1, <3>1, <3>2, <3>5
        DEF FlowInv, OrderInv, Ordered, ConservedInv, WindowInv, CleanInv
      <3>10. serial \in Nat /\ serial <= serial'
        BY <2>1, <3>1, LastDoneFacts DEF AuditInv
      <3>11. \A K \in SUBSET Kinds : Only(K)' => Only(K)  BY <3>1 DEF Only
      <3>12. CountInv'  BY <2>1, <3>1, <3>10, <3>11, CountKept
      <3> QED  BY <2>1, <3>4, <3>7, <3>8, <3>9, <3>12 DEF IInv, AuditInv
    <2> QED  BY <2>1, <2>2, <2>3, <2>4, <2>5 DEF Next, IInv
  <1> QED  BY <1>1, <1>2, PTL DEF Spec

--------------------------------------------------------------------------------
(* The log, the counters and the queues keep their types: the entry that is *)
(* looked up is one of the log's.                                           *)
THEOREM TypeCorrect == Spec => []TypeOK
  <1>1. IInv => TypeOK  BY DEF IInv
  <1> QED  BY Invariance, <1>1, PTL

(* Whatever the driver overtakes or loses, a buffer it still has to report  *)
(* is found in the log under its own number, unless as many others as the   *)
(* log has entries have been enqueued since.                                *)
THEOREM LookupTells == Spec => []EntriesAccurate
  <1>1. ASSUME IInv PROVE EntriesAccurate
    <2> SUFFICES ASSUME Only({"overtake", "loss"}), NEW m \in ToSet(drv \o msgs),
                        serial - m.serial < LogLen
                 PROVE  Lookup(m.apb) = m.serial % Modulus
      BY DEF EntriesAccurate
    <2>1. TypeOK /\ AuditInv /\ OneEach /\ Trusted
      BY <1>1 DEF IInv, Only, Kinds, OneEach, Without, Trusted
    <2>2. drv \in Seq(Item) /\ msgs \in Seq(Item)
      BY <2>1 DEF TypeOK, QueueTypes
    <2>3. \/ \E i \in DOMAIN drv : m = drv[i]
          \/ \E i \in DOMAIN msgs : m = msgs[i]
      <3>1. PICK i \in DOMAIN (drv \o msgs) : m = (drv \o msgs)[i]
        BY DEF ToSet
      <3>2. /\ drv \o msgs \in Seq(Item) /\ Len(drv \o msgs) = Len(drv) + Len(msgs)
            /\ \A j \in 1..(Len(drv) + Len(msgs)) :
                 (drv \o msgs)[j] = IF j <= Len(drv) THEN drv[j] ELSE msgs[j - Len(drv)]
        BY <2>2, ConcatProperties
      <3>3. /\ i \in 1..(Len(drv) + Len(msgs)) /\ Len(drv) \in Nat /\ Len(msgs) \in Nat
            /\ DOMAIN drv = 1..Len(drv) /\ DOMAIN msgs = 1..Len(msgs)
        BY <2>2, <3>1, <3>2
      <3>4. CASE i <= Len(drv)  BY <3>1, <3>2, <3>3, <3>4
      <3>5. CASE i > Len(drv)
        <4>1. i - Len(drv) \in DOMAIN msgs  BY <3>3, <3>5
        <4>2. m = msgs[i - Len(drv)]  BY <3>1, <3>2, <3>3, <3>5
        <4> QED  BY <4>1, <4>2
      <3> QED  BY <3>3, <3>4, <3>5
    <2>4. m.serial = latest[m.apb] /\ ~Received(m.serial) /\ m \in Item
      BY <2>1, <2>2, <2>3
      DEF AuditInv, DriverInv, LogInv, LogExact, QueuedIsLatest, ReportInv,
          ReportIsLatest, Received
    <2> QED  BY <2>1, <2>4, LookupExact DEF Item
  <1> QED  BY Invariance, <1>1, PTL

(* A driver without a fault is never accused before the counter wraps, and  *)
(* is accused once per completion, numbers 0 excepted, ever after.          *)
THEOREM NoFalseAlarm == Spec => []CleanRun
  <1>1. IInv => CleanRun  BY DEF IInv, CountInv
  <1> QED  BY Invariance, <1>1, PTL

(* Losses alone are counted exactly: each run of them is one gap, the first *)
(* is located, and none is taken for a duplicate.                           *)
THEOREM LossesLocated == Spec => []LossExact
  <1>1. ASSUME IInv PROVE LossExact
    <2> SUFFICES ASSUME Only({"loss"}), Unwrapped
                 PROVE  /\ dup_count = 0
                        /\ gap_count = Cardinality(Gaps)
                        /\ first_gap_seq = IF Missing = {} THEN 0
                                           ELSE Min({s \in Delivered : s > Min(Missing)})
      BY DEF LossExact, Gaps, Missing
    <2>1. LossCounted /\ TypeOK /\ SerialInv
      BY <1>1 DEF IInv, CountInv, LossInv, AuditInv
    <2>2. CASE Missing = {}  BY <2>1, <2>2 DEF LossCounted, FirstGap
    <2>3. CASE Missing # {}
      <3>1. PICK lo \in Missing :
              /\ \A s \in Missing : lo <= s
              /\ first_gap_seq \in Delivered /\ lo < first_gap_seq
              /\ \A s \in Delivered : lo < s => first_gap_seq <= s
        BY <2>1, <2>3 DEF LossCounted, FirstGap
      <3>2. Missing \in SUBSET Nat /\ Delivered \in SUBSET Nat
        <4>1. last_deq_seq \in Int
          BY <2>1, SeqAssumption DEF SeqAssumption, TypeOK, CountTypes, Numbers
        <4> QED  BY <2>1, <4>1, LastDoneFacts DEF Missing, SerialInv
      <3>3. Min(Missing) = lo  BY <3>1, <3>2, MinIs
      <3> DEFINE after == {s \in Delivered : s > lo}
      <3>4. after \in SUBSET Nat /\ first_gap_seq \in after
            /\ \A s \in after : first_gap_seq <= s
        BY <3>1, <3>2
      <3>5. Min(after) = first_gap_seq
        <4> HIDE DEF after
        <4> QED  BY <3>4, MinIs
      <3> QED  BY <2>1, <2>3, <3>3, <3>5 DEF LossCounted
    <2> QED  BY <2>1, <2>2, <2>3 DEF LossCounted
  <1> QED  BY Invariance, <1>1, PTL

(* The duplicates counted are the buffers that completed after a later one. *)
THEOREM DupMeansLate == Spec => []DupIsOvertaken
  <1>1. IInv => DupIsOvertaken
    BY Zenon DEF IInv, CountInv, MaxInv, OvertakenCounted, DupIsOvertaken, Overtaken
  <1> QED  BY Invariance, <1>1, PTL

(* The comment of lines 102-105 has dup_count count the double completions  *)
(* of a number, the evidence of a HW replay.  It does not: a second report  *)
(* that comes before its buffer is used again leaves no trace in the        *)
(* counters, because the first has taken the entry out of the log (line     *)
(* 307).                                                                    *)
SecondReportLeavesNoTrace ==
  (Only({"replay"}) /\ Unwrapped /\ prompt) => dup_count = 0 /\ gap_count = 0

THEOREM SecondReportUnseen == Spec => []SecondReportLeavesNoTrace
  <1>1. IInv => SecondReportLeavesNoTrace
    BY Zenon DEF IInv, CountInv, ReplayInv, NothingCounted, SecondReportLeavesNoTrace
  <1> QED  BY Invariance, <1>1, PTL
================================================================================
