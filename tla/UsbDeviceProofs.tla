----------------------------- MODULE UsbDeviceProofs -----------------------------
(***************************************************************************)
(* The device behind its control endpoint, for any number of requests, any *)
(* volumes of the advertised range and any size of the trace: what holds   *)
(* of UsbConfig holds of it, the codec follows the host, and the trace     *)
(* tells the configuration.                                                *)
(***************************************************************************)
EXTENDS UsbDevice, UsbConfigProofs, NumberLemmas

(* All channels have one setting, which is the one the codec was told.      *)
UnitInv ==
  \A ch \in Channels :
    /\ codec.gain = 10 * Percent(volume[ch]) /\ codec.mute = mute[ch]
    /\ \A other \in Channels : volume[other] = volume[ch]

(* The monitor's copy is the entry it is about to release.                  *)
CopyInv == dpc = "release" => logTail # logHead /\ copied = trace[logTail]

(* The i-th entry from the tail t on, of a queue.                           *)
Count(t, q) == (q.head - t) % LogSize
Entry(t, q, i) == q.slots[(t + i - 1) % LogSize]
Names(t, q, i) == Entry(t, q, i).req = "config"

(* A reader who knew c and reads the queue to its end knows d.              *)
LastNames(t, q, i) ==
  Names(t, q, i) /\ \A j \in (i + 1)..Count(t, q) : ~Names(t, q, j)
Tells(t, q, c, d) ==
  \/ d = c /\ \A i \in 1..Count(t, q) : ~Names(t, q, i)
  \/ \E i \in 1..Count(t, q) : LastNames(t, q, i) /\ d = Reading(c, Entry(t, q, i))

(* The reader of the printed trace, once the monitor's copy is printed.     *)
Reader == IF dpc = "print" THEN Reading(told, copied) ELSE told
TraceInv == ~untold => Tells(logTail, Queue, Reader, config)

DeviceInv == DeviceTypeOK /\ UnitInv /\ CopyInv /\ TraceInv

--------------------------------------------------------------------------------
(* Every step of the device is one of UsbConfig or leaves its part alone.   *)
LEMMA DeviceRefines ==
  /\ DeviceInit => Init
  /\ [DeviceNext]_deviceVars => [Next]_vars
  <1>1. DeviceInit => Init  BY DEF DeviceInit
  <1>2. ASSUME DeviceNext PROVE [Next]_vars
    <2>1. CASE \E c \in {Off, UAC2_CONFIG_ID, Bogus} : SetupConfig(c)
      <3>1. PICK c \in {Off, UAC2_CONFIG_ID, Bogus} : SetupConfig(c)  BY <2>1
      <3>2. SetConfig(c) \/ UNCHANGED vars  BY <3>1 DEF SetupConfig, Choose
      <3> QED  BY <3>2 DEF Next, Isr
    <2>2. CASE SetupInterface \/ SetupSynthesised
      BY <2>2 DEF SetupInterface, SetupSynthesised, Select, Next, Isr
    <2>3. CASE SetupUnit \/ SetupOther  BY <2>3 DEF SetupUnit, SetupOther
    <2>4. CASE Elsewhere
      BY <2>4 DEF Elsewhere, Unplugged, Quietly, Next, Isr
    <2>5. CASE Dump  BY <2>5 DEF Dump
    <2> QED  BY <1>2, <2>1, <2>2, <2>3, <2>4, <2>5 DEF DeviceNext, Control
  <1>3. UNCHANGED deviceVars => UNCHANGED vars  BY DEF deviceVars
  <1> QED  BY <1>1, <1>2, <1>3

--------------------------------------------------------------------------------
(* A whole decibel is more than a percent of the range: the gain follows    *)
(* the volume strictly.                                                     *)
LEMMA PercentFollows ==
  ASSUME NEW v \in Levels
  PROVE  /\ v \in Int /\ Percent(v) \in 0..100
         /\ \A w \in Levels : (Percent(v) < Percent(w)) <=> (v < w)
  <1>1. \A u \in Levels : \E k \in (-96)..0 : u = 256 * k
    BY LevelsAdvertised DEF LevelsAdvertised
  <1>2. ASSUME NEW k \in (-96)..0
        PROVE  /\ 256 * k \in Int
               /\ Percent(256 * k) = ((k + 96) * 25600) \div 24576
    BY DEF Percent
  <1>3. ASSUME NEW j \in 0..96
        PROVE  (j * 25600) \div 24576 \in 0..100
    OBVIOUS
  <1>4. ASSUME NEW i \in 0..96, NEW j \in 0..96, i < j
        PROVE  (i * 25600) \div 24576 < (j * 25600) \div 24576
    <2>1. (j - 1) * 25600 >= i * 25600  BY <1>4
    <2> QED  BY <1>4, <2>1
  <1>5. PICK k \in (-96)..0 : v = 256 * k  BY <1>1
  <1>6. v \in Int /\ Percent(v) \in 0..100  BY <1>2, <1>3, <1>5, k + 96 \in 0..96
  <1>7. ASSUME NEW w \in Levels PROVE (Percent(v) < Percent(w)) <=> (v < w)
    <2>1. PICK l \in (-96)..0 : w = 256 * l  BY <1>1
    <2> DEFINE p == ((k + 96) * 25600) \div 24576
               q == ((l + 96) * 25600) \div 24576
    <2>2. Percent(v) = p /\ Percent(w) = q  BY <1>2, <1>5, <2>1
    <2>3. p \in 0..100 /\ q \in 0..100  BY <1>3, k + 96 \in 0..96, l + 96 \in 0..96
    <2>4. k < l => p < q  BY <1>4, k + 96 \in 0..96, l + 96 \in 0..96
    <2>5. l < k => q < p  BY <1>4, k + 96 \in 0..96, l + 96 \in 0..96
    <2>6. k = l => p = q  OBVIOUS
    <2>7. (v < w) <=> (k < l)  BY <1>5, <2>1
    <2> HIDE DEF p, q
    <2> QED  BY <2>2, <2>3, <2>4, <2>5, <2>6, <2>7
  <1> QED  BY <1>6, <1>7

--------------------------------------------------------------------------------
(* The ring of the trace.                                                   *)
Slots == 0..(LogSize - 1)
IsQueue(q) == q.slots \in [Slots -> Entries] /\ q.head \in Slots

LEMMA RingArithmetic ==
  ASSUME NEW t \in Slots
  PROVE  /\ LogSize \in Nat \ {0}
         /\ After(t) = (IF t = LogSize - 1 THEN 0 ELSE t + 1) /\ After(t) \in Slots
         /\ \A h \in Slots :
              (h - t) % LogSize = IF h >= t THEN h - t ELSE (h - t) + LogSize
         /\ \A i \in 1..LogSize :
              (t + i - 1) % LogSize = IF t + i <= LogSize THEN t + i - 1
                                      ELSE (t + i - 1) - LogSize
  <1>1. LogSize \in Nat \ {0}  BY DeviceAssumption DEF DeviceAssumption
  <1>2. After(t) = (IF t = LogSize - 1 THEN 0 ELSE t + 1)
    <2>1. CASE t = LogSize - 1
      <3>1. t + 1 \in LogSize..(2 * LogSize - 1)  BY <1>1, <2>1
      <3> QED  BY <1>1, <2>1, <3>1, ModTurn DEF After, Slots
    <2>2. CASE t # LogSize - 1
      BY <1>1, <2>2, ModSmall, t + 1 \in 0..(LogSize - 1) DEF After, Slots
    <2> QED  BY <2>1, <2>2
  <1>3. ASSUME NEW h \in Slots
        PROVE  (h - t) % LogSize = IF h >= t THEN h - t ELSE (h - t) + LogSize
    <2>1. CASE h >= t
      BY <1>1, <2>1, ModSmall, h - t \in 0..(LogSize - 1) DEF Slots
    <2>2. CASE h < t
      BY <1>1, <2>2, ModTurn, h - t \in (-LogSize)..(-1) DEF Slots
    <2> QED  BY <2>1, <2>2 DEF Slots
  <1>4. ASSUME NEW i \in 1..LogSize
        PROVE  (t + i - 1) % LogSize = IF t + i <= LogSize THEN t + i - 1
                                       ELSE (t + i - 1) - LogSize
    <2>1. CASE t + i <= LogSize
      BY <1>1, <2>1, ModSmall, t + i - 1 \in 0..(LogSize - 1) DEF Slots
    <2>2. CASE t + i > LogSize
      <3> DEFINE a == t + i - 1
      <3>1. a \in LogSize..(2 * LogSize - 1)  BY <1>1, <2>2 DEF Slots
      <3>2. a % LogSize = a - LogSize
        <4> HIDE DEF a
        <4> QED  BY <1>1, <3>1, ModTurn
      <3> QED  BY <1>1, <2>2, <3>2 DEF Slots
    <2> QED  BY <1>1, <2>1, <2>2 DEF Slots
  <1> QED  BY <1>1, <1>2, <1>3, <1>4 DEF Slots

(* One more entry at the end, or a full queue as it was.                    *)
LEMMA RecordedEntries ==
  ASSUME logTail \in Slots, NEW q, IsQueue(q), NEW e \in Entries
  PROVE  /\ IsQueue(Recorded(q, e)) /\ Count(logTail, q) \in 0..(LogSize - 1)
         /\ After(q.head) = logTail => Recorded(q, e) = q
         /\ After(q.head) # logTail =>
              /\ Count(logTail, Recorded(q, e)) = Count(logTail, q) + 1
              /\ \A i \in 1..Count(logTail, q) : Entry(logTail, Recorded(q, e), i) = Entry(logTail, q, i)
              /\ Entry(logTail, Recorded(q, e), Count(logTail, q) + 1) = e
  <1> DEFINE r == Recorded(q, e)
             h == q.head
  <1>1. LogSize \in Nat \ {0} /\ h \in Slots /\ q.slots \in [Slots -> Entries]
    BY RingArithmetic DEF IsQueue
  <1>2. Count(logTail, q) = (IF h >= logTail THEN h - logTail ELSE (h - logTail) + LogSize)
    BY <1>1, RingArithmetic DEF Count
  <1>3. Count(logTail, q) \in 0..(LogSize - 1)  BY <1>1, <1>2 DEF Slots
  <1>4. CASE After(h) = logTail  BY <1>3, <1>4 DEF Recorded
  <1>5. CASE After(h) # logTail
    <2>1. r.head = After(h) /\ r.slots = [q.slots EXCEPT ![h] = e]
      BY <1>5 DEF Recorded
    <2>2. IsQueue(r)  BY <1>1, <2>1, RingArithmetic DEF IsQueue, Recorded
    <2>3. After(h) = (IF h = LogSize - 1 THEN 0 ELSE h + 1) /\ After(h) \in Slots
      BY <1>1, RingArithmetic
    <2>4. Count(logTail, r) = Count(logTail, q) + 1
      <3>1. Count(logTail, r) = IF After(h) >= logTail THEN After(h) - logTail
                       ELSE (After(h) - logTail) + LogSize
        BY <1>1, <2>1, <2>3, RingArithmetic DEF Count
      <3> QED  BY <1>1, <1>2, <1>5, <2>3, <3>1 DEF Slots
    <2>5. ASSUME NEW i \in 1..(Count(logTail, q) + 1)
          PROVE  /\ (logTail + i - 1) % LogSize \in Slots
                 /\ ((logTail + i - 1) % LogSize = h) <=> (i = Count(logTail, q) + 1)
      <3>1. i \in 1..LogSize  BY <1>1, <1>3
      <3>2. (logTail + i - 1) % LogSize = IF logTail + i <= LogSize THEN logTail + i - 1
                                          ELSE (logTail + i - 1) - LogSize
        BY <3>1, RingArithmetic
      <3> DEFINE a == (logTail + i - 1) % LogSize
                 n == Count(logTail, q)
      <3>3. /\ n = (IF h >= logTail THEN h - logTail ELSE (h - logTail) + LogSize)
            /\ a = (IF logTail + i <= LogSize THEN logTail + i - 1
                    ELSE (logTail + i - 1) - LogSize)
            /\ n \in Nat /\ i \in 1..(n + 1) /\ i \in Nat
        BY <1>2, <1>3, <3>2
      <3>4. /\ LogSize \in Nat \ {0} /\ h \in 0..(LogSize - 1)
            /\ logTail \in 0..(LogSize - 1)
        BY <1>1 DEF Slots
      <3> HIDE DEF a, n, h
      <3>5. a \in 0..(LogSize - 1) /\ (a = h <=> i = n + 1)  BY <3>3, <3>4
      <3> QED  BY <3>5 DEF Slots, a, n
    <2>6. ASSUME NEW i \in 1..Count(logTail, q)
          PROVE  Entry(logTail, r, i) = Entry(logTail, q, i)
      <3>1. i \in 1..(Count(logTail, q) + 1) /\ i # Count(logTail, q) + 1  BY <1>3
      <3>2. (logTail + i - 1) % LogSize \in Slots /\ (logTail + i - 1) % LogSize # h
        BY <2>5, <3>1
      <3> QED  BY <1>1, <2>1, <3>2 DEF Entry
    <2>7. Entry(logTail, r, Count(logTail, q) + 1) = e  BY <1>1, <1>3, <2>1, <2>5 DEF Entry
    <2> QED  BY <1>3, <1>5, <2>2, <2>4, <2>6, <2>7
  <1> QED  BY <1>4, <1>5

LEMMA RecordedTells ==
  ASSUME logTail \in Slots, NEW q, IsQueue(q), NEW e \in Entries, NEW c, NEW d
  PROVE  /\ Tells(logTail, q, c, d) /\ e.req # "config" => Tells(logTail, Recorded(q, e), c, d)
         /\ After(q.head) # logTail /\ e.req = "config"
              => Tells(logTail, Recorded(q, e), c, Reading(c, e))
  <1> DEFINE r == Recorded(q, e)
             n == Count(logTail, q)
  <1>1. n \in Nat  BY RecordedEntries
  <1>2. CASE After(q.head) = logTail
    <2>1. r = q  BY <1>2, RecordedEntries
    <2> HIDE DEF r
    <2> QED  BY <1>2, <2>1 DEF r
  <1>3. CASE After(q.head) # logTail
    <2>1. /\ Count(logTail, r) = n + 1 /\ Entry(logTail, r, n + 1) = e
          /\ \A i \in 1..n : Entry(logTail, r, i) = Entry(logTail, q, i)
      BY <1>3, RecordedEntries
    <2> HIDE DEF r, n
    <2>2. ASSUME e.req = "config"
          PROVE  Tells(logTail, r, c, Reading(c, e))
      BY <1>1, <2>1, <2>2 DEF Tells, LastNames, Names
    <2>3. ASSUME e.req # "config", Tells(logTail, q, c, d)
          PROVE  Tells(logTail, r, c, d)
      <3>1. CASE d = c /\ \A i \in 1..n : ~Names(logTail, q, i)
        BY <1>1, <2>1, <2>3, <3>1 DEF Tells, Names, n
      <3>2. CASE \E i \in 1..Count(logTail, q) : LastNames(logTail, q, i) /\ d = Reading(c, Entry(logTail, q, i))
        <4>1. PICK i \in 1..n : LastNames(logTail, q, i) /\ d = Reading(c, Entry(logTail, q, i))
          BY <3>2 DEF n
        <4>2. LastNames(logTail, r, i)
          BY <1>1, <2>1, <2>3, <4>1 DEF LastNames, Names, n
        <4>3. i \in 1..Count(logTail, r) /\ d = Reading(c, Entry(logTail, r, i))  BY <1>1, <2>1, <4>1
        <4> QED  BY <4>2, <4>3 DEF Tells
      <3> QED  BY <2>3, <3>1, <3>2 DEF Tells, n
    <2> QED  BY <1>3, <2>2, <2>3 DEF r
  <1> QED  BY <1>2, <1>3

LEMMA SameTells ==
  ASSUME NEW t, NEW q, NEW r, NEW c, NEW d, Tells(t, q, c, d),
         r.slots = q.slots, r.head = q.head
  PROVE  Tells(t, r, c, d)
  BY DEF Tells, LastNames, Names, Entry, Count

(* Releasing the first entry: what was second is first.                     *)
LEMMA ReleasedTells ==
  ASSUME logTail \in Slots, logTail # logHead, IsQueue(Queue), NEW c, NEW d,
         Tells(logTail, Queue, c, d)
  PROVE  Tells(After(logTail), Queue, Reading(c, trace[logTail]), d)
  <1> DEFINE t == logTail
             u == After(logTail)
             n == Count(t, Queue)
             m == Count(u, Queue)
             e == trace[logTail]
  <1>1. /\ LogSize \in Nat \ {0} /\ t \in Slots /\ logHead \in Slots
        /\ u = (IF t = LogSize - 1 THEN 0 ELSE t + 1) /\ u \in Slots
    BY RingArithmetic DEF IsQueue, Queue
  <1>2. n = IF logHead >= t THEN logHead - t ELSE (logHead - t) + LogSize
    BY <1>1, RingArithmetic DEF Count, Queue
  <1>3. m = IF logHead >= u THEN logHead - u ELSE (logHead - u) + LogSize
    BY <1>1, RingArithmetic DEF Count, Queue
  <1>4. n \in 1..(LogSize - 1) /\ m = n - 1
    <2> HIDE DEF t, u, n, m
    <2> QED  BY <1>1, <1>2, <1>3 DEF Slots, t
  <1>5. ASSUME NEW i \in 1..m
        PROVE  Entry(u, Queue, i) = Entry(t, Queue, i + 1)
    <2>1. i \in 1..LogSize /\ i + 1 \in 1..LogSize
      <3> HIDE DEF n, m
      <3> QED  BY <1>1, <1>4
    <2>2. (u + i - 1) % LogSize
            = (IF u + i <= LogSize THEN u + i - 1 ELSE (u + i - 1) - LogSize)
      <3> HIDE DEF u
      <3> QED  BY <1>1, <2>1, RingArithmetic
    <2> DEFINE k == i + 1
    <2>3. (t + k - 1) % LogSize
            = (IF t + k <= LogSize THEN t + k - 1 ELSE (t + k - 1) - LogSize)
      <3> HIDE DEF k
      <3> QED  BY <1>1, <2>1, RingArithmetic DEF k
    <2>4. (IF u + i <= LogSize THEN u + i - 1 ELSE (u + i - 1) - LogSize)
            = (IF t + k <= LogSize THEN t + k - 1 ELSE (t + k - 1) - LogSize)
      <3> HIDE DEF t, u, n, m
      <3> QED  BY <1>1, <1>4, <2>1 DEF Slots
    <2>5. (u + i - 1) % LogSize = (t + k - 1) % LogSize  BY <2>2, <2>3, <2>4
    <2> QED  BY <2>5 DEF Entry
  <1>6. Entry(t, Queue, 1) = e
    <2>1. (t + 1 - 1) % LogSize = t
      <3>1. 1 \in 1..LogSize  BY <1>1
      <3>2. (t + 1 - 1) % LogSize
              = IF t + 1 <= LogSize THEN t + 1 - 1 ELSE (t + 1 - 1) - LogSize
        BY <1>1, <3>1, RingArithmetic
      <3> QED  BY <1>1, <3>2 DEF Slots
    <2> QED  BY <2>1 DEF Entry, Queue
  <1> HIDE DEF t, u, n, m, e
  <1>7. CASE d = c /\ \A i \in 1..n : ~Names(t, Queue, i)
    <2>1. ~Names(t, Queue, 1)  BY <1>4, <1>7
    <2>2. Reading(c, e) = c  BY <1>6, <2>1 DEF Names, Reading
    <2>3. \A i \in 1..m : ~Names(u, Queue, i)  BY <1>4, <1>5, <1>7 DEF Names
    <2> QED  BY <1>7, <2>2, <2>3 DEF Tells, u, m, e
  <1>8. CASE \E i \in 1..n : LastNames(t, Queue, i) /\ d = Reading(c, Entry(t, Queue, i))
    <2>1. PICK i \in 1..n : /\ Names(t, Queue, i) /\ d = Reading(c, Entry(t, Queue, i))
                            /\ \A j \in (i + 1)..n : ~Names(t, Queue, j)
      BY <1>8 DEF LastNames, n
    <2>2. CASE i = 1
      <3>1. \A j \in 1..m : ~Names(u, Queue, j)
        BY <1>4, <1>5, <2>1, <2>2 DEF Names
      <3>2. d = Reading(c, e)  BY <1>6, <2>1, <2>2
      <3> QED  BY <3>1, <3>2 DEF Tells, u, m, e
    <2>3. CASE i > 1
      <3>1. i - 1 \in 1..m /\ Entry(u, Queue, i - 1) = Entry(t, Queue, i)
        BY <1>4, <1>5, <2>3
      <3>2. \A j \in ((i - 1) + 1)..m : ~Names(u, Queue, j)
        BY <1>4, <1>5, <2>1, <2>3 DEF Names
      <3>3. LastNames(u, Queue, i - 1)
        BY <2>1, <3>1, <3>2 DEF LastNames, Names, m
      <3>4. d = Reading(Reading(c, e), Entry(u, Queue, i - 1))
        BY <2>1, <3>1 DEF Reading, Names
      <3> QED  BY <3>1, <3>3, <3>4 DEF Tells, u, m, e
    <2> QED  BY <2>1, <2>2, <2>3
  <1> QED  BY <1>7, <1>8 DEF Tells, t, n

--------------------------------------------------------------------------------
(* The invariant.                                                           *)
LEMMA DeviceInitInv == DeviceInit => DeviceInv
  <1> SUFFICES ASSUME DeviceInit PROVE DeviceInv  OBVIOUS
  <1> USE DEF DeviceInit
  <1>1. DeviceTypeOK
    <2>1. Other \in Entries  BY DEF Entries
    <2>2. LogSize \in Nat /\ LogSize > 2 /\ MaxSetups \in Nat /\ 0 \in Levels
      BY DeviceAssumption DEF DeviceAssumption
    <2>3. mute \in [Channels -> BOOLEAN] /\ volume \in [Channels -> Levels]
      BY <2>2
    <2>4. codec \in [gain : 0..1000, mute : BOOLEAN]  OBVIOUS
    <2>5. trace \in [0..(LogSize - 1) -> Entries] /\ copied \in Entries
      BY <2>1
    <2>6. /\ logHead \in 0..(LogSize - 1) /\ logTail \in 0..(LogSize - 1)
          /\ dpc \in {"idle", "release", "print"}
          /\ told \in {Off, UAC2_CONFIG_ID} /\ setups \in 0..MaxSetups
      BY <2>2
    <2>7. untold \in BOOLEAN  OBVIOUS
    <2> QED  BY <2>3, <2>4, <2>5, <2>6, <2>7 DEF DeviceTypeOK
  <1>2. UnitInv
    <2>1. Percent(0) = 100  BY DEF Percent
    <2>2. codec.gain = 10 * 100 /\ codec.mute = FALSE  OBVIOUS
    <2>3. \A ch \in Channels : volume[ch] = 0 /\ mute[ch] = FALSE  OBVIOUS
    <2> QED  BY <2>1, <2>2, <2>3 DEF UnitInv
  <1>3. CopyInv  BY DEF CopyInv
  <1>4. TraceInv
    <2>1. logTail \in Slots /\ LogSize \in Nat \ {0}
      BY DeviceAssumption DEF DeviceAssumption, Slots
    <2>2. Count(logTail, Queue) = 0
      BY <2>1, RingArithmetic DEF Count, Queue
    <2> QED  BY <2>2 DEF TraceInv, Tells, Reader, Init
  <1> QED  BY <1>1, <1>2, <1>3, <1>4 DEF DeviceInv

(* Every entry recorded is one of the trace's.                              *)
LEMMA EntryTypes ==
  /\ \A c \in {Off, UAC2_CONFIG_ID, Bogus} :
       Configured(c) \in Entries /\ Configured(c).req = "config"
  /\ Selected \in Entries /\ Selected.req # "config"
  /\ Synthesised \in Entries /\ Synthesised.req # "config"
  /\ Other \in Entries /\ Other.req # "config"
  BY DEF Entries, Configured, Selected, Interface, Synthesised, Other, Request

(* What a control request writes is a queue again.                          *)
LEMMA SetupQueue ==
  ASSUME DeviceTypeOK, Control
  PROVE  /\ IsQueue(Queue) /\ logTail \in Slots
         /\ \E q : IsQueue(q) /\ Setup(q)
  <1>1. IsQueue(Queue) /\ logTail \in Slots  BY DEF DeviceTypeOK, IsQueue, Queue, Slots
  <1>2. \A q : IsQueue(q) => \A e \in Entries : IsQueue(Recorded(q, e))
    BY <1>1, RecordedEntries
  <1>3. CASE \E c \in {Off, UAC2_CONFIG_ID, Bogus} : SetupConfig(c)
    BY <1>1, <1>2, <1>3, EntryTypes DEF SetupConfig
  <1>4. CASE SetupInterface  BY <1>1, <1>2, <1>4, EntryTypes DEF SetupInterface
  <1>5. CASE SetupSynthesised  BY <1>1, <1>2, <1>5, EntryTypes DEF SetupSynthesised
  <1>6. CASE SetupUnit \/ SetupOther
    BY <1>1, <1>2, <1>6, EntryTypes DEF SetupUnit, SetupOther
  <1> QED  BY <1>1, <1>3, <1>4, <1>5, <1>6 DEF Control

LEMMA DeviceTypeStep ==
  ASSUME DeviceTypeOK, UnitInv, CopyInv, DeviceNext
  PROVE  DeviceTypeOK'
  <1> DEFINE UnitTypes == /\ mute \in [Channels -> BOOLEAN]
                          /\ volume \in [Channels -> Levels]
                          /\ codec \in [gain : 0..1000, mute : BOOLEAN]
             RingTypes == /\ trace \in [Slots -> Entries] /\ logHead \in Slots
                          /\ setups \in 0..MaxSetups
             DumpTypes == /\ logTail \in Slots /\ dpc \in {"idle", "release", "print"}
                          /\ copied \in Entries /\ told \in {Off, UAC2_CONFIG_ID}
             FlagType == untold \in BOOLEAN
  <1>0. UnitTypes /\ RingTypes /\ DumpTypes /\ FlagType  BY DEF DeviceTypeOK, Slots
  <1>1. CASE Control
    <2>1. PICK q : IsQueue(q) /\ Setup(q)  BY <1>1, SetupQueue
    <2>2. RingTypes'
      BY <2>1, <1>0, DeviceAssumption DEF DeviceAssumption, Setup, TraceIs, IsQueue
    <2>3. UNCHANGED dumpVars  BY <2>1 DEF Setup
    <2>4. DumpTypes'  BY <1>0, <2>3 DEF dumpVars
    <2>5. FlagType'
      BY <1>0, <1>1 DEF Control, SetupConfig, SetupInterface, SetupSynthesised, Select,
        SetupUnit, SetupOther, LogFull
    <2>6. UnitTypes'
      <3>1. CASE \E v \in Levels : SetVolume(v)
        <4>1. PICK v \in Levels : SetVolume(v)  BY <3>1
        <4>2. 10 * Percent(v) \in 0..1000
          <5>1. Percent(v) \in 0..100  BY PercentFollows
          <5> QED  BY <5>1
        <4> QED  BY <1>0, <4>1, <4>2 DEF SetVolume
      <3>2. CASE \E on \in BOOLEAN : SetMute(on)  BY <1>0, <3>2 DEF SetMute
      <3>3. CASE UNCHANGED unitVars  BY <1>0, <3>3 DEF unitVars
      <3> QED
        BY <1>1, <3>1, <3>2, <3>3
        DEF Control, SetupConfig, SetupInterface, SetupSynthesised, Select, SetupUnit,
            SetupOther
    <2> QED  BY <2>2, <2>4, <2>5, <2>6 DEF DeviceTypeOK, Slots
  <1>2. CASE Elsewhere
    <2>1. UNCHANGED <<unitVars, ringVars, dumpVars>> /\ FlagType'
      BY <1>0, <1>2 DEF Elsewhere, Unplugged, Quietly
    <2> QED  BY <1>0, <2>1 DEF DeviceTypeOK, Slots, unitVars, ringVars, dumpVars
  <1>3. CASE Dump
    <2>1. UNCHANGED <<unitVars, ringVars, untold>>  BY <1>3 DEF Dump
    <2>2. UnitTypes' /\ RingTypes' /\ FlagType'
      BY <1>0, <2>1 DEF unitVars, ringVars
    <2>3. Other \in Entries /\ After(logTail) \in Slots /\ trace[logTail] \in Entries
      BY <1>0, RingArithmetic DEF Entries
    <2>4. Reading(told, copied) \in {Off, UAC2_CONFIG_ID}
      <3>1. \A e \in Entries : e.req = "config" =>
              \E c \in {Off, UAC2_CONFIG_ID, Bogus} :
                e.value = c /\ e.ok = (c \in {Off, UAC2_CONFIG_ID})
        BY DEF Entries, Configured, Interface, Synthesised, Other, Request
      <3>2. \A e \in Entries : (e.req = "config" /\ e.ok) => e.value \in {Off, UAC2_CONFIG_ID}
        BY <3>1
      <3>3. copied \in Entries /\ told \in {Off, UAC2_CONFIG_ID}  BY <1>0
      <3>4. CASE copied.req = "config" /\ copied.ok  BY <3>2, <3>3, <3>4 DEF Reading
      <3>5. CASE ~(copied.req = "config" /\ copied.ok)  BY <3>3, <3>5 DEF Reading
      <3> QED  BY <3>4, <3>5
    <2>5. DumpTypes'
      BY <1>0, <1>3, <2>3, <2>4 DEF Dump, DumpCopy, DumpRelease, DumpPrint
    <2> QED  BY <2>2, <2>5 DEF DeviceTypeOK, Slots
  <1> QED  BY <1>1, <1>2, <1>3 DEF DeviceNext

(* Volume and mute are set for all channels and told the codec in one step. *)
LEMMA UnitStep ==
  ASSUME DeviceTypeOK, UnitInv, DeviceNext
  PROVE  UnitInv'
  <1>1. CASE \E v \in Levels : SetVolume(v)
    <2>1. PICK v \in Levels : SetVolume(v)  BY <1>1
    <2>2. codec \in [gain : 0..1000, mute : BOOLEAN]  BY DEF DeviceTypeOK
    <2>3. codec'.gain = 10 * Percent(v) /\ codec'.mute = codec.mute
      BY <2>1, <2>2 DEF SetVolume
    <2>4. \A ch \in Channels : volume'[ch] = v /\ mute' = mute
      BY <2>1 DEF SetVolume
    <2> QED  BY <2>3, <2>4 DEF UnitInv
  <1>2. CASE \E on \in BOOLEAN : SetMute(on)
    <2>1. PICK on \in BOOLEAN : SetMute(on)  BY <1>2
    <2>2. codec \in [gain : 0..1000, mute : BOOLEAN]  BY DEF DeviceTypeOK
    <2>3. codec'.gain = codec.gain /\ codec'.mute = on  BY <2>1, <2>2 DEF SetMute
    <2>4. \A ch \in Channels : mute'[ch] = on /\ volume' = volume
      BY <2>1 DEF SetMute
    <2> QED  BY <2>3, <2>4 DEF UnitInv
  <1>3. CASE UNCHANGED unitVars
    <2>1. UNCHANGED <<mute, volume, codec>>  BY <1>3 DEF unitVars
    <2> QED  BY <2>1 DEF UnitInv
  <1> QED
    BY <1>1, <1>2, <1>3
    DEF DeviceNext, Control, SetupConfig, SetupInterface, SetupSynthesised, Select,
        SetupUnit, SetupOther, Elsewhere, Unplugged, Quietly, Dump

(* An interrupt records behind the entry the monitor has copied.            *)
LEMMA CopyStep ==
  ASSUME DeviceTypeOK, CopyInv, DeviceNext
  PROVE  CopyInv'
  <1>1. IsQueue(Queue) /\ logTail \in Slots  BY DEF DeviceTypeOK, IsQueue, Queue, Slots
  <1> DEFINE Kept(q) == logTail # logHead =>
                          q.head # logTail /\ q.slots[logTail] = trace[logTail]
  <1>2. ASSUME NEW q, IsQueue(q), Kept(q), NEW e \in Entries
        PROVE  Kept(Recorded(q, e)) /\ IsQueue(Recorded(q, e))
    <2>1. IsQueue(Recorded(q, e))  BY <1>1, <1>2, RecordedEntries
    <2>2. CASE After(q.head) = logTail  BY <1>2, <2>1, <2>2 DEF Recorded
    <2>3. CASE After(q.head) # logTail
      <3>1. /\ Recorded(q, e).head = After(q.head)
            /\ Recorded(q, e).slots = [q.slots EXCEPT ![q.head] = e]
        BY <2>3 DEF Recorded
      <3>2. logTail # logHead => q.head # logTail /\ q.slots[logTail] = trace[logTail]
        BY <1>2
      <3> QED  BY <1>1, <1>2, <2>1, <2>3, <3>1, <3>2 DEF IsQueue
    <2> QED  BY <2>2, <2>3
  <1>3. Kept(Queue)  BY DEF Queue
  <1> HIDE DEF Kept
  <1>4. CASE Control
    <2>1. \E q : Kept(q) /\ Setup(q)
      <3>1. CASE \E c \in {Off, UAC2_CONFIG_ID, Bogus} : SetupConfig(c)
        BY <1>1, <1>2, <1>3, <3>1, EntryTypes DEF SetupConfig
      <3>2. CASE SetupInterface  BY <1>1, <1>2, <1>3, <3>2, EntryTypes DEF SetupInterface
      <3>3. CASE SetupSynthesised
        BY <1>1, <1>2, <1>3, <3>3, EntryTypes DEF SetupSynthesised
      <3>4. CASE SetupUnit \/ SetupOther
        BY <1>1, <1>2, <1>3, <3>4, EntryTypes DEF SetupUnit, SetupOther
      <3> QED  BY <1>4, <3>1, <3>2, <3>3, <3>4 DEF Control
    <2>2. PICK q : Kept(q) /\ Setup(q)  BY <2>1
    <2>3. trace' = q.slots /\ logHead' = q.head /\ UNCHANGED <<logTail, dpc, copied>>
      BY <2>2 DEF Setup, TraceIs, dumpVars
    <2> QED  BY <2>2, <2>3 DEF CopyInv, Kept
  <1>5. CASE Elsewhere
    BY <1>5 DEF Elsewhere, Unplugged, Quietly, CopyInv, ringVars, dumpVars
  <1>6. CASE Dump
    BY <1>6 DEF Dump, DumpCopy, DumpRelease, DumpPrint, CopyInv, ringVars
  <1> QED  BY <1>4, <1>5, <1>6 DEF DeviceNext

(* The configuration changes with its entry in the trace, with the mark     *)
(* that the entry was dropped, or with the cable.                           *)
LEMMA TraceStep ==
  ASSUME TypeOK, DeviceTypeOK, CopyInv, TraceInv, DeviceNext
  PROVE  TraceInv'
  <1>1. IsQueue(Queue) /\ logTail \in Slots  BY DEF DeviceTypeOK, IsQueue, Queue, Slots
  <1>2. ASSUME NEW q, Setup(q)
        PROVE  Queue' = [slots |-> q.slots, head |-> q.head]
               /\ Reader' = Reader /\ logTail' = logTail
    BY <1>2 DEF Setup, TraceIs, dumpVars, Queue, Reader
  <1>3. ASSUME NEW q, Setup(q), ~untold => Tells(logTail, q, Reader, config),
               UNCHANGED <<config, untold>>
        PROVE  TraceInv'
    BY <1>2, <1>3, SameTells DEF TraceInv
  <1>4. CASE \E c \in {Off, UAC2_CONFIG_ID, Bogus} : SetupConfig(c)
    <2>1. PICK c \in {Off, UAC2_CONFIG_ID, Bogus} : SetupConfig(c)  BY <1>4
    <2> DEFINE q == Recorded(Queue, Configured(c))
    <2>2. Setup(q) /\ untold' = (After(logHead) = logTail)
      BY <2>1 DEF SetupConfig, LogFull
    <2>3. config' = Reading(Reader, Configured(c))
      <3>1. config \in {Off, UAC2_CONFIG_ID}  BY DEF TypeOK, StateTypes
      <3>2. \/ config' = IF c = UAC2_CONFIG_ID THEN c ELSE Off
            \/ c = config /\ config' = config
        BY <2>1 DEF SetupConfig, Choose, SetConfig, vars, hostVars
      <3>3. Reading(Reader, Configured(c)) = IF c = UAC2_CONFIG_ID THEN c ELSE Off
        BY DEF Reading, Configured, Request, Off, UAC2_CONFIG_ID, Bogus
      <3> QED  BY <3>1, <3>2, <3>3 DEF Off, UAC2_CONFIG_ID
    <2>4. ASSUME ~untold' PROVE Tells(logTail, q, Reader, config')
      <3>1. Queue.head = logHead  BY DEF Queue
      <3> QED  BY <1>1, <2>2, <2>3, <2>4, <3>1, EntryTypes, RecordedTells
    <2> HIDE DEF q
    <2> QED  BY <1>2, <2>2, <2>4, SameTells DEF TraceInv
  <1>5. ASSUME Select PROVE UNCHANGED <<config, untold>>
    BY <1>5 DEF Select, SetInterface, vars, hostVars
  <1>6. ASSUME NEW e \in Entries, e.req # "config"
        PROVE  ~untold => Tells(logTail, Recorded(Queue, e), Reader, config)
    BY <1>1, <1>6, RecordedTells DEF TraceInv
  <1>7. CASE SetupInterface
    BY <1>3, <1>5, <1>6, <1>7, EntryTypes DEF SetupInterface
  <1>8. CASE SetupSynthesised
    <2> DEFINE q == Recorded(Queue, Synthesised)
    <2>1. IsQueue(q) /\ (~untold => Tells(logTail, q, Reader, config))
      BY <1>1, <1>6, EntryTypes, RecordedEntries
    <2>2. Select /\ Setup(Recorded(q, Selected))  BY <1>8 DEF SetupSynthesised
    <2> HIDE DEF q
    <2>3. ~untold => Tells(logTail, Recorded(q, Selected), Reader, config)
      BY <1>1, <2>1, EntryTypes, RecordedTells
    <2> QED  BY <1>3, <1>5, <2>2, <2>3
  <1>9. CASE SetupUnit \/ SetupOther
    <2>1. Setup(Recorded(Queue, Other)) /\ UNCHANGED <<config, untold>>
      BY <1>9 DEF SetupUnit, SetupOther, vars, hostVars
    <2> QED  BY <1>3, <1>6, <2>1, EntryTypes
  <1>10. CASE Elsewhere
    <2>1. CASE Unplugged  BY <2>1 DEF Unplugged, TraceInv
    <2>2. CASE UNCHANGED <<config, untold, ringVars, dumpVars>>
      BY <2>2 DEF TraceInv, Queue, Reader, ringVars, dumpVars
    <2> QED
      BY <1>10, <2>1, <2>2
      DEF Elsewhere, Quietly, IsoOutComplete, FbInComplete, Main, Pump, hostVars
  <1>11. CASE Dump
    <2>1. UNCHANGED <<config, untold, trace, logHead>> /\ Queue' = Queue
      BY <1>11 DEF Dump, vars, hostVars, ringVars, Queue
    <2>2. CASE DumpCopy \/ DumpPrint
      BY <2>1, <2>2 DEF DumpCopy, DumpPrint, TraceInv, Reader
    <2>3. CASE DumpRelease
      <3>1. logTail # logHead /\ copied = trace[logTail] /\ Reader = told
        BY <2>3 DEF DumpRelease, CopyInv, Reader
      <3>2. logTail' = After(logTail) /\ Reader' = Reading(told, trace[logTail])
        BY <2>3, <3>1 DEF DumpRelease, Reader
      <3> QED  BY <1>1, <2>1, <3>1, <3>2, ReleasedTells DEF TraceInv
    <2> QED  BY <1>11, <2>2, <2>3 DEF Dump
  <1> QED
    BY <1>4, <1>7, <1>8, <1>9, <1>10, <1>11 DEF DeviceNext, Control

LEMMA DeviceInvariance == DeviceSpec => [](IInv /\ DeviceInv)
  <1>1. DeviceInit => IInv /\ DeviceInv  BY InitInv, DeviceInitInv, DeviceRefines
  <1>2. DeviceSpec => Spec  BY DeviceRefines, PTL DEF DeviceSpec, Spec
  <1>3. IInv /\ DeviceInv /\ [DeviceNext]_deviceVars => DeviceInv'
    <2>1. ASSUME IInv, DeviceInv, DeviceNext PROVE DeviceInv'
      BY <2>1, DeviceTypeStep, UnitStep, CopyStep, TraceStep DEF DeviceInv, IInv
    <2>2. ASSUME DeviceInv, UNCHANGED deviceVars PROVE DeviceInv'
      <3> USE <2>2 DEF deviceVars, vars, hostVars, unitVars, ringVars, dumpVars
      <3>1. DeviceTypeOK'  BY DEF DeviceInv, DeviceTypeOK
      <3>2. UnitInv'  BY DEF DeviceInv, UnitInv
      <3>3. CopyInv' /\ TraceInv'  BY DEF DeviceInv, CopyInv, TraceInv, Queue, Reader
      <3> QED  BY <3>1, <3>2, <3>3 DEF DeviceInv
    <2> QED  BY <2>1, <2>2
  <1> QED  BY <1>1, <1>2, <1>3, Invariance, PTL DEF DeviceSpec

--------------------------------------------------------------------------------
(* What is proved of UsbConfig holds of the whole device.                   *)
THEOREM DeviceSafe ==
  DeviceSpec => [](/\ TypeOK /\ OutQueuedOnce /\ BusyMeansQueued
                   /\ PatientHostServed /\ PatientHostFeedback)
  <1>1. DeviceSpec => Spec  BY DeviceRefines, PTL DEF DeviceSpec, Spec
  <1> QED
    BY <1>1, TypeCorrect, OutOnce, BusyQueued, PatientServed, PatientFeedback, PTL

(* Trace, feature unit and dump keep their types: in particular the head    *)
(* and the tail of the trace never leave it.                                *)
THEOREM DeviceTypeCorrect == DeviceSpec => []DeviceTypeOK
  <1>1. DeviceInv => DeviceTypeOK  BY DEF DeviceInv
  <1> QED  BY DeviceInvariance, <1>1, PTL

(* What a sequence of entries says is what its last configuration says.     *)
LEMMA LastRead ==
  ASSUME NEW n \in Nat, NEW es, DOMAIN es = 1..n, NEW c
  PROVE  /\ (\A j \in 1..n : es[j].req # "config") => ReadOn(c, es) = c
         /\ \A i \in 1..n :
              es[i].req = "config" /\ (\A j \in (i + 1)..n : es[j].req # "config")
                => ReadOn(c, es) = Reading(c, es[i])
  <1>1. ASSUME \A j \in 1..n : es[j].req # "config" PROVE ReadOn(c, es) = c
    BY <1>1 DEF ReadOn, Named
  <1>2. ASSUME NEW i \in 1..n, es[i].req = "config",
               \A j \in (i + 1)..n : es[j].req # "config"
        PROVE  ReadOn(c, es) = Reading(c, es[i])
    <2>1. i \in Named(es) /\ Named(es) \in SUBSET Int  BY <1>2 DEF Named
    <2>2. \A j \in Named(es) : j <= i  BY <1>2 DEF Named
    <2>3. Max(Named(es)) = i  BY <2>1, <2>2, MaxIs
    <2> QED  BY <2>1, <2>3 DEF ReadOn
  <1> QED  BY <1>1, <1>2

LEMMA WaitingEntries ==
  ASSUME DeviceTypeOK
  PROVE  /\ Waiting \in Seq(Entries) /\ Len(Waiting) = Count(logTail, Queue)
         /\ \A i \in 1..Len(Waiting) : Waiting[i] = Entry(logTail, Queue, i)
  <1> DEFINE n == Count(logTail, Queue)
  <1>1. IsQueue(Queue) /\ logTail \in Slots /\ LogSize \in Nat \ {0}
    BY RingArithmetic DEF DeviceTypeOK, IsQueue, Queue, Slots
  <1>2. n \in 0..(LogSize - 1)  BY <1>1, RecordedEntries, EntryTypes
  <1>3. Waiting = [i \in 1..n |-> Entry(logTail, Queue, i)]
    BY DEF Waiting, Count, Entry, Queue
  <1>4. ASSUME NEW i \in 1..n PROVE Entry(logTail, Queue, i) \in Entries
    <2>1. i \in 1..LogSize
      <3> HIDE DEF n
      <3> QED  BY <1>1, <1>2
    <2> DEFINE k == (logTail + i - 1) % LogSize
    <2>2. k = IF logTail + i <= LogSize THEN logTail + i - 1
              ELSE (logTail + i - 1) - LogSize
      BY <1>1, <2>1, RingArithmetic
    <2> HIDE DEF k
    <2>3. k \in Slots  BY <1>1, <2>1, <2>2 DEF Slots
    <2> QED  BY <1>1, <2>3 DEF Entry, IsQueue, k
  <1> HIDE DEF n
  <1>5. n \in Nat  BY <1>1, <1>2
  <1> QED  BY <1>3, <1>4, <1>5 DEF n

(* An entry copied and not yet released is still the first of the queue.    *)
LEMMA UnreadWaits ==
  ASSUME DeviceTypeOK, CopyInv, dpc # "print"
  PROVE  Unread = Waiting
  <1>1. CASE dpc = "idle"  BY <1>1 DEF Unread
  <1>2. CASE dpc = "release"
    <2>1. logTail # logHead /\ copied = trace[logTail]  BY <1>2 DEF CopyInv
    <2>2. /\ logTail \in Slots /\ logHead \in Slots /\ LogSize \in Nat \ {0}
          /\ copied \in Entries
      BY RingArithmetic DEF DeviceTypeOK, Slots
    <2>3. Waiting \in Seq(Entries) /\ Len(Waiting) >= 1
      <3>1. Count(logTail, Queue) = IF logHead >= logTail THEN logHead - logTail
                                    ELSE (logHead - logTail) + LogSize
        BY <2>2, RingArithmetic DEF Count, Queue
      <3>2. Count(logTail, Queue) >= 1  BY <2>1, <2>2, <3>1 DEF Slots
      <3> QED  BY <3>2, WaitingEntries
    <2>4. Waiting[1] = copied
      <3> DEFINE k == (logTail + 1 - 1) % LogSize
      <3>1. 1 \in 1..LogSize  BY <2>2
      <3>2. k = IF logTail + 1 <= LogSize THEN logTail + 1 - 1
                ELSE (logTail + 1 - 1) - LogSize
        BY <2>2, <3>1, RingArithmetic
      <3>3. k = logTail  BY <2>2, <3>2 DEF Slots
      <3>4. Waiting[1] = Entry(logTail, Queue, 1)  BY <2>3, WaitingEntries
      <3> QED  BY <2>1, <3>3, <3>4 DEF Entry, Queue
    <2> HIDE DEF Waiting
    <2>5. Unread = <<copied>> \o Tail(Waiting)  BY <1>2 DEF Unread
    <2> QED  BY <2>2, <2>3, <2>4, <2>5
  <1> QED  BY <1>1, <1>2 DEF DeviceTypeOK

(* Whatever is recorded between two steps of the monitor, and however often *)
(* the trace has wrapped, what is printed and still to be printed of it     *)
(* ends with the device's configuration, unless the change itself was       *)
(* dropped or came from the cable.                                          *)
THEOREM TraceTold == DeviceSpec => []TraceTellsConfig
  <1>1. ASSUME DeviceInv, ~untold PROVE ReadOn(told, Unread) = config
    <2>1. /\ Waiting \in Seq(Entries) /\ copied \in Entries
          /\ Len(Waiting) = Count(logTail, Queue)
          /\ \A i \in 1..Len(Waiting) : Waiting[i] = Entry(logTail, Queue, i)
      BY <1>1, WaitingEntries DEF DeviceInv, DeviceTypeOK
    <2> DEFINE n == Len(Waiting)
               e(i) == Waiting[i]
    <2>2. \/ config = Reader /\ \A i \in 1..n : e(i).req # "config"
          \/ \E i \in 1..n : /\ e(i).req = "config" /\ config = Reading(Reader, e(i))
                           /\ \A j \in (i + 1)..n : e(j).req # "config"
      <3>1. Tells(logTail, Queue, Reader, config)  BY <1>1 DEF DeviceInv, TraceInv
      <3> QED  BY <2>1, <3>1 DEF Tells, LastNames, Names
    <2>3. n \in Nat /\ DOMAIN Waiting = 1..n  BY <2>1
    <2>4. CASE dpc # "print"
      <3>1. Unread = Waiting /\ Reader = told
        BY <1>1, <2>4, UnreadWaits DEF DeviceInv, Reader
      <3> QED  BY <2>2, <2>3, <3>1, LastRead
    <2>5. CASE dpc = "print"
      <3> DEFINE es == <<copied>> \o Waiting
      <3>1. Unread = es /\ Reader = Reading(told, copied)
        BY <2>5 DEF Unread, Reader
      <3>2. /\ DOMAIN es = 1..(n + 1) /\ es[1] = copied
            /\ \A i \in 1..n : es[i + 1] = e(i)
        BY <2>1
      <3> HIDE DEF es, n, e
      <3>3. \A j \in 2..(n + 1) : j - 1 \in 1..n /\ es[j] = e(j - 1)
        BY <2>3, <3>2
      <3>4. CASE config = Reader /\ \A i \in 1..n : e(i).req # "config"
        <4>1. \A j \in 2..(n + 1) : es[j].req # "config"  BY <3>3, <3>4
        <4>2. CASE copied.req = "config"
          <5>1. 1 \in 1..(n + 1) /\ n + 1 \in Nat /\ 1 + 1 = 2  BY <2>3
          <5> QED  BY <3>1, <3>2, <3>4, <4>1, <4>2, <5>1, LastRead
        <4>3. CASE copied.req # "config"
          <5>1. \A j \in 1..(n + 1) : es[j].req # "config"
            BY <2>3, <3>2, <4>1, <4>3
          <5>2. config = told  BY <3>1, <3>4, <4>3 DEF Reading
          <5> QED  BY <2>3, <3>1, <3>2, <5>1, <5>2, LastRead, n + 1 \in Nat
        <4> QED  BY <4>2, <4>3
      <3>5. CASE \E i \in 1..n : /\ e(i).req = "config" /\ config = Reading(Reader, e(i))
                                /\ \A j \in (i + 1)..n : e(j).req # "config"
        <4>1. PICK i \in 1..n : /\ e(i).req = "config" /\ config = Reading(Reader, e(i))
                                /\ \A j \in (i + 1)..n : e(j).req # "config"
          BY <3>5
        <4>2. /\ i + 1 \in 1..(n + 1) /\ n + 1 \in Nat /\ es[i + 1] = e(i)
              /\ \A j \in ((i + 1) + 1)..(n + 1) : es[j].req # "config"
          <5>1. i + 1 \in 1..(n + 1) /\ n + 1 \in Nat /\ es[i + 1] = e(i)
            BY <2>3, <3>2
          <5>2. ASSUME NEW j \in ((i + 1) + 1)..(n + 1) PROVE es[j].req # "config"
            <6>1. j \in 2..(n + 1) /\ j - 1 \in (i + 1)..n  BY <2>3
            <6> QED  BY <3>3, <4>1, <6>1
          <5> QED  BY <5>1, <5>2
        <4>3. config = Reading(told, e(i))  BY <4>1 DEF Reading
        <4> QED  BY <3>1, <3>2, <4>1, <4>2, <4>3, LastRead
      <3> QED  BY <2>2, <3>4, <3>5 DEF n, e
    <2> QED  BY <2>4, <2>5
  <1>2. DeviceInv => TraceTellsConfig  BY <1>1 DEF TraceTellsConfig
  <1> QED  BY DeviceInvariance, <1>2, PTL

(* Gain and mute of the codec change with the host's settings and with      *)
(* nothing else, and in their direction.                                    *)
THEOREM CodecFollows == DeviceSpec => GainFollowsHost
  <1>1. ASSUME DeviceInv, DeviceInv', NEW ch \in Channels
        PROVE  /\ (codec'.gain > codec.gain) <=> (volume'[ch] > volume[ch])
               /\ (codec'.gain < codec.gain) <=> (volume'[ch] < volume[ch])
               /\ codec'.mute = mute'[ch]
    <2> DEFINE v == volume[ch]
               w == volume'[ch]
    <2>1. v \in Levels /\ w \in Levels  BY <1>1 DEF DeviceInv, DeviceTypeOK
    <2>2. codec.gain = 10 * Percent(v) /\ codec'.gain = 10 * Percent(w)
          /\ codec'.mute = mute'[ch]
      BY <1>1 DEF DeviceInv, UnitInv
    <2> HIDE DEF v, w
    <2>3. /\ v \in Int /\ w \in Int /\ Percent(v) \in 0..100 /\ Percent(w) \in 0..100
          /\ (Percent(v) < Percent(w)) <=> (v < w)
          /\ (Percent(w) < Percent(v)) <=> (w < v)
      BY <2>1, PercentFollows
    <2>4. (10 * Percent(w) > 10 * Percent(v)) <=> (w > v)  BY <2>3
    <2>5. (10 * Percent(w) < 10 * Percent(v)) <=> (w < v)  BY <2>3
    <2> QED  BY <2>2, <2>4, <2>5 DEF v, w
  <1>2. DeviceInv /\ DeviceInv' /\ [DeviceNext]_deviceVars
          => [\A ch \in Channels :
                /\ (codec'.gain > codec.gain) <=> (volume'[ch] > volume[ch])
                /\ (codec'.gain < codec.gain) <=> (volume'[ch] < volume[ch])
                /\ codec'.mute = mute'[ch]]_deviceVars
    BY <1>1
  <1> QED  BY DeviceInvariance, <1>2, PTL DEF DeviceSpec, GainFollowsHost

================================================================================
