--------------------------- MODULE Uac2RingBufProofs ---------------------------
(***************************************************************************)
(* Safety of the PCM ring for every capacity that is a multiple of 8, every*)
(* set of packet and read lengths and any number of bytes, proved from one *)
(* inductive invariant.                                                    *)
(***************************************************************************)
EXTENDS Uac2RingBuf, SequenceTheorems, TLAPS

Writing == wpc # "idle"
Copying == rpc \in {"copy", "wrap", "publish"}

(* Every index and every length in progress is a whole number of frames.    *)
AlignInv ==
  /\ head % 8 = 0 /\ tail % 8 = 0 /\ rhead % 8 = 0
  /\ wlen % 8 = 0 /\ rlen % 8 = 0
  /\ Level <= CAPACITY - 8

(* The counts agree with the indices; the unread bytes are in place.        *)
CountInv   == rst # "tail" => w = r + Level
ContentInv ==
  rst = "none" => \A i \in Index : i < Level => buf[Wrap(tail + i)] = r + i

(* Between the two stores of a reset the new stream starts at index 0 and   *)
(* stays below the stale tail, so that the stale tail only refuses bytes.   *)
ResetInv ==
  rst = "tail" =>
    /\ w = head /\ r = 0
    /\ tail = 0 \/ head < tail
    /\ \A i \in Index : i < head => buf[i] = i

(* The space the producer was granted is still free, and what it has copied *)
(* so far is the next part of the stream.                                   *)
ProdInv ==
  Writing =>
    /\ wlen > 0
    /\ Level + wlen <= CAPACITY - 8
    /\ wpc = "wrap" => wlen > CAPACITY - head
    /\ wpc \in {"wrap", "publish"} =>
         \A i \in Index :
           (i < wlen /\ (wpc = "publish" \/ head + i < CAPACITY))
             => buf[Wrap(head + i)] = w + i

(* The bytes the consumer asked for are still unread, and what it has       *)
(* copied so far is the next part of the stream; a flush in progress will   *)
(* move tail forward to an index head has had.                              *)
ConsInv ==
  /\ rpc # "idle" => rst = "none"
  /\ rpc = "flush" => rlen <= Level /\ rhead = Wrap(tail + rlen)
  /\ Copying =>
       /\ rlen > 0 /\ rlen <= Level
       /\ rpc = "wrap" => rlen > CAPACITY - tail
       /\ rpc \in {"wrap", "publish"} =>
            \A i \in Index :
              (i < rlen /\ (rpc = "publish" \/ tail + i < CAPACITY))
                => dest[i] = r + i

IInv ==
  /\ TypeOK /\ AlignInv /\ CountInv /\ ContentInv
  /\ ResetInv /\ ProdInv /\ ConsInv

--------------------------------------------------------------------------------
(* Arithmetic of the indices: distances, wrap-around and alignment.         *)
LEMMA DistType ==
  ASSUME NEW h \in Index, NEW t \in Index
  PROVE  AvailRead(h, t) \in Nat /\ AvailRead(h, t) < CAPACITY
  BY RingAssumption DEF RingAssumption, Index, AvailRead

LEMMA DistAligned ==
  ASSUME NEW h \in Index, NEW t \in Index, h % 8 = 0, t % 8 = 0
  PROVE  AvailRead(h, t) % 8 = 0 /\ AvailRead(h, t) <= CAPACITY - 8
  BY RingAssumption DEF RingAssumption, Index, AvailRead

LEMMA WrapType ==
  ASSUME NEW p \in Index, NEW n \in Nat, n <= CAPACITY
  PROVE  Wrap(p + n) \in Index
  BY RingAssumption DEF RingAssumption, Index, Wrap

LEMMA WrapAligned ==
  ASSUME NEW p \in Index, NEW n \in Nat, p % 8 = 0, n % 8 = 0
  PROVE  Wrap(p + n) % 8 = 0
  BY RingAssumption DEF RingAssumption, Index, Wrap

LEMMA DistPublish ==
  ASSUME NEW h \in Index, NEW t \in Index, NEW n \in Nat,
         AvailRead(h, t) + n < CAPACITY
  PROVE  AvailRead(Wrap(h + n), t) = AvailRead(h, t) + n
  BY RingAssumption DEF RingAssumption, Index, AvailRead, Wrap

LEMMA DistRelease ==
  ASSUME NEW h \in Index, NEW t \in Index, NEW n \in Nat,
         n <= AvailRead(h, t)
  PROVE  AvailRead(h, Wrap(t + n)) = AvailRead(h, t) - n
  BY RingAssumption DEF RingAssumption, Index, AvailRead, Wrap

LEMMA WrapSum ==
  ASSUME NEW p \in Index, NEW m \in Nat, NEW n \in Nat, m + n < CAPACITY
  PROVE  Wrap(Wrap(p + m) + n) = Wrap(p + (m + n))
  BY RingAssumption DEF RingAssumption, Index, Wrap

LEMMA HeadFromTail ==
  ASSUME NEW h \in Index, NEW t \in Index
  PROVE  h = Wrap(t + AvailRead(h, t))
  BY RingAssumption DEF RingAssumption, Index, Wrap, AvailRead

LEMMA WrapInjective ==
  ASSUME NEW p \in Index, NEW m \in Nat, NEW n \in Nat, m < CAPACITY, n < CAPACITY,
         Wrap(p + m) = Wrap(p + n)
  PROVE  m = n
  BY RingAssumption DEF RingAssumption, Index, Wrap

(* What a caller is granted: all it asks, or the whole frames there are.    *)
LEMMA GrantedFrames ==
  ASSUME NEW n \in Nat, NEW avail \in Nat, n % 8 = 0
  PROVE  /\ Granted(n, avail) \in Nat
         /\ Granted(n, avail) % 8 = 0
         /\ Granted(n, avail) <= avail
  <1>1. /\ avail % 8 \in 0..7 /\ avail - (avail % 8) \in Nat
        /\ (avail - (avail % 8)) % 8 = 0
    OBVIOUS
  <1> QED
    BY <1>1 DEF Granted, Aligned

--------------------------------------------------------------------------------
(* The ring starts empty, with every part of the invariant true of it.      *)
LEMMA InitIInv == Init => IInv
  <1> SUFFICES ASSUME Init PROVE IInv
    OBVIOUS
  <1> USE RingAssumption DEF RingAssumption, Init, Index, Level, AvailRead
  <1>1. out \in Seq(Nat \cup {Silence})
    OBVIOUS
  <1>2. TypeOK
    BY <1>1 DEF TypeOK
  <1>3. AlignInv /\ CountInv
    BY DEF AlignInv, CountInv
  <1>4. ContentInv /\ ResetInv
    BY DEF ContentInv, ResetInv
  <1>5. ProdInv /\ ConsInv
    BY DEF ProdInv, ConsInv, Writing, Copying
  <1> QED
    BY <1>2, <1>3, <1>4, <1>5 DEF IInv

(* What the producer's four steps preserve.                                 *)
LEMMA WriteBeginIInv ==
  ASSUME IInv, NEW n \in WriteLens, WriteBegin(n)
  PROVE  IInv'
  <1> DEFINE k == Granted(n, AvailWrite(head, tail))
  <1> USE RingAssumption DEF IInv
  <1>1. n \in Nat /\ n % 8 = 0 /\ Level \in Nat /\ Level % 8 = 0
    BY DistType, DistAligned DEF RingAssumption, TypeOK, AlignInv, Level
  <1>2. k \in Nat /\ k % 8 = 0 /\ Level + k <= CAPACITY - 8
    <2>1. /\ CAPACITY \in Nat /\ CAPACITY % 8 = 0 /\ Level <= CAPACITY - 8
          /\ AvailWrite(head, tail) = (CAPACITY - 1) - Level
      BY DEF RingAssumption, AlignInv, AvailWrite, Level
    <2>2. AvailWrite(head, tail) \in Nat
      BY <1>1, <2>1
    <2>3. k \in Nat /\ k % 8 = 0 /\ k <= AvailWrite(head, tail)
      BY <1>1, <2>2, GrantedFrames
    <2> HIDE DEF k
    <2> QED
      BY <1>1, <2>1, <2>3
  <1> HIDE DEF k
  <1>3. /\ k > 0 /\ wpc = "idle"
        /\ wpc' = "copy" /\ wlen' = k
        /\ UNCHANGED <<buf, head, tail, w, r, cons, dest, out, rst>>
    BY DEF WriteBegin, k
  <1>4. TypeOK'
    <2>1. k \in 0..CAPACITY - 8
      BY <1>1, <1>2 DEF RingAssumption
    <2> QED
      BY <1>3, <2>1 DEF TypeOK, cons
  <1>5. AlignInv' /\ CountInv' /\ ContentInv' /\ ResetInv' /\ ConsInv'
    BY <1>2, <1>3 DEF AlignInv, CountInv, ContentInv, ResetInv, ConsInv, Copying, Level, cons
  <1>6. ProdInv'
    BY <1>2, <1>3 DEF ProdInv, Writing, Level
  <1> QED
    BY <1>4, <1>5, <1>6

(* A copy of the producer writes outside the unread bytes.                  *)
LEMMA ClaimedIsFree ==
  ASSUME IInv, Writing, NEW i \in Index, NEW j \in Index, i < Level, j < wlen
  PROVE  Wrap(tail + i) # Wrap(head + j)
  <1>1. /\ head \in Index /\ tail \in Index /\ Level \in Nat /\ wlen \in Nat
        /\ Level + wlen <= CAPACITY - 8 /\ CAPACITY \in Nat
    BY RingAssumption, DistType DEF RingAssumption, IInv, TypeOK, ProdInv, Level
  <1>2. i \in Nat /\ j \in Nat
    BY DEF Index
  <1>3. Wrap(head + j) = Wrap(tail + (Level + j))
    BY <1>1, <1>2, HeadFromTail, WrapSum DEF Level
  <1> QED
    BY <1>1, <1>2, <1>3, WrapInjective

LEMMA WriteCopyIInv ==
  ASSUME IInv, WriteCopy
  PROVE  IInv'
  <1> USE RingAssumption DEF RingAssumption, IInv, prod, cons
  <1>1. /\ Writing /\ UNCHANGED <<head, tail, wlen, w, r, cons, dest, out, rst>>
        /\ \A i \in Index :
             buf'[i] = IF head <= i /\ i < head + wlen THEN w + (i - head) ELSE buf[i]
    BY DEF WriteCopy, Writing
  <1>2. TypeOK'
    BY DEF WriteCopy, TypeOK, Index
  <1>3. AlignInv' /\ CountInv'
    BY <1>1 DEF TypeOK, AlignInv, CountInv, Level
  <1>4. ContentInv'
    <2> SUFFICES ASSUME rst = "none", NEW i \in Index, i < Level
                 PROVE  buf'[Wrap(tail + i)] = r + i
      BY <1>1 DEF ContentInv, Level
    <2> DEFINE p == Wrap(tail + i)
    <2>1. buf[p] = r + i
      BY DEF ContentInv
    <2>2. p \in Index /\ head \in Index /\ wlen \in Nat /\ wlen <= CAPACITY
      BY WrapType DEF TypeOK, Index
    <2>3. ~(head <= p /\ p < head + wlen)
      <3> SUFFICES ASSUME head <= p, p < head + wlen PROVE FALSE
        OBVIOUS
      <3>1. p - head \in Index /\ p - head < wlen /\ Wrap(head + (p - head)) = p
        BY <2>2 DEF Index, Wrap
      <3> HIDE DEF p
      <3> QED
        BY <3>1, <1>1, ClaimedIsFree DEF p
    <2> QED
      BY <1>1, <2>1, <2>2, <2>3
  <1>5. ResetInv'
    <2> SUFFICES ASSUME rst = "tail", NEW i \in Index, i < head
                 PROVE  buf'[i] = i
      BY <1>1 DEF ResetInv
    <2> QED
      BY <1>1 DEF TypeOK, ResetInv, Index
  <1>6. ProdInv'
    <2>1. /\ wlen > 0 /\ Level + wlen <= CAPACITY - 8
          /\ wpc' \in {"wrap", "publish"}
          /\ wpc' = "wrap" <=> wlen > CAPACITY - head
      BY <1>1 DEF ProdInv, WriteCopy, TypeOK, Index
    <2>2. ASSUME NEW i \in Index, i < wlen, head + i < CAPACITY
          PROVE  buf'[Wrap(head + i)] = w + i
      <3>1. Wrap(head + i) = head + i /\ head + i \in Index /\ (head + i) - head = i
        BY <2>2 DEF TypeOK, Index, Wrap
      <3>2. head <= head + i /\ head + i < head + wlen
        BY <2>2 DEF TypeOK, Index
      <3> QED
        BY <1>1, <3>1, <3>2
    <2>3. wpc' = "publish" => \A i \in Index : i < wlen => head + i < CAPACITY
      BY <2>1 DEF TypeOK, Index
    <2> QED
      BY <1>1, <2>1, <2>2, <2>3 DEF ProdInv, Level
  <1>7. ConsInv'
    BY <1>1 DEF ConsInv, Copying, Level
  <1> QED
    BY <1>2, <1>3, <1>4, <1>5, <1>6, <1>7

LEMMA WriteCopyWrappedIInv ==
  ASSUME IInv, WriteCopyWrapped
  PROVE  IInv'
  <1> USE RingAssumption DEF RingAssumption, IInv, prod, cons
  <1> DEFINE first == CAPACITY - head
  <1>1. /\ Writing /\ wpc = "wrap" /\ wpc' = "publish"
        /\ UNCHANGED <<head, tail, wlen, w, r, cons, dest, out, rst>>
        /\ \A i \in Index : buf'[i] = IF i < wlen - first THEN w + first + i ELSE buf[i]
    BY DEF WriteCopyWrapped, Writing
  <1>2. /\ head \in Nat /\ head < CAPACITY /\ first \in Nat /\ wlen > first
        /\ wlen \in Nat /\ wlen <= CAPACITY - 8
    BY <1>1 DEF ProdInv, TypeOK, Index
  <1>3. TypeOK'
    BY <1>2 DEF WriteCopyWrapped, TypeOK, Index
  <1>4. AlignInv' /\ CountInv'
    BY <1>1 DEF TypeOK, AlignInv, CountInv, Level
  <1>5. \A p \in Index : p < wlen - first =>
           first + p \in Index /\ first + p < wlen /\ Wrap(head + (first + p)) = p
    BY <1>2 DEF Wrap, Index
  <1>6. ContentInv'
    <2> SUFFICES ASSUME rst = "none", NEW i \in Index, i < Level
                 PROVE  buf'[Wrap(tail + i)] = r + i
      BY <1>1 DEF ContentInv, Level
    <2> DEFINE p == Wrap(tail + i)
    <2>1. buf[p] = r + i
      BY DEF ContentInv
    <2>2. p \in Index
      BY WrapType DEF TypeOK, Index
    <2>3. ~(p < wlen - first)
      <3> HIDE DEF p, first
      <3> QED
        BY <1>1, <1>5, <2>2, ClaimedIsFree DEF p
    <2> QED
      BY <1>1, <2>1, <2>2, <2>3
  <1>7. ResetInv'
    <2> SUFFICES ASSUME rst = "tail" PROVE FALSE
      BY <1>1 DEF ResetInv
    <2> QED
      BY <1>1, <1>2 DEF ResetInv, ProdInv, Level, AvailRead, TypeOK, Index
  <1>8. ProdInv'
    <2> SUFFICES ASSUME NEW i \in Index, i < wlen
                 PROVE  buf'[Wrap(head + i)] = w + i
      BY <1>1 DEF ProdInv, Level, Writing
    <2>1. CASE i < first
      <3>1. Wrap(head + i) = head + i /\ head + i \in Index
        BY <2>1, <1>2 DEF Wrap, Index
      <3>2. ~(head + i < wlen - first)
        BY <1>1, <1>2 DEF ProdInv, Level, AvailRead, TypeOK, Index
      <3>3. buf[Wrap(head + i)] = w + i
        BY <1>1, <2>1, <1>2 DEF ProdInv, Index
      <3> QED
        BY <1>1, <3>1, <3>2, <3>3
    <2>2. CASE i >= first
      <3>1. /\ Wrap(head + i) = i - first /\ i - first \in Index
            /\ i - first < wlen - first /\ w + first + (i - first) = w + i
        BY <2>2, <1>2 DEF Wrap, Index, TypeOK
      <3> QED
        BY <1>1, <3>1
    <2> QED
      BY <2>1, <2>2, <1>2 DEF Index
  <1>9. ConsInv'
    BY <1>1 DEF ConsInv, Copying, Level
  <1> QED
    BY <1>3, <1>4, <1>6, <1>7, <1>8, <1>9

LEMMA WritePublishIInv ==
  ASSUME IInv, WritePublish
  PROVE  IInv'
  <1> USE DEF IInv
  <1>1. /\ Writing /\ wpc = "publish" /\ wpc' = "idle" /\ wlen' = 0
        /\ head' = Wrap(head + wlen) /\ w' = w + wlen
        /\ UNCHANGED <<buf, tail, r, cons, dest, out, rst>>
    BY DEF WritePublish, Writing
  <1>2. /\ head \in Index /\ tail \in Index /\ Level \in Nat /\ wlen \in Nat
        /\ Level + wlen <= CAPACITY - 8 /\ CAPACITY \in Nat /\ w \in Nat /\ r \in Nat
        /\ wlen <= CAPACITY
    BY <1>1, RingAssumption, DistType DEF RingAssumption, TypeOK, ProdInv, Level
  <1>3. /\ head' \in Index /\ head' % 8 = 0
        /\ Level' = Level + wlen
    <2>1. AvailRead(head, tail) + wlen < CAPACITY
      BY <1>2 DEF Level
    <2> QED
      BY <1>1, <1>2, <2>1, WrapType, WrapAligned, DistPublish DEF AlignInv, Level
  <1>4. TypeOK'
    BY <1>1, <1>2, <1>3, RingAssumption DEF RingAssumption, TypeOK, cons
  <1>5. AlignInv'
    BY <1>1, <1>2, <1>3 DEF AlignInv, cons
  <1>6. CountInv'
    BY <1>1, <1>2, <1>3 DEF CountInv
  <1>7. ContentInv'
    <2> SUFFICES ASSUME rst = "none", NEW i \in Index, i < Level + wlen
                 PROVE  buf[Wrap(tail + i)] = r + i
      BY <1>1, <1>3 DEF ContentInv
    <2>1. CASE i < Level
      BY <2>1 DEF ContentInv
    <2>2. CASE i >= Level
      <3>1. i - Level \in Index /\ i - Level < wlen /\ i - Level \in Nat
        BY <2>2, <1>2 DEF Index
      <3>2. buf[Wrap(head + (i - Level))] = w + (i - Level)
        BY <1>1, <3>1 DEF ProdInv
      <3>3. Wrap(head + (i - Level)) = Wrap(tail + (Level + (i - Level)))
        BY <1>2, <3>1, HeadFromTail, WrapSum DEF Level
      <3>4. Level + (i - Level) = i /\ w + (i - Level) = r + i
        BY <1>2 DEF CountInv, Index
      <3> QED
        BY <3>2, <3>3, <3>4
    <2> QED
      BY <2>1, <2>2, <1>2 DEF Index
  <1>8. ResetInv'
    <2> SUFFICES ASSUME rst = "tail" PROVE ResetInv'
      BY <1>1 DEF ResetInv
    <2>1. /\ head + wlen < CAPACITY
          /\ tail = 0 \/ head + wlen < tail
      BY <1>2 DEF ResetInv, Level, AvailRead, Index
    <2>2. head' = head + wlen
      BY <1>1, <1>2, <2>1 DEF Wrap, Index
    <2>3. \A i \in Index : i < head + wlen => buf[i] = i
      <3> SUFFICES ASSUME NEW i \in Index, i < head + wlen PROVE buf[i] = i
        OBVIOUS
      <3>1. CASE i < head
        BY <3>1 DEF ResetInv
      <3>2. CASE i >= head
        <4>1. /\ i - head \in Index /\ i - head < wlen
              /\ Wrap(head + (i - head)) = i /\ w + (i - head) = i
          BY <3>2, <1>2 DEF Index, Wrap, ResetInv
        <4>2. buf[Wrap(head + (i - head))] = w + (i - head)
          BY <1>1, <4>1 DEF ProdInv
        <4> QED
          BY <4>1, <4>2
      <3> QED
        BY <3>1, <3>2, <1>2 DEF Index
    <2> QED
      BY <1>1, <1>2, <2>1, <2>2, <2>3 DEF ResetInv
  <1>9. ProdInv' /\ ConsInv'
    BY <1>1, <1>2, <1>3 DEF ProdInv, ConsInv, Writing, Copying, TypeOK, cons
  <1> QED
    BY <1>4, <1>5, <1>6, <1>7, <1>8, <1>9

(* What the consumer's six steps preserve.                                  *)
LEMMA ReadBeginIInv ==
  ASSUME IInv, NEW n \in ReadLens, ReadBegin(n)
  PROVE  IInv'
  <1> DEFINE k == Granted(n, AvailRead(head, tail))
  <1> USE RingAssumption DEF IInv
  <1>1. n \in Nat /\ n % 8 = 0 /\ Level \in Nat /\ Level % 8 = 0
    BY DistType, DistAligned DEF RingAssumption, TypeOK, AlignInv, Level
  <1>2. k \in Nat /\ k % 8 = 0 /\ k <= Level
    BY <1>1, GrantedFrames DEF Level
  <1> HIDE DEF k
  <1>3. /\ k > 0 /\ rst = "none"
        /\ rpc' = "copy" /\ rlen' = k
        /\ UNCHANGED <<rhead, buf, head, tail, w, r, prod, dest, out, rst>>
    BY DEF ReadBegin, k
  <1>4. TypeOK'
    <2>1. k \in 0..CAPACITY - 8
      BY <1>1, <1>2 DEF RingAssumption, AlignInv
    <2> QED
      BY <1>3, <2>1 DEF TypeOK, prod
  <1>5. AlignInv' /\ CountInv' /\ ContentInv' /\ ResetInv' /\ ProdInv'
    BY <1>2, <1>3 DEF AlignInv, CountInv, ContentInv, ResetInv, ProdInv, Writing, Level, prod
  <1>6. ConsInv'
    BY <1>2, <1>3 DEF ConsInv, Copying, Level
  <1> QED
    BY <1>4, <1>5, <1>6

LEMMA ReadCopyIInv ==
  ASSUME IInv, ReadCopy
  PROVE  IInv'
  <1> USE RingAssumption DEF RingAssumption, IInv, prod, cons
  <1> DEFINE first == CAPACITY - tail
  <1>1. /\ rpc = "copy"
        /\ rpc' = IF rlen <= first THEN "publish" ELSE "wrap"
        /\ UNCHANGED <<rlen, rhead, buf, head, tail, w, r, prod, out, rst>>
        /\ \A i \in Index :
             dest'[i] = IF i < rlen /\ i < first THEN buf[tail + i] ELSE dest[i]
    BY DEF ReadCopy
  <1>2. TypeOK'
    BY DEF ReadCopy, TypeOK, Index
  <1>3. AlignInv' /\ CountInv' /\ ContentInv' /\ ResetInv' /\ ProdInv'
    BY <1>1 DEF AlignInv, CountInv, ContentInv, ResetInv, ProdInv, Writing, Level
  <1>4. ConsInv'
    <2>1. /\ rst = "none" /\ rlen > 0 /\ rlen <= Level
          /\ rlen \in Nat /\ Level \in Nat /\ tail \in Index
      BY <1>1, DistType DEF ConsInv, Copying, TypeOK, Level
    <2>2. ASSUME NEW i \in Index, i < rlen, tail + i < CAPACITY
          PROVE  dest'[i] = r + i
      <3>1. i < first /\ Wrap(tail + i) = tail + i /\ i < Level
        BY <2>1, <2>2 DEF Wrap, Index
      <3>2. buf[Wrap(tail + i)] = r + i
        BY <2>1, <3>1 DEF ContentInv
      <3> QED
        BY <1>1, <2>2, <3>1, <3>2
    <2>3. /\ rpc' = "publish" => rlen <= first
          /\ rpc' = "wrap" => rlen > first
          /\ rpc' \in {"publish", "wrap"}
      BY <1>1, <2>1 DEF Index
    <2>4. rpc' = "publish" => \A i \in Index : i < rlen => tail + i < CAPACITY
      BY <2>1, <2>3 DEF Index
    <2> QED
      BY <1>1, <2>1, <2>2, <2>3, <2>4 DEF ConsInv, Copying, Level
  <1> QED
    BY <1>2, <1>3, <1>4

LEMMA ReadCopyWrappedIInv ==
  ASSUME IInv, ReadCopyWrapped
  PROVE  IInv'
  <1> USE RingAssumption DEF RingAssumption, IInv, prod, cons
  <1> DEFINE first == CAPACITY - tail
  <1>1. /\ rpc = "wrap" /\ rpc' = "publish"
        /\ UNCHANGED <<rlen, rhead, buf, head, tail, w, r, prod, out, rst>>
        /\ \A i \in Index :
             dest'[i] = IF first <= i /\ i < rlen THEN buf[i - first] ELSE dest[i]
    BY DEF ReadCopyWrapped
  <1>2. TypeOK'
    BY DEF ReadCopyWrapped, TypeOK, Index
  <1>3. AlignInv' /\ CountInv' /\ ContentInv' /\ ResetInv' /\ ProdInv'
    BY <1>1 DEF AlignInv, CountInv, ContentInv, ResetInv, ProdInv, Writing, Level
  <1>4. ConsInv'
    <2>1. /\ rst = "none" /\ rlen > 0 /\ rlen <= Level
          /\ rlen \in Nat /\ Level \in Nat /\ tail \in Index
      BY <1>1, DistType DEF ConsInv, Copying, TypeOK, Level
    <2>2. ASSUME NEW i \in Index, i < rlen
          PROVE  dest'[i] = r + i
      <3>1. CASE tail + i < CAPACITY
        <4>1. dest[i] = r + i
          BY <1>1, <2>2, <3>1 DEF ConsInv, Copying
        <4>2. ~(first <= i)
          BY <3>1, <2>1 DEF Index
        <4> QED
          BY <1>1, <4>1, <4>2
      <3>2. CASE tail + i >= CAPACITY
        <4>1. first <= i /\ Wrap(tail + i) = i - first /\ i < Level
          BY <3>2, <2>1, <2>2 DEF Wrap, Index
        <4>2. buf[Wrap(tail + i)] = r + i
          BY <2>1, <4>1 DEF ContentInv
        <4> QED
          BY <1>1, <2>2, <4>1, <4>2
      <3> QED
        BY <3>1, <3>2, <2>1 DEF Index
    <2> QED
      BY <1>1, <2>1, <2>2 DEF ConsInv, Copying, Level
  <1> QED
    BY <1>2, <1>3, <1>4

(* Releasing the first rlen unread bytes, as a read and a flush do.         *)
LEMMA ReleaseIInv ==
  ASSUME IInv, rpc # "idle", rlen <= Level,
         tail' = Wrap(tail + rlen), r' = r + rlen,
         rpc' = "idle" /\ rlen' = 0 /\ rhead' = 0,
         UNCHANGED <<buf, head, w, prod, rst>>,
         dest' \in [Index -> Nat \cup {Silence}],
         out' \in Seq(Nat \cup {Silence})
  PROVE  IInv'
  <1> USE DEF IInv, prod
  <1>1. /\ head \in Index /\ tail \in Index /\ Level \in Nat /\ rlen \in Nat
        /\ rlen <= CAPACITY /\ CAPACITY \in Nat /\ w \in Nat /\ r \in Nat
        /\ Level <= CAPACITY - 8 /\ rst = "none" /\ CAPACITY - 8 \in Nat
    BY RingAssumption, DistType DEF RingAssumption, TypeOK, AlignInv, ConsInv, Level
  <1>2. /\ tail' \in Index /\ tail' % 8 = 0
        /\ Level' = Level - rlen
    BY <1>1, WrapType, WrapAligned, DistRelease DEF AlignInv, Level
  <1>3. TypeOK'
    BY <1>1, <1>2 DEF TypeOK, Index
  <1>4. AlignInv'
    BY <1>1, <1>2 DEF AlignInv
  <1>5. CountInv'
    BY <1>1, <1>2 DEF CountInv
  <1>6. ContentInv'
    <2> SUFFICES ASSUME NEW i \in Index, i < Level - rlen
                 PROVE  buf[Wrap(Wrap(tail + rlen) + i)] = (r + rlen) + i
      BY <1>2 DEF ContentInv
    <2>1. i \in Nat /\ rlen + i \in Index /\ rlen + i < Level
      BY <1>1 DEF Index
    <2>2. Wrap(Wrap(tail + rlen) + i) = Wrap(tail + (rlen + i))
      <3>1. rlen + i < CAPACITY
        BY <1>1, <2>1
      <3> QED
        BY <1>1, <2>1, <3>1, WrapSum
    <2>3. buf[Wrap(tail + (rlen + i))] = r + (rlen + i)
      BY <1>1, <2>1 DEF ContentInv
    <2> QED
      BY <1>1, <2>1, <2>2, <2>3
  <1>7. ResetInv'
    BY <1>1 DEF ResetInv
  <1>8. ProdInv'
    BY <1>1, <1>2 DEF TypeOK, ProdInv, Writing
  <1>9. ConsInv'
    BY DEF ConsInv, Copying
  <1> QED
    BY <1>3, <1>4, <1>5, <1>6, <1>7, <1>8, <1>9

LEMMA ReadPublishIInv ==
  ASSUME IInv, ReadPublish
  PROVE  IInv'
  <1>1. rlen <= Level /\ rpc # "idle"
    BY DEF IInv, ConsInv, Copying, ReadPublish
  <1>2. out' \in Seq(Nat \cup {Silence})
    <2> DEFINE e(i) == dest[i - 1]
               s == [i \in 1..rlen |-> e(i)]
    <2>1. rlen \in Nat
      BY RingAssumption DEF RingAssumption, IInv, TypeOK
    <2>2. \A i \in 1..rlen : e(i) \in Nat \cup {Silence}
      BY RingAssumption DEF RingAssumption, IInv, TypeOK, Index
    <2> HIDE DEF e
    <2>3. s \in [1..rlen -> Nat \cup {Silence}]
      BY <2>2
    <2>4. s \in Seq(Nat \cup {Silence})
      BY <2>1, <2>3, SeqDef
    <2> QED
      BY <2>4 DEF ReadPublish, e
  <1>3. dest' \in [Index -> Nat \cup {Silence}]
    BY DEF ReadPublish
  <1> QED
    BY <1>1, <1>2, <1>3, ReleaseIInv DEF ReadPublish

LEMMA FlushLoadIInv ==
  ASSUME IInv, FlushLoad
  PROVE  IInv'
  <1> USE DEF IInv, prod
  <1>1. /\ rpc' = "flush" /\ rlen' = Level /\ rhead' = head /\ rst = "none"
        /\ UNCHANGED <<buf, head, tail, w, r, prod, dest, out, rst>>
    BY DEF FlushLoad, Level
  <1>2. Level \in Nat /\ Level % 8 = 0 /\ head = Wrap(tail + Level)
    BY DistType, DistAligned, HeadFromTail DEF TypeOK, AlignInv, Level
  <1>3. TypeOK'
    BY <1>1, <1>2, RingAssumption DEF RingAssumption, TypeOK, AlignInv
  <1>4. AlignInv' /\ CountInv' /\ ContentInv' /\ ResetInv' /\ ProdInv'
    BY <1>1, <1>2 DEF AlignInv, CountInv, ContentInv, ResetInv, ProdInv, Writing, Level
  <1>5. ConsInv'
    BY <1>1, <1>2 DEF ConsInv, Copying, Level
  <1> QED
    BY <1>3, <1>4, <1>5

LEMMA FlushStoreIInv ==
  ASSUME IInv, FlushStore
  PROVE  IInv'
  <1>1. rlen <= Level /\ rhead = Wrap(tail + rlen) /\ rpc # "idle"
    BY DEF IInv, ConsInv, FlushStore
  <1> QED
    BY <1>1, ReleaseIInv DEF FlushStore, IInv, TypeOK

(* What the three stores of a reset preserve.                               *)
LEMMA ResetIInv ==
  ASSUME IInv, Reset
  PROVE  IInv'
  <1> USE RingAssumption DEF RingAssumption, IInv, prod, cons
  <1>1. CASE ResetBuffer
    <2>1. TypeOK' /\ AlignInv' /\ CountInv'
      BY <1>1 DEF ResetBuffer, TypeOK, AlignInv, CountInv, Level
    <2>2. ContentInv' /\ ResetInv' /\ ProdInv' /\ ConsInv'
      BY <1>1 DEF ResetBuffer, ContentInv, ResetInv, ProdInv, ConsInv, Writing, Copying
    <2> QED
      BY <2>1, <2>2
  <1>2. CASE ResetHead
    <2>1. TypeOK' /\ AlignInv' /\ CountInv'
      <3>1. head' \in Index /\ head' % 8 = 0 /\ tail \in Index /\ tail % 8 = 0
        BY <1>2 DEF ResetHead, TypeOK, AlignInv, Index
      <3> QED
        BY <1>2, <3>1, DistAligned DEF ResetHead, TypeOK, AlignInv, CountInv, Level
    <2>2. ContentInv' /\ ResetInv' /\ ProdInv' /\ ConsInv'
      BY <1>2 DEF ResetHead, TypeOK, ContentInv, ResetInv, ProdInv, ConsInv, Writing, Copying, Index
    <2> QED
      BY <2>1, <2>2
  <1>3. CASE ResetTail
    <2>1. TypeOK' /\ AlignInv' /\ CountInv'
      BY <1>3 DEF ResetTail, TypeOK, AlignInv, CountInv, ResetInv, Level, AvailRead, Index
    <2>2. ContentInv' /\ ResetInv' /\ ProdInv' /\ ConsInv'
      BY <1>3 DEF ResetTail, TypeOK, ContentInv, ResetInv, ProdInv, ConsInv, Writing, Copying,
                  Level, AvailRead, Wrap, Index
    <2> QED
      BY <2>1, <2>2
  <1> QED
    BY <1>1, <1>2, <1>3 DEF Reset

LEMMA UnchangedIInv ==
  ASSUME IInv, UNCHANGED vars
  PROVE  IInv'
  BY DEF IInv, TypeOK, AlignInv, CountInv, ContentInv, ResetInv, ProdInv, ConsInv,
         Writing, Copying, Level, vars, prod, cons

(* The invariant holds in every reachable state.                            *)
LEMMA Invariance == Spec => []IInv
  <1>1. IInv /\ [Next]_vars => IInv'
    <2> SUFFICES ASSUME IInv, [Next]_vars PROVE IInv'
      OBVIOUS
    <2>1. CASE Producer
      BY <2>1, WriteBeginIInv, WriteCopyIInv, WriteCopyWrappedIInv, WritePublishIInv
         DEF Producer
    <2>2. CASE Consumer
      BY <2>2, ReadBeginIInv, ReadCopyIInv, ReadCopyWrappedIInv, ReadPublishIInv,
         FlushLoadIInv, FlushStoreIInv DEF Consumer
    <2>3. CASE Reset
      BY <2>3, ResetIInv
    <2>4. CASE UNCHANGED vars
      BY <2>4, UnchangedIInv
    <2> QED
      BY <2>1, <2>2, <2>3, <2>4 DEF Next
  <1> QED
    BY InitIInv, <1>1, PTL DEF Spec

--------------------------------------------------------------------------------
(* Both indices stay in the array, and every variable in its type, for any  *)
(* traffic (uac2_ringbuf.h, all operations).                                *)
THEOREM TypeCorrect == Spec => []TypeOK
  BY Invariance, PTL DEF IInv

(* Frame alignment and the distinction of full from empty survive every     *)
(* interleaving of packets, reads, flushes and resets.                      *)
THEOREM Alignment == Spec => []FramesAligned
  <1>1. IInv => FramesAligned
    BY DEF IInv, AlignInv, FramesAligned
  <1> QED
    BY Invariance, <1>1, PTL

(* The unread bytes are exactly the accepted and not yet consumed part of   *)
(* the stream, in order.                                                    *)
THEOREM Unread == Spec => []UnreadIntact
  <1>1. IInv => UnreadIntact
    BY DEF IInv, CountInv, ContentInv, UnreadIntact
  <1> QED
    BY Invariance, <1>1, PTL

(* The two sides' memcpy regions never overlap.                             *)
THEOREM NoOverlap == Spec => []CopiesDisjoint
  <1>1. IInv => CopiesDisjoint
    <2> SUFFICES ASSUME IInv, Writing, rpc # "idle",
                        NEW x \in Claimed, NEW y \in Reading
                 PROVE  x # y
      BY DEF CopiesDisjoint, Writing
    <2>1. PICK i \in Index : i < wlen /\ x = Wrap(head + i)
      BY DEF Claimed
    <2>2. PICK j \in Index : j < rlen /\ y = Wrap(tail + j)
      BY DEF Reading
    <2>3. rlen <= Level /\ Level + wlen <= CAPACITY - 8
      BY DEF IInv, TypeOK, ConsInv, Copying, ProdInv
    <2> QED
      BY <2>1, <2>2, <2>3, RingAssumption
         DEF RingAssumption, IInv, TypeOK, Level, AvailRead, Wrap, Index
  <1> QED
    BY Invariance, <1>1, PTL

(* Every completed read delivers the next bytes of the stream.              *)
THEOREM ReadOrder == Spec => []ReadsNextBytes
  <1>1. IInv => ReadsNextBytes
    BY DEF IInv, ConsInv, Copying, ReadsNextBytes
  <1> QED
    BY Invariance, <1>1, PTL

(* Packets that interrupt a reset after head is cleared are kept.           *)
THEOREM ResetSafe == Spec => []ResetKeepsNewPackets
  <1>1. IInv => ResetKeepsNewPackets
    BY DEF IInv, ResetInv, ResetKeepsNewPackets
  <1> QED
    BY Invariance, <1>1, PTL

--------------------------------------------------------------------------------
(* Refinement.  Whatever the indices are, the queue the two users see is a  *)
(* run of consecutive stream positions: Size of them from Base on.          *)
Run(b, n) == [i \in 1..n |-> b + i - 1]
Base      == IF rst = "none" THEN r ELSE 0
Size      == CASE rst = "none" -> Level [] rst = "head" -> 0 [] rst = "tail" -> head
NextByte  == IF rst = "head" THEN 0 ELSE w
SeenInv   ==
  /\ Base \in Nat /\ Size \in Nat
  /\ Queued = Run(Base, Size) /\ NextByte = Base + Size

LEMMA RunIsSeq ==
  ASSUME NEW b \in Nat, NEW n \in Nat
  PROVE  /\ Run(b, n) \in Seq(Nat) /\ Len(Run(b, n)) = n
         /\ \A i \in 1..n : Run(b, n)[i] = b + i - 1
  <1>1. Run(b, n) \in [1..n -> Nat]  BY DEF Run
  <1>2. Run(b, n) \in Seq(Nat)  BY <1>1, SeqDef
  <1>3. DOMAIN Run(b, n) = 1..n /\ \A i \in 1..n : Run(b, n)[i] = b + i - 1
    BY DEF Run
  <1>4. Len(Run(b, n)) = n  BY <1>2, <1>3, LenProperties
  <1> QED  BY <1>2, <1>3, <1>4

(* Appending the next k positions lengthens the run.                        *)
LEMMA RunGrows ==
  ASSUME NEW b \in Nat, NEW n \in Nat, NEW k \in Nat
  PROVE  Run(b, n) \o Run(b + n, k) = Run(b, n + k)
  <1>1. /\ Run(b, n) \in Seq(Nat) /\ Len(Run(b, n)) = n
        /\ \A i \in 1..n : Run(b, n)[i] = b + i - 1
    BY RunIsSeq
  <1>2. b + n \in Nat /\ n + k \in Nat  OBVIOUS
  <1>3. /\ Run(b + n, k) \in Seq(Nat) /\ Len(Run(b + n, k)) = k
        /\ \A i \in 1..k : Run(b + n, k)[i] = (b + n) + i - 1
    BY <1>2, RunIsSeq
  <1>4. /\ Run(b, n + k) \in Seq(Nat) /\ Len(Run(b, n + k)) = n + k
        /\ \A i \in 1..(n + k) : Run(b, n + k)[i] = b + i - 1
    BY <1>2, RunIsSeq
  <1> DEFINE S == Run(b, n)
             T == Run(b + n, k)
             U == Run(b, n + k)
  <1> HIDE DEF S, T, U
  <1>5. /\ S \o T \in Seq(Nat) /\ Len(S \o T) = n + k
        /\ \A i \in 1..(n + k) : (S \o T)[i] = IF i <= n THEN S[i] ELSE T[i - n]
    <2>1. S \in Seq(Nat) /\ T \in Seq(Nat) /\ Len(S) = n /\ Len(T) = k
      BY <1>1, <1>3 DEF S, T
    <2> QED  BY <2>1, ConcatProperties
  <1>6. \A i \in 1..(n + k) : (S \o T)[i] = U[i]
    <2> TAKE i \in 1..(n + k)
    <2>1. U[i] = b + i - 1  BY <1>4 DEF U
    <2>2. CASE i <= n
      <3>1. i \in 1..n  BY <2>2
      <3>2. S[i] = b + i - 1  BY <1>1, <3>1 DEF S
      <3> QED  BY <1>5, <2>1, <2>2, <3>2
    <2>3. CASE ~(i <= n)
      <3>1. i - n \in 1..k  BY <2>3
      <3>2. T[i - n] = (b + n) + (i - n) - 1  BY <1>3, <3>1 DEF T
      <3>3. T[i - n] = b + i - 1  BY <3>2
      <3> QED  BY <1>5, <2>1, <2>3, <3>3
    <2> QED  BY <2>2, <2>3
  <1>7. U \in Seq(Nat) /\ Len(U) = n + k  BY <1>4 DEF U
  <1>8. S \o T = U  BY <1>5, <1>6, <1>7, SeqEqual
  <1> QED  BY <1>8 DEF S, T, U

(* Part of a run is a run.                                                  *)
Part(s, lo, hi) == SubSeq(s, lo, hi)

LEMMA RunPart ==
  ASSUME NEW b \in Nat, NEW n \in Nat, NEW j \in Nat, NEW m \in Nat, j <= m, m <= n
  PROVE  Part(Run(b, n), j + 1, m) = Run(b + j, m - j)
  <1> DEFINE S == Run(b, n)
             T == Run(b + j, m - j)
  <1>1. /\ S \in Seq(Nat) /\ Len(S) = n
        /\ \A i \in 1..n : S[i] = b + i - 1
    BY RunIsSeq
  <1>2. b + j \in Nat /\ m - j \in Nat  OBVIOUS
  <1>3. /\ T \in Seq(Nat) /\ Len(T) = m - j
        /\ \A i \in 1..(m - j) : T[i] = (b + j) + i - 1
    BY <1>2, RunIsSeq
  <1> HIDE DEF S, T
  <1>4. j + 1 \in Int /\ m \in Int /\ \A i \in (j + 1)..m : S[i] \in Nat
    <2>1. \A i \in (j + 1)..m : i \in 1..n /\ b + i - 1 \in Nat  OBVIOUS
    <2> QED  BY <1>1, <2>1
  <1>5. /\ SubSeq(S, j + 1, m) \in Seq(Nat)
        /\ Len(SubSeq(S, j + 1, m)) = IF j + 1 <= m THEN m - (j + 1) + 1 ELSE 0
        /\ \A i \in 1..(m - (j + 1) + 1) : SubSeq(S, j + 1, m)[i] = S[(j + 1) + i - 1]
    BY <1>4, SubSeqProperties
  <1>6. Len(SubSeq(S, j + 1, m)) = m - j /\ m - (j + 1) + 1 = m - j
    BY <1>5
  <1>7. \A i \in 1..(m - j) : SubSeq(S, j + 1, m)[i] = T[i]
    <2> TAKE i \in 1..(m - j)
    <2>1. (j + 1) + i - 1 \in 1..n /\ (j + 1) + i - 1 = j + i /\ b + (j + i) - 1 = (b + j) + i - 1
      OBVIOUS
    <2>2. SubSeq(S, j + 1, m)[i] = S[j + i]  BY <1>5, <1>6, <2>1
    <2>3. S[j + i] = (b + j) + i - 1  BY <1>1, <2>1
    <2> QED  BY <1>3, <2>2, <2>3
  <1>8. SubSeq(S, j + 1, m) = T  BY <1>3, <1>5, <1>6, <1>7, SeqEqual
  <1> QED  BY <1>8 DEF S, T, Part

LEMMA RunPrefix ==
  ASSUME NEW b \in Nat, NEW n \in Nat, NEW m \in Nat, m <= n
  PROVE  Part(Run(b, n), 1, m) = Run(b, m)
  <1>1. \A z \in Nat : z <= m => Part(Run(b, n), z + 1, m) = Run(b + z, m - z)
    BY RunPart
  <1>2. 0 \in Nat /\ 0 <= m /\ 0 + 1 = 1 /\ b + 0 = b /\ m - 0 = m  OBVIOUS
  <1> QED  BY <1>1, <1>2

(* The invariant says which run it is.                                      *)
LEMMA QueueSeen == IInv => SeenInv
  <1> SUFFICES ASSUME IInv PROVE SeenInv  OBVIOUS
  <1> USE DEF IInv
  <1>1. /\ head \in Nat /\ w \in Nat /\ r \in Nat /\ Level \in Nat /\ Level < CAPACITY
        /\ rst \in {"none", "head", "tail"} /\ head < CAPACITY
        /\ CAPACITY \in Nat
    BY RingAssumption, DistType DEF RingAssumption, TypeOK, Index, Level
  <1>2. CASE rst = "none"
    <2>1. w = r + Level  BY <1>2 DEF CountInv
    <2>2. \A i \in 1..Level : buf[Wrap(tail + i - 1)] = r + i - 1
      <3> TAKE i \in 1..Level
      <3>1. i - 1 \in Index /\ i - 1 < Level  BY <1>1 DEF Index
      <3>2. buf[Wrap(tail + (i - 1))] = r + (i - 1)  BY <1>2, <3>1 DEF ContentInv
      <3>3. tail \in Nat  BY RingAssumption DEF RingAssumption, TypeOK, Index
      <3>4. tail + (i - 1) = tail + i - 1 /\ r + (i - 1) = r + i - 1  BY <1>1, <3>3
      <3> QED  BY <3>2, <3>4
    <2>3. Queued = [i \in 1..Level |-> buf[Wrap(tail + i - 1)]]  BY <1>2 DEF Queued
    <2>4. Queued = Run(r, Level)  BY <2>2, <2>3 DEF Run
    <2>5. Base = r /\ Size = Level /\ NextByte = w  BY <1>2 DEF Base, Size, NextByte
    <2> QED  BY <1>1, <2>1, <2>4, <2>5 DEF SeenInv
  <1>3. CASE rst = "head"
    <2>1. Queued = <<>>  BY <1>3 DEF Queued
    <2>2. Base = 0 /\ Size = 0 /\ NextByte = 0  BY <1>3 DEF Base, Size, NextByte
    <2>3. Run(0, 0) = <<>>
      <3>1. Run(0, 0) \in Seq(Nat) /\ Len(Run(0, 0)) = 0  BY RunIsSeq
      <3> QED  BY <3>1, EmptySeq
    <2> QED  BY <2>1, <2>2, <2>3 DEF SeenInv
  <1>4. CASE rst = "tail"
    <2>1. w = head  BY <1>4 DEF ResetInv
    <2>2. \A i \in 1..head : buf[i - 1] = 0 + i - 1
      <3> TAKE i \in 1..head
      <3>1. i - 1 \in Index /\ i - 1 < head  BY <1>1 DEF Index
      <3> QED  BY <1>4, <3>1 DEF ResetInv
    <2>3. Queued = [i \in 1..head |-> buf[i - 1]]  BY <1>4 DEF Queued
    <2>4. Queued = Run(0, head)  BY <2>2, <2>3 DEF Run
    <2>5. Base = 0 /\ Size = head /\ NextByte = w  BY <1>4 DEF Base, Size, NextByte
    <2> QED  BY <1>1, <2>1, <2>4, <2>5 DEF SeenInv
  <1> QED  BY <1>1, <1>2, <1>3, <1>4


(* A step that moves neither end of the run leaves the queue as it was; one *)
(* that moves the far end appends, one that moves the near end removes.     *)
LEMMA MapStutter ==
  ASSUME SeenInv, SeenInv', UNCHANGED <<Base, Size, out>>
  PROVE  UNCHANGED Fifo!fifoVars
  <1>1. Queued' = Queued /\ NextByte' = NextByte  BY DEF SeenInv, Run
  <1> QED  BY <1>1 DEF Fifo!fifoVars, NextByte

LEMMA MapPut ==
  ASSUME SeenInv, SeenInv', NEW k \in 1..CAPACITY, k % 8 = 0, Size + k <= CAPACITY - 8,
         UNCHANGED <<Base, out>>, Size' = Size + k
  PROVE  Fifo!FifoNext
  <1> DEFINE b == Base
             n == Size
  <1>0. k \in Nat /\ CAPACITY \in Nat  BY RingAssumption DEF RingAssumption
  <1>1. /\ b \in Nat /\ n \in Nat /\ Queued = Run(b, n) /\ NextByte = b + n
        /\ Queued' = Run(b, n + k) /\ NextByte' = b + (n + k)
    BY DEF SeenInv, Run
  <1> HIDE DEF b, n
  <1>2. Queued' = Queued \o [i \in 1..k |-> NextByte + i - 1]
    BY <1>0, <1>1, RunGrows DEF Run
  <1>3. NextByte' = NextByte + k  BY <1>0, <1>1
  <1>4. Len(Queued) = n  BY <1>1, RunIsSeq
  <1>5. n + k <= CAPACITY - 8  BY DEF n
  <1>6. Fifo!Put(k)
    BY <1>2, <1>3, <1>4, <1>5 DEF Fifo!Put, Fifo!WholeFrames, NextByte
  <1> QED  BY <1>6 DEF Fifo!FifoNext

LEMMA MapTake ==
  ASSUME SeenInv, SeenInv', NEW k \in 1..Size, k % 8 = 0,
         Base' = Base + k, Size' = Size - k, out' = Run(Base, k) \/ UNCHANGED out
  PROVE  Fifo!FifoNext
  <1> DEFINE b == Base
             n == Size
  <1>1. /\ b \in Nat /\ n \in Nat /\ Queued = Run(b, n) /\ NextByte = b + n
        /\ Queued' = Run(b + k, n - k) /\ NextByte' = (b + k) + (n - k)
        /\ k \in 1..n /\ (out' = Run(b, k) \/ UNCHANGED out)
    BY DEF SeenInv, Run
  <1> HIDE DEF b, n
  <1>2. k \in Nat /\ k <= n /\ k \in 1..n  BY <1>1
  <1>3. Len(Queued) = n  BY <1>1, RunIsSeq
  <1>4. Queued' = SubSeq(Queued, k + 1, Len(Queued))
    <2>1. n <= n  BY <1>1
    <2>2. Part(Run(b, n), k + 1, n) = Run(b + k, n - k)  BY <1>1, <1>2, <2>1, RunPart
    <2> QED  BY <1>1, <1>3, <2>2 DEF Part
  <1>5. SubSeq(Queued, 1, k) = Run(b, k)  BY <1>1, <1>2, RunPrefix DEF Part
  <1>6. NextByte' = NextByte  BY <1>1, <1>2
  <1>7. Fifo!Take(k) \/ Fifo!DropOldest(k)
    <2>1. CASE out' = Run(b, k)
      BY <1>4, <1>5, <1>6, <2>1 DEF Fifo!Take, Fifo!WholeFrames, NextByte
    <2>2. CASE UNCHANGED out
      BY <1>4, <1>6, <2>2 DEF Fifo!DropOldest, Fifo!WholeFrames, NextByte
    <2> QED  BY <1>1, <2>1, <2>2
  <1>8. k \in 1..Len(Queued)  BY <1>2, <1>3
  <1> QED  BY <1>7, <1>8 DEF Fifo!FifoNext

LEMMA MapClear ==
  ASSUME SeenInv', Base' = 0, Size' = 0, UNCHANGED out
  PROVE  Fifo!FifoNext
  <1>1. Queued' = Run(0, 0) /\ NextByte' = 0  BY DEF SeenInv, Run
  <1>2. Run(0, 0) = <<>>
    <2>1. Run(0, 0) \in Seq(Nat) /\ Len(Run(0, 0)) = 0  BY RunIsSeq
    <2> QED  BY <2>1, EmptySeq
  <1>3. Fifo!Clear  BY <1>1, <1>2 DEF Fifo!Clear, NextByte
  <1> QED  BY <1>3 DEF Fifo!FifoNext

(* The producer's steps: only publishing is seen, and between the first two *)
(* stores of a reset not even that, because head is about to be cleared.    *)
LEMMA ProducerMaps ==
  ASSUME IInv, SeenInv, SeenInv', Producer
  PROVE  [Fifo!FifoNext]_(Fifo!fifoVars)
  <1> USE DEF prod, cons
  <1>1. CASE (\E n \in WriteLens : WriteBegin(n)) \/ WriteCopy \/ WriteCopyWrapped
    <2>1. UNCHANGED <<head, tail, w, r, out, rst>>
      BY <1>1 DEF WriteBegin, WriteCopy, WriteCopyWrapped
    <2>2. UNCHANGED <<Base, Size, out>>  BY <2>1 DEF Base, Size, Level
    <2> QED  BY <2>2, MapStutter
  <1>2. CASE WritePublish
    <2>1. /\ Writing /\ head' = Wrap(head + wlen) /\ UNCHANGED <<tail, r, out, rst>>
      BY <1>2 DEF WritePublish, Writing
    <2>2. /\ head \in Index /\ tail \in Index /\ Level \in Nat /\ wlen \in Nat
          /\ wlen > 0 /\ wlen % 8 = 0
          /\ Level + wlen <= CAPACITY - 8 /\ CAPACITY \in Nat
          /\ rst \in {"none", "head", "tail"}
      BY <2>1, RingAssumption, DistType DEF RingAssumption, IInv, AlignInv, TypeOK, ProdInv, Level
    <2>3. wlen \in 1..CAPACITY  BY <2>2
    <2>4. CASE rst = "none"
      <3>1. AvailRead(head, tail) + wlen < CAPACITY  BY <2>2 DEF Level
      <3>2. Level' = Level + wlen  BY <2>1, <2>2, <3>1, DistPublish DEF Level
      <3>3. Size = Level /\ Size' = Level' /\ UNCHANGED Base  BY <2>1, <2>4 DEF Size, Base
      <3> QED  BY <2>1, <2>2, <2>3, <3>2, <3>3, MapPut
    <2>5. CASE rst = "head"
      <3>1. UNCHANGED <<Base, Size, out>>  BY <2>1, <2>5 DEF Base, Size
      <3> QED  BY <3>1, MapStutter
    <2>6. CASE rst = "tail"
      <3>1. /\ head + wlen <= CAPACITY - 8
        BY <2>2, <2>6 DEF IInv, ResetInv, Level, AvailRead, Index
      <3>2. Wrap(head + wlen) = head + wlen  BY <2>2, <3>1 DEF Wrap, Index
      <3>3. Size = head /\ Size' = head' /\ UNCHANGED Base  BY <2>1, <2>6 DEF Size, Base
      <3> QED  BY <2>1, <2>2, <2>3, <3>1, <3>2, <3>3, MapPut
    <2> QED  BY <2>2, <2>4, <2>5, <2>6
  <1> QED  BY <1>1, <1>2 DEF Producer

(* The consumer's: a read takes what it copied, a flush drops what was      *)
(* there when it began, which may be nothing.                               *)
LEMMA Releases ==
  ASSUME IInv, SeenInv, SeenInv', rpc # "idle", rlen <= Level,
         tail' = Wrap(tail + rlen), r' = r + rlen, UNCHANGED <<head, rst>>,
         out' = Run(r, rlen) \/ UNCHANGED out, rlen = 0 => UNCHANGED out
  PROVE  [Fifo!FifoNext]_(Fifo!fifoVars)
  <1>1. /\ head \in Index /\ tail \in Index /\ Level \in Nat /\ rlen \in Nat /\ r \in Nat
        /\ rlen % 8 = 0 /\ rst = "none"
    BY RingAssumption, DistType DEF RingAssumption, IInv, AlignInv, TypeOK, ConsInv, Level
  <1>2. Level' = Level - rlen  BY <1>1, DistRelease DEF Level
  <1>3. Size = Level /\ Size' = Level' /\ Base = r /\ Base' = r'
    BY <1>1 DEF Size, Base
  <1>4. CASE rlen = 0
    <2>1. UNCHANGED <<Base, Size, out>>  BY <1>1, <1>2, <1>3, <1>4
    <2> QED  BY <2>1, MapStutter
  <1>5. CASE rlen # 0
    <2>1. rlen \in 1..Size  BY <1>1, <1>3, <1>5
    <2> QED  BY <1>1, <1>2, <1>3, <2>1, MapTake
  <1> QED  BY <1>4, <1>5

LEMMA ConsumerMaps ==
  ASSUME IInv, SeenInv, SeenInv', Consumer
  PROVE  [Fifo!FifoNext]_(Fifo!fifoVars)
  <1> USE DEF prod, cons
  <1>1. CASE (\E n \in ReadLens : ReadBegin(n)) \/ ReadCopy \/ ReadCopyWrapped \/ FlushLoad
    <2>1. UNCHANGED <<head, tail, w, r, out, rst>>
      BY <1>1 DEF ReadBegin, ReadCopy, ReadCopyWrapped, FlushLoad
    <2>2. UNCHANGED <<Base, Size, out>>  BY <2>1 DEF Base, Size, Level
    <2> QED  BY <2>2, MapStutter
  <1>2. CASE ReadPublish
    <2>1. rpc = "publish" /\ rlen > 0 /\ rlen <= Level /\ rlen \in Nat /\ rlen <= CAPACITY
      BY <1>2, RingAssumption
         DEF RingAssumption, ReadPublish, IInv, TypeOK, ConsInv, Copying
    <2>2. \A i \in 1..rlen : dest[i - 1] = r + i - 1
      <3> TAKE i \in 1..rlen
      <3>1. i - 1 \in Index /\ i - 1 < rlen  BY <2>1, RingAssumption DEF RingAssumption, Index
      <3>2. dest[i - 1] = r + (i - 1)  BY <2>1, <3>1 DEF IInv, ConsInv, Copying
      <3> QED  BY <3>2 DEF IInv, TypeOK
    <2>3. out' = Run(r, rlen)  BY <1>2, <2>2 DEF ReadPublish, Run
    <2> QED  BY <1>2, <2>1, <2>3, Releases DEF ReadPublish
  <1>3. CASE FlushStore
    <2>1. rlen <= Level /\ rhead = Wrap(tail + rlen) /\ rpc # "idle"
      BY <1>3 DEF IInv, ConsInv, FlushStore
    <2> QED  BY <1>3, <2>1, Releases DEF FlushStore
  <1> QED  BY <1>1, <1>2, <1>3 DEF Consumer

(* A reset is seen when it has cleared the array: the queue is empty then,  *)
(* and the two stores that follow change nothing of it.                     *)
LEMMA ResetMaps ==
  ASSUME IInv, SeenInv, SeenInv', Reset
  PROVE  [Fifo!FifoNext]_(Fifo!fifoVars)
  <1>1. CASE ResetBuffer
    <2>1. Base' = 0 /\ Size' = 0 /\ UNCHANGED out  BY <1>1 DEF ResetBuffer, Base, Size
    <2> QED  BY <2>1, MapClear
  <1>2. CASE ResetHead
    <2>1. UNCHANGED <<Base, Size, out>>  BY <1>2 DEF ResetHead, Base, Size
    <2> QED  BY <2>1, MapStutter
  <1>3. CASE ResetTail
    <2>1. rst = "tail" /\ rst' = "none" /\ tail' = 0 /\ UNCHANGED <<head, r, out>>
      BY <1>3 DEF ResetTail
    <2>2. r = 0 /\ head \in Nat  BY <2>1 DEF IInv, ResetInv, TypeOK, Index
    <2>3. Level' = head  BY <2>1, <2>2 DEF Level, AvailRead
    <2>4. UNCHANGED <<Base, Size, out>>  BY <2>1, <2>2, <2>3 DEF Base, Size
    <2> QED  BY <2>4, MapStutter
  <1> QED  BY <1>1, <1>2, <1>3 DEF Reset

(* The ring is a bounded queue of whole frames: whatever packets, reads,    *)
(* flushes and resets interleave, its users see bytes appended in order and *)
(* taken or dropped in order, and a stop that empties it.                   *)
THEOREM IsFifo == Spec => ImplementsFifo
  <1>1. Init => Fifo!FifoInit
    <2> SUFFICES ASSUME Init PROVE Fifo!FifoInit  OBVIOUS
    <2>1. SeenInv /\ Base = 0 /\ Size = 0
      <3>1. SeenInv  BY InitIInv, QueueSeen
      <3> QED  BY <3>1 DEF Init, Base, Size, Level, AvailRead
    <2>2. Queued = <<>>
      <3>1. Run(0, 0) \in Seq(Nat) /\ Len(Run(0, 0)) = 0  BY RunIsSeq
      <3>2. Run(0, 0) = <<>>  BY <3>1, EmptySeq
      <3> QED  BY <2>1, <3>2 DEF SeenInv
    <2> QED  BY <2>2 DEF Init, Fifo!FifoInit
  <1>2. IInv /\ SeenInv /\ SeenInv' /\ [Next]_vars => [Fifo!FifoNext]_(Fifo!fifoVars)
    <2> SUFFICES ASSUME IInv, SeenInv, SeenInv', [Next]_vars
                 PROVE  [Fifo!FifoNext]_(Fifo!fifoVars)
      OBVIOUS
    <2>1. CASE Producer  BY <2>1, ProducerMaps
    <2>2. CASE Consumer  BY <2>2, ConsumerMaps
    <2>3. CASE Reset  BY <2>3, ResetMaps
    <2>4. CASE UNCHANGED vars
      <3>1. UNCHANGED <<Base, Size, out>>  BY <2>4 DEF vars, Base, Size, Level
      <3> QED  BY <3>1, MapStutter
    <2> QED  BY <2>1, <2>2, <2>3, <2>4 DEF Next
  <1>3. Spec => [](IInv /\ SeenInv)  BY Invariance, QueueSeen, PTL
  <1> QED  BY <1>1, <1>2, <1>3, PTL DEF Spec, ImplementsFifo, Fifo!FifoSpec

================================================================================
