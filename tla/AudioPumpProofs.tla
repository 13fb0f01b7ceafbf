---------------------------- MODULE AudioPumpProofs ----------------------------
(***************************************************************************)
(* Safety of the playback engine for any number of buffers, any ring and   *)
(* buffer size and any thresholds.  Two results, that no buffer is lost    *)
(* and that the cushion is kept, need a message queue that has room for    *)
(* the driver faults of the run; the others hold for any queue.            *)
(***************************************************************************)
EXTENDS AudioPump, FiniteSetTheorems, TLAPS

(* The pump has a buffer in its hand exactly between pop and ENQUEUE, and   *)
(* the completions the first window counted have gone to the free pool,     *)
(* where they stay until the second window is judged.                       *)
HandInv == IF pc = "enq" THEN hand \in Apbs ELSE hand = None
GateInv == pc = "gate2" => won <= Cardinality(free)

IInv == TypeOK /\ BuffersNotShared /\ HandInv /\ GateInv

LEMMA SubsetCard ==
  ASSUME NEW S \in SUBSET Apbs
  PROVE  IsFiniteSet(S) /\ Cardinality(S) \in Nat /\ Cardinality(S) <= Cardinality(Apbs)
  BY FS_Subset, FS_CardinalityType, PumpAssumption

LEMMA CardMono ==
  ASSUME NEW S \in SUBSET Apbs, NEW T \in SUBSET Apbs, S \subseteq T
  PROVE  Cardinality(S) <= Cardinality(T)
  <1>1. IsFiniteSet(T)  BY SubsetCard
  <1> QED  BY <1>1, FS_Subset

LEMMA DisjointCard ==
  ASSUME NEW S \in SUBSET Apbs, NEW T \in SUBSET Apbs, S \cap T = {}
  PROVE  Cardinality(S) + Cardinality(T) <= Cardinality(Apbs)
  <1>1. IsFiniteSet(S) /\ IsFiniteSet(T)  BY SubsetCard
  <1>2. Cardinality(S \cup T) = Cardinality(S) + Cardinality(T) - Cardinality(S \cap T)
    BY <1>1, FS_Union
  <1>3. Cardinality(S \cap T) = 0  BY FS_EmptySet
  <1>4. Cardinality(S \cup T) <= Cardinality(Apbs)
    <2> S \cup T \in SUBSET Apbs  OBVIOUS
    <2> QED  BY SubsetCard
  <1>5. Cardinality(S) \in Nat /\ Cardinality(T) \in Nat  BY SubsetCard
  <1> QED  BY <1>2, <1>3, <1>4, <1>5

LEMMA InitInv == Init => IInv
  <1> SUFFICES ASSUME Init PROVE IInv  OBVIOUS
  <1> USE DEF Init
  <1>1. FlagTypes  BY Zenon DEF FlagTypes
  <1>2. PlaceTypes /\ PoolTypes  BY DEF PlaceTypes, PoolTypes
  <1>3. CountTypes  BY PumpAssumption DEF CountTypes
  <1>4. BuffersNotShared  BY DEF BuffersNotShared, Held
  <1>5. HandInv /\ GateInv  BY DEF HandInv, GateInv
  <1> QED  BY <1>1, <1>2, <1>3, <1>4, <1>5 DEF IInv, TypeOK

--------------------------------------------------------------------------------
(* A flag is only ever set to the value of a condition.                     *)
LEMMA FlagStep ==
  ASSUME FlagTypes, Next
  PROVE  FlagTypes'
  <1> USE DEF FlagTypes
  <1> USE DEF mainVars, ringVars, poolVars, msgVars, engVars, recVars
  <1>1. CASE Packet  BY <1>1, Zenon DEF Packet
  <1>2. CASE HostToggle  BY <1>2, Zenon DEF HostToggle
  <1>3. CASE EngComplete  BY <1>3, Zenon DEF EngComplete
  <1>4. CASE EngUnderrun  BY <1>4, Zenon DEF EngUnderrun
  <1>5. CASE EngError  BY <1>5, Zenon DEF EngError
  <1>6. CASE AudioStart  BY <1>6, Zenon DEF AudioStart, EngineStarts, EngineStaysDead, StartFails
  <1>7. CASE AudioStop  BY <1>7, Zenon DEF AudioStop
  <1>8. CASE AudioStopEngine  BY <1>8, Zenon DEF AudioStopEngine
  <1>9. CASE AudioStopRing  BY <1>9, Zenon DEF AudioStopRing
  <1>10. CASE IdleWake  BY <1>10, Zenon DEF IdleWake
  <1>11. CASE Wake  BY <1>11, Zenon DEF Wake, FaultSeen
  <1>12. CASE GateFirst  BY <1>12, Zenon DEF GateFirst, Drain, FaultSeen
  <1>13. CASE GateSecond  BY <1>13, Zenon DEF GateSecond, Drain, FaultSeen
  <1>14. CASE Try  BY <1>14, Zenon DEF Try, Moved, FaultSeen
  <1>15. CASE Refill  BY <1>15, Zenon DEF Refill, Accept
  <1>16. CASE Restart  BY <1>16, Zenon DEF Restart, EngineStarts, EngineStaysDead, StartFails
  <1>17. CASE Judge  BY <1>17, Zenon DEF Judge, Moved, Drain, FaultSeen
  <1>18. CASE FeedEnds  BY <1>18, Zenon DEF FeedEnds
  <1>19. CASE FeedNoBuffer  BY <1>19, Zenon DEF FeedNoBuffer, Drain, FaultSeen
  <1>20. CASE FeedWaitsForData  BY <1>20, Zenon DEF FeedWaitsForData, Drain, FaultSeen
  <1>21. CASE FeedFill  BY <1>21, Zenon DEF FeedFill, FaultSeen
  <1>22. CASE FeedEnqueue  BY <1>22, Zenon DEF FeedEnqueue, Accept
  <1> QED
    BY <1>1, <1>2, <1>3, <1>4, <1>5, <1>6, <1>7, <1>8, <1>9, <1>10, <1>11, <1>12, <1>13, <1>14, <1>15, <1>16, <1>17, <1>18, <1>19, <1>20, <1>21, <1>22
    DEF Next, Host, Engine, Main, Pump

(* The main task, the engine and the pump are somewhere.                    *)
LEMMA PlaceStep ==
  ASSUME PlaceTypes, Next
  PROVE  PlaceTypes'
  <1> USE DEF PlaceTypes
  <1> USE DEF mainVars, ringVars, poolVars, msgVars, engVars, recVars
  <1>1. CASE Packet  BY <1>1 DEF Packet
  <1>2. CASE HostToggle  BY <1>2 DEF HostToggle
  <1>3. CASE EngComplete  BY <1>3 DEF EngComplete
  <1>4. CASE EngUnderrun  BY <1>4 DEF EngUnderrun
  <1>5. CASE EngError  BY <1>5 DEF EngError, Fault
  <1>6. CASE AudioStart  BY <1>6 DEF AudioStart, EngineStarts, EngineStaysDead, StartFails, Fault
  <1>7. CASE AudioStop  BY <1>7 DEF AudioStop
  <1>8. CASE AudioStopEngine  BY <1>8 DEF AudioStopEngine
  <1>9. CASE AudioStopRing  BY <1>9 DEF AudioStopRing
  <1>10. CASE IdleWake  BY <1>10 DEF IdleWake
  <1>11. CASE Wake  BY <1>11 DEF Wake
  <1>12. CASE GateFirst  BY <1>12 DEF GateFirst, Drain
  <1>13. CASE GateSecond  BY <1>13 DEF GateSecond, Drain
  <1>14. CASE Try  BY <1>14 DEF Try
  <1>15. CASE Refill  BY <1>15 DEF Refill, Accept, Fault
  <1>16. CASE Restart  BY <1>16 DEF Restart, EngineStarts, EngineStaysDead, StartFails, Fault
  <1>17. CASE Judge  BY <1>17 DEF Judge, Drain
  <1>18. CASE FeedEnds  BY <1>18 DEF FeedEnds
  <1>19. CASE FeedNoBuffer  BY <1>19 DEF FeedNoBuffer, Drain
  <1>20. CASE FeedWaitsForData  BY <1>20 DEF FeedWaitsForData, Drain
  <1>21. CASE FeedFill  BY <1>21 DEF FeedFill
  <1>22. CASE FeedEnqueue  BY <1>22 DEF FeedEnqueue, Accept, Fault
  <1> QED
    BY <1>1, <1>2, <1>3, <1>4, <1>5, <1>6, <1>7, <1>8, <1>9, <1>10, <1>11, <1>12, <1>13, <1>14, <1>15, <1>16, <1>17, <1>18, <1>19, <1>20, <1>21, <1>22
    DEF Next, Host, Engine, Main, Pump

(* What the servo drops is in the ring, what it repeats has been taken.     *)
LEMMA ServoBounds ==
  ASSUME NEW l \in 0..RingFrames
  PROVE  /\ \A d \in ServoDrop(l) : d \in Nat /\ l - d \in 0..RingFrames
         /\ \A dup \in ServoRepeat(l) : l - (Least(l, ApbFrames) - dup) \in 0..RingFrames
  <1> USE PumpAssumption
  <1>1. ASSUME NEW d \in ServoDrop(l)
        PROVE  d \in Nat /\ l - d \in 0..RingFrames
    <2>1. CASE 8 * l > 7 * (RingFrames + 1)  BY <1>1, <2>1 DEF ServoDrop
    <2>2. CASE 8 * l > 6 * (RingFrames + 1) /\ 8 * l <= 7 * (RingFrames + 1)
      BY <1>1, <2>2 DEF ServoDrop
    <2>3. CASE 8 * l > 4 * (RingFrames + 1) /\ 8 * l <= 6 * (RingFrames + 1)
      BY <1>1, <2>3 DEF ServoDrop
    <2>4. CASE 8 * l <= 4 * (RingFrames + 1)  BY <1>1, <2>4 DEF ServoDrop
    <2> QED  BY <2>1, <2>2, <2>3, <2>4
  <1>2. ASSUME NEW dup \in ServoRepeat(l)
        PROVE  l - (Least(l, ApbFrames) - dup) \in 0..RingFrames
    BY DEF ServoRepeat, Least
  <1> QED  BY <1>1, <1>2

(* No counter leaves its range: the ring never holds more than fits, the    *)
(* servo never takes what is not there, quiet_wakes saturates.              *)
LEMMA CountStep ==
  ASSUME TypeOK, Next
  PROVE  CountTypes'
  <1> USE PumpAssumption DEF TypeOK, CountTypes
  <1> USE DEF mainVars, ringVars, poolVars, msgVars, engVars, recVars
  <1>1. CASE Packet
    <2>1. PICK n \in PacketFrames : level' = Least(level + n, RingFrames)
      BY <1>1 DEF Packet
    <2>2. n \in Nat  BY <2>1
    <2> QED  BY <1>1, <2>1, <2>2 DEF Packet, Least
  <1>2. CASE HostToggle  BY <1>2 DEF HostToggle
  <1>3. CASE EngComplete  BY <1>3 DEF EngComplete
  <1>4. CASE EngUnderrun  BY <1>4 DEF EngUnderrun
  <1>5. CASE EngError  BY <1>5 DEF EngError, Fault
  <1>6. CASE AudioStart  BY <1>6 DEF AudioStart, EngineStarts, EngineStaysDead, StartFails, Fault
  <1>7. CASE AudioStop  BY <1>7 DEF AudioStop
  <1>8. CASE AudioStopEngine  BY <1>8 DEF AudioStopEngine
  <1>9. CASE AudioStopRing  BY <1>9 DEF AudioStopRing
  <1>10. CASE IdleWake  BY <1>10 DEF IdleWake
  <1>11. CASE Wake  BY <1>11 DEF Wake, Quieter, Least
  <1>12. CASE GateFirst
    <2>1. Cardinality(done) \in Nat  BY SubsetCard DEF PoolTypes
    <2> QED  BY <1>12, <2>1 DEF GateFirst, Drain
  <1>13. CASE GateSecond  BY <1>13 DEF GateSecond, Drain
  <1>14. CASE Try  BY <1>14 DEF Try
  <1>15. CASE Refill  BY <1>15 DEF Refill, Accept, Fault
  <1>16. CASE Restart  BY <1>16 DEF Restart, EngineStarts, EngineStaysDead, StartFails, Fault
  <1>17. CASE Judge  BY <1>17 DEF Judge, Drain
  <1>18. CASE FeedEnds  BY <1>18 DEF FeedEnds
  <1>19. CASE FeedNoBuffer  BY <1>19 DEF FeedNoBuffer, Drain
  <1>20. CASE FeedWaitsForData
    <2>1. PICK d \in ServoDrop(level) : level' = level - d
      BY <1>20 DEF FeedWaitsForData
    <2>2. level' \in 0..RingFrames  BY <2>1, ServoBounds
    <2> QED  BY <1>20, <2>2 DEF FeedWaitsForData, Drain
  <1>21. CASE FeedFill
    <2>1. PICK d \in ServoDrop(level) :
            \E dup \in ServoRepeat(level - d) :
              level' = (level - d) - (Least(level - d, ApbFrames) - dup)
      BY <1>21 DEF FeedFill
    <2>2. level - d \in 0..RingFrames  BY <2>1, ServoBounds
    <2>3. level' \in 0..RingFrames  BY <2>1, <2>2, ServoBounds
    <2> QED  BY <1>21, <2>3 DEF FeedFill
  <1>22. CASE FeedEnqueue  BY <1>22 DEF FeedEnqueue, Accept, Fault
  <1> QED
    BY <1>1, <1>2, <1>3, <1>4, <1>5, <1>6, <1>7, <1>8, <1>9, <1>10, <1>11, <1>12, <1>13, <1>14, <1>15, <1>16, <1>17, <1>18, <1>19, <1>20, <1>21, <1>22
    DEF Next, Host, Engine, Main, Pump

(* A buffer moves from one place to another and leaves the first: pop and   *)
(* push of the free pool, ENQUEUE, DEQUEUE message, flush.                  *)
PoolInv == PoolTypes /\ BuffersNotShared /\ HandInv

(* No step puts a buffer in two places.                                     *)
LEMMA PoolStep ==
  ASSUME PoolInv, Next
  PROVE  PoolInv'
  <1> USE PumpAssumption DEF PoolInv, PoolTypes, BuffersNotShared, Held, HandInv
  <1> USE DEF mainVars, ringVars, poolVars, msgVars, engVars, recVars
  <1>1. CASE Packet  BY <1>1 DEF Packet
  <1>2. CASE HostToggle  BY <1>2 DEF HostToggle
  <1>3. CASE EngComplete  BY <1>3 DEF EngComplete
  <1>4. CASE EngUnderrun  BY <1>4 DEF EngUnderrun
  <1>5. CASE EngError  BY <1>5 DEF EngError, Fault
  <1>6. CASE AudioStart  BY <1>6 DEF AudioStart, EngineStarts, EngineStaysDead, StartFails, Fault
  <1>7. CASE AudioStop  BY <1>7 DEF AudioStop
  <1>8. CASE AudioStopEngine  BY <1>8 DEF AudioStopEngine
  <1>9. CASE AudioStopRing  BY <1>9 DEF AudioStopRing
  <1>10. CASE IdleWake  BY <1>10 DEF IdleWake
  <1>11. CASE Wake  BY <1>11 DEF Wake, Drained
  <1>12. CASE GateFirst  BY <1>12 DEF GateFirst, Drain, Drained
  <1>13. CASE GateSecond  BY <1>13 DEF GateSecond, Drain, Drained
  <1>14. CASE Try  BY <1>14 DEF Try, Drained
  <1>15. CASE Refill  BY <1>15 DEF Refill, Accept, Fault, Popped
  <1>16. CASE Restart  BY <1>16 DEF Restart, EngineStarts, EngineStaysDead, StartFails, Fault
  <1>17. CASE Judge  BY <1>17 DEF Judge, Drain, Drained
  <1>18. CASE FeedEnds  BY <1>18 DEF FeedEnds
  <1>19. CASE FeedNoBuffer  BY <1>19 DEF FeedNoBuffer, Drain, Drained
  <1>20. CASE FeedWaitsForData  BY <1>20 DEF FeedWaitsForData, Drain, Drained
  <1>21. CASE FeedFill  BY <1>21 DEF FeedFill, Drained, Popped
  <1>22. CASE FeedEnqueue  BY <1>22 DEF FeedEnqueue, Accept, Fault
  <1> QED
    BY <1>1, <1>2, <1>3, <1>4, <1>5, <1>6, <1>7, <1>8, <1>9, <1>10, <1>11, <1>12, <1>13, <1>14, <1>15, <1>16, <1>17, <1>18, <1>19, <1>20, <1>21, <1>22
    DEF Next, Host, Engine, Main, Pump

(* Between the two windows of the gate nothing leaves the free pool, so the *)
(* first count stays covered by it.                                         *)
LEMMA GateStep ==
  ASSUME TypeOK, GateInv, Next
  PROVE  GateInv'
  <1> USE DEF TypeOK, GateInv
  <1> USE DEF mainVars, ringVars, poolVars, msgVars, engVars, recVars
  <1>1. CASE Packet  BY <1>1 DEF Packet
  <1>2. CASE HostToggle  BY <1>2 DEF HostToggle
  <1>3. CASE EngComplete  BY <1>3 DEF EngComplete
  <1>4. CASE EngUnderrun  BY <1>4 DEF EngUnderrun
  <1>5. CASE EngError  BY <1>5 DEF EngError, Fault
  <1>6. CASE AudioStart  BY <1>6 DEF AudioStart
  <1>7. CASE AudioStop  BY <1>7 DEF AudioStop
  <1>8. CASE AudioStopEngine  BY <1>8 DEF AudioStopEngine
  <1>9. CASE AudioStopRing  BY <1>9 DEF AudioStopRing
  <1>10. CASE IdleWake  BY <1>10 DEF IdleWake
  <1>11. CASE Wake  BY <1>11 DEF Wake
  <1>12. CASE GateFirst
    <2>1. won' = Cardinality(done) /\ free' = free \cup done
      BY <1>12 DEF GateFirst, Drain, Drained
    <2>2. Cardinality(done) <= Cardinality(free \cup done)
      BY CardMono DEF PoolTypes
    <2> QED  BY <2>1, <2>2
  <1>13. CASE GateSecond  BY <1>13 DEF GateSecond, Drain
  <1>14. CASE Try  BY <1>14 DEF Try
  <1>15. CASE Refill  BY <1>15 DEF Refill, Accept, Fault
  <1>16. CASE Restart  BY <1>16 DEF Restart
  <1>17. CASE Judge  BY <1>17 DEF Judge, Drain
  <1>18. CASE FeedEnds  BY <1>18 DEF FeedEnds
  <1>19. CASE FeedNoBuffer  BY <1>19 DEF FeedNoBuffer, Drain
  <1>20. CASE FeedWaitsForData  BY <1>20 DEF FeedWaitsForData, Drain
  <1>21. CASE FeedFill  BY <1>21 DEF FeedFill
  <1>22. CASE FeedEnqueue  BY <1>22 DEF FeedEnqueue, Accept, Fault
  <1> QED
    BY <1>1, <1>2, <1>3, <1>4, <1>5, <1>6, <1>7, <1>8, <1>9, <1>10, <1>11, <1>12, <1>13, <1>14, <1>15, <1>16, <1>17, <1>18, <1>19, <1>20, <1>21, <1>22
    DEF Next, Host, Engine, Main, Pump

LEMMA StutterStep ==
  ASSUME IInv, UNCHANGED vars
  PROVE  IInv'
  <1> USE DEF vars, mainVars, ringVars, poolVars, msgVars, engVars, recVars
  <1>1. FlagTypes'  BY DEF IInv, TypeOK, FlagTypes
  <1>2. PlaceTypes' /\ PoolTypes' /\ CountTypes'
    BY DEF IInv, TypeOK, PlaceTypes, PoolTypes, CountTypes
  <1>3. BuffersNotShared' /\ HandInv' /\ GateInv'
    BY DEF IInv, BuffersNotShared, Held, HandInv, GateInv
  <1> QED  BY <1>1, <1>2, <1>3 DEF IInv, TypeOK

LEMMA Invariance == Spec => []IInv
  <1>1. IInv /\ [Next]_vars => IInv'
    <2> SUFFICES ASSUME IInv, Next PROVE IInv'
      BY StutterStep
    <2>1. FlagTypes' /\ PlaceTypes' /\ CountTypes'
      BY FlagStep, PlaceStep, CountStep DEF IInv, TypeOK
    <2>2. PoolTypes' /\ BuffersNotShared' /\ HandInv'
      BY PoolStep DEF IInv, TypeOK, PoolInv
    <2>3. GateInv'  BY GateStep DEF IInv
    <2> QED  BY <2>1, <2>2, <2>3 DEF IInv, TypeOK
  <1> QED  BY InitInv, <1>1, PTL DEF Spec

--------------------------------------------------------------------------------
(* Every variable keeps its type; in particular the ring level stays within *)
(* the ring whatever the drift servo drops and repeats.                     *)
THEOREM TypeCorrect == Spec => []TypeOK
  <1>1. IInv => TypeOK  BY DEF IInv
  <1> QED  BY Invariance, <1>1, PTL

(* The pump never holds a buffer the DMA may read, and never enqueues one   *)
(* twice, for any number of buffers and any length of the message queue,    *)
(* even one so short that messages are lost.                                *)
THEOREM NotShared == Spec => []BuffersNotShared
  <1>1. IInv => BuffersNotShared  BY DEF IInv
  <1> QED  BY Invariance, <1>1, PTL

LEMMA GateCount ==
  ASSUME IInv
  PROVE  GateBound
  <1> SUFFICES ASSUME pc = "gate2"
               PROVE  won + Cardinality(done) <= Cardinality(Apbs)
    BY DEF GateBound
  <1>1. Cardinality(free) + Cardinality(done) <= Cardinality(Apbs)
    BY DisjointCard DEF IInv, TypeOK, PoolTypes, BuffersNotShared
  <1>2. won <= Cardinality(free)  BY DEF IInv, GateInv
  <1>3. Cardinality(free) \in Nat /\ Cardinality(done) \in Nat /\ Cardinality(Apbs) \in Nat
    BY SubsetCard DEF IInv, TypeOK, PoolTypes
  <1> QED  BY <1>1, <1>2, <1>3 DEF IInv, TypeOK, CountTypes

(* The two windows of the gate count at most one completion per buffer.     *)
THEOREM GateLimit == Spec => []GateBound
  <1>1. IInv => GateBound  BY GateCount
  <1> QED  BY Invariance, <1>1, PTL

(* Leaving the fluke gate is always entering the restart procedure.         *)
GateAlwaysRestarts == [][pc = "gate2" /\ pc' # "gate2" => pc' = "try"]_vars

(* With fewer buffers than two windows ask for, and 16 < 10 + 10, the fluke *)
(* branch of lines 582-586 is dead: no underrun is ever judged a fluke.     *)
THEOREM FlukeBranchDead ==
  ASSUME Cardinality(Apbs) < 2 * GateMin
  PROVE  Spec => GateAlwaysRestarts
  <1>1. ASSUME IInv, Next, pc = "gate2", pc' # "gate2"
        PROVE  pc' = "try"
    <2>1. GateSecond
      BY <1>1 DEF Next, Host, Packet, HostToggle, Engine, EngComplete, EngUnderrun,
         EngError, Main, AudioStart, AudioStop, AudioStopEngine, AudioStopRing, Pump,
         IdleWake, Wake, GateFirst, Try, Refill, Restart, Judge, FeedEnds,
         FeedNoBuffer, FeedWaitsForData, FeedFill, FeedEnqueue, recVars
    <2>2. won + Cardinality(done) <= Cardinality(Apbs)
      BY <1>1, GateCount DEF GateBound
    <2>3. won \in Nat /\ Cardinality(done) \in Nat /\ Cardinality(Apbs) \in Nat
      BY <1>1, SubsetCard DEF IInv, TypeOK, PoolTypes, CountTypes
    <2>4. ~(won >= GateMin /\ Cardinality(done) >= GateMin)
      BY <2>2, <2>3, PumpAssumption
    <2> QED  BY <2>1, <2>4 DEF GateSecond
  <1>2. IInv /\ [Next]_vars => [pc = "gate2" /\ pc' # "gate2" => pc' = "try"]_vars
    BY <1>1
  <1> QED  BY Invariance, <1>2, PTL DEF Spec, GateAlwaysRestarts
--------------------------------------------------------------------------------
(* The message queue.  It holds at most one DEQUEUE message per buffer, one *)
(* COMPLETE, and a fault message for each driver fault and for each time    *)
(* the engine can have run dry since the pump last drained the queue: it    *)
(* has to be fed or started again in between.                               *)

(* At most one stop is reported between two drains: a started engine is     *)
(* stopped only after the pump has woken.                                   *)
ComplInv ==
  /\ compMsgs \in 0..1
  /\ compMsgs # 0 => /\ pc \in {"wait", "gate1", "gate2", "sleep"} /\ mpc # "stop"
                     /\ (playing /\ pc = "wait") => posted
                     /\ (playing /\ pc # "wait") => polled
  /\ mpc # "idle" => ~playing

(* The times the engine may be fed or started before the next drain, and    *)
(* whether it can run dry as it is.                                         *)
Left ==
  CASE pc = "refill"                      -> Cardinality(free) + 2
    [] pc \in {"start", "enq"}            -> 2
    [] pc = "feed"                        -> 1
    [] pc = "wait"                        -> IF playing /\ posted THEN 0 ELSE 1
    [] pc \in {"gate1", "gate2", "sleep"} -> IF polled THEN 0 ELSE 1
    [] pc = "try"                         -> 0
Dry == IF eng = "running" /\ ~starved THEN 1 ELSE 0
FaultInv == faultMsgs + Dry + Left <= Cardinality(Apbs) + 3 + faults

LEMMA ComplStep ==
  ASSUME TypeOK, ComplInv, Next
  PROVE  ComplInv'
  <1> USE DEF ComplInv, TypeOK, PlaceTypes
  <1> USE DEF mainVars, ringVars, poolVars, msgVars, engVars, recVars
  <1>1. CASE Packet  BY <1>1 DEF Packet
  <1>2. CASE HostToggle  BY <1>2 DEF HostToggle
  <1>3. CASE EngComplete  BY <1>3 DEF EngComplete
  <1>4. CASE EngUnderrun  BY <1>4 DEF EngUnderrun
  <1>5. CASE EngError  BY <1>5 DEF EngError
  <1>6. CASE AudioStart  BY <1>6 DEF AudioStart, MainMayRun
  <1>7. CASE AudioStop  BY <1>7 DEF AudioStop, MainMayRun
  <1>8. CASE AudioStopEngine  BY <1>8 DEF AudioStopEngine, MainMayRun
  <1>9. CASE AudioStopRing  BY <1>9 DEF AudioStopRing
  <1>10. CASE IdleWake  BY <1>10 DEF IdleWake
  <1>11. CASE Wake  BY <1>11 DEF Wake
  <1>12. CASE GateFirst  BY <1>12 DEF GateFirst, Drain
  <1>13. CASE GateSecond  BY <1>13 DEF GateSecond, Drain
  <1>14. CASE Try  BY <1>14 DEF Try
  <1>15. CASE Refill  BY <1>15 DEF Refill
  <1>16. CASE Restart  BY <1>16 DEF Restart
  <1>17. CASE Judge  BY <1>17 DEF Judge, Drain
  <1>18. CASE FeedEnds  BY <1>18 DEF FeedEnds
  <1>19. CASE FeedNoBuffer  BY <1>19 DEF FeedNoBuffer, Drain
  <1>20. CASE FeedWaitsForData  BY <1>20 DEF FeedWaitsForData, Drain
  <1>21. CASE FeedFill  BY <1>21 DEF FeedFill
  <1>22. CASE FeedEnqueue  BY <1>22 DEF FeedEnqueue
  <1> QED
    BY <1>1, <1>2, <1>3, <1>4, <1>5, <1>6, <1>7, <1>8, <1>9, <1>10, <1>11, <1>12, <1>13, <1>14, <1>15, <1>16, <1>17, <1>18, <1>19, <1>20, <1>21, <1>22
    DEF Next, Host, Engine, Main, Pump

LEMMA LeftRange ==
  ASSUME TypeOK
  PROVE  /\ Left \in Nat /\ Left <= Cardinality(Apbs) + 2 /\ Dry \in 0..1
         /\ Cardinality(Apbs) \in Nat /\ faults \in Nat /\ faultMsgs \in Nat
         /\ faults <= MaxFaults /\ MaxFaults \in Nat
  <1>1. /\ Cardinality(free) \in Nat /\ Cardinality(free) <= Cardinality(Apbs)
        /\ Cardinality(Apbs) \in Nat
    BY SubsetCard DEF TypeOK, PoolTypes
  <1>2. pc \in {"wait", "gate1", "gate2", "try", "refill", "start", "sleep", "feed", "enq"}
    BY DEF TypeOK, PlaceTypes
  <1>3. Left \in Nat /\ Left <= Cardinality(Apbs) + 2  BY <1>1, <1>2 DEF Left
  <1> QED  BY <1>1, <1>3, PumpAssumption DEF Dry, TypeOK, CountTypes

(* Just after a drain every chance is still to come.                        *)
LEMMA FaultDrained ==
  ASSUME TypeOK', faultMsgs' = 0
  PROVE  FaultInv'
  <1>1. /\ Left' \in Nat /\ Left' <= Cardinality(Apbs) + 2 /\ Dry' \in 0..1
        /\ Cardinality(Apbs) \in Nat /\ faults' \in Nat
    <2>1. /\ Cardinality(free') \in Nat /\ Cardinality(free') <= Cardinality(Apbs)
          /\ Cardinality(Apbs) \in Nat
      BY SubsetCard DEF TypeOK, PoolTypes
    <2>2. pc' \in {"wait", "gate1", "gate2", "try", "refill", "start", "sleep", "feed", "enq"}
      BY DEF TypeOK, PlaceTypes
    <2>3. Left' \in Nat /\ Left' <= Cardinality(Apbs) + 2  BY <2>1, <2>2 DEF Left
    <2> QED  BY <2>1, <2>3, PumpAssumption DEF Dry, TypeOK, CountTypes
  <1> QED  BY <1>1 DEF FaultInv

(* A sum stays below its bound when it and the bound grow alike.            *)
LEMMA Balance ==
  \A m, d, l, f, n, m2, d2, l2, f2 \in Nat :
    (m + d + l <= n + 3 + f /\ m2 + d2 + l2 + f <= m + d + l + f2)
      => m2 + d2 + l2 <= n + 3 + f2
  OBVIOUS

(* A step that uses up chances may add messages, and one that adds to both  *)
(* counts a driver fault.                                                   *)
LEMMA FaultStep ==
  ASSUME TypeOK, TypeOK', FaultInv, Next
  PROVE  FaultInv'
  <1> DEFINE M == faultMsgs
             F == faults
             M2 == faultMsgs'
             F2 == faults'
             D2 == Dry'
             L2 == Left'
  <1>0. /\ Left \in Nat /\ Dry \in 0..1 /\ F \in Nat /\ M \in Nat
        /\ F2 \in Nat /\ M2 \in Nat /\ D2 \in 0..1 /\ Cardinality(Apbs) \in Nat
    BY LeftRange DEF TypeOK, CountTypes, Dry
  <1>a. /\ eng' # "running" => D2 = 0
        /\ starved' => D2 = 0
        /\ (eng' = eng /\ starved' = starved) => D2 = Dry
    BY DEF Dry
  <1>b. UNCHANGED <<pc, free, playing, posted, polled>> => L2 = Left
    BY DEF Left
  <1>c. M + Dry + Left <= Cardinality(Apbs) + 3 + F  BY DEF FaultInv
  <1>d. M2 + D2 + L2 <= Cardinality(Apbs) + 3 + F2 => FaultInv'  BY DEF FaultInv
  <1> HIDE DEF M, F, M2, F2, D2, L2
  <1>p. ASSUME L2 \in Nat, M2 + D2 + L2 + F <= M + Dry + Left + F2
        PROVE  FaultInv'
    <2>1. M2 + D2 + L2 <= Cardinality(Apbs) + 3 + F2
      BY <1>0, <1>c, <1>p, Balance
    <2> QED  BY <2>1, <1>d
  <1> USE DEF mainVars, ringVars, poolVars, msgVars, engVars, recVars
  <1>1. CASE Packet
    <2>1. UNCHANGED <<pc, free, playing, polled, eng, starved, faultMsgs, faults>> /\ posted'
      BY <1>1 DEF Packet
    <2>2. L2 \in Nat /\ L2 <= Left
      BY <1>0, <2>1 DEF Left, L2, TypeOK, PlaceTypes
    <2>3. M2 = M /\ F2 = F /\ D2 = Dry  BY <1>a, <2>1 DEF M2, M, F2, F
    <2> QED  BY <1>0, <2>2, <2>3, <1>p
  <1>2. CASE HostToggle \/ EngComplete \/ AudioStopRing
    <2>1. /\ UNCHANGED <<pc, free, playing, posted, polled>>
          /\ UNCHANGED <<eng, starved, faultMsgs, faults>>
      BY <1>2 DEF HostToggle, EngComplete, AudioStopRing
    <2>2. M2 = M /\ F2 = F /\ D2 = Dry /\ L2 = Left
      BY <1>a, <1>b, <2>1 DEF M2, M, F2, F
    <2> QED  BY <1>0, <2>2, <1>p
  <1>3. CASE EngUnderrun
    <2>1. /\ UNCHANGED <<pc, free, playing, posted, polled, faults>>
          /\ faultMsgs' = faultMsgs + 1 \/ faultMsgs' = faultMsgs
          /\ starved' = TRUE
      BY <1>3 DEF EngUnderrun
    <2>2. Dry = 1  BY <1>3 DEF EngUnderrun, Dry
    <2>3. (M2 = M + 1 \/ M2 = M) /\ F2 = F /\ D2 = 0 /\ L2 = Left
      BY <1>a, <1>b, <2>1 DEF M2, M, F2, F
    <2> QED  BY <1>0, <2>2, <2>3, <1>p
  <1>4. CASE EngError
    <2>1. /\ UNCHANGED <<pc, free, playing, posted, polled, starved>>
          /\ faultMsgs' = faultMsgs + 1 \/ faultMsgs' = faultMsgs
          /\ faults' = faults + 1 /\ eng = "running" /\ eng' \in {"running", "dead"}
      BY <1>4 DEF EngError, Fault
    <2>2. D2 = 0 \/ D2 = Dry  BY <1>a, <2>1
    <2>3. (M2 = M + 1 \/ M2 = M) /\ F2 = F + 1 /\ L2 = Left
      BY <1>b, <2>1 DEF M2, M, F2, F
    <2> QED  BY <1>0, <2>2, <2>3, <1>p
  <1>5. CASE AudioStart
    <2>1. UNCHANGED <<pc, free, faultMsgs>> /\ polled' /\ ~polled /\ MainMayRun
      BY <1>5 DEF AudioStart
    <2>2. /\ pc = "wait" => ~posted
          /\ pc \in {"wait", "gate1", "gate2", "sleep"}
      BY <2>1 DEF MainMayRun
    <2>3. Left = 1  BY <2>1, <2>2 DEF Left
    <2>4. CASE EngineStarts /\ playing' = TRUE /\ posted' = TRUE
      <3>1. UNCHANGED faults  BY <2>4 DEF EngineStarts
      <3>2. L2 = 0  BY <2>1, <2>2, <2>4 DEF Left, L2
      <3>3. M2 = M /\ F2 = F  BY <2>1, <3>1 DEF M2, M, F2, F
      <3> QED  BY <1>0, <2>3, <3>2, <3>3, <1>p
    <2>5. CASE EngineStaysDead \/ StartFails
      <3>1. UNCHANGED <<eng, starved>> /\ faults' = faults + 1
        BY <2>5 DEF EngineStaysDead, StartFails, Fault
      <3>2. L2 \in 0..1  BY <2>1, <2>2 DEF Left, L2
      <3>3. M2 = M /\ F2 = F + 1 /\ D2 = Dry  BY <1>a, <2>1, <3>1 DEF M2, M, F2, F
      <3> QED  BY <1>0, <2>3, <3>2, <3>3, <1>p
    <2> QED  BY <1>5, <2>4, <2>5, Zenon DEF AudioStart
  <1>6. CASE AudioStop
    <2>1. /\ UNCHANGED <<pc, free, posted, faultMsgs, eng, starved, faults>> /\ MainMayRun
          /\ polled' /\ ~polled
      BY <1>6 DEF AudioStop
    <2>2. /\ pc = "wait" => ~posted
          /\ pc \in {"wait", "gate1", "gate2", "sleep"}
      BY <2>1 DEF MainMayRun
    <2>3. Left = 1 /\ L2 \in 0..1  BY <2>1, <2>2 DEF Left, L2
    <2>4. M2 = M /\ F2 = F /\ D2 = Dry  BY <1>a, <2>1 DEF M2, M, F2, F
    <2> QED  BY <1>0, <2>3, <2>4, <1>p
  <1>7. CASE AudioStopEngine
    <2>1. /\ UNCHANGED <<pc, free, playing, posted, polled, faultMsgs, faults>>
          /\ eng' = "stopped"
      BY <1>7 DEF AudioStopEngine
    <2>2. M2 = M /\ F2 = F /\ D2 = 0 /\ L2 = Left
      BY <1>a, <1>b, <2>1 DEF M2, M, F2, F
    <2> QED  BY <1>0, <2>2, <1>p
  <1>8. CASE IdleWake
    <2>1. UNCHANGED <<pc, free, playing, faultMsgs, eng, starved, faults>> /\ pc = "wait"
          /\ ~playing
      BY <1>8 DEF IdleWake
    <2>2. Left = 1 /\ L2 = 1  BY <2>1 DEF Left, L2
    <2>3. M2 = M /\ F2 = F /\ D2 = Dry  BY <1>a, <2>1 DEF M2, M, F2, F
    <2> QED  BY <1>0, <2>2, <2>3, <1>p
  <1>9. CASE \/ Wake \/ GateFirst \/ GateSecond \/ Try \/ Judge
             \/ FeedNoBuffer \/ FeedWaitsForData \/ FeedFill
    <2>1. faultMsgs' = 0
      BY <1>9
      DEF Wake, GateFirst, GateSecond, Try, Judge, FeedNoBuffer, FeedWaitsForData, FeedFill,
          Drain
    <2> QED  BY <2>1, FaultDrained
  <1>10. CASE Refill
    <2>1. pc = "refill" /\ UNCHANGED faultMsgs  BY <1>10 DEF Refill
    <2>2. Left = Cardinality(free) + 2  BY <2>1 DEF Left
    <2>3. /\ free \in SUBSET Apbs /\ free' \in SUBSET Apbs
          /\ Cardinality(free) \in Nat /\ Cardinality(free') \in Nat /\ IsFiniteSet(free)
      BY SubsetCard DEF TypeOK, PoolTypes
    <2>4. ASSUME NEW a \in free, free' = Popped(free, a), Accept(a), UNCHANGED <<pc, faults>>
          PROVE  FaultInv'
      <3>1. Cardinality(free') = Cardinality(free) - 1
        BY <2>3, <2>4, FS_RemoveElement DEF Popped
      <3> DEFINE C == Cardinality(free)
                 C2 == Cardinality(free')
      <3>2. L2 = C2 + 2  BY <2>1, <2>4 DEF Left, L2
      <3>3. M2 = M /\ F2 = F  BY <2>1, <2>4 DEF M2, M, F2, F
      <3>4. C \in Nat /\ C2 \in Nat /\ C2 = C - 1 /\ Left = C + 2
        BY <2>2, <2>3, <3>1
      <3> HIDE DEF C, C2
      <3> QED  BY <1>0, <3>2, <3>3, <3>4, <1>p
    <2>5. ASSUME pc' = "start", UNCHANGED <<free, queued, starved>>,
                 faults' = faults \/ faults' = faults + 1
          PROVE  FaultInv'
      <3>0. L2 = 2  BY <2>5 DEF Left, L2
      <3>1. Left >= 2  BY <2>2, <2>3
      <3>2. UNCHANGED <<eng, starved>>  BY <1>10, <2>5 DEF Refill
      <3>3. M2 = M /\ (F2 = F \/ F2 = F + 1) /\ D2 = Dry
        BY <1>a, <2>1, <2>5, <3>2 DEF M2, M, F2, F
      <3> QED  BY <1>0, <3>0, <3>1, <3>3, <1>p
    <2> QED  BY <1>10, <2>4, <2>5 DEF Refill, Fault
  <1>11. CASE Restart
    <2>1. pc = "start" /\ pc' = "sleep" /\ UNCHANGED faultMsgs  BY <1>11 DEF Restart
    <2>2. Left = 2 /\ L2 \in 0..1  BY <2>1 DEF Left, L2
    <2>3. UNCHANGED faults \/ (UNCHANGED <<eng, starved>> /\ faults' = faults + 1)
      BY <1>11 DEF Restart, EngineStarts, EngineStaysDead, StartFails, Fault
    <2>4. M2 = M /\ (F2 = F \/ (F2 = F + 1 /\ D2 = Dry))
      BY <1>a, <2>1, <2>3 DEF M2, M, F2, F
    <2> QED  BY <1>0, <2>2, <2>4, <1>p
  <1>12. CASE FeedEnds
    <2>1. pc = "feed" /\ pc' = "wait" /\ UNCHANGED <<eng, starved, faultMsgs, faults>>
      BY <1>12 DEF FeedEnds
    <2>2. Left = 1 /\ L2 \in 0..1  BY <2>1 DEF Left, L2
    <2>3. M2 = M /\ F2 = F /\ D2 = Dry  BY <1>a, <2>1 DEF M2, M, F2, F
    <2> QED  BY <1>0, <2>2, <2>3, <1>p
  <1>13. CASE FeedEnqueue
    <2>1. /\ pc = "enq" /\ UNCHANGED <<eng, faultMsgs>>
          /\ \/ pc' = "feed" /\ UNCHANGED faults
             \/ pc' = "wait" /\ faults' = faults + 1 /\ UNCHANGED starved
      BY <1>13 DEF FeedEnqueue, Fault
    <2>2. Left = 2 /\ L2 \in 0..1  BY <2>1 DEF Left, L2
    <2>3. M2 = M /\ (F2 = F \/ (F2 = F + 1 /\ D2 = Dry))
      BY <1>a, <2>1 DEF M2, M, F2, F
    <2> QED  BY <1>0, <2>2, <2>3, <1>p
  <1> QED
    BY <1>1, <1>2, <1>3, <1>4, <1>5, <1>6, <1>7, <1>8, <1>9, <1>10, <1>11, <1>12, <1>13
    DEF Next, Host, Engine, Main, Pump

--------------------------------------------------------------------------------
(* The queue is long enough: a message for each buffer, COMPLETE, and the   *)
(* fault messages FaultInv counts.  In the code 2 * 16 + 4 = 36 of 128      *)
(* places, which leaves 92 for the driver faults of a run.                  *)
QueueFits == 2 * Cardinality(Apbs) + MaxFaults + 4 <= MqCap

(* There is a place for the next DEQUEUE message, and when the engine is    *)
(* stopped for those of all the buffers it holds.                           *)
LEMMA QueueRoom ==
  ASSUME QueueFits, TypeOK, BuffersNotShared, ComplInv, FaultInv
  PROVE  /\ queued # {} => MqRoom
         /\ mpc = "stop" => Least(Cardinality(queued), MqCap - MqLen) = Cardinality(queued)
  <1> DEFINE Q == Cardinality(queued)
             D == Cardinality(done)
             N == Cardinality(Apbs)
  <1>1. /\ Left \in Nat /\ Dry \in 0..1 /\ N \in Nat /\ faults \in Nat /\ faultMsgs \in Nat
        /\ faults <= MaxFaults /\ MaxFaults \in Nat /\ MqCap \in Nat
    BY LeftRange, PumpAssumption
  <1>2. /\ queued \in SUBSET Apbs /\ done \in SUBSET Apbs /\ done \cap queued = {}
    BY DEF TypeOK, PoolTypes, BuffersNotShared
  <1>3. Q \in Nat /\ D \in Nat /\ D + Q <= N  BY <1>2, SubsetCard, DisjointCard
  <1>4. queued # {} => Q # 0  BY <1>2, SubsetCard, FS_EmptySet
  <1>5. /\ faultMsgs + Dry + Left <= N + 3 + faults
        /\ compMsgs \in 0..1 /\ (mpc = "stop" => compMsgs = 0)
        /\ 2 * N + MaxFaults + 4 <= MqCap
    BY DEF FaultInv, ComplInv, QueueFits
  <1> HIDE DEF Q, D, N
  <1>6. faultMsgs <= N + 3 + MaxFaults  BY <1>1, <1>5
  <1>7. D + faultMsgs + compMsgs + Q <= MqCap  BY <1>1, <1>3, <1>5, <1>6
  <1>8. Q # 0 => D + faultMsgs + compMsgs < MqCap  BY <1>1, <1>3, <1>5, <1>7
  <1>9. Q <= MqCap - (D + faultMsgs + compMsgs)  BY <1>1, <1>3, <1>5, <1>7
  <1> QED  BY <1>4, <1>8, <1>9 DEF MqRoom, MqLen, Least, Q, D

(* A buffer that leaves one place arrives in another: the driver's only if  *)
(* its message finds room.                                                  *)
LEMMA LostStep ==
  ASSUME QueueFits, IInv, ComplInv, FaultInv, BuffersNotLost, Next
  PROVE  BuffersNotLost'
  <1> USE DEF BuffersNotLost, Held
  <1> USE DEF mainVars, ringVars, poolVars, msgVars, engVars, recVars
  <1>0. /\ free \subseteq Apbs /\ queued \subseteq Apbs /\ done \subseteq Apbs
        /\ None \notin Apbs /\ (IF pc = "enq" THEN hand \in Apbs ELSE hand = None)
    BY PumpAssumption DEF IInv, TypeOK, PoolTypes, HandInv
  <1>r. /\ queued # {} => MqRoom
        /\ mpc = "stop" => Least(Cardinality(queued), MqCap - MqLen) = Cardinality(queued)
    BY QueueRoom DEF IInv
  <1>1. CASE Packet  BY <1>1 DEF Packet
  <1>2. CASE HostToggle  BY <1>2 DEF HostToggle
  <1>3. CASE EngComplete
    <2>1. PICK a \in queued : /\ queued' = queued \ {a}
                              /\ done' = IF MqRoom THEN done \cup {a} ELSE done
      BY <1>3 DEF EngComplete
    <2>2. done' = done \cup {a} /\ UNCHANGED <<free, hand>>
      BY <1>3, <1>r, <2>1 DEF EngComplete
    <2> QED  BY <2>1, <2>2
  <1>4. CASE EngUnderrun  BY <1>4 DEF EngUnderrun
  <1>5. CASE EngError  BY <1>5 DEF EngError
  <1>6. CASE AudioStart  BY <1>6 DEF AudioStart
  <1>7. CASE AudioStop  BY <1>7 DEF AudioStop
  <1>8. CASE AudioStopEngine
    <2>1. PICK back \in SUBSET queued :
            /\ Cardinality(back) = Least(Cardinality(queued), MqCap - MqLen)
            /\ done' = done \cup back
      BY <1>8 DEF AudioStopEngine
    <2>2. mpc = "stop" /\ queued' = {} /\ UNCHANGED <<free, hand>>
      BY <1>8 DEF AudioStopEngine
    <2>3. IsFiniteSet(queued) /\ Cardinality(back) = Cardinality(queued)
      BY <1>0, <1>r, <2>1, <2>2, SubsetCard
    <2>4. back = queued  BY <2>1, <2>3, FS_Subset
    <2> QED  BY <2>1, <2>2, <2>4
  <1>9. CASE AudioStopRing  BY <1>9 DEF AudioStopRing
  <1>10. CASE IdleWake  BY <1>10 DEF IdleWake
  <1>11. CASE Wake  BY <1>11 DEF Wake, Drained
  <1>12. CASE GateFirst  BY <1>12 DEF GateFirst, Drain, Drained
  <1>13. CASE GateSecond  BY <1>13 DEF GateSecond, Drain, Drained
  <1>14. CASE Try  BY <1>14 DEF Try, Drained
  <1>15. CASE Refill  BY <1>0, <1>15 DEF Refill, Accept, Popped
  <1>16. CASE Restart  BY <1>16 DEF Restart
  <1>17. CASE Judge  BY <1>17 DEF Judge, Drain, Drained
  <1>18. CASE FeedEnds  BY <1>18 DEF FeedEnds
  <1>19. CASE FeedNoBuffer  BY <1>19 DEF FeedNoBuffer, Drain, Drained
  <1>20. CASE FeedWaitsForData  BY <1>20 DEF FeedWaitsForData, Drain, Drained
  <1>21. CASE FeedFill  BY <1>0, <1>21 DEF FeedFill, Drained, Popped
  <1>22. CASE FeedEnqueue  BY <1>0, <1>22 DEF FeedEnqueue, Accept
  <1> QED
    BY <1>1, <1>2, <1>3, <1>4, <1>5, <1>6, <1>7, <1>8, <1>9, <1>10, <1>11, <1>12, <1>13, <1>14, <1>15, <1>16, <1>17, <1>18, <1>19, <1>20, <1>21, <1>22
    DEF Next, Host, Engine, Main, Pump

(* Everything a queue that is long enough keeps.                            *)
QueueInv == ComplInv /\ FaultInv /\ BuffersNotLost

LEMMA QueueInit ==
  ASSUME Init
  PROVE  QueueInv
  <1> USE DEF Init
  <1>1. ComplInv  BY DEF ComplInv
  <1>2. Left = 1 /\ Dry = 0  BY DEF Left, Dry
  <1>3. Cardinality(Apbs) \in Nat  BY FS_CardinalityType, PumpAssumption
  <1>4. FaultInv  BY <1>2, <1>3 DEF FaultInv
  <1>5. BuffersNotLost  BY DEF BuffersNotLost, Held
  <1> QED  BY <1>1, <1>4, <1>5 DEF QueueInv

LEMMA QueueStutter ==
  ASSUME QueueInv, UNCHANGED vars
  PROVE  QueueInv'
  <1> USE DEF vars, mainVars, ringVars, poolVars, msgVars, engVars, recVars
  <1>1. ComplInv'  BY DEF QueueInv, ComplInv
  <1>2. FaultInv'  BY DEF QueueInv, FaultInv, Left, Dry
  <1>3. BuffersNotLost'  BY DEF QueueInv, BuffersNotLost, Held
  <1> QED  BY <1>1, <1>2, <1>3 DEF QueueInv

LEMMA QueueInvariance ==
  ASSUME QueueFits
  PROVE  Spec => [](IInv /\ QueueInv)
  <1>1. Init => QueueInv  BY QueueInit
  <1>2. IInv /\ IInv' /\ QueueInv /\ [Next]_vars => QueueInv'
    <2> SUFFICES ASSUME IInv, IInv', QueueInv, Next PROVE QueueInv'
      BY QueueStutter
    <2>1. ComplInv'  BY ComplStep DEF IInv, QueueInv
    <2>2. FaultInv'  BY FaultStep DEF IInv, QueueInv
    <2>3. BuffersNotLost'  BY LostStep DEF QueueInv
    <2> QED  BY <2>1, <2>2, <2>3 DEF QueueInv
  <1> QED  BY Invariance, <1>1, <1>2, PTL DEF Spec

(* No audio buffer leaks, whatever stops, recoveries, failed calls and late *)
(* messages come together, as long as driver faults leave the message queue *)
(* room for the buffers: MaxFaults, any number, plus twice the pool fits.   *)
THEOREM NoBufferLost ==
  ASSUME QueueFits
  PROVE  Spec => []BuffersNotLost
  <1>1. QueueInv => BuffersNotLost  BY DEF QueueInv
  <1> QED  BY QueueInvariance, <1>1, PTL

(* While the feed waits, everything the pool lacks is with the driver.      *)
LEMMA CushionStep ==
  ASSUME IInv, QueueInv, Next, pc = "feed", pc' = "wait", playing, free' # {}
  PROVE  Cardinality(queued) + 1 >= ReserveMin
  <1>1. FeedWaitsForData
    BY Zenon DEF Next, Host, Packet, HostToggle, Engine, EngComplete, EngUnderrun,
       EngError, Main, AudioStart, AudioStop, AudioStopEngine, AudioStopRing, Pump,
       IdleWake, Wake, GateFirst, GateSecond, Try, Refill, Restart, Judge, FeedEnds,
       FeedNoBuffer, Drain, FeedFill, FeedEnqueue
  <1>2. InFlight(Drained) >= ReserveMin
    BY <1>1 DEF FeedWaitsForData, Reserve
  <1>3. /\ Drained \in SUBSET Apbs /\ queued \in SUBSET Apbs
        /\ Drained \cap queued = {} /\ Drained \cup queued = Apbs
    BY DEF IInv, QueueInv, TypeOK, PoolTypes, BuffersNotShared, BuffersNotLost, Held,
       HandInv, Drained
  <1>4. IsFiniteSet(Drained) /\ IsFiniteSet(queued)  BY <1>3, SubsetCard
  <1>5. Cardinality(Apbs) = Cardinality(Drained) + Cardinality(queued)
                            - Cardinality(Drained \cap queued)
    BY <1>3, <1>4, FS_Union
  <1>6. Cardinality(Drained \cap queued) = 0  BY <1>3, FS_EmptySet
  <1>7. /\ Cardinality(Drained) \in Nat /\ Cardinality(queued) \in Nat
        /\ Cardinality(Apbs) \in Nat /\ ReserveMin \in Nat
    BY <1>3, SubsetCard, PumpAssumption
  <1> QED  BY <1>2, <1>5, <1>6, <1>7 DEF InFlight

(* When the feed holds a short remainder back, the driver has the cushion   *)
(* the code counts on, although the code only counts what its pool lacks.   *)
THEOREM CushionStays ==
  ASSUME QueueFits
  PROVE  Spec => CushionKept
  <1>1. IInv /\ QueueInv /\ [Next]_vars =>
          [(pc = "feed" /\ pc' = "wait" /\ playing /\ free' # {})
             => Cardinality(queued) + 1 >= ReserveMin]_vars
    BY CushionStep
  <1> QED  BY QueueInvariance, <1>1, PTL DEF Spec, CushionKept

================================================================================
