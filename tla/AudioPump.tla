------------------------------- MODULE AudioPump -------------------------------
(***************************************************************************)
(* The playback engine of src/uac2_audio_dma.c: the pump thread (stream    *)
(* detection, message drain, underrun recovery, feed loop), the task that  *)
(* starts and stops the engine, the USB ISR that fills the PCM ring, and   *)
(* the NuttX audio driver behind the ioctls, which is external and modelled*)
(* from how the pump uses it.                                              *)
(*                                                                         *)
(* Scheduling is that of the single-core build.  Interrupts (packets, DMA  *)
(* completions) come between any two steps.  The pump has priority 150, the*)
(* main task 100: the main task runs only while the pump sleeps.           *)
(*                                                                         *)
(* The ring is reduced to its fill level in stereo frames (Uac2RingBuf has *)
(* its bytes), the message queue to the buffers it returns and the number  *)
(* of its other messages; telemetry counters are left out.                 *)
(***************************************************************************)
EXTENDS Integers, FiniteSets

CONSTANTS
  Apbs,         \* the audio buffers, UAC2_AUDIO_NUM_BUFFERS of them
  None,         \* no buffer
  RingFrames,   \* most frames the ring can hold
  ApbFrames,    \* frames in one buffer
  PacketFrames, \* set of packet sizes
  QuietGap,     \* wakes without a packet that end a stream (25 in the code)
  QuietLong,    \* wakes without a packet after which the codec sleeps (250)
  ReserveMin,   \* buffers in flight that allow the feed to wait for data (8)
  GateMin,      \* completions per window of a healthy engine (10)
  ReviveMin,    \* completions per try of a reviving engine (2)
  MaxTries,     \* tries of one recovery (300)
  MqCap,        \* capacity of the message queue (128)
  MaxFaults     \* bound: driver faults (failed ioctls, dead starts, I/O errors)

ASSUME PumpAssumption ==
  /\ IsFiniteSet(Apbs) /\ Apbs # {} /\ None \notin Apbs
  /\ RingFrames \in Nat /\ ApbFrames \in Nat \ {0, 1} /\ 4 * ApbFrames <= RingFrames + 1
  /\ PacketFrames \subseteq Nat
  /\ QuietGap \in Nat /\ QuietLong \in Nat /\ 0 < QuietGap /\ QuietGap < QuietLong
  /\ ReserveMin \in Nat /\ GateMin \in Nat /\ ReviveMin \in Nat
  /\ MaxTries \in Nat \ {0} /\ MqCap \in Nat /\ MaxFaults \in Nat

VARIABLES
  playing,      \* is_playing
  asked,        \* the last request of the main task was audio_start
  mpc, polled,  \* main task: its place in audio_stop; it has polled in this sleep
  hostOn,       \* the host is sending packets
  level,        \* frames in the ring
  fresh,        \* some of them arrived after a gap the pump has counted
  newpkt,       \* iso_pkt_count # last_pc
  posted,       \* pump_sem has been posted
  quiet,        \* quiet_wakes, capped at QuietLong
  free, hand,   \* free pool; the buffer the pump has popped
  queued,       \* buffers the driver holds
  done,         \* buffers in DEQUEUE messages
  faultMsgs,    \* UNDERRUN and IOERROR messages in the queue
  compMsgs,     \* COMPLETE messages in the queue
  restart,      \* restart_needed # 0
  eng, starved, \* the engine; it has reported that it ran dry
  pc,           \* where the pump is
  won,          \* completions in the first window
  prog,         \* dequeue_count > deq_entry or msg_complete > comp_entry
  stopped,      \* stopped_once
  consec, tries,\* good tries in a row, tries made
  faults        \* driver faults so far

mainVars == <<asked, mpc, polled>>
ringVars == <<hostOn, level, fresh, newpkt>>
poolVars == <<free, hand, queued, done>>
msgVars  == <<faultMsgs, compMsgs, restart>>
engVars  == <<eng, starved>>
recVars  == <<won, prog, stopped, consec, tries>>
vars == <<playing, mainVars, ringVars, posted, quiet, poolVars, msgVars, engVars,
          pc, recVars, faults>>

Least(a, b) == IF a <= b THEN a ELSE b

Quieter_Unbounded(q) == q + 1
Quieter(q) == Least(q + 1, QuietLong)       \* quiet_wakes, saturating

(* uac2_audio_init has run: every buffer pre-enqueued with silence.         *)
Init ==
  /\ playing = FALSE /\ asked = FALSE
  /\ mpc = "idle" /\ polled = FALSE
  /\ hostOn = TRUE /\ level = 0 /\ fresh = FALSE /\ newpkt = FALSE
  /\ posted = FALSE /\ quiet = 0
  /\ free = {} /\ hand = None /\ queued = Apbs /\ done = {}
  /\ faultMsgs = 0 /\ compMsgs = 0 /\ restart = FALSE
  /\ eng = "stopped" /\ starved = FALSE
  /\ pc = "wait"
  /\ won = 0 /\ prog = FALSE /\ stopped = FALSE /\ consec = 0 /\ tries = 0
  /\ faults = 0

Fault == faults < MaxFaults /\ faults' = faults + 1

--------------------------------------------------------------------------------
(* The USB ISR: uac2_audio_write.                                           *)

Packet ==
  /\ hostOn
  /\ \E n \in PacketFrames :
       /\ level' = Least(level + n, RingFrames)
       /\ fresh' = (fresh \/ (quiet >= QuietGap /\ level' > level))
  /\ newpkt' = TRUE
  /\ posted' = TRUE
  /\ UNCHANGED <<playing, mainVars, hostOn, quiet, poolVars, msgVars, engVars, pc,
                 recVars, faults>>

HostToggle ==
  /\ hostOn' = ~hostOn
  /\ UNCHANGED <<playing, mainVars, level, fresh, newpkt, posted, quiet, poolVars,
                 msgVars, engVars, pc, recVars, faults>>

Host == Packet \/ HostToggle

--------------------------------------------------------------------------------
(* The audio driver (external).  A message that finds the queue full is     *)
(* lost.                                                                    *)

MqLen == Cardinality(done) + faultMsgs + compMsgs
MqRoom_Short == MqLen < 2
MqRoom == MqLen < MqCap

EngComplete ==
  /\ eng = "running"
  /\ \E a \in queued :
       /\ queued' = queued \ {a}
       /\ done' = IF MqRoom THEN done \cup {a} ELSE done
  /\ UNCHANGED <<playing, mainVars, ringVars, posted, quiet, free, hand, msgVars,
                 engVars, pc, recVars, faults>>

(* The engine runs dry.  It may go on when it is fed again, or die.         *)
EngUnderrun ==
  /\ eng = "running" /\ queued = {} /\ ~starved
  /\ faultMsgs' = IF MqRoom THEN faultMsgs + 1 ELSE faultMsgs
  /\ starved' = TRUE
  /\ eng' \in {"running", "dead"}
  /\ UNCHANGED <<playing, mainVars, ringVars, posted, quiet, poolVars, compMsgs,
                 restart, pc, recVars, faults>>

EngError ==
  /\ eng = "running"
  /\ Fault
  /\ faultMsgs' = IF MqRoom THEN faultMsgs + 1 ELSE faultMsgs
  /\ eng' \in {"running", "dead"}
  /\ UNCHANGED <<playing, mainVars, ringVars, posted, quiet, poolVars, compMsgs,
                 restart, starved, pc, recVars>>

Engine == EngComplete \/ EngUnderrun \/ EngError

(* AUDIOIOC_START: it starts the engine, or fails, or returns success with  *)
(* the engine still dead.                                                   *)
EngineStarts == eng' = "running" /\ starved' = FALSE /\ UNCHANGED faults
EngineStaysDead == eng = "dead" /\ Fault /\ UNCHANGED engVars
StartFails == Fault /\ UNCHANGED engVars

--------------------------------------------------------------------------------
(* The main task: uac2_audio_start and uac2_audio_stop, called from the     *)
(* 100 ms poll (so at most one of them in a sleep of the pump, which lasts  *)
(* 50 ms at most).  audio_stop is three steps: the flag, STOP, the ring.    *)

MainMayRun ==
  \/ pc = "wait" /\ ~posted
  \/ pc \in {"gate1", "gate2", "sleep"}

AudioStart ==
  /\ MainMayRun /\ mpc = "idle" /\ ~polled /\ ~asked
  /\ asked' = TRUE /\ polled' = TRUE
  /\ \/ (EngineStarts \/ EngineStaysDead) /\ playing' = TRUE /\ posted' = TRUE
     \/ StartFails /\ UNCHANGED <<playing, posted>>
  /\ UNCHANGED <<mpc, ringVars, quiet, poolVars, msgVars, pc, recVars>>

AudioStop ==
  /\ MainMayRun /\ mpc = "idle" /\ ~polled /\ asked
  /\ asked' = FALSE /\ polled' = TRUE
  /\ playing' = FALSE
  /\ mpc' = IF playing THEN "stop" ELSE "idle"
  /\ UNCHANGED <<ringVars, posted, quiet, poolVars, msgVars, engVars, pc, recVars,
                 faults>>

(* AUDIOIOC_STOP flushes: every buffer comes back, then COMPLETE.           *)
AudioStopEngine ==
  /\ MainMayRun /\ mpc = "stop"
  /\ eng' = "stopped" /\ starved' = FALSE
  /\ \E back \in SUBSET queued :
       /\ Cardinality(back) = Least(Cardinality(queued), MqCap - MqLen)
       /\ done' = done \cup back
  /\ queued' = {}
  /\ compMsgs' = IF MqLen + Cardinality(queued) < MqCap THEN compMsgs + 1 ELSE compMsgs
  /\ mpc' = "reset"
  /\ UNCHANGED <<playing, asked, polled, ringVars, posted, quiet, free, hand,
                 faultMsgs, restart, pc, recVars, faults>>

AudioStopRing ==
  /\ MainMayRun /\ mpc = "reset"
  /\ level' = 0 /\ fresh' = FALSE
  /\ mpc' = "idle"
  /\ UNCHANGED <<playing, asked, polled, hostOn, newpkt, posted, quiet, poolVars,
                 msgVars, engVars, pc, recVars, faults>>

Main == AudioStart \/ AudioStop \/ AudioStopEngine \/ AudioStopRing

--------------------------------------------------------------------------------
(* The pump thread.                                                         *)

(* free_pool_pop takes a buffer out of the pool.                            *)
Popped_Peeks(S, a) == S
Popped(S, a) == S \ {a}

(* drain_audio_msgs: buffers go back to the pool, faults raise the flag.    *)
Drained == free \cup done
FaultSeen_Overwritten == faultMsgs > 0
FaultSeen == restart \/ faultMsgs > 0
Drain ==
  /\ free' = Drained /\ done' = {}
  /\ restart' = FaultSeen
  /\ faultMsgs' = 0 /\ compMsgs' = 0

IdleWake ==
  /\ pc = "wait" /\ ~playing
  /\ posted \/ polled
  /\ posted' = FALSE /\ polled' = FALSE
  /\ UNCHANGED <<playing, asked, mpc, ringVars, quiet, poolVars, msgVars, engVars, pc,
                 recVars, faults>>

(* A wake while playing: look for the start of a stream (the first packet   *)
(* after a gap drops what the ring holds), drain, then recover or feed.     *)
Wake ==
  LET boundary == newpkt /\ quiet >= QuietGap IN
  /\ pc = "wait" /\ playing
  /\ posted' = FALSE /\ polled' = FALSE
  /\ level' = IF boundary THEN 0 ELSE level
  /\ fresh' = (fresh /\ ~newpkt)
  /\ quiet' = IF newpkt THEN 0 ELSE Quieter(quiet)
  /\ newpkt' = FALSE
  /\ free' = Drained /\ done' = {} /\ faultMsgs' = 0 /\ compMsgs' = 0
  /\ restart' = FALSE
  /\ pc' = IF FaultSeen THEN "gate1" ELSE "feed"
  /\ UNCHANGED <<playing, asked, mpc, hostOn, hand, queued, engVars, recVars, faults>>

(* The fluke gate: two windows of 50 ms in which a healthy engine completes *)
(* GateMin buffers each.                                                    *)
GateFirst_CountsTwice ==
  /\ pc = "gate1"
  /\ won' = Cardinality(done)
  /\ pc' = "gate2" /\ polled' = FALSE
  /\ UNCHANGED <<playing, asked, mpc, ringVars, posted, quiet, poolVars, msgVars,
                 engVars, prog, stopped, consec, tries, faults>>

GateFirst ==
  /\ pc = "gate1"
  /\ won' = Cardinality(done)
  /\ Drain
  /\ pc' = "gate2" /\ polled' = FALSE
  /\ UNCHANGED <<playing, asked, mpc, ringVars, posted, quiet, hand, queued, engVars,
                 prog, stopped, consec, tries, faults>>

GateSecond ==
  /\ pc = "gate2"
  /\ Drain
  /\ pc' = IF won >= GateMin /\ Cardinality(done) >= GateMin THEN "feed" ELSE "try"
  /\ prog' = FALSE /\ stopped' = FALSE /\ consec' = 0 /\ tries' = 0 /\ won' = 0
  /\ polled' = FALSE
  /\ UNCHANGED <<playing, asked, mpc, ringVars, posted, quiet, hand, queued, engVars,
                 faults>>

(* The engine has completed something since the recovery began; every drain *)
(* of the recovery counts.                                                  *)
Moved == prog \/ done # {} \/ compMsgs > 0

(* One try of the recovery: STOP once if the engine has shown progress and  *)
(* the codec is not asleep, refill with silence, START, sleep 3 ms, judge.  *)
(* The progress may be that of the try before: the engine it has just       *)
(* revived is stopped and started again.                                    *)
Try ==
  LET stop == ~stopped /\ quiet < QuietLong /\ Moved IN
  /\ pc = "try"
  /\ prog' = Moved
  /\ stopped' = (stopped \/ stop)
  /\ free' = IF stop THEN Drained \cup queued ELSE Drained
  /\ queued' = IF stop THEN {} ELSE queued
  /\ eng' = IF stop THEN "stopped" ELSE eng
  /\ starved' = IF stop THEN FALSE ELSE starved
  /\ done' = {} /\ restart' = FaultSeen /\ faultMsgs' = 0 /\ compMsgs' = 0
  /\ pc' = "refill"
  /\ UNCHANGED <<playing, mainVars, ringVars, posted, quiet, hand, won, consec, tries,
                 faults>>

Accept(a) == queued' = queued \cup {a} /\ starved' = FALSE

Refill ==
  /\ pc = "refill"
  /\ \/ /\ free = {} /\ pc' = "start"
        /\ UNCHANGED <<free, queued, starved, faults>>
     \/ /\ \E a \in free : free' = Popped(free, a) /\ Accept(a)
        /\ UNCHANGED <<pc, faults>>
     \/ /\ free # {} /\ Fault /\ pc' = "start"
        /\ UNCHANGED <<free, queued, starved>>
  /\ UNCHANGED <<playing, mainVars, ringVars, posted, quiet, hand, done, msgVars, eng,
                 recVars>>

Restart ==
  /\ pc = "start"
  /\ EngineStarts \/ EngineStaysDead \/ StartFails
  /\ pc' = "sleep"
  /\ UNCHANGED <<playing, mainVars, ringVars, posted, quiet, poolVars, msgVars, recVars>>

Judge ==
  LET good == Cardinality(done) >= ReviveMin
      over == (good /\ consec + 1 >= 2) \/ tries + 1 >= MaxTries
  IN
  /\ pc = "sleep"
  /\ Drain
  /\ prog' = Moved
  /\ consec' = IF good /\ ~over THEN consec + 1 ELSE 0
  /\ tries' = IF over THEN 0 ELSE tries + 1
  /\ pc' = IF over THEN "feed" ELSE "try"
  /\ polled' = FALSE
  /\ UNCHANGED <<playing, asked, mpc, ringVars, posted, quiet, hand, queued, engVars,
                 won, stopped, faults>>

(* The drift servo: frames it may drop at a fill level (zones at 1/2, 3/4   *)
(* and 7/8 of the ring), frames it may repeat below two buffers.  Which     *)
(* wake of 8 (or of 2) acts is servo_tick's, left open here.                *)
ServoDrop(l) ==
  CASE 8 * l > 7 * (RingFrames + 1) -> {2}
    [] 8 * l > 6 * (RingFrames + 1) /\ 8 * l <= 7 * (RingFrames + 1) -> {1}
    [] 8 * l > 4 * (RingFrames + 1) /\ 8 * l <= 6 * (RingFrames + 1) -> {0, 1}
    [] 8 * l <= 4 * (RingFrames + 1) -> {0}
ServoRepeat(l) == IF ApbFrames <= l /\ l < 2 * ApbFrames THEN {0, 1} ELSE {0}

InFlight(f) == Cardinality(Apbs) - (Cardinality(f) - 1)    \* after the pop
Reserve_NoCushion(l, f) == 0 < l /\ l < 2 * ApbFrames /\ quiet < QuietGap
Reserve_PartialWait(l, f) == 0 < l /\ l < 2 * ApbFrames
Reserve(l, f) ==
  /\ 0 < l /\ l < 2 * ApbFrames
  /\ quiet < QuietGap
  /\ InFlight(f) >= ReserveMin

FeedEnds ==
  /\ pc = "feed" /\ ~playing
  /\ pc' = "wait"
  /\ UNCHANGED <<playing, mainVars, ringVars, posted, quiet, poolVars, msgVars, engVars,
                 recVars, faults>>

FeedNoBuffer ==
  /\ pc = "feed" /\ playing /\ Drained = {}
  /\ Drain
  /\ pc' = "wait"
  /\ UNCHANGED <<playing, mainVars, ringVars, posted, quiet, hand, queued, engVars,
                 recVars, faults>>

FeedWaitsForData ==
  /\ pc = "feed" /\ playing /\ Drained # {}
  /\ \E d \in ServoDrop(level) :
       /\ Reserve(level - d, Drained)
       /\ level' = level - d
  /\ fresh' = (fresh /\ level' > 0)
  /\ Drain
  /\ pc' = "wait"
  /\ UNCHANGED <<playing, mainVars, hostOn, newpkt, posted, quiet, hand, queued, engVars,
                 recVars, faults>>

FeedFill ==
  /\ pc = "feed" /\ playing /\ Drained # {}
  /\ \E d \in ServoDrop(level) :
       LET l == level - d IN
       /\ ~Reserve(l, Drained)
       /\ \E dup \in ServoRepeat(l) : level' = l - (Least(l, ApbFrames) - dup)
  /\ fresh' = (fresh /\ level' > 0)
  /\ \E a \in Drained : hand' = a /\ free' = Popped(Drained, a)
  /\ done' = {} /\ restart' = FaultSeen /\ faultMsgs' = 0 /\ compMsgs' = 0
  /\ pc' = "enq"
  /\ UNCHANGED <<playing, mainVars, hostOn, newpkt, posted, quiet, queued, engVars,
                 recVars, faults>>

FeedEnqueue ==
  /\ pc = "enq"
  /\ hand' = None
  /\ \/ /\ Accept(hand) /\ pc' = "feed"
        /\ UNCHANGED <<free, faults>>
     \/ /\ Fault /\ free' = free \cup {hand} /\ pc' = "wait"
        /\ UNCHANGED <<queued, starved>>
  /\ UNCHANGED <<playing, mainVars, ringVars, posted, quiet, done, msgVars, eng, recVars>>

Pump ==
  \/ IdleWake \/ Wake \/ GateFirst \/ GateSecond \/ Try \/ Refill \/ Restart \/ Judge
  \/ FeedEnds \/ FeedNoBuffer \/ FeedWaitsForData \/ FeedFill \/ FeedEnqueue

Next == Host \/ Engine \/ Main \/ Pump

Spec == Init /\ [][Next]_vars

(* The pump's sleeps end (timeouts); the DMA finishes its buffers; the main *)
(* task completes what it began.  Nothing is assumed of the host.           *)
Fairness ==
  /\ WF_vars(Pump)
  /\ WF_vars(EngComplete)
  /\ WF_vars(AudioStopEngine) /\ WF_vars(AudioStopRing)
FairSpec == Spec /\ Fairness

(* What the judgement of a try supposes: in the 3 ms it sleeps, an engine    *)
(* that runs and has enough buffers completes ReviveMin of them (two of     *)
(* 1.33 ms each in the code).                                               *)
Timely ==
  (pc = "sleep" /\ pc' # "sleep" /\ eng = "running" /\ queued # {})
    => Cardinality(done) >= ReviveMin
TimelyNext == Next /\ Timely
TimelyFairSpec == Init /\ [][TimelyNext]_vars /\ Fairness

--------------------------------------------------------------------------------
FlagTypes ==
  /\ playing \in BOOLEAN /\ asked \in BOOLEAN /\ polled \in BOOLEAN
  /\ hostOn \in BOOLEAN /\ newpkt \in BOOLEAN /\ fresh \in BOOLEAN /\ posted \in BOOLEAN
  /\ restart \in BOOLEAN /\ starved \in BOOLEAN
  /\ prog \in BOOLEAN /\ stopped \in BOOLEAN
PlaceTypes ==
  /\ mpc \in {"idle", "stop", "reset"} /\ eng \in {"stopped", "running", "dead"}
  /\ pc \in {"wait", "gate1", "gate2", "try", "refill", "start", "sleep", "feed", "enq"}
PoolTypes ==
  /\ free \subseteq Apbs /\ queued \subseteq Apbs /\ done \subseteq Apbs
  /\ hand \in Apbs \cup {None}
CountTypes ==
  /\ level \in 0..RingFrames /\ quiet \in 0..QuietLong
  /\ faultMsgs \in Nat /\ compMsgs \in Nat /\ faults \in 0..MaxFaults
  /\ won \in Nat /\ consec \in 0..1 /\ tries \in 0..MaxTries - 1
TypeOK == FlagTypes /\ PlaceTypes /\ PoolTypes /\ CountTypes

(* An audio buffer is never in two places: the pump does not write a buffer *)
(* the DMA may be reading, and no buffer is enqueued twice, whatever stop,  *)
(* recovery, failed ENQUEUE or late DEQUEUE came between.                   *)
Held == IF hand = None THEN {} ELSE {hand}
BuffersNotShared ==
  /\ free \cap queued = {} /\ free \cap done = {} /\ queued \cap done = {}
  /\ Held \cap (free \cup queued \cup done) = {}

(* No audio buffer leaks out of the cycle pool - driver - DEQUEUE message - *)
(* pool: the engine keeps its full cushion however often it is stopped and  *)
(* revived, and the message queue is long enough for what can pile up.      *)
BuffersNotLost == free \cup queued \cup done \cup Held = Apbs

(* The two windows of the fluke gate cannot count more completions than     *)
(* there are buffers, because nothing is enqueued between them (lines       *)
(* 574-581).  With 16 buffers and two windows of 10 the gate never says     *)
(* "fluke": every underrun is a full restart.                               *)
GateBound ==
  pc = "gate2" => won + Cardinality(done) <= Cardinality(Apbs)

(* When the feed holds back a short remainder (the reserve, lines 774-780)  *)
(* the driver still has at least ReserveMin - 1 buffers to play.            *)
CushionKept ==
  [][(pc = "feed" /\ pc' = "wait" /\ playing /\ free' # {})
       => Cardinality(queued) + 1 >= ReserveMin]_vars

(* After the host stops, what the ring still holds is played out as long as *)
(* the engine runs: no remainder sticks in the reserve (lines 769-772, the  *)
(* lesson of the "B1" partial wait).                                        *)
ResidueDrains ==
  \/ []<>(level = 0)
  \/ []<>(hostOn \/ ~playing \/ eng # "running" \/ starved)

(* An engine that is down while playing is brought back, whether it died,   *)
(* whatever the pump was doing when the report came, or was stopped by the  *)
(* recovery itself, which stops what its last try has revived (lines        *)
(* 552-696).  It needs the timing above and two tries more than driver      *)
(* calls fail: the START after that STOP must not be the last one.          *)
EngineRevived ==
  (eng # "running" /\ playing) ~> (eng = "running" \/ ~playing)

(* The three that follow say what comments of the code say; it does not do   *)
(* it.                                                                      *)

(* Lines 556-561: a recovery request is not carried out on an engine that   *)
(* has been stopped on purpose.                                             *)
StopIsFinal ==
  (~playing /\ mpc = "idle" /\ pc = "wait") => eng # "running"

(* Lines 400-402 and 513: the flush at a stream start drops the residue of  *)
(* the stream before; the new stream's first packets are safe in the ring.  *)
NewStreamKept ==
  [][(pc = "wait" /\ playing /\ newpkt /\ ~newpkt' /\ quiet >= QuietGap)
       => ~fresh]_vars

(* Lines 1159-1161: a START that failed is retried when packets come.       *)
StartRetried ==
  []<><<Packet>>_vars => ((asked /\ ~playing) ~> (playing \/ ~asked))
================================================================================
