---------------------------- MODULE TelemetryProofs ----------------------------
(***************************************************************************)
(* Safety of the telemetry path for every text that leaves room in the     *)
(* ring for one more line, every number of strikes and of snapshots: the   *)
(* boot, the verdict on the worker's heartbeat, and the snapshots printed  *)
(* when the worker is punctual.                                            *)
(***************************************************************************)
EXTENDS Telemetry, NumberLemmas

Off == CHOOSE off \in [1..(LastPart + 1) -> 0..SIZE] : IsLayout(off)

--------------------------------------------------------------------------------
(* How far the boot is tells what exists.                                   *)
Booted == boot \in {"online", "failed"}
BootInv ==
  /\ boot = "shm" => seg # "live"
  /\ boot \in {"mutex", "task", "ready", "online"} => seg = "live"
  /\ boot \in {"task", "ready", "online"} => mtx
  /\ boot \in {"shm", "mutex", "failed"} => ~mtx
  /\ boot = "failed" => seg # "live"
  /\ boot \in {"shm", "mutex", "task"} => wpc = "off"
  /\ g_asmp => boot = "online" /\ worker_ready
  /\ ~Booted => /\ g_mon_seq = 0 /\ push = "idle" /\ mon = "wait" /\ inbox = None
                /\ stall = 0

(* The checks since the worker's last turn are the strikes and one more.    *)
BeatInv ==
  g_asmp => /\ stall < Strikes
            /\ quiet = IF beat THEN 0 ELSE stall + 1

(* The snapshots on their way.                                              *)
Working == wpc \in {"copy", "line", "commit", "done"}
Copying == push \in {"copy", "publish"}
HandoffInv ==
  /\ inbox_done <= last /\ last <= inbox_seq /\ inbox_seq <= g_mon_seq
  /\ Working <=> inbox_done # last
  /\ Copying => g_asmp
  /\ mon \in {"poll", "print", "release", "check"} => g_asmp
  /\ g_asmp => inbox_seq = IF Copying THEN g_mon_seq - 1 ELSE g_mon_seq
  /\ push = "copy" => \A k \in 1..(pk - 1) : inbox[k] = g_mon_seq
  /\ (push = "publish" \/ (g_asmp /\ ~Copying)) => \A k \in Parts : inbox[k] = g_mon_seq
  /\ wpc = "commit" => at = Start(LineLen[wk])

SafeInv == TypeOK /\ BootInv /\ BeatInv /\ HandoffInv

--------------------------------------------------------------------------------
(* Line k of snapshot s is in the ring from p on, among the bytes to be     *)
(* read.                                                                    *)
Stored(p, s, k) ==
  \A j \in 1..LineLen[k] : outbox[p + j - 1] = [line |-> <<s, k>>, pos |-> j]
Before(p, n, end) == p + n <= end
InData(p, n) ==
  IF out_tail <= out_head THEN out_tail <= p /\ Before(p, n, out_head)
  ELSE (out_tail <= p /\ Before(p, n, SIZE)) \/ Before(p, n, out_head)
Ahead(k) == \E p \in 0..SIZE : Stored(p, g_mon_seq, k) /\ InData(p, LineLen[k])
Shown(k) == <<g_mon_seq, k>> \in shown

(* The lines before the m-th are in the ring, on from the tail; one of them *)
(* may have been put at its beginning.                                      *)
HeadOf(head, tail, m) ==
  \/ head = tail + Off[m]
  \/ \E w \in 1..(m - 1) : head = Off[m] - Off[w] /\ tail + Off[w] + LineLen[w] > SIZE
HeadAt(m) == HeadOf(out_head, out_tail, m)
Written(m) == HeadAt(m) /\ \A k \in 1..(m - 1) : Ahead(k)

(* While everything is punctual, push, worker and monitor take turns.       *)
Draining == mon \in {"print", "release", "check"}
HasText == g_asmp /\ last = g_mon_seq /\ handled # g_mon_seq /\ ~Draining
TurnInv ==
  /\ handled = IF push = "idle" /\ mon = "wait" /\ sem = 0 THEN g_mon_seq ELSE g_mon_seq - 1
  /\ push # "idle" => mon = "wait" /\ sem = 0
  /\ mon # "wait" => sem = 0
  /\ mon \notin {"wait", "copy"} => mseq = g_mon_seq
  /\ mon = "local" => ~g_asmp
  /\ (Copying \/ ~g_asmp) => last = inbox_seq /\ ~Working
  /\ Working => HasText
  /\ (Draining \/ (g_asmp /\ handled = g_mon_seq)) => inbox_done = g_mon_seq
  /\ Draining => served

CopyInv ==
  /\ wpc = "copy" => \A k \in 1..(wk - 1) : snap[k] = last
  /\ wpc \in {"line", "commit"} => \A k \in Parts : snap[k] = last
TextInv ==
  IF HasText
  THEN /\ wpc = "copy" => Written(1)
       /\ wpc \in {"line", "commit"} => Written(wk)
       /\ wpc \notin {"copy", "line", "commit"} => Written(LastPart + 1)
  ELSE mon \notin {"print", "release"} => out_head = out_tail

Rest(k) == out_head < out_tail
           /\ \E p \in 0..SIZE : Stored(p, g_mon_seq, k) /\ Before(p, LineLen[k], out_head)
DrainInv ==
  /\ mon \in {"print", "release"} => mhead = out_head /\ out_head # out_tail
  /\ mon = "print" => \A k \in Parts : Shown(k) \/ Ahead(k)
  /\ mon = "release" => \A k \in Parts : Shown(k) \/ Rest(k)
  /\ mon = "check" => \A k \in Parts : Shown(k)

AllShown == (\A s \in 1..handled : Text(s) \subseteq shown) /\ out_dropped = 0

Punctual == TurnInv /\ CopyInv /\ TextInv /\ DrainInv /\ AllShown
IInv == SafeInv /\ (~late => Punctual)

--------------------------------------------------------------------------------
(* The text.                                                                *)
LEMMA Constants ==
  /\ SIZE \in Nat \ {0} /\ Word \in Nat /\ Word > 2 * SIZE
  /\ LastPart \in Nat \ {0} /\ Parts = 1..LastPart
  /\ \A k \in Parts : LineLen[k] \in Nat \ {0}
  /\ Strikes \in Nat \ {0} /\ MaxPushes \in Nat
  <1>1. LineLen \in Seq(Nat \ {0}) /\ LineLen # <<>>
    BY TelemetryAssumption DEF TelemetryAssumption
  <1>2. LastPart \in Nat \ {0} /\ Parts = 1..LastPart
    BY <1>1 DEF LastPart, Parts
  <1>3. \A k \in Parts : LineLen[k] \in Nat \ {0}  BY <1>1 DEF Parts
  <1> QED
    BY <1>2, <1>3, TelemetryAssumption, OutboxAssumption
    DEF TelemetryAssumption, OutboxAssumption

LEMMA Layout ==
  /\ Off \in [1..(LastPart + 1) -> 0..SIZE] /\ Off[1] = 0
  /\ \A k \in Parts : /\ Off[k] \in Nat /\ Off[k + 1] \in Nat /\ LineLen[k] \in Nat \ {0}
                      /\ Off[k + 1] = Off[k] + LineLen[k]
                      /\ Off[LastPart + 1] + LineLen[k] <= SIZE
                      /\ LineLen[k] <= SIZE
  /\ \A j, k \in 1..(LastPart + 1) : j <= k => Off[j] <= Off[k]
  <1>1. Off \in [1..(LastPart + 1) -> 0..SIZE] /\ IsLayout(Off)
    <2> DEFINE S == {off \in [1..(LastPart + 1) -> 0..SIZE] : IsLayout(off)}
    <2>1. \E off \in [1..(LastPart + 1) -> 0..SIZE] : IsLayout(off)
      BY RoomForText DEF RoomForText
    <2> QED  BY <2>1, Zenon DEF Off
  <1>2. DOMAIN Off = 1..(LastPart + 1) /\ LastPart + 1 \in 1..(LastPart + 1)
    BY <1>1, Constants
  <1> HIDE DEF Off
  <1>3. ASSUME NEW k \in Parts
        PROVE  /\ Off[k] \in Nat /\ Off[k + 1] \in Nat /\ LineLen[k] \in Nat \ {0}
               /\ Off[k + 1] = Off[k] + LineLen[k]
               /\ Off[LastPart + 1] + LineLen[k] <= SIZE
               /\ LineLen[k] <= SIZE
    <2>1. k \in 1..(LastPart + 1) /\ k + 1 \in 1..(LastPart + 1)  BY Constants
    <2>2. Off[k] \in 0..SIZE /\ Off[k + 1] \in 0..SIZE /\ Off[LastPart + 1] \in 0..SIZE
      BY <1>1, <1>2, <2>1
    <2>3. LineLen[k] \in Nat \ {0} /\ SIZE \in Nat  BY Constants
    <2>4. Off[k + 1] = Off[k] + LineLen[k] /\ Off[LastPart + 1] + LineLen[k] <= SIZE
      BY <1>1 DEF IsLayout
    <2> QED  BY <2>2, <2>3, <2>4
  <1> QED  BY <1>1, <1>2, <1>3 DEF IsLayout

--------------------------------------------------------------------------------
(* Types.                                                                   *)
BootPlaces == boot \in {"shm", "mutex", "task", "ready", "online", "failed"}
              /\ seg \in {"none", "live", "gone"}
BootFlags == mtx \in BOOLEAN /\ worker_ready \in BOOLEAN /\ g_asmp \in BOOLEAN
OtherFlags == beat \in BOOLEAN /\ served \in BOOLEAN /\ late \in BOOLEAN
Flags == BootFlags /\ OtherFlags
WorkPlaces ==
  /\ wpc \in {"off", "start", "ready", "idle", "copy", "line", "commit", "done"}
  /\ wk \in Parts /\ last \in Snapshots /\ snap \in [Parts -> Snapshots]
  /\ inbox_done \in Snapshots
MonPlaces ==
  /\ mon \in {"wait", "copy", "poll", "print", "release", "check", "local"}
  /\ sem \in 0..1 /\ mseq \in Snapshots /\ mhead \in 0..SIZE
  /\ stall \in 0..Strikes
  /\ handled \in Snapshots /\ shown \subseteq (Snapshots \X Parts)
  /\ quiet \in Nat
Places == OutboxTypes /\ BootPlaces /\ WorkPlaces /\ PushTypes /\ MonPlaces

LEMMA TypeParts == TypeOK <=> Flags /\ Places
  BY Zenon DEF TypeOK, Flags, Places, BootTypes, BootFlags, OtherFlags, BootPlaces, WorkTypes,
     WorkPlaces, MonTypes, MonPlaces

LEMMA FlagStep ==
  ASSUME Flags, Next
  PROVE  Flags'
  <1> USE DEF Flags, BootFlags, OtherFlags
  <1>1. CASE Boot
    <2>1. UNCHANGED served /\ UNCHANGED late  BY <1>1, Zenon DEF Boot, monVars
    <2>2. CASE BootShm  BY <1>1, <2>1, <2>2, Zenon DEF BootShm, Boot
    <2>3. CASE BootMutex  BY <1>1, <2>1, <2>3, Zenon DEF BootMutex, Boot, Rollback
    <2>4. CASE BootTask  BY <1>1, <2>1, <2>4, Zenon DEF BootTask, Boot, Rollback
    <2>5. CASE BootReady  BY <1>1, <2>1, <2>5, Zenon DEF BootReady, Boot, Rollback
    <2> QED  BY <1>1, <2>2, <2>3, <2>4, <2>5, Zenon DEF Boot
  <1>2. CASE Worker
    <2>1. UNCHANGED <<mtx, g_asmp, late>> /\ UNCHANGED served
      BY <1>2, Zenon DEF Worker, monVars
    <2>2. worker_ready' \in BOOLEAN /\ beat' \in BOOLEAN
      BY <1>2, Zenon
      DEF Worker, WorkerStart, WorkerReady, WorkerIdles, WorkerTakes, WorkerCopies,
          WorkerPlaces, WorkerCommits, WorkerReports, Heartbeat
    <2> QED  BY <2>1, <2>2, Zenon
  <1>3. CASE Push
    <2>1. UNCHANGED <<mtx, worker_ready, g_asmp, beat, served>>
      BY <1>3, Zenon DEF Push, bootVars, monVars
    <2>2. late' \in BOOLEAN
      BY <1>3, Zenon DEF Push, PushBegins, PushOn, PushCopies, PushPublishes, PushPosts
    <2> QED  BY <2>1, <2>2, Zenon
  <1>4. CASE Monitor
    <2>1. UNCHANGED <<mtx, worker_ready>>  BY <1>4, Zenon DEF Monitor, bootVars
    <2>2. CASE Check
      <3>1. (Stall < Strikes) \in BOOLEAN  OBVIOUS
      <3> QED  BY <2>1, <2>2, <3>1, Zenon DEF Check
    <2>3. CASE TakeSem \/ TakeCopy \/ PollServed \/ PollGivesUp
      BY <2>1, <2>3, Zenon DEF TakeSem, TakeCopy, PollServed, PollGivesUp
    <2>4. CASE PrintChunk \/ Release \/ PrintLocally
      BY <2>1, <2>4, Zenon DEF PrintChunk, Release, PrintLocally
    <2> QED  BY <1>4, <2>2, <2>3, <2>4, Zenon DEF Monitor
  <1> QED  BY <1>1, <1>2, <1>3, <1>4, Zenon DEF Next

LEMMA Advanced ==
  ASSUME WorkPlaces, NEW from, NEW to, Advance(from, to)
  PROVE  wk' \in Parts /\ wpc' \in {from, to}
  BY Constants DEF Advance, WorkPlaces

LEMMA WorkerPlacesStep ==
  ASSUME TypeOK, HandoffInv, Worker
  PROVE  Places'
  <1>1. Places  BY TypeParts
  <1>2. UNCHANGED <<boot, seg, g_mon_seq, push, pk, inbox, inbox_seq>>
        /\ UNCHANGED <<sem, mon, mseq, mhead, stall, handled, shown>>
    BY DEF Worker, pushVars, monVars
  <1>3. BootPlaces' /\ PushTypes'  BY <1>1, <1>2 DEF Places, BootPlaces, PushTypes
  <1>4. quiet' \in Nat
    BY <1>1
    DEF Worker, WorkerStart, WorkerReady, WorkerIdles, WorkerTakes, WorkerCopies,
        WorkerPlaces, WorkerCommits, WorkerReports, Heartbeat, Places, MonPlaces
  <1>5. MonPlaces'  BY <1>1, <1>2, <1>4 DEF Places, MonPlaces
  <1>6. WorkPlaces /\ OutboxTypes /\ inbox \in [Parts -> Snapshots] /\ inbox_seq \in Snapshots
    BY <1>1 DEF Places, PushTypes
  <1>7. WorkPlaces'
    <2>1. CASE WorkerStart \/ WorkerReady \/ WorkerIdles
      BY <1>6, <2>1 DEF WorkerStart, WorkerReady, WorkerIdles, WorkPlaces, workVars
    <2>2. CASE WorkerTakes
      BY <1>6, <2>2, Constants DEF WorkerTakes, WorkPlaces
    <2>3. CASE WorkerCopies
      <3>1. wk' \in Parts /\ wpc' \in {"copy", "line"}
        BY <1>6, <2>3, Advanced DEF WorkerCopies
      <3> QED  BY <1>6, <2>3, <3>1 DEF WorkerCopies, WorkPlaces
    <2>4. CASE WorkerPlaces
      <3>1. wk' \in Parts /\ wpc' \in {"line", "done", "commit"}
        BY <1>6, <2>4, Advanced DEF WorkerPlaces, WorkPlaces
      <3> QED  BY <1>6, <2>4, <3>1 DEF WorkerPlaces, WorkPlaces
    <2>5. CASE WorkerCommits
      <3>1. wk' \in Parts /\ wpc' \in {"line", "done"}
        BY <1>6, <2>5, Advanced DEF WorkerCommits
      <3> QED  BY <1>6, <2>5, <3>1 DEF WorkerCommits, WorkPlaces
    <2>6. CASE WorkerReports
      BY <1>6, <2>6 DEF WorkerReports, WorkPlaces
    <2> QED  BY <2>1, <2>2, <2>3, <2>4, <2>5, <2>6 DEF Worker
  <1>8. OutboxTypes'
    <2>1. wk \in Parts /\ LineLen[wk] \in Nat /\ LineLen[wk] <= SIZE /\ SIZE \in Nat
      BY <1>6, Layout, Constants DEF WorkPlaces
    <2>2. CASE WorkerPlaces
      BY <1>6, <2>1, <2>2 DEF WorkerPlaces, Refused, Placed, Start, OutboxTypes
    <2>3. CASE WorkerCommits
      <3>1. at = Start(LineLen[wk])  BY <2>3 DEF WorkerCommits, HandoffInv
      <3>2. at + LineLen[wk] \in 0..SIZE
        BY <1>6, <2>1, <3>1 DEF Start, OutboxTypes
      <3> QED  BY <1>6, <2>3, <3>2 DEF WorkerCommits, Commit, OutboxTypes
    <2>4. CASE UNCHANGED outboxVars
      BY <1>6, <2>4 DEF outboxVars, OutboxTypes
    <2> QED
      BY <2>2, <2>3, <2>4
      DEF Worker, WorkerStart, WorkerReady, WorkerIdles, WorkerTakes, WorkerCopies,
          WorkerReports
  <1> QED  BY <1>3, <1>5, <1>7, <1>8 DEF Places

LEMMA MonitorPlacesStep ==
  ASSUME TypeOK, BeatInv, HandoffInv, Monitor
  PROVE  Places'
  <1>1. Places  BY TypeParts
  <1>2. /\ UNCHANGED <<boot, seg, g_mon_seq, push, pk, inbox, inbox_seq>>
        /\ UNCHANGED <<wpc, wk, last, snap, inbox_done, out_head, out_dropped, at>>
    BY DEF Monitor, bootVars, pushVars, workVars
  <1>3. BootPlaces' /\ PushTypes' /\ WorkPlaces'
    BY <1>1, <1>2 DEF Places, BootPlaces, PushTypes, WorkPlaces
  <1>4. /\ OutboxTypes /\ MonPlaces /\ g_mon_seq \in Snapshots /\ SIZE \in Nat
        /\ Strikes \in Nat \ {0} /\ MaxPushes \in Nat
    BY <1>1, Constants DEF Places, PushTypes
  <1>5. MonPlaces' /\ out_tail' \in 0..SIZE
    <2>1. CASE TakeSem \/ TakeCopy
      BY <1>4, <2>1 DEF TakeSem, TakeCopy, MonPlaces, OutboxTypes
    <2>2. CASE PollServed
      BY <1>4, <2>2 DEF PollServed, NextTurn, MonPlaces, OutboxTypes
    <2>3. CASE PollGivesUp
      BY <1>4, <2>3 DEF PollGivesUp, MonPlaces, OutboxTypes
    <2>4. CASE PrintChunk
      <3>1. LinesIn(Chunk(mhead)) \subseteq (Snapshots \X Parts)
        BY DEF LinesIn, Snapshots
      <3>2. shown' \subseteq (Snapshots \X Parts)
        BY <1>4, <2>4, <3>1 DEF PrintChunk, MonPlaces
      <3> QED  BY <1>4, <2>4, <3>2 DEF PrintChunk, MonPlaces, OutboxTypes
    <2>5. CASE Release
      BY <1>4, <2>5 DEF Release, NextTurn, TailAfter, MonPlaces, OutboxTypes
    <2>6. CASE Check
      <3>1. stall < Strikes /\ stall \in Nat
        BY <1>4, <2>6 DEF Check, HandoffInv, BeatInv, MonPlaces
      <3>2. stall' \in 0..Strikes /\ quiet' \in Nat
        BY <1>4, <2>6, <3>1 DEF Check, Stall, MonPlaces
      <3> QED  BY <1>4, <2>6, <3>2 DEF Check, MonPlaces, OutboxTypes
    <2>7. CASE PrintLocally
      <3>1. shown' \subseteq (Snapshots \X Parts)
        BY <1>4, <2>7 DEF PrintLocally, Text, MonPlaces
      <3> QED  BY <1>4, <2>7, <3>1 DEF PrintLocally, MonPlaces, OutboxTypes
    <2> QED  BY <2>1, <2>2, <2>3, <2>4, <2>5, <2>6, <2>7 DEF Monitor
  <1>6. OutboxTypes'  BY <1>2, <1>4, <1>5 DEF OutboxTypes
  <1> QED  BY <1>3, <1>5, <1>6 DEF Places

LEMMA PlacesStep ==
  ASSUME TypeOK, BeatInv, HandoffInv, Next
  PROVE  Places'
  <1>1. Flags /\ Places  BY TypeParts
  <1>3. CASE Boot
    <2>1. /\ UNCHANGED <<out_head, out_tail, out_dropped, at>>
          /\ UNCHANGED <<g_mon_seq, push, pk, inbox, inbox_seq, sem>>
          /\ UNCHANGED <<inbox_done, wk, last, snap>>
          /\ UNCHANGED <<mon, mseq, mhead, stall, handled, shown>>
      BY <1>3 DEF Boot, outboxVars, pushVars, monVars
    <2>2. OutboxTypes' /\ PushTypes'
      BY <1>1, <2>1 DEF Places, OutboxTypes, PushTypes
    <2>3. CASE BootShm
      BY <1>1, <2>1, <2>2, <2>3 DEF BootShm, Places, BootPlaces, WorkPlaces, MonPlaces
    <2>4. CASE BootMutex
      BY <1>1, <2>1, <2>2, <2>4
      DEF BootMutex, Rollback, Places, BootPlaces, WorkPlaces, MonPlaces
    <2>5. CASE BootTask
      BY <1>1, <2>1, <2>2, <2>5
      DEF BootTask, Rollback, Places, BootPlaces, WorkPlaces, MonPlaces
    <2>6. CASE BootReady
      BY <1>1, <2>1, <2>2, <2>6
      DEF BootReady, Rollback, Places, BootPlaces, WorkPlaces, MonPlaces
    <2> QED  BY <1>3, <2>3, <2>4, <2>5, <2>6 DEF Boot
  <1>4. CASE Worker  BY <1>4, WorkerPlacesStep
  <1>5. CASE Push
    <2>1. /\ UNCHANGED <<out_head, out_tail, out_dropped, at, boot, seg>>
          /\ UNCHANGED <<inbox_done, wpc, wk, last, snap, quiet>>
          /\ UNCHANGED <<mon, mseq, mhead, stall, handled, shown>>
      BY <1>5 DEF Push, outboxVars, bootVars, workVars, monVars
    <2>2. OutboxTypes' /\ BootPlaces' /\ WorkPlaces'
      BY <1>1, <2>1 DEF Places, OutboxTypes, BootPlaces, WorkPlaces
    <2>3. CASE PushBegins
      BY <1>1, <2>1, <2>2, <2>3, Constants
      DEF PushBegins, Places, PushTypes, MonPlaces, Snapshots
    <2>4. CASE PushCopies
      BY <1>1, <2>1, <2>2, <2>4, Constants
      DEF PushCopies, Places, PushTypes, MonPlaces
    <2>5. CASE PushPublishes
      BY <1>1, <2>1, <2>2, <2>5 DEF PushPublishes, Places, PushTypes, MonPlaces
    <2>6. CASE PushPosts
      BY <1>1, <2>1, <2>2, <2>6 DEF PushPosts, Places, PushTypes, MonPlaces
    <2> QED  BY <1>5, <2>3, <2>4, <2>5, <2>6 DEF Push, PushOn
  <1>6. CASE Monitor  BY <1>6, MonitorPlacesStep
  <1> QED  BY <1>3, <1>4, <1>5, <1>6 DEF Next

LEMMA TypeStep ==
  ASSUME TypeOK, BeatInv, HandoffInv, Next
  PROVE  TypeOK'
  <1>1. Flags' /\ Places'  BY FlagStep, PlacesStep, TypeParts
  <1> QED
    BY <1>1, Zenon
    DEF TypeOK, Flags, Places, BootTypes, BootFlags, OtherFlags, BootPlaces, WorkTypes,
        WorkPlaces, MonTypes, MonPlaces

--------------------------------------------------------------------------------
(* The boot.                                                                *)
LEMMA BootStep ==
  ASSUME TypeOK, BootInv, HandoffInv, Next
  PROVE  BootInv'
  <1> USE DEF BootInv, Booted
  <1>0. boot \in {"shm", "mutex", "task", "ready", "online", "failed"}
    BY DEF TypeOK, BootTypes
  <1>1. CASE Boot
    <2>1. UNCHANGED <<g_mon_seq, push, mon, inbox, stall>>
      BY <1>1 DEF Boot, pushVars, monVars
    <2>2. CASE BootShm  BY <2>1, <2>2 DEF BootShm
    <2>3. CASE BootMutex  BY <2>1, <2>3 DEF BootMutex, Rollback
    <2>4. CASE BootTask  BY <2>1, <2>4 DEF BootTask, Rollback
    <2>5. CASE BootReady  BY <2>1, <2>5 DEF BootReady, Rollback
    <2> QED  BY <1>1, <2>2, <2>3, <2>4, <2>5 DEF Boot
  <1>2. CASE Worker
    <2>1. UNCHANGED <<boot, seg, mtx, g_asmp, g_mon_seq, push, mon, inbox, stall>>
      BY <1>2 DEF Worker, pushVars, monVars
    <2>2. wpc = "off" => FALSE
      BY <1>2
      DEF Worker, WorkerStart, WorkerReady, WorkerIdles, WorkerTakes, WorkerCopies,
          WorkerPlaces, WorkerCommits, WorkerReports
    <2>3. worker_ready => worker_ready'
      BY <1>2
      DEF Worker, WorkerStart, WorkerReady, WorkerIdles, WorkerTakes, WorkerCopies,
          WorkerPlaces, WorkerCommits, WorkerReports
    <2> QED  BY <2>1, <2>2, <2>3
  <1>3. CASE Push
    <2>1. UNCHANGED <<boot, seg, mtx, worker_ready, g_asmp, wpc, mon, stall>>
      BY <1>3 DEF Push, bootVars, workVars, monVars
    <2>2. Booted  BY <1>3 DEF Push, PushBegins, PushOn, PushCopies, PushPublishes, PushPosts
    <2> QED  BY <2>1, <2>2
  <1>4. CASE Monitor
    <2>1. UNCHANGED <<boot, seg, mtx, worker_ready, wpc>> /\ Booted
      BY <1>4 DEF Monitor, bootVars, workVars
    <2>2. g_asmp' => g_asmp
      <3>1. CASE Check  BY <3>1 DEF Check, HandoffInv
      <3>2. CASE ~Check
        BY <1>4, <3>2 DEF Monitor, TakeSem, TakeCopy, PollServed, PollGivesUp, PrintChunk, Release, PrintLocally
      <3> QED  BY <3>1, <3>2
    <2> QED  BY <2>1, <2>2
  <1> QED  BY <1>1, <1>2, <1>3, <1>4 DEF Next

--------------------------------------------------------------------------------
(* The heartbeat.                                                           *)
LEMMA BeatStep ==
  ASSUME TypeOK, BootInv, BeatInv, HandoffInv, Next
  PROVE  BeatInv'
  <1> USE DEF BeatInv
  <1>0. /\ stall \in Nat /\ quiet \in Nat /\ Strikes \in Nat \ {0}
        /\ boot = "ready" => stall = 0
    BY Constants DEF TypeOK, MonTypes, BootInv, Booted
  <1>1. CASE Boot
    <2>1. UNCHANGED stall  BY <1>1 DEF Boot, monVars
    <2>2. CASE BootShm  BY <2>1, <2>2 DEF BootShm
    <2>3. CASE BootMutex  BY <2>1, <2>3 DEF BootMutex
    <2>4. CASE BootTask  BY <2>1, <2>4 DEF BootTask
    <2>5. CASE BootReady
      <3>1. CASE worker_ready
        <4>1. ~beat' /\ quiet' = 1  BY <2>5, <3>1, Zenon DEF BootReady
        <4>2. stall' = 0  BY <1>0, <2>1, <2>5 DEF BootReady
        <4> QED  BY <1>0, <4>1, <4>2
      <3>2. CASE ~worker_ready
        <4>1. UNCHANGED <<g_asmp, beat, quiet>>  BY <2>5, <3>2, Zenon DEF BootReady
        <4> QED  BY <2>1, <4>1
      <3> QED  BY <3>1, <3>2
    <2> QED  BY <1>1, <2>2, <2>3, <2>4, <2>5 DEF Boot
  <1>2. CASE Worker
    <2>1. UNCHANGED stall /\ UNCHANGED g_asmp  BY <1>2 DEF Worker, monVars
    <2>2. UNCHANGED <<beat, quiet>> \/ Heartbeat
      BY <1>2
      DEF Worker, WorkerStart, WorkerReady, WorkerIdles, WorkerTakes, WorkerCopies,
          WorkerPlaces, WorkerCommits, WorkerReports
    <2> QED  BY <2>1, <2>2 DEF Heartbeat
  <1>3. CASE Push
    <2>1. UNCHANGED <<g_asmp, beat, quiet>> /\ UNCHANGED stall  BY <1>3 DEF Push, monVars
    <2> QED  BY <2>1
  <1>4. CASE Monitor
    <2>1. CASE Check
      <3>1. g_asmp  BY <2>1 DEF Check, HandoffInv
      <3>2. ~beat' /\ quiet' = quiet + 1 /\ stall' = Stall /\ (g_asmp' => Stall < Strikes)
        BY <2>1, Zenon DEF Check
      <3>3. Stall = IF beat THEN 0 ELSE stall + 1  BY DEF Stall
      <3>4. quiet = Stall  BY <1>0, <3>1, <3>3
      <3>5. g_asmp' => stall' < Strikes /\ quiet' = stall' + 1  BY <3>2, <3>4
      <3> QED  BY <3>2, <3>5
    <2>2. CASE ~Check
      <3>1. UNCHANGED <<g_asmp, beat, quiet, stall>>
        BY <1>4, <2>2
        DEF Monitor, TakeSem, TakeCopy, PollServed, PollGivesUp, PrintChunk, Release, PrintLocally
      <3> QED  BY <3>1
    <2> QED  BY <2>1, <2>2
  <1> QED  BY <1>1, <1>2, <1>3, <1>4 DEF Next

--------------------------------------------------------------------------------
(* The snapshots on their way.                                              *)
LEMMA HandoffWorkerStep ==
  ASSUME TypeOK, HandoffInv, Worker
  PROVE  HandoffInv'
  <1>1. UNCHANGED <<g_asmp, g_mon_seq, push, pk, inbox, inbox_seq, mon>>
    BY DEF Worker, pushVars, monVars
  <1>2. /\ inbox_done \in Nat /\ last \in Nat /\ inbox_seq \in Nat
        /\ g_mon_seq \in Nat
    BY Constants DEF TypeOK, WorkTypes, PushTypes, Snapshots
  <1>3. /\ inbox_done' <= last' /\ last' <= inbox_seq'
        /\ Working' <=> inbox_done' # last'
        /\ wpc' = "commit" => at' = Start(LineLen[wk])'
    <2> USE DEF HandoffInv, Working
    <2>1. CASE WorkerStart \/ WorkerReady \/ WorkerIdles
      <3>1. UNCHANGED <<inbox_done, last>> /\ wpc' \in {"off", "ready", "idle"}
            /\ wpc \in {"start", "ready", "idle"}
        BY <2>1 DEF WorkerStart, WorkerReady, WorkerIdles, workVars
      <3> QED  BY <1>1, <3>1
    <2>2. CASE WorkerTakes  BY <1>1, <1>2, <2>2 DEF WorkerTakes
    <2>3. CASE WorkerCopies
      <3>1. wpc' \in {"copy", "line"} /\ UNCHANGED <<inbox_done, last>>
        BY <2>3 DEF WorkerCopies, Advance
      <3> QED  BY <1>1, <2>3, <3>1 DEF WorkerCopies
    <2>4. CASE WorkerPlaces
      <3>1. wpc' \in {"line", "done", "commit"} /\ UNCHANGED <<inbox_done, last>>
        BY <2>4 DEF WorkerPlaces, Advance
      <3>2. wpc' = "commit" => at' = Start(LineLen[wk]) /\ UNCHANGED <<wk, out_head>>
        BY <2>4 DEF WorkerPlaces, Advance, Placed
      <3> QED  BY <1>1, <2>4, <3>1, <3>2 DEF WorkerPlaces, Start
    <2>5. CASE WorkerCommits
      <3>1. wpc' \in {"line", "done"} /\ UNCHANGED <<inbox_done, last>>
        BY <2>5 DEF WorkerCommits, Advance
      <3> QED  BY <1>1, <2>5, <3>1 DEF WorkerCommits
    <2>6. CASE WorkerReports  BY <1>1, <1>2, <2>6 DEF WorkerReports
    <2> QED  BY <2>1, <2>2, <2>3, <2>4, <2>5, <2>6 DEF Worker
  <1> QED  BY <1>1, <1>3 DEF HandoffInv, Copying

LEMMA HandoffPushStep ==
  ASSUME TypeOK, HandoffInv, Push
  PROVE  HandoffInv'
  <1>1. /\ UNCHANGED <<g_asmp, inbox_done, last, wpc, wk, mon>>
        /\ UNCHANGED <<at, out_head>>
    BY DEF Push, workVars, monVars, outboxVars
  <1>2. /\ inbox_done \in Nat /\ last \in Nat /\ inbox_seq \in Nat
        /\ g_mon_seq \in Nat /\ pk \in Parts /\ inbox \in [Parts -> Snapshots]
        /\ Parts = 1..LastPart /\ LastPart \in Nat \ {0}
    BY Constants DEF TypeOK, WorkTypes, PushTypes, Snapshots
  <1>3. /\ Working' <=> inbox_done' # last'
        /\ wpc' = "commit" => at' = Start(LineLen[wk])'
    BY <1>1 DEF HandoffInv, Working, Start
  <1> USE DEF HandoffInv, Copying
  <1>4. CASE PushBegins  BY <1>1, <1>2, <1>3, <1>4 DEF PushBegins
  <1>5. CASE PushCopies
    <2>1. inbox' = [inbox EXCEPT ![pk] = g_mon_seq] /\ UNCHANGED <<g_mon_seq, inbox_seq>>
          /\ g_asmp
      BY <1>5 DEF PushCopies
    <2>2. ASSUME NEW k \in 1..pk PROVE inbox'[k] = g_mon_seq
      <3>1. k \in Parts /\ (k = pk \/ k \in 1..(pk - 1))  BY <1>2
      <3> QED  BY <1>2, <1>5, <2>1, <3>1 DEF PushCopies
    <2>3. CASE pk = LastPart  BY <1>1, <1>2, <1>3, <1>5, <2>1, <2>2, <2>3 DEF PushCopies
    <2>4. CASE pk # LastPart
      <3>1. push' = "copy" /\ pk' = pk + 1  BY <1>5, <2>4 DEF PushCopies
      <3>2. \A k \in 1..(pk' - 1) : inbox'[k] = g_mon_seq  BY <1>2, <2>2, <3>1
      <3> QED  BY <1>1, <1>2, <1>3, <1>5, <2>1, <3>1, <3>2 DEF PushCopies
    <2> QED  BY <2>3, <2>4
  <1>6. CASE PushPublishes  BY <1>1, <1>2, <1>3, <1>6 DEF PushPublishes
  <1>7. CASE PushPosts  BY <1>1, <1>2, <1>3, <1>7 DEF PushPosts
  <1> QED  BY <1>4, <1>5, <1>6, <1>7 DEF Push, PushOn

LEMMA HandoffStep ==
  ASSUME TypeOK, BootInv, HandoffInv, Next
  PROVE  HandoffInv'
  <1>0. /\ inbox_done \in Nat /\ last \in Nat /\ inbox_seq \in Nat
        /\ g_mon_seq \in Nat
    BY Constants DEF TypeOK, WorkTypes, PushTypes, Snapshots
  <1>1. CASE Boot
    <2>1. /\ UNCHANGED <<inbox_done, last, inbox_seq, g_mon_seq, push, pk, inbox, wk, mon>>
          /\ UNCHANGED <<at, out_head>>
      BY <1>1 DEF Boot, pushVars, monVars, outboxVars
    <2>2. ~Booted  BY <1>1 DEF Boot, BootShm, BootMutex, BootTask, BootReady, Booted
    <2>3. g_mon_seq = 0 /\ push = "idle" /\ mon = "wait" /\ inbox = None
      BY <2>2 DEF BootInv
    <2>4. Working' <=> Working
      <3>1. wpc' = wpc \/ (wpc = "off" /\ wpc' = "start")
        BY <1>1 DEF Boot, BootShm, BootMutex, BootTask, BootReady, BootInv
      <3> QED  BY <3>1 DEF Working
    <2>5. wpc' = "commit" => wpc = "commit"
      BY <1>1 DEF Boot, BootShm, BootMutex, BootTask, BootReady
    <2>6. \A k \in Parts : inbox[k] = g_mon_seq  BY <2>3 DEF None
    <2>7. inbox_seq = g_mon_seq  BY <1>0, <2>3 DEF HandoffInv
    <2>8. Working' <=> inbox_done' # last'  BY <2>1, <2>4 DEF HandoffInv
    <2>9. wpc' = "commit" => at' = Start(LineLen[wk])'
      BY <2>1, <2>5 DEF HandoffInv, Start
    <2> QED  BY <2>1, <2>3, <2>6, <2>7, <2>8, <2>9 DEF HandoffInv, Copying
  <1>2. CASE Worker  BY <1>2, HandoffWorkerStep
  <1>3. CASE Push  BY <1>3, HandoffPushStep
  <1>4. CASE Monitor
    <2>1. /\ UNCHANGED <<inbox_done, last, inbox_seq, g_mon_seq, push, pk, inbox, wpc, wk>>
          /\ UNCHANGED <<at, out_head>> /\ push = "idle"
      BY <1>4 DEF Monitor, pushVars, workVars
    <2>2. /\ g_asmp' => g_asmp
          /\ mon' \in {"poll", "print", "release", "check"} => g_asmp'
      <3>1. CASE Check  BY <3>1 DEF Check, HandoffInv
      <3>2. CASE ~Check
        BY <1>4, <3>2
        DEF Monitor, TakeSem, TakeCopy, PollServed, PollGivesUp, PrintChunk, Release, PrintLocally,
            NextTurn, HandoffInv
      <3> QED  BY <3>1, <3>2
    <2> QED  BY <2>1, <2>2 DEF HandoffInv, Copying, Working, Start
  <1> QED  BY <1>1, <1>2, <1>3, <1>4 DEF Next

LEMMA SafeInit ==
  ASSUME Init
  PROVE  SafeInv
  <1>1. /\ SIZE \in Nat /\ 1 \in Parts /\ 0 \in Snapshots /\ Strikes \in Nat
        /\ None \in [Parts -> Snapshots]
    BY Constants DEF Snapshots, None
  <1>2. Places
    <2>1. OutboxTypes  BY <1>1 DEF Init, OutboxInit, OutboxTypes
    <2>2. BootPlaces /\ PushTypes  BY <1>1 DEF Init, BootPlaces, PushTypes
    <2>3. WorkPlaces  BY <1>1 DEF Init, WorkPlaces
    <2>4. MonPlaces  BY <1>1 DEF Init, MonPlaces
    <2> QED  BY <2>1, <2>2, <2>3, <2>4 DEF Places
  <1>3. Flags  BY Zenon DEF Init, Flags, BootFlags, OtherFlags
  <1>4. BootInv /\ BeatInv  BY DEF Init, BootInv, BeatInv, Booted
  <1>5. HandoffInv  BY DEF Init, HandoffInv, Working, Copying
  <1> QED  BY <1>2, <1>3, <1>4, <1>5, TypeParts DEF SafeInv

LEMMA SafeStep ==
  ASSUME SafeInv, [Next]_vars
  PROVE  SafeInv'
  <1>1. CASE Next
    BY <1>1, TypeStep, BootStep, BeatStep, HandoffStep DEF SafeInv
  <1>2. CASE UNCHANGED vars
    <2> USE <1>2 DEF vars, outboxVars, bootVars, pushVars, workVars, monVars
    <2>1. TypeOK'
      BY DEF SafeInv, TypeOK, OutboxTypes, BootTypes, WorkTypes, PushTypes, MonTypes
    <2>2. BootInv'  BY DEF SafeInv, BootInv, Booted
    <2>3. BeatInv'  BY DEF SafeInv, BeatInv
    <2>4. HandoffInv'  BY DEF SafeInv, HandoffInv, Working, Copying, Start
    <2> QED  BY <2>1, <2>2, <2>3, <2>4 DEF SafeInv
  <1> QED  BY <1>1, <1>2

LEMMA SafeAlways == Spec => []SafeInv
  BY SafeInit, SafeStep, PTL DEF Spec

(* Every variable of the path stays in its type: the ring's indices inside  *)
(* the ring, the strikes and the semaphore within their limits.             *)
THEOREM TelemetryTypeCorrect == Spec => []TypeOK
  <1>1. SafeInv => TypeOK  BY DEF SafeInv
  <1> QED  BY SafeAlways, <1>1, PTL

(* The main core only uses a segment that exists, and that a ready worker   *)
(* has found; a failed boot leaves neither segment nor mutex.               *)
THEOREM BootIsSound == Spec => []BootSound
  <1>1. ASSUME SafeInv PROVE BootSound
    <2>1. boot \in {"shm", "mutex", "task", "ready", "online", "failed"}
      BY <1>1 DEF SafeInv, TypeOK, BootTypes
    <2> QED  BY <1>1, <2>1 DEF SafeInv, BootInv, BootSound
  <1> QED  BY SafeAlways, <1>1, PTL

(* A step gives the worker up only when the checks since its last turn      *)
(* outnumber the strikes, and keeps it only while they do not.              *)
THEOREM HeartbeatRight == Spec => HeartbeatJudged
  <1> DEFINE A == /\ (g_asmp /\ ~g_asmp') => quiet' > Strikes
                  /\ g_asmp' => quiet' <= Strikes
  <1>1. ASSUME SafeInv, SafeInv', [Next]_vars PROVE [A]_vars
    <2>1. /\ Strikes \in Nat /\ stall \in Nat /\ stall' \in Nat /\ quiet \in Nat
          /\ quiet' \in Nat
      BY <1>1, Constants DEF SafeInv, TypeOK, MonTypes
    <2>2. ASSUME g_asmp' PROVE quiet' <= Strikes
      <3>1. stall' < Strikes /\ (quiet' = 0 \/ quiet' = stall' + 1)
        BY <1>1, <2>2 DEF SafeInv, BeatInv
      <3>2. quiet' \in Nat /\ stall' \in Nat /\ Strikes \in Nat  BY <2>1
      <3>3. CASE quiet' = 0  BY <3>2, <3>3
      <3>4. CASE quiet' = stall' + 1
        <4>1. stall' < Strikes  BY <3>1
        <4>2. \A n, m, q \in Nat : (n < m /\ q = n + 1) => q <= m  OBVIOUS
        <4> QED  BY <3>2, <3>4, <4>1, <4>2
      <3> QED  BY <3>1, <3>3, <3>4
    <2>3. ASSUME g_asmp, ~g_asmp' PROVE quiet' > Strikes
      <3>1. Check
        <4>1. CASE UNCHANGED vars  BY <2>3, <4>1 DEF vars
        <4>2. CASE Boot
          BY <2>3, <4>2, <1>1
          DEF Boot, BootShm, BootMutex, BootTask, BootReady, SafeInv, BootInv
        <4>3. CASE Worker  BY <2>3, <4>3 DEF Worker
        <4>4. CASE Push  BY <2>3, <4>4 DEF Push
        <4>5. CASE Monitor
          BY <2>3, <4>5
          DEF Monitor, TakeSem, TakeCopy, PollServed, PollGivesUp, PrintChunk, Release, PrintLocally
        <4> QED  BY <1>1, <4>1, <4>2, <4>3, <4>4, <4>5 DEF Next
      <3>2. quiet' = quiet + 1 /\ ~(Stall < Strikes)  BY <2>3, <3>1 DEF Check
      <3>3. Stall = IF beat THEN 0 ELSE stall + 1  BY DEF Stall
      <3>4. quiet = Stall  BY <1>1, <2>1, <2>3, <3>3 DEF SafeInv, BeatInv
      <3> QED  BY <2>1, <3>2, <3>4
    <2> QED  BY <2>2, <2>3
  <1> QED  BY SafeAlways, <1>1, PTL DEF Spec, HeartbeatJudged

(* A push that is over has left the semaphore posted for a monitor that has *)
(* not seen its snapshot, wherever it found the monitor: what the other     *)
(* actions do to the semaphore, the numbers and the monitor's place cannot  *)
(* take that from it.                                                       *)
THEOREM WakeUpsKept == Spec => []NoWakeUpLost
  <1> USE DEF NoWakeUpLost, Behind
  <1>1. Init => NoWakeUpLost  BY DEF Init
  <1>2. ASSUME SafeInv, NoWakeUpLost, [Next]_vars
        PROVE  NoWakeUpLost'
    <2>1. sem \in 0..1  BY <1>2 DEF SafeInv, TypeOK, MonTypes
    <2>2. CASE UNCHANGED <<push, mon, sem, handled, mseq, g_mon_seq>>  BY <1>2, <2>2
    <2>3. CASE Boot \/ Worker \/ UNCHANGED vars
      BY <2>2, <2>3 DEF Boot, Worker, vars, pushVars, monVars
    <2>4. CASE Push
      <3>1. CASE PushPosts
        <4>1. sem' = 1  BY <2>1, <3>1 DEF PushPosts
        <4> QED  BY <4>1
      <3>2. CASE PushBegins \/ PushCopies \/ PushPublishes
        <4>1. push' # "idle"
          BY <3>2, Zenon DEF PushBegins, PushCopies, PushPublishes
        <4> QED  BY <4>1
      <3> QED  BY <2>4, <3>1, <3>2 DEF Push, PushOn
    <2>5. CASE Monitor
      <3>1. push = "idle" /\ UNCHANGED <<push, g_mon_seq>>  BY <2>5 DEF Monitor, pushVars
      <3>2. CASE TakeSem \/ TakeCopy
        BY <1>2, <2>5, <3>1, <3>2 DEF TakeSem, TakeCopy
      <3>3. CASE PollServed \/ PollGivesUp \/ PrintChunk \/ Release
        BY <1>2, <2>5, <3>1, <3>3 DEF PollServed, PollGivesUp, PrintChunk, Release, NextTurn
      <3>4. CASE Check \/ PrintLocally
        BY <1>2, <2>5, <3>1, <3>4 DEF Check, PrintLocally
      <3> QED  BY <2>5, <3>2, <3>3, <3>4 DEF Monitor
    <2> QED  BY <1>2, <2>3, <2>4, <2>5 DEF Next
  <1> QED  BY SafeAlways, <1>1, <1>2, PTL DEF Spec

--------------------------------------------------------------------------------
(* The ring has room for the rest of the text, and a line that is added     *)
(* leaves the others where they are.                                        *)
LEMMA RoomAhead ==
  ASSUME OutboxTypes, NEW m \in Parts, HeadAt(m)
  PROVE  /\ \/ out_tail <= out_head /\ out_head + 2 * LineLen[m] <= out_tail + SIZE
            \/ out_head + LineLen[m] < out_tail
         /\ LineLen[m] <= Free
  <1>1. /\ SIZE \in Nat \ {0} /\ Word \in Nat \ {0} /\ Word > SIZE
        /\ out_head \in 0..SIZE /\ out_tail \in 0..SIZE
    BY Constants DEF OutboxTypes
  <1>2. /\ Off[m] \in Nat /\ LineLen[m] \in Nat \ {0} /\ Off[LastPart + 1] \in Nat
        /\ Off[m] + LineLen[m] <= Off[LastPart + 1]
        /\ Off[LastPart + 1] + LineLen[m] <= SIZE
    <2>1. m \in 1..(LastPart + 1) /\ m + 1 \in 1..(LastPart + 1) /\ m + 1 <= LastPart + 1
          /\ LastPart + 1 \in 1..(LastPart + 1)
      BY Constants
    <2>2. Off[m + 1] <= Off[LastPart + 1] /\ Off[LastPart + 1] \in 0..SIZE
      BY <2>1, Layout
    <2> QED  BY <1>1, <2>2, Layout
  <1>3. CASE out_head = out_tail + Off[m]
    <2>1. Used = Off[m] /\ out_tail <= out_head
      <3> HIDE DEF Off
      <3> QED  BY <1>1, <1>2, <1>3 DEF Used
    <2>2. SIZE - 1 - Used \in 0..(Word - 1) /\ LineLen[m] <= SIZE - 1 - Used
      BY <1>1, <1>2, <2>1
    <2>3. out_head + 2 * LineLen[m] <= out_tail + SIZE  BY <1>1, <1>2, <1>3
    <2> QED  BY <1>1, <2>1, <2>2, <2>3, ModSmall DEF Free
  <1>4. ASSUME NEW w \in 1..(m - 1), out_head = Off[m] - Off[w],
               out_tail + Off[w] + LineLen[w] > SIZE
        PROVE  out_head + LineLen[m] < out_tail /\ LineLen[m] <= Free
    <2>1. w \in Parts  BY Constants
    <2>2. /\ Off[w] \in Nat /\ LineLen[w] \in Nat
          /\ Off[LastPart + 1] + LineLen[w] <= SIZE
      BY <2>1, Layout
    <2>3. out_head + LineLen[m] < out_tail  BY <1>1, <1>2, <1>4, <2>2
    <2>4. Used = SIZE - (out_tail - out_head)  BY <1>1, <1>2, <2>3 DEF Used
    <2>5. SIZE - 1 - Used \in 0..(Word - 1) /\ LineLen[m] <= SIZE - 1 - Used
      BY <1>1, <1>2, <2>3, <2>4
    <2> QED  BY <1>1, <2>3, <2>5, ModSmall DEF Free
  <1> QED  BY <1>3, <1>4 DEF HeadAt, HeadOf

Adds(m) == /\ at = Start(LineLen[m])
           /\ Commit(<<g_mon_seq, m>>, LineLen[m]) /\ UNCHANGED g_mon_seq

LEMMA HeadMoves ==
  ASSUME OutboxTypes, NEW m \in Parts, HeadAt(m), Adds(m)
  PROVE  HeadAt(m + 1)'
  <1>1. /\ SIZE \in Nat \ {0} /\ out_head \in 0..SIZE /\ out_tail \in 0..SIZE
        /\ out_tail' = out_tail /\ out_head' = at + LineLen[m] /\ at = Start(LineLen[m])
    BY Constants DEF OutboxTypes, Adds, Commit
  <1>2. /\ Off[m] \in Nat /\ LineLen[m] \in Nat \ {0} /\ Off[m + 1] = Off[m] + LineLen[m]
        /\ m \in Nat \ {0}
    BY Layout, Constants
  <1>3. CASE out_head = out_tail + Off[m]
    <2>1. CASE out_head + LineLen[m] > SIZE
      <3>1. out_head' = Off[m + 1] - Off[m]  BY <1>1, <1>2, <2>1 DEF Start
      <3>2. out_tail' + Off[m] + LineLen[m] > SIZE  BY <1>1, <1>2, <1>3, <2>1
      <3>3. m \in 1..(m + 1 - 1)  BY <1>2
      <3> QED  BY <3>1, <3>2, <3>3 DEF HeadAt, HeadOf
    <2>2. CASE ~(out_head + LineLen[m] > SIZE)
      <3>1. out_head' = out_tail' + Off[m + 1]  BY <1>1, <1>2, <1>3, <2>2 DEF Start
      <3> QED  BY <3>1 DEF HeadAt, HeadOf
    <2> QED  BY <2>1, <2>2
  <1>4. CASE \E w \in 1..(m - 1) : /\ out_head = Off[m] - Off[w]
                                   /\ out_tail + Off[w] + LineLen[w] > SIZE
    <2>0. PICK v \in 1..(m - 1) : /\ out_head = Off[m] - Off[v]
                                  /\ out_tail + Off[v] + LineLen[v] > SIZE
      BY <1>4
    <2>1. Off[v] \in Nat /\ LineLen[v] \in Nat /\ v \in 1..(m + 1 - 1)
          /\ Off[LastPart + 1] + LineLen[v] <= SIZE
      BY Constants, Layout
    <2>2. /\ m \in 1..(LastPart + 1) /\ m + 1 \in 1..(LastPart + 1) /\ m + 1 <= LastPart + 1
          /\ LastPart + 1 \in 1..(LastPart + 1)
      BY Constants
    <2>3. Off[m + 1] <= Off[LastPart + 1] /\ Off[LastPart + 1] \in 0..SIZE
      BY <2>2, Layout
    <2>4. ~(out_head + LineLen[m] > SIZE)  BY <1>1, <1>2, <2>0, <2>1, <2>3
    <2>5. out_head' = Off[m + 1] - Off[v]  BY <1>1, <1>2, <2>0, <2>1, <2>4 DEF Start
    <2>6. out_tail' + Off[v] + LineLen[v] > SIZE  BY <1>1, <2>0
    <2>7. HeadOf(out_head', out_tail', m + 1)  BY <1>1, <1>2, <2>1, <2>5, <2>6 DEF HeadOf
    <2> QED  BY <2>7 DEF HeadAt
  <1> QED  BY <1>3, <1>4 DEF HeadAt, HeadOf

(* Where the new line is.                                                   *)
LEMMA NewLine ==
  ASSUME OutboxTypes, NEW m \in Parts, HeadAt(m), Adds(m)
  PROVE  /\ at \in 0..SIZE /\ out_head' = at + LineLen[m] /\ at + LineLen[m] \in 0..SIZE
         /\ out_tail' = out_tail
         /\ \/ at = out_head /\ (out_tail <= out_head \/ out_head' < out_tail)
            \/ at = 0 /\ out_tail <= out_head /\ out_head' < out_tail
  <1>1. /\ SIZE \in Nat \ {0} /\ out_head \in 0..SIZE /\ out_tail \in 0..SIZE
        /\ out_tail' = out_tail /\ out_head' = at + LineLen[m] /\ at = Start(LineLen[m])
    BY Constants DEF OutboxTypes, Adds, Commit
  <1>2. LineLen[m] \in Nat \ {0} /\ LineLen[m] <= SIZE  BY Layout
  <1>3. \/ out_tail <= out_head /\ out_head + 2 * LineLen[m] <= out_tail + SIZE
        \/ out_head + LineLen[m] < out_tail
    BY RoomAhead
  <1>4. CASE out_head + LineLen[m] > SIZE
    <2>1. at = 0 /\ out_tail <= out_head  BY <1>1, <1>2, <1>3, <1>4 DEF Start
    <2>2. LineLen[m] < out_tail  BY <1>1, <1>2, <1>3, <1>4
    <2> QED  BY <1>1, <1>2, <2>1, <2>2
  <1>5. CASE ~(out_head + LineLen[m] > SIZE)
    <2>1. at = out_head  BY <1>5, <1>1 DEF Start
    <2> QED  BY <1>1, <1>2, <1>3, <1>5, <2>1
  <1> QED  BY <1>4, <1>5

LEMMA DataKept ==
  ASSUME OutboxTypes, NEW m \in Parts, HeadAt(m), Adds(m), NEW k \in Parts, Ahead(k)
  PROVE  Ahead(k)'
  <1> DEFINE len == LineLen[m]
             n == LineLen[k]
  <1>1. /\ SIZE \in Nat \ {0} /\ out_head \in 0..SIZE /\ out_tail \in 0..SIZE
        /\ len \in Nat \ {0} /\ n \in Nat \ {0}
    BY Constants DEF OutboxTypes
  <1>2. PICK p \in 0..SIZE : Stored(p, g_mon_seq, k) /\ InData(p, n)
    BY DEF Ahead
  <1>3. /\ at \in 0..SIZE /\ out_head' = at + len /\ at + len \in 0..SIZE
        /\ out_tail' = out_tail
        /\ \/ at = out_head /\ (out_tail <= out_head \/ out_head' < out_tail)
           \/ at = 0 /\ out_tail <= out_head /\ out_head' < out_tail
    BY NewLine
  <1> HIDE DEF len, n
  <1>4. /\ InData(p, n)' /\ p + n <= SIZE
        /\ p + n <= at \/ at + len <= p
    <2> USE DEF InData, Before
    <2>1. CASE out_tail <= out_head /\ at = out_head
      BY <1>1, <1>2, <1>3, <2>1
    <2>2. CASE out_head < out_tail /\ at = out_head
      <3>1. out_head' < out_tail  BY <1>1, <1>3, <2>2
      <3>2. (out_tail <= p /\ p + n <= SIZE) \/ p + n <= out_head
        BY <1>1, <1>2, <2>2
      <3> QED  BY <1>1, <1>2, <1>3, <2>2, <3>1, <3>2
    <2>3. CASE at = 0 /\ out_tail <= out_head /\ out_head' < out_tail
      BY <1>1, <1>2, <1>3, <2>3
    <2> QED  BY <1>1, <1>3, <2>1, <2>2, <2>3
  <1>5. outbox' = [a \in 0..(SIZE - 1) |->
                     IF a \in at..(at + len - 1)
                     THEN [line |-> <<g_mon_seq, m>>, pos |-> a - at + 1] ELSE outbox[a]]
    BY DEF Adds, Commit, len
  <1>6. ASSUME NEW j \in 1..n PROVE outbox'[p + j - 1] = outbox[p + j - 1]
    <2>1. p + j - 1 \in 0..(SIZE - 1) /\ p + j - 1 \notin at..(at + len - 1)
      BY <1>1, <1>3, <1>4
    <2> QED  BY <1>5, <2>1
  <1>7. Stored(p, g_mon_seq, k)'
    <2>1. g_mon_seq' = g_mon_seq  BY DEF Adds
    <2>2. \A j \in 1..n : outbox[p + j - 1] = [line |-> <<g_mon_seq, k>>, pos |-> j]
      BY <1>2 DEF Stored, n
    <2>3. \A j \in 1..n : outbox'[p + j - 1] = [line |-> <<g_mon_seq', k>>, pos |-> j]
      BY <1>6, <2>1, <2>2
    <2> QED  BY <2>3, Zenon DEF Stored, n
  <1> QED  BY <1>4, <1>7 DEF Ahead, n

LEMMA LineAdded ==
  ASSUME OutboxTypes, NEW m \in Parts, HeadAt(m), Adds(m)
  PROVE  Ahead(m)'
  <1> DEFINE len == LineLen[m]
  <1>1. /\ SIZE \in Nat \ {0} /\ out_head \in 0..SIZE /\ out_tail \in 0..SIZE
        /\ len \in Nat \ {0}
    BY Constants DEF OutboxTypes
  <1>2. /\ at \in 0..SIZE /\ out_head' = at + len /\ at + len \in 0..SIZE
        /\ out_tail' = out_tail
        /\ \/ at = out_head /\ (out_tail <= out_head \/ out_head' < out_tail)
           \/ at = 0 /\ out_tail <= out_head /\ out_head' < out_tail
    BY NewLine
  <1>3. outbox' = [a \in 0..(SIZE - 1) |->
                     IF a \in at..(at + len - 1)
                     THEN [line |-> <<g_mon_seq, m>>, pos |-> a - at + 1] ELSE outbox[a]]
    BY DEF Adds, Commit
  <1>4. g_mon_seq' = g_mon_seq  BY DEF Adds
  <1> HIDE DEF len
  <1>5. ASSUME NEW j \in 1..len
        PROVE  outbox'[at + j - 1] = [line |-> <<g_mon_seq', m>>, pos |-> j]
    <2>1. /\ at + j - 1 \in 0..(SIZE - 1) /\ at + j - 1 \in at..(at + len - 1)
          /\ (at + j - 1) - at + 1 = j
      BY <1>1, <1>2
    <2> QED  BY <1>3, <1>4, <2>1
  <1>6. \E p \in 0..SIZE : p = at  BY <1>2
  <1>7. PICK p \in 0..SIZE : p = at  BY <1>6
  <1>8. Stored(p, g_mon_seq, m)'  BY <1>5, <1>7 DEF Stored, len
  <1>9. InData(p, len)'
    BY <1>1, <1>2, <1>7 DEF InData, Before
  <1> QED  BY <1>8, <1>9 DEF Ahead, len

LEMMA WrittenFrame ==
  ASSUME UNCHANGED <<outbox, out_head, out_tail, g_mon_seq>>
  PROVE  /\ \A k : Ahead(k)' = Ahead(k)
         /\ \A k : Rest(k)' = Rest(k)
         /\ \A m : Written(m)' = Written(m)
  BY DEF Ahead, Rest, Written, HeadAt, HeadOf, Stored, InData, Before

(* The line after the last leaves a byte unread at least.                   *)
LEMMA NotEmpty ==
  ASSUME OutboxTypes, HeadAt(LastPart + 1)
  PROVE  out_head # out_tail
  <1>1. LastPart \in Parts /\ LastPart \in Nat  BY Constants
  <1>2. HeadAt(LastPart + 1) /\ SIZE \in Nat /\ out_head \in 0..SIZE /\ out_tail \in 0..SIZE
    BY Constants DEF OutboxTypes
  <1>3. Off[LastPart + 1] \in Nat /\ Off[LastPart + 1] >= 1
    BY <1>1, Layout
  <1>4. ASSUME NEW v \in 1..LastPart, out_head = Off[LastPart + 1] - Off[v],
               out_tail + Off[v] + LineLen[v] > SIZE
        PROVE  out_head # out_tail
    <2>1. v \in Parts  BY Constants
    <2>2. Off[v] \in Nat /\ LineLen[v] \in Nat /\ Off[LastPart + 1] + LineLen[v] <= SIZE
      BY <2>1, Layout
    <2> QED  BY <1>2, <1>3, <1>4, <2>2
  <1> QED  BY <1>1, <1>2, <1>3, <1>4 DEF HeadAt, HeadOf

--------------------------------------------------------------------------------
(* The steps of a punctual run.                                             *)
LEMMA Numbers ==
  ASSUME SafeInv
  PROVE  /\ g_mon_seq \in Nat /\ last \in Nat /\ inbox_done \in Nat /\ inbox_seq \in Nat
         /\ handled \in Nat /\ mseq \in Nat /\ sem \in 0..1
         /\ inbox_done <= last /\ last <= inbox_seq /\ inbox_seq <= g_mon_seq
         /\ wk \in 1..LastPart /\ Parts = 1..LastPart /\ LastPart \in Nat \ {0}
         /\ snap \in [Parts -> Snapshots]
         /\ Working <=> inbox_done # last
  BY Constants
  DEF SafeInv, TypeOK, WorkTypes, PushTypes, MonTypes, Snapshots, HandoffInv

LEMMA PunctualBoot ==
  ASSUME SafeInv, Punctual, Boot
  PROVE  Punctual'
  <1>1. /\ UNCHANGED <<outbox, out_head, out_tail, out_dropped>>
        /\ UNCHANGED <<g_mon_seq, push, inbox_seq, sem, inbox_done, wk, last, snap>>
        /\ UNCHANGED <<mon, mseq, mhead, served, handled, shown>>
    BY DEF Boot, outboxVars, pushVars, monVars
  <1>2. ~g_asmp /\ g_mon_seq = 0 /\ push = "idle" /\ mon = "wait"
    BY DEF Boot, BootShm, BootMutex, BootTask, BootReady, SafeInv, BootInv, Booted
  <1>3. handled = g_mon_seq /\ last = inbox_seq /\ ~Working /\ inbox_done = g_mon_seq
    BY <1>2, Numbers DEF Punctual, TurnInv
  <1>4. ~Working'
    <2>1. wpc' = wpc \/ wpc' = "start"
      BY DEF Boot, BootShm, BootMutex, BootTask, BootReady
    <2> QED  BY <1>3, <2>1 DEF Working
  <1>5. ~HasText /\ ~HasText'  BY <1>1, <1>2, <1>3 DEF HasText
  <1>6. TurnInv'
    BY <1>1, <1>2, <1>3, <1>4 DEF Punctual, TurnInv, Draining
  <1>7. CopyInv'  BY <1>4 DEF CopyInv, Working
  <1>8. TextInv'  BY <1>1, <1>2, <1>5 DEF Punctual, TextInv
  <1>9. DrainInv' /\ AllShown'
    BY <1>1, <1>2 DEF Punctual, DrainInv, AllShown
  <1> QED  BY <1>6, <1>7, <1>8, <1>9 DEF Punctual

(* What no step of the worker touches.                                      *)
WorkerLeaves == UNCHANGED <<g_asmp, g_mon_seq, push, inbox_seq, sem, out_tail, out_dropped,
                            mon, mseq, mhead, served, handled, shown>>

LEMMA PunctualWaits ==
  ASSUME SafeInv, Punctual, Worker, WorkerStart \/ WorkerReady \/ WorkerIdles
  PROVE  Punctual'
  <1>1. /\ UNCHANGED <<outbox, out_head, inbox_done, last, wk, snap>> /\ WorkerLeaves
        /\ wpc \in {"start", "ready", "idle"} /\ wpc' \in {"off", "ready", "idle"}
    BY DEF Worker, WorkerStart, WorkerReady, WorkerIdles, workVars, pushVars, monVars,
       outboxVars, WorkerLeaves
  <1> USE DEF WorkerLeaves
  <1>2. ~Working /\ ~Working' /\ Draining' = Draining /\ Copying' = Copying
    BY <1>1 DEF Working, Draining, Copying
  <1>3. HasText' <=> HasText  BY <1>1, <1>2 DEF HasText
  <1>4. TurnInv'  BY <1>1, <1>2, Zenon DEF Punctual, TurnInv
  <1>5. CopyInv'  BY <1>1 DEF CopyInv
  <1>6. TextInv'
    <2>1. CASE HasText
      <3>1. Written(LastPart + 1)  BY <1>1, <2>1 DEF Punctual, TextInv
      <3>2. Written(LastPart + 1)'  BY <1>1, <3>1, WrittenFrame
      <3> QED  BY <1>1, <1>3, <2>1, <3>2 DEF TextInv
    <2>2. CASE ~HasText
      BY <1>1, <1>3, <2>2 DEF Punctual, TextInv
    <2> QED  BY <2>1, <2>2
  <1>7. DrainInv' /\ AllShown'
    <2>1. \A k : Ahead(k)' = Ahead(k) /\ Rest(k)' = Rest(k)  BY <1>1, WrittenFrame
    <2> QED  BY <1>1, <2>1 DEF Punctual, DrainInv, AllShown, Shown
  <1> QED  BY <1>4, <1>5, <1>6, <1>7 DEF Punctual

LEMMA PunctualTakes ==
  ASSUME SafeInv, Punctual, Worker, WorkerTakes
  PROVE  Punctual'
  <1>1. /\ UNCHANGED <<outbox, out_head, inbox_done, snap>> /\ WorkerLeaves
        /\ wpc = "idle" /\ wpc' = "copy" /\ wk' = 1 /\ last' = inbox_seq /\ inbox_seq # last
    BY DEF Worker, WorkerTakes, pushVars, monVars, outboxVars, WorkerLeaves
  <1> USE DEF WorkerLeaves
  <1>2. g_asmp /\ ~Copying  BY <1>1 DEF Punctual, TurnInv
  <1>3. inbox_seq = g_mon_seq /\ last # g_mon_seq /\ inbox_done # g_mon_seq
    BY <1>1, <1>2, Numbers DEF SafeInv, HandoffInv
  <1>4. ~Draining /\ handled # g_mon_seq  BY <1>2, <1>3 DEF Punctual, TurnInv
  <1>5. ~HasText /\ HasText'
    BY <1>1, <1>2, <1>3, <1>4 DEF HasText, Draining
  <1>6. TurnInv'
    BY <1>1, <1>2, <1>3, <1>4, <1>5 DEF Punctual, TurnInv, Draining, Copying
  <1>7. CopyInv'  BY <1>1 DEF CopyInv
  <1>8. out_head = out_tail  BY <1>4, <1>5 DEF Punctual, TextInv, Draining
  <1>9. Written(1)'
    <2>1. out_tail \in Nat  BY Constants DEF SafeInv, TypeOK, OutboxTypes
    <2>2. HeadOf(out_head', out_tail', 1)  BY <1>1, <1>8, <2>1, Layout DEF HeadOf
    <2> QED  BY <2>2 DEF Written, HeadAt
  <1>10. TextInv'  BY <1>1, <1>5, <1>9 DEF TextInv
  <1>11. DrainInv' /\ AllShown'
    BY <1>1, <1>4 DEF Punctual, DrainInv, Draining, AllShown
  <1> QED  BY <1>6, <1>7, <1>10, <1>11 DEF Punctual

LEMMA PunctualCopies ==
  ASSUME SafeInv, Punctual, Worker, WorkerCopies
  PROVE  Punctual'
  <1>1. /\ UNCHANGED <<outbox, out_head, inbox_done, last>> /\ WorkerLeaves
        /\ wpc = "copy" /\ snap' = [snap EXCEPT ![wk] = inbox[wk]] /\ Advance("copy", "line")
    BY DEF Worker, WorkerCopies, pushVars, monVars, outboxVars, WorkerLeaves
  <1> USE DEF WorkerLeaves
  <1>2. Working /\ Working' /\ Draining' = Draining /\ Copying' = Copying
    BY <1>1 DEF Working, Draining, Copying, Advance
  <1>3. HasText /\ HasText' /\ g_asmp /\ ~Copying /\ last = g_mon_seq /\ ~Draining
    <2>1. HasText  BY <1>2 DEF Punctual, TurnInv
    <2> QED  BY <1>1, <1>2, <2>1 DEF Punctual, TurnInv, HasText
  <1>4. TurnInv'  BY <1>1, <1>2, <1>3, Zenon DEF Punctual, TurnInv
  <1>5. \A k \in 1..wk : snap'[k] = last'
    <2>1. \A k \in Parts : inbox[k] = g_mon_seq  BY <1>3 DEF SafeInv, HandoffInv
    <2>2. \A k \in 1..(wk - 1) : snap[k] = last  BY <1>1 DEF Punctual, CopyInv
    <2> SUFFICES ASSUME NEW k \in 1..wk PROVE snap'[k] = last'
      OBVIOUS
    <2>3. k \in Parts /\ (k = wk \/ k \in 1..(wk - 1))  BY Numbers
    <2> QED  BY <1>1, <1>3, <2>1, <2>2, <2>3, Numbers
  <1>6. CopyInv'
    <2>1. CASE wk = LastPart
      BY <1>1, <1>5, <2>1, Numbers DEF Advance, CopyInv
    <2>2. CASE wk # LastPart
      <3>1. wpc' = "copy" /\ wk' = wk + 1  BY <1>1, <2>2 DEF Advance
      <3>2. 1..(wk' - 1) = 1..wk  BY <3>1, Numbers
      <3> QED  BY <1>5, <3>1, <3>2 DEF CopyInv
    <2> QED  BY <2>1, <2>2
  <1>7. TextInv'
    <2>1. Written(1)  BY <1>1, <1>3 DEF Punctual, TextInv
    <2>2. Written(1)'  BY <1>1, <2>1, WrittenFrame
    <2>3. wpc' = "copy" \/ (wpc' = "line" /\ wk' = 1)  BY <1>1 DEF Advance
    <2> QED  BY <1>3, <2>2, <2>3 DEF TextInv
  <1>8. DrainInv' /\ AllShown'
    BY <1>1, <1>3 DEF Punctual, DrainInv, Draining, AllShown
  <1> QED  BY <1>4, <1>6, <1>7, <1>8 DEF Punctual

LEMMA PunctualPlaces ==
  ASSUME SafeInv, Punctual, Worker, WorkerPlaces
  PROVE  Punctual'
  <1>1. /\ UNCHANGED <<g_asmp, g_mon_seq, push, inbox_seq, sem, out_tail>>
        /\ UNCHANGED <<mon, mseq, mhead, served, handled, shown, inbox_done, last, snap>>
        /\ UNCHANGED <<outbox, out_head>> /\ wpc = "line"
    BY DEF Worker, WorkerPlaces, pushVars, monVars, Refused, Placed
  <1>2. Working /\ HasText
    <2>1. Working  BY <1>1 DEF Working
    <2> QED  BY <2>1 DEF Punctual, TurnInv
  <1>3. Written(wk) /\ wk \in Parts  BY <1>1, <1>2, Numbers DEF Punctual, TextInv
  <1>4. LineLen[wk] <= Free
    <2>1. OutboxTypes /\ HeadAt(wk)  BY <1>3 DEF SafeInv, TypeOK, Written
    <2> QED  BY <1>3, <2>1, RoomAhead
  <1>5. ~Refused(LineLen[wk])
    <2>1. LineLen[wk] \in Nat /\ Free \in Nat
      <3> DEFINE a == SIZE - 1 - Used
      <3>1. OutboxTypes /\ Word \in Nat \ {0} /\ SIZE \in Nat
        BY Constants DEF SafeInv, TypeOK
      <3>2. a \in Int  BY <3>1 DEF Used, OutboxTypes
      <3>3. Free = a % Word  BY DEF Free
      <3> HIDE DEF a
      <3>4. Free \in 0..(Word - 1)  BY <3>1, <3>2, <3>3, IntModDef
      <3> QED  BY <1>3, <3>1, <3>4, Constants
    <2> QED  BY <1>4, <2>1 DEF Refused
  <1>6. wpc' = "commit" /\ wk' = wk /\ out_dropped' = out_dropped
    BY <1>5 DEF WorkerPlaces, Placed
  <1>7. Working' /\ HasText' /\ Draining' = Draining /\ Copying' = Copying
    BY <1>1, <1>2, <1>6 DEF Working, HasText, Draining, Copying
  <1>8. TurnInv'  BY <1>1, <1>2, <1>7, Zenon DEF Punctual, TurnInv
  <1>9. CopyInv'  BY <1>1, <1>6 DEF Punctual, CopyInv
  <1>10. TextInv'
    <2>1. Written(wk)'  BY <1>1, <1>3, <1>6, WrittenFrame DEF Written
    <2> QED  BY <1>6, <1>7, <2>1 DEF TextInv
  <1>11. DrainInv' /\ AllShown'
    BY <1>1, <1>2, <1>6 DEF Punctual, DrainInv, HasText, Draining, AllShown
  <1> QED  BY <1>8, <1>9, <1>10, <1>11 DEF Punctual

LEMMA PunctualCommits ==
  ASSUME SafeInv, Punctual, Worker, WorkerCommits
  PROVE  Punctual'
  <1>1. /\ UNCHANGED <<inbox_done, last, snap>> /\ WorkerLeaves
        /\ wpc = "commit" /\ Commit(<<snap[wk], wk>>, LineLen[wk]) /\ Advance("line", "done")
    BY DEF Worker, WorkerCommits, pushVars, monVars, Commit, WorkerLeaves
  <1> USE DEF WorkerLeaves
  <1>2. Working /\ Working' /\ HasText
    <2>1. Working /\ Working'  BY <1>1 DEF Working, Advance
    <2> QED  BY <2>1 DEF Punctual, TurnInv
  <1>3. Draining' = Draining /\ Copying' = Copying /\ HasText'
    BY <1>1, <1>2 DEF HasText, Draining, Copying
  <1>4. /\ Written(wk) /\ wk \in Parts /\ wk \in Nat /\ snap[wk] = g_mon_seq /\ OutboxTypes
        /\ at = Start(LineLen[wk]) /\ LastPart \in Nat
    BY <1>1, <1>2, Numbers
    DEF Punctual, TextInv, CopyInv, HasText, SafeInv, HandoffInv, TypeOK
  <1>5. Adds(wk) /\ HeadAt(wk)  BY <1>1, <1>4 DEF Adds, Written
  <1>6. TurnInv'  BY <1>1, <1>2, <1>3, Zenon DEF Punctual, TurnInv
  <1>7. CopyInv'  BY <1>1 DEF Punctual, CopyInv, Advance
  <1>8. /\ HeadOf(out_head', out_tail', wk + 1)
        /\ \A k \in 1..wk : Ahead(k)'
    <2>0. PICK m \in Parts : m = wk  BY <1>4
    <2>1. HeadAt(m) /\ Adds(m)  BY <1>5, <2>0
    <2>2. HeadAt(m + 1)'  BY <1>4, <2>1, HeadMoves
    <2>3. ASSUME NEW k \in 1..m PROVE Ahead(k)'
      <3>1. CASE k = m  BY <1>4, <2>1, <3>1, LineAdded
      <3>2. CASE k # m
        <4>1. k \in Parts /\ k \in 1..(wk - 1)  BY <1>4, <2>0, <3>2, Constants
        <4>2. Ahead(k)  BY <1>4, <4>1 DEF Written
        <4> QED  BY <1>4, <2>1, <4>1, <4>2, DataKept
      <3> QED  BY <3>1, <3>2
    <2>4. HeadOf(out_head', out_tail', m + 1)  BY <2>2 DEF HeadAt
    <2> QED  BY <2>0, <2>3, <2>4
  <1>9. TextInv'
    <2>1. ASSUME NEW n, n = wk + 1 PROVE Written(n)'
      <3>1. HeadAt(n)'  BY <1>8, <2>1 DEF HeadAt
      <3>2. 1..(n - 1) = 1..wk  BY <1>4, <2>1
      <3> QED  BY <1>8, <3>1, <3>2 DEF Written
    <2>2. CASE wk = LastPart
      <3>1. wpc' = "done"  BY <1>1, <2>2 DEF Advance
      <3>2. Written(LastPart + 1)'  BY <2>1, <2>2
      <3> QED  BY <1>3, <3>1, <3>2 DEF TextInv
    <2>3. CASE wk # LastPart
      <3>1. wpc' = "line" /\ wk' = wk + 1  BY <1>1, <2>3 DEF Advance
      <3>2. HeadOf(out_head', out_tail', wk') /\ \A k \in 1..(wk' - 1) : Ahead(k)'
        <4>1. 1..(wk' - 1) = 1..wk  BY <1>4, <3>1
        <4> QED  BY <1>8, <3>1, <4>1
      <3>3. Written(wk)'  BY <3>2 DEF Written, HeadAt
      <3> QED  BY <1>3, <3>1, <3>3 DEF TextInv
    <2> QED  BY <2>2, <2>3
  <1>10. DrainInv' /\ AllShown'
    BY <1>1, <1>2 DEF Punctual, DrainInv, HasText, Draining, AllShown
  <1> QED  BY <1>6, <1>7, <1>9, <1>10 DEF Punctual

LEMMA PunctualReports ==
  ASSUME SafeInv, Punctual, Worker, WorkerReports
  PROVE  Punctual'
  <1>1. /\ UNCHANGED <<outbox, out_head, wk, last, snap>> /\ WorkerLeaves
        /\ wpc = "done" /\ wpc' = "idle" /\ inbox_done' = last
    BY DEF Worker, WorkerReports, pushVars, monVars, outboxVars, WorkerLeaves
  <1> USE DEF WorkerLeaves
  <1>2. Working /\ ~Working' /\ Draining' = Draining /\ Copying' = Copying
    BY <1>1 DEF Working, Draining, Copying
  <1>3. HasText /\ HasText' /\ ~Draining
    <2>1. HasText  BY <1>2 DEF Punctual, TurnInv
    <2> QED  BY <1>1, <1>2, <2>1 DEF HasText
  <1>4. g_asmp /\ last = g_mon_seq /\ ~Copying
    BY <1>2, <1>3 DEF HasText, Punctual, TurnInv
  <1>5. TurnInv'  BY <1>1, <1>2, <1>3, <1>4 DEF Punctual, TurnInv
  <1>6. CopyInv'  BY <1>1 DEF CopyInv
  <1>7. TextInv'
    <2>1. Written(LastPart + 1)  BY <1>1, <1>3 DEF Punctual, TextInv
    <2>2. Written(LastPart + 1)'  BY <1>1, <2>1, WrittenFrame
    <2> QED  BY <1>1, <1>3, <2>2 DEF TextInv
  <1>8. DrainInv' /\ AllShown'
    BY <1>1, <1>3 DEF Punctual, DrainInv, Draining, AllShown
  <1> QED  BY <1>5, <1>6, <1>7, <1>8 DEF Punctual

(* Steps that the text does not see.                                        *)
LEMMA TextStays ==
  ASSUME CopyInv, TextInv, ~Draining, ~Draining',
         UNCHANGED <<outbox, out_head, out_tail, g_mon_seq, last, handled, g_asmp>>,
         UNCHANGED <<wpc, wk, snap>>
  PROVE  CopyInv' /\ TextInv'
  <1>1. CopyInv'  BY DEF CopyInv
  <1>2. HasText' <=> HasText  BY DEF HasText
  <1>3. CASE HasText
    <2>1. \A m : Written(m)' = Written(m)  BY WrittenFrame
    <2>2. Written(wk)' = Written(wk)  BY DEF Written, HeadAt, HeadOf, Ahead, Stored, InData, Before
    <2> QED  BY <1>1, <1>2, <1>3, <2>1, <2>2 DEF TextInv
  <1>4. CASE ~HasText  BY <1>1, <1>2, <1>4 DEF TextInv, Draining
  <1> QED  BY <1>3, <1>4

LEMMA PunctualPush ==
  ASSUME SafeInv, Punctual, Push, ~late'
  PROVE  Punctual'
  <1>1. /\ UNCHANGED <<outbox, out_head, out_tail, out_dropped, g_asmp>>
        /\ UNCHANGED <<inbox_done, wpc, wk, last, snap>>
        /\ UNCHANGED <<mon, mseq, mhead, served, handled, shown>>
    BY DEF Push, outboxVars, workVars, monVars
  <1>2. CASE PushBegins
    <2>1. /\ push = "idle" /\ g_mon_seq' = g_mon_seq + 1 /\ push' # "idle" /\ Settled
          /\ push' \in {"copy", "post"} /\ UNCHANGED <<inbox_seq, sem>>
      BY <1>2 DEF PushBegins
    <2>2. /\ handled = g_mon_seq /\ mon = "wait" /\ last = inbox_seq /\ ~Working
      <3>1. handled = g_mon_seq /\ mon = "wait"  BY <2>1 DEF Settled
      <3>2. CASE g_asmp  BY <2>1, <3>1, <3>2 DEF Settled, WorkerFinished, Working
      <3>3. CASE ~g_asmp  BY <3>1, <3>3 DEF Punctual, TurnInv
      <3> QED  BY <3>2, <3>3
    <2>3. sem = 0  BY <2>2, Numbers DEF Punctual, TurnInv
    <2>4. ~HasText /\ ~HasText' /\ ~Working' /\ ~Draining /\ ~Draining'
      BY <1>1, <2>1, <2>2, Numbers DEF HasText, Working, Draining
    <2>5. TurnInv'
      BY <1>1, <2>1, <2>2, <2>3, <2>4, Numbers DEF Punctual, TurnInv
    <2>6. CopyInv'  BY <2>4 DEF CopyInv, Working
    <2>7. TextInv'  BY <1>1, <2>2, <2>4 DEF Punctual, TextInv
    <2>8. DrainInv' /\ AllShown'
      BY <1>1, <2>4 DEF Punctual, DrainInv, Draining, AllShown
    <2> QED  BY <2>5, <2>6, <2>7, <2>8 DEF Punctual
  <1>3. CASE PushOn
    <2>1. push # "idle" /\ UNCHANGED g_mon_seq
      BY <1>3 DEF PushOn, PushCopies, PushPublishes, PushPosts
    <2>2. mon = "wait" /\ sem = 0 /\ handled = g_mon_seq - 1
      BY <2>1, Numbers DEF Punctual, TurnInv
    <2>3. ~Draining /\ ~Draining' /\ (Working' <=> Working) /\ (HasText' <=> HasText)
      BY <1>1, <2>1, <2>2 DEF Draining, Working, HasText
    <2>4. /\ push' = "idle" => sem' = 1
          /\ push' # "idle" => sem' = 0
          /\ (Copying' \/ ~g_asmp) => (Copying \/ ~g_asmp) /\ UNCHANGED inbox_seq
      BY <1>3, <2>2
      DEF PushOn, PushCopies, PushPublishes, PushPosts, Copying, SafeInv, HandoffInv
    <2>5. handled' = g_mon_seq' - 1 /\ handled' # g_mon_seq'  BY <1>1, <2>1, <2>2, Numbers
    <2>6. TurnInv'
      BY <1>1, <2>1, <2>2, <2>3, <2>4, <2>5 DEF Punctual, TurnInv
    <2>7. CopyInv' /\ TextInv'  BY <1>1, <2>1, <2>3, TextStays DEF Punctual
    <2>8. DrainInv' /\ AllShown'
      BY <1>1, <2>3 DEF Punctual, DrainInv, Draining, AllShown
    <2> QED  BY <2>6, <2>7, <2>8 DEF Punctual
  <1> QED  BY <1>2, <1>3 DEF Push

(* A line of the ring that ends before the piece printed does is printed.   *)
LEMMA LinePrinted ==
  ASSUME SafeInv, NEW p \in Nat, NEW k \in Parts, Stored(p, g_mon_seq, k),
         NEW n, n = ChunkEnd(mhead), out_tail <= p, p + LineLen[k] <= n
  PROVE  <<g_mon_seq, k>> \in LinesIn(Chunk(mhead))
  <1> DEFINE c == Chunk(mhead)
             len == LineLen[k]
             S == {outbox[a] : a \in 0..(SIZE - 1)}
             N == n - out_tail
  <1>1. /\ SIZE \in Nat \ {0} /\ out_tail \in 0..SIZE /\ mhead \in 0..SIZE
        /\ len \in Nat \ {0} /\ n \in 0..SIZE
    BY Constants DEF SafeInv, TypeOK, OutboxTypes, MonTypes, ChunkEnd
  <1>2. c = [i \in 1..N |-> outbox[out_tail + i - 1]]
    BY DEF Chunk
  <1> HIDE DEF c, len, N
  <1>3. N \in Nat /\ N = n - out_tail  BY <1>1 DEF N, len
  <1>4. c \in [1..N -> S]
    <2>1. ASSUME NEW i \in 1..N PROVE outbox[out_tail + i - 1] \in S
      <3>1. out_tail + i - 1 \in 0..(SIZE - 1)  BY <1>1, <1>3
      <3> QED  BY <3>1
    <2> QED  BY <1>2, <2>1
  <1>5. c \in Seq(S) /\ Len(c) = N /\ DOMAIN c = 1..N
    <2> HIDE DEF S
    <2> QED  BY <1>3, <1>4
  <1> DEFINE i0 == p - out_tail + 1
  <1>6. i0 \in 1..N /\ i0 + len - 1 <= N  BY <1>1, <1>3 DEF len
  <1>7. ASSUME NEW j \in 1..len
        PROVE  c[i0 + j - 1] = [line |-> <<g_mon_seq, k>>, pos |-> j]
    <2>1. i0 + j - 1 \in 1..N /\ out_tail + (i0 + j - 1) - 1 = p + j - 1
      BY <1>1, <1>3, <1>6
    <2>2. c[i0 + j - 1] = outbox[p + j - 1]  BY <1>2, <2>1
    <2> QED  BY <2>2 DEF Stored, len
  <1>8. StartsWhole(c, i0, <<g_mon_seq, k>>, len)
    BY <1>5, <1>6, <1>7 DEF StartsWhole
  <1> DEFINE l == <<g_mon_seq, k>>
  <1>9. l \in (0..MaxPushes) \X Parts /\ l[2] = k
    BY DEF SafeInv, TypeOK, PushTypes, Snapshots
  <1>10. \E i \in DOMAIN c : StartsWhole(c, i, l, LineLen[l[2]])
    <2> HIDE DEF l, i0
    <2> QED  BY <1>5, <1>6, <1>8, <1>9 DEF len, l
  <1> HIDE DEF l
  <1>11. l \in LinesIn(c)  BY <1>9, <1>10 DEF LinesIn
  <1> QED  BY <1>11 DEF l, c

MonitorLeaves == /\ UNCHANGED <<outbox, out_head, out_dropped, g_mon_seq, push, inbox_seq>>
                 /\ UNCHANGED <<inbox_done, wpc, wk, last, snap>>

LEMMA PunctualAwakes ==
  ASSUME SafeInv, Punctual, Monitor, TakeSem
  PROVE  Punctual'
  <1>1. /\ MonitorLeaves /\ UNCHANGED <<out_tail, g_asmp, handled, shown>>
        /\ push = "idle" /\ mon = "wait" /\ sem > 0 /\ sem' = sem - 1 /\ mon' = "copy"
    BY DEF Monitor, TakeSem, pushVars, workVars, MonitorLeaves
  <1> USE DEF MonitorLeaves
  <1>2. sem' = 0 /\ handled = g_mon_seq - 1  BY <1>1, Numbers DEF Punctual, TurnInv
  <1>3. ~Draining /\ ~Draining' /\ (Working' <=> Working) /\ Copying' = Copying
    BY <1>1 DEF Draining, Working, Copying
  <1>4. HasText' <=> HasText  BY <1>1, <1>3 DEF HasText
  <1>5. handled' # g_mon_seq'  BY <1>1, <1>2, Numbers
  <1>6. TurnInv'
    BY <1>1, <1>2, <1>3, <1>4, <1>5 DEF Punctual, TurnInv
  <1>7. CopyInv' /\ TextInv'  BY <1>1, <1>3, TextStays DEF Punctual
  <1>8. DrainInv' /\ AllShown'
    BY <1>1, <1>3 DEF Punctual, DrainInv, Draining, AllShown
  <1> QED  BY <1>6, <1>7, <1>8 DEF Punctual

LEMMA PunctualTakesSlot ==
  ASSUME SafeInv, Punctual, Monitor, TakeCopy
  PROVE  Punctual'
  <1>1. /\ MonitorLeaves /\ UNCHANGED <<out_tail, g_asmp, sem, handled, shown>>
        /\ push = "idle" /\ mon = "copy" /\ mseq' = g_mon_seq
        /\ mon' \in {"poll", "local"} /\ (mon' = "local" => ~g_asmp)
    BY DEF Monitor, TakeCopy, pushVars, workVars, MonitorLeaves
  <1> USE DEF MonitorLeaves
  <1>2. sem = 0 /\ handled = g_mon_seq - 1  BY <1>1 DEF Punctual, TurnInv
  <1>3. ~Draining /\ ~Draining' /\ (Working' <=> Working) /\ Copying' = Copying
    BY <1>1 DEF Draining, Working, Copying
  <1>4. HasText' <=> HasText  BY <1>1, <1>3 DEF HasText
  <1>5. handled' # g_mon_seq'  BY <1>1, <1>2, Numbers
  <1>6. TurnInv'
    BY <1>1, <1>2, <1>3, <1>4, <1>5 DEF Punctual, TurnInv
  <1>7. CopyInv' /\ TextInv'  BY <1>1, <1>3, TextStays DEF Punctual
  <1>8. DrainInv' /\ AllShown'
    BY <1>1, <1>3 DEF Punctual, DrainInv, Draining, AllShown
  <1> QED  BY <1>6, <1>7, <1>8 DEF Punctual

LEMMA PunctualServed ==
  ASSUME SafeInv, Punctual, Monitor, PollServed
  PROVE  Punctual'
  <1>1. /\ MonitorLeaves /\ UNCHANGED <<out_tail, g_asmp, sem, mseq, handled, shown>>
        /\ push = "idle" /\ mon = "poll" /\ inbox_done = mseq /\ served'
        /\ mhead' = out_head
        /\ mon' = IF out_tail = out_head THEN "check" ELSE "print"
    BY DEF Monitor, PollServed, NextTurn, pushVars, workVars, MonitorLeaves
  <1> USE DEF MonitorLeaves
  <1>2. /\ sem = 0 /\ mseq = g_mon_seq /\ handled = g_mon_seq - 1 /\ g_asmp
    BY <1>1 DEF Punctual, TurnInv, SafeInv, HandoffInv
  <1>3. inbox_done = g_mon_seq /\ last = g_mon_seq /\ ~Working /\ handled # g_mon_seq
    BY <1>1, <1>2, Numbers
  <1>4. HasText /\ ~HasText' /\ ~Working' /\ Draining' /\ Copying' = Copying
    BY <1>1, <1>2, <1>3 DEF HasText, Draining, Working, Copying
  <1>5. Written(LastPart + 1)
    BY <1>3, <1>4 DEF Working, Punctual, TextInv
  <1>6. out_head # out_tail
    BY <1>5, NotEmpty DEF SafeInv, TypeOK, Written
  <1>7. mon' = "print"  BY <1>1, <1>6
  <1>8. TurnInv'
    BY <1>1, <1>2, <1>3, <1>4, <1>7 DEF Punctual, TurnInv
  <1>9. CopyInv'  BY <1>1 DEF Punctual, CopyInv
  <1>10. TextInv'  BY <1>4, <1>7 DEF TextInv
  <1>11. DrainInv'
    <2>1. \A k \in Parts : Ahead(k)
      <3>1. \A k \in 1..(LastPart + 1 - 1) : Ahead(k)  BY <1>5, Numbers DEF Written
      <3>2. Parts = 1..LastPart /\ LastPart \in Nat  BY Numbers
      <3> QED  BY <3>1, <3>2
    <2>2. \A k \in Parts : Ahead(k)'  BY <1>1, <2>1, WrittenFrame
    <2> QED  BY <1>1, <1>6, <1>7, <2>2 DEF DrainInv
  <1>12. AllShown'  BY <1>1 DEF Punctual, AllShown
  <1> QED  BY <1>8, <1>9, <1>10, <1>11, <1>12 DEF Punctual

LEMMA PunctualPrints ==
  ASSUME SafeInv, Punctual, Monitor, PrintChunk
  PROVE  Punctual'
  <1>1. /\ MonitorLeaves
        /\ UNCHANGED <<out_tail, g_asmp, sem, mseq, mhead, served, handled>>
        /\ mon = "print" /\ mon' = "release"
        /\ shown' = shown \union LinesIn(Chunk(mhead))
    BY DEF Monitor, PrintChunk, pushVars, workVars, MonitorLeaves
  <1> USE DEF MonitorLeaves
  <1>2. /\ Draining /\ Draining' /\ ~HasText /\ ~HasText'
        /\ (Working' <=> Working) /\ Copying' = Copying
    BY <1>1 DEF HasText, Draining, Working, Copying
  <1>3. TurnInv'  BY <1>1, <1>2 DEF Punctual, TurnInv
  <1>4. CopyInv'  BY <1>1 DEF Punctual, CopyInv
  <1>5. TextInv'  BY <1>1, <1>2 DEF TextInv
  <1>6. mhead = out_head /\ out_head # out_tail /\ \A k \in Parts : Shown(k) \/ Ahead(k)
    BY <1>1 DEF Punctual, DrainInv
  <1>7. ASSUME NEW k \in Parts PROVE Shown(k)' \/ Rest(k)'
    <2>1. CASE Shown(k)  BY <1>1, <2>1 DEF Shown
    <2>2. CASE Ahead(k)
      <3>1. PICK p \in 0..SIZE : Stored(p, g_mon_seq, k) /\ InData(p, LineLen[k])
        BY <2>2 DEF Ahead
      <3>2. /\ SIZE \in Nat /\ out_head \in 0..SIZE /\ out_tail \in 0..SIZE
            /\ LineLen[k] \in Nat /\ p \in Nat
        BY Constants DEF SafeInv, TypeOK, OutboxTypes
      <3>3. ASSUME out_tail <= p, p + LineLen[k] <= ChunkEnd(mhead) PROVE Shown(k)'
        BY <1>1, <3>1, <3>2, <3>3, LinePrinted DEF Shown
      <3>4. CASE out_tail <= out_head
        <4>1. ChunkEnd(mhead) = out_head  BY <1>6, <3>2, <3>4 DEF ChunkEnd
        <4> QED  BY <3>1, <3>3, <3>4, <4>1 DEF InData, Before
      <3>5. CASE ~(out_tail <= out_head)
        <4>1. ChunkEnd(mhead) = SIZE /\ out_head < out_tail
          BY <1>6, <3>2, <3>5 DEF ChunkEnd
        <4>2. CASE out_tail <= p /\ Before(p, LineLen[k], SIZE)
          BY <3>3, <4>1, <4>2 DEF Before
        <4>3. CASE Before(p, LineLen[k], out_head)
          <5>1. Rest(k)  BY <3>1, <4>1, <4>3 DEF Rest
          <5> QED  BY <1>1, <5>1, WrittenFrame
        <4> QED  BY <3>1, <3>5, <4>2, <4>3 DEF InData
      <3> QED  BY <3>4, <3>5
    <2> QED  BY <1>6, <2>1, <2>2
  <1>8. DrainInv'  BY <1>1, <1>6, <1>7 DEF DrainInv
  <1>9. AllShown'  BY <1>1 DEF Punctual, AllShown
  <1> QED  BY <1>3, <1>4, <1>5, <1>8, <1>9 DEF Punctual

LEMMA PunctualReleases ==
  ASSUME SafeInv, Punctual, Monitor, Release
  PROVE  Punctual'
  <1>1. /\ MonitorLeaves /\ UNCHANGED <<g_asmp, sem, mseq, served, handled, shown>>
        /\ mon = "release" /\ out_tail' = TailAfter(mhead) /\ mhead' = out_head
        /\ mon' = IF TailAfter(mhead) = out_head THEN "check" ELSE "print"
    BY DEF Monitor, Release, NextTurn, pushVars, workVars, MonitorLeaves
  <1> USE DEF MonitorLeaves
  <1>2. /\ Draining /\ Draining' /\ ~HasText /\ ~HasText'
        /\ (Working' <=> Working) /\ Copying' = Copying
    BY <1>1 DEF HasText, Draining, Working, Copying
  <1>3. TurnInv'  BY <1>1, <1>2 DEF Punctual, TurnInv
  <1>4. CopyInv'  BY <1>1 DEF Punctual, CopyInv
  <1>5. mhead = out_head /\ out_head # out_tail /\ \A k \in Parts : Shown(k) \/ Rest(k)
    BY <1>1 DEF Punctual, DrainInv
  <1>6. TextInv'  BY <1>1, <1>2, <1>5 DEF TextInv
  <1>7. SIZE \in Nat /\ out_head \in 0..SIZE /\ out_tail \in 0..SIZE
    BY Constants DEF SafeInv, TypeOK, OutboxTypes
  <1>8. \A k \in Parts : Shown(k)' = Shown(k)  BY <1>1 DEF Shown
  <1>9. DrainInv'
    <2>1. CASE out_head > out_tail
      <3>1. mon' = "check"  BY <1>1, <1>5, <2>1 DEF TailAfter
      <3>2. \A k \in Parts : Shown(k)  BY <1>5, <1>7, <2>1 DEF Rest
      <3> QED  BY <1>8, <3>1, <3>2 DEF DrainInv
    <2>2. CASE ~(out_head > out_tail)
      <3>1. out_tail' = 0  BY <1>1, <1>5, <2>2 DEF TailAfter
      <3>2. CASE out_head = 0
        <4>1. mon' = "check"  BY <1>1, <3>1, <3>2
        <4>2. ASSUME NEW k \in Parts PROVE ~Rest(k)
          <5>1. LineLen[k] \in Nat \ {0}  BY Constants
          <5> QED  BY <1>7, <3>2, <5>1 DEF Rest, Before
        <4> QED  BY <1>5, <1>8, <4>1, <4>2 DEF DrainInv
      <3>3. CASE out_head # 0
        <4>1. mon' = "print"  BY <1>1, <3>1, <3>3
        <4>2. ASSUME NEW k \in Parts, Rest(k) PROVE Ahead(k)'
          <5>1. PICK p \in 0..SIZE : /\ Stored(p, g_mon_seq, k)
                                     /\ Before(p, LineLen[k], out_head)
            BY <4>2 DEF Rest
          <5>2. Stored(p, g_mon_seq, k)'  BY <1>1, <5>1 DEF Stored
          <5>3. InData(p, LineLen[k])'
            BY <1>1, <1>7, <3>1, <5>1 DEF InData, Before
          <5> QED  BY <5>2, <5>3 DEF Ahead
        <4> QED  BY <1>1, <1>5, <1>8, <3>1, <3>3, <4>1, <4>2 DEF DrainInv
      <3> QED  BY <3>2, <3>3
    <2> QED  BY <2>1, <2>2
  <1>10. AllShown'  BY <1>1 DEF Punctual, AllShown
  <1> QED  BY <1>3, <1>4, <1>6, <1>9, <1>10 DEF Punctual

(* The monitor is done with a snapshot.                                     *)
LEMMA ShownUpTo ==
  ASSUME SafeInv, Punctual, handled = g_mon_seq - 1, handled' = g_mon_seq,
         shown \subseteq shown', Text(g_mon_seq) \subseteq shown', UNCHANGED out_dropped
  PROVE  AllShown'
  <1>1. ASSUME NEW s \in 1..handled' PROVE Text(s) \subseteq shown'
    <2>1. s = g_mon_seq \/ s \in 1..handled  BY Numbers
    <2> QED  BY <2>1 DEF Punctual, AllShown
  <1> QED  BY <1>1 DEF Punctual, AllShown, Text

LEMMA PunctualChecks ==
  ASSUME SafeInv, Punctual, Monitor, Check
  PROVE  Punctual'
  <1>1. /\ MonitorLeaves /\ UNCHANGED <<out_tail, sem, mseq, shown>>
        /\ push = "idle" /\ mon = "check"
        /\ mon' = IF served THEN "wait" ELSE "local"
        /\ handled' = IF served THEN mseq ELSE handled
    BY DEF Monitor, Check, pushVars, workVars, MonitorLeaves
  <1> USE DEF MonitorLeaves
  <1>2. /\ Draining /\ served /\ sem = 0 /\ mseq = g_mon_seq /\ handled = g_mon_seq - 1
        /\ g_asmp /\ inbox_done = g_mon_seq
    BY <1>1 DEF Draining, Punctual, TurnInv, SafeInv, HandoffInv
  <1>3. last = g_mon_seq /\ inbox_seq = g_mon_seq /\ ~Working  BY <1>2, Numbers
  <1>4. mon' = "wait" /\ handled' = g_mon_seq  BY <1>1, <1>2, Zenon
  <1>5. ~HasText /\ ~HasText' /\ ~Working' /\ ~Draining'
    BY <1>1, <1>2, <1>3, <1>4 DEF HasText, Draining, Working
  <1>6. TurnInv'  BY <1>1, <1>2, <1>3, <1>4, <1>5 DEF TurnInv
  <1>7. CopyInv'  BY <1>1 DEF Punctual, CopyInv
  <1>8. TextInv'  BY <1>1, <1>5 DEF Punctual, TextInv
  <1>9. DrainInv'  BY <1>4 DEF DrainInv
  <1>10. AllShown'
    <2>1. Text(g_mon_seq) \subseteq shown  BY <1>1 DEF Punctual, DrainInv, Shown, Text
    <2> QED  BY <1>1, <1>2, <1>4, <2>1, ShownUpTo
  <1> QED  BY <1>6, <1>7, <1>8, <1>9, <1>10 DEF Punctual

LEMMA PunctualLocal ==
  ASSUME SafeInv, Punctual, Monitor, PrintLocally
  PROVE  Punctual'
  <1>1. /\ MonitorLeaves /\ UNCHANGED <<out_tail, g_asmp, sem, mseq>>
        /\ push = "idle" /\ mon = "local" /\ mon' = "wait" /\ handled' = mseq
        /\ shown' = shown \union Text(mseq)
    BY DEF Monitor, PrintLocally, pushVars, workVars, MonitorLeaves
  <1> USE DEF MonitorLeaves
  <1>2. /\ ~g_asmp /\ sem = 0 /\ mseq = g_mon_seq /\ handled = g_mon_seq - 1
        /\ last = inbox_seq /\ ~Working
    BY <1>1 DEF Punctual, TurnInv
  <1>3. ~HasText /\ ~HasText' /\ ~Working' /\ ~Draining'
    BY <1>1, <1>2 DEF HasText, Draining, Working
  <1>4. TurnInv'  BY <1>1, <1>2, <1>3 DEF TurnInv
  <1>5. CopyInv'  BY <1>1 DEF Punctual, CopyInv
  <1>6. TextInv'  BY <1>1, <1>3 DEF Punctual, TextInv
  <1>7. DrainInv'  BY <1>1 DEF DrainInv
  <1>8. AllShown'
    <2>1. handled' = g_mon_seq /\ shown \subseteq shown' /\ Text(g_mon_seq) \subseteq shown'
      BY <1>1, <1>2
    <2> QED  BY <1>1, <1>2, <2>1, ShownUpTo
  <1> QED  BY <1>4, <1>5, <1>6, <1>7, <1>8 DEF Punctual

LEMMA PunctualStep ==
  ASSUME IInv, [Next]_vars
  PROVE  IInv'
  <1>1. SafeInv'  BY SafeStep DEF IInv
  <1>2. ASSUME ~late' PROVE Punctual'
    <2>1. late => late'
      <3>1. CASE UNCHANGED vars  BY <3>1, Zenon DEF vars
      <3>2. CASE Boot  BY <3>2, Zenon DEF Boot
      <3>3. CASE Worker  BY <3>3, Zenon DEF Worker
      <3>4. CASE Push
        BY <3>4, Zenon DEF Push, PushBegins, PushOn, PushCopies, PushPublishes, PushPosts
      <3>5. CASE Monitor
        BY <3>5, Zenon
        DEF Monitor, TakeSem, TakeCopy, PollServed, PollGivesUp, PrintChunk, Release, Check, PrintLocally
      <3> QED  BY <3>1, <3>2, <3>3, <3>4, <3>5, Zenon DEF Next
    <2>2. SafeInv /\ Punctual  BY <1>2, <2>1, Zenon DEF IInv
    <2>3. CASE UNCHANGED vars
      <3>1. /\ UNCHANGED <<outbox, out_head, out_tail, out_dropped, g_mon_seq, push>>
            /\ UNCHANGED <<inbox_seq, inbox_done, wpc, wk, last, snap, g_asmp, sem>>
            /\ UNCHANGED <<mon, mseq, mhead, served, handled, shown>>
        BY <2>3 DEF vars, outboxVars, bootVars, pushVars, workVars, monVars
      <3>2. /\ (HasText' <=> HasText) /\ (Working' <=> Working)
            /\ (Draining' <=> Draining) /\ (Copying' <=> Copying)
        BY <3>1 DEF HasText, Working, Draining, Copying
      <3>3. TurnInv' /\ CopyInv'  BY <2>2, <3>1, <3>2 DEF Punctual, TurnInv, CopyInv
      <3>4. TextInv'
        <4>1. Written(1)' = Written(1) /\ Written(wk)' = Written(wk)
              /\ Written(LastPart + 1)' = Written(LastPart + 1)
          BY <3>1 DEF Written, HeadAt, HeadOf, Ahead, Stored, InData, Before
        <4> QED  BY <2>2, <3>1, <3>2, <4>1 DEF Punctual, TextInv
      <3>5. DrainInv' /\ AllShown'
        <4>1. \A k : Ahead(k)' = Ahead(k) /\ Rest(k)' = Rest(k)  BY <3>1, WrittenFrame
        <4> QED  BY <2>2, <3>1, <4>1 DEF Punctual, DrainInv, AllShown, Shown
      <3> QED  BY <3>3, <3>4, <3>5 DEF Punctual
    <2>4. CASE Boot  BY <2>2, <2>4, PunctualBoot
    <2>5. CASE Worker
      BY <2>2, <2>5, PunctualWaits, PunctualTakes, PunctualCopies, PunctualPlaces,
         PunctualCommits, PunctualReports
      DEF Worker
    <2>6. CASE Push  BY <1>2, <2>2, <2>6, PunctualPush
    <2>7. CASE Monitor
      <3>1. ~PollGivesUp  BY <1>2, Zenon DEF PollGivesUp
      <3> QED
        BY <2>2, <2>7, <3>1, PunctualAwakes, PunctualTakesSlot, PunctualServed, PunctualPrints, PunctualReleases,
           PunctualChecks, PunctualLocal
        DEF Monitor
    <2> QED  BY <2>3, <2>4, <2>5, <2>6, <2>7 DEF Next
  <1> QED  BY <1>1, <1>2 DEF IInv

(* When every push finds the path settled and every answer is in time, the  *)
(* snapshots the monitor is done with have appeared line by line and the    *)
(* worker has dropped none: the ring never lacks the room.                  *)
THEOREM PunctualIsShown == Spec => []PunctualShown
  <1>1. Init => IInv
    <2> SUFFICES ASSUME Init PROVE IInv
      OBVIOUS
    <2>1. SafeInv  BY SafeInit
    <2>2. ~HasText /\ ~Working /\ ~Draining /\ ~Copying
      BY DEF Init, HasText, Working, Draining, Copying
    <2>3. TurnInv  BY <2>2 DEF Init, TurnInv
    <2>4. CopyInv /\ DrainInv /\ AllShown
      BY DEF Init, OutboxInit, CopyInv, DrainInv, AllShown
    <2>5. TextInv  BY <2>2 DEF Init, OutboxInit, TextInv
    <2> QED  BY <2>1, <2>3, <2>4, <2>5 DEF IInv, Punctual
  <1>2. IInv => PunctualShown  BY DEF IInv, Punctual, AllShown, PunctualShown
  <1> QED  BY <1>1, <1>2, PunctualStep, PTL DEF Spec

================================================================================
