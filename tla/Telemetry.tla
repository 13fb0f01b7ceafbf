------------------------------- MODULE Telemetry --------------------------------
(***************************************************************************)
(* The telemetry path: the main task pushes a snapshot every five seconds, *)
(* a worker on the sub-core formats it into the outbox, and the monitor    *)
(* thread prints the text, or formats the snapshot itself when the worker  *)
(* is late, dead, or was never booted (src/uac2_monitor.c, worker/monw,    *)
(* src/uac2_asmp_sup.c).                                                   *)
(*                                                                         *)
(* Worker and main core run truly concurrently.  On the main core the main *)
(* task outranks the monitor, which therefore makes no step in the middle  *)
(* of a push.  A crash or hang of the worker is that it makes no more      *)
(* steps.  A snapshot is known by its number; it has one part for each     *)
(* line of its text, copied by memcpy and snap_copy one at a time.         *)
(***************************************************************************)
EXTENDS Outbox

CONSTANTS
  LineLen,       \* lengths of the lines of a text
  Strikes,       \* heartbeats the worker may miss (3)
  MaxPushes      \* bound: snapshots pushed

Parts == DOMAIN LineLen
LastPart == Len(LineLen)

ASSUME TelemetryAssumption ==
  /\ LineLen \in Seq(Nat \ {0}) /\ LineLen # <<>>
  /\ Strikes \in Nat \ {0} /\ MaxPushes \in Nat

(* The ring has room for a text and one more line, 10 lines of less than    *)
(* 512 bytes in one of 8192: a line may have to skip the rest of the ring.  *)
(* off[k] is where the k-th line begins.                                    *)
IsLayout(off) ==
  /\ off[1] = 0
  /\ \A k \in Parts : /\ off[k + 1] = off[k] + LineLen[k]
                       /\ off[LastPart + 1] + LineLen[k] <= SIZE
  /\ \A j, k \in DOMAIN off : j <= k => off[j] <= off[k]
ASSUME RoomForText == \E off \in [1..(LastPart + 1) -> 0..SIZE] : IsLayout(off)

VARIABLES
  boot,          \* how far uac2_asmp_boot is
  seg, mtx,      \* the shared segment; the mutex exists
  worker_ready,
  g_asmp,        \* the monitor uses the worker
  g_mon_seq,     \* snapshots pushed; the slot holds the last of them
  push, pk,      \* where the main task is in uac2_monitor_push; next part
  sem,           \* g_mon_sem
  inbox,         \* of which snapshot each part of the inbox is
  inbox_seq, inbox_done,
  wpc, wk,       \* where the worker is; next part or line
  last, snap,    \* its last sequence number and its copy of the snapshot
  beat,          \* worker_hb differs from g_asmp_hb_last
  mon,           \* where the monitor is
  mseq, mhead, served, stall,
  (* History.                                                               *)
  handled,       \* the last snapshot the monitor is done with
  shown,         \* lines that have appeared whole: <<snapshot, line>>
  quiet,         \* heartbeat checks since the worker's last turn, the boot
                 \* counting as the first
  late           \* a push met an unfinished one, or the worker missed a time-out

bootVars  == <<boot, seg, mtx, worker_ready>>
pushVars  == <<g_mon_seq, push, pk, inbox, inbox_seq>>
workVars  == <<inbox_done, wpc, wk, last, snap>>
monVars   == <<mon, mseq, mhead, served, stall, handled, shown>>
vars == <<outboxVars, bootVars, g_asmp, pushVars, sem, workVars, beat, monVars, quiet, late>>

None == [k \in Parts |-> 0]

Init ==
  /\ OutboxInit
  /\ boot = "shm" /\ seg = "none" /\ mtx = FALSE /\ worker_ready = FALSE
  /\ g_asmp = FALSE
  /\ g_mon_seq = 0 /\ push = "idle" /\ pk = 1 /\ sem = 0
  /\ inbox = None /\ inbox_seq = 0 /\ inbox_done = 0
  /\ wpc = "off" /\ wk = 1 /\ last = 0 /\ snap = None
  /\ beat = FALSE
  /\ mon = "wait" /\ mseq = 0 /\ mhead = 0 /\ served = FALSE /\ stall = 0
  /\ handled = 0 /\ shown = {} /\ quiet = 1 /\ late = FALSE

--------------------------------------------------------------------------------
(* uac2_asmp_boot, called once by uac2_monitor_init before the first push.  *)

(* Deviant: the failure path forgets the segment.                           *)
Rollback_KeepsSegment == boot' = "failed" /\ mtx' = FALSE /\ UNCHANGED seg
Rollback == boot' = "failed" /\ mtx' = FALSE /\ seg' = "gone"

(* ROMFS, mpshm_init, mpshm_attach; the header is written for the worker.   *)
BootShm ==
  /\ boot = "shm"
  /\ \/ boot' = "mutex" /\ seg' = "live"
     \/ boot' = "failed" /\ UNCHANGED seg
  /\ UNCHANGED <<mtx, worker_ready, g_asmp, wpc, beat, quiet>>

BootMutex ==
  /\ boot = "mutex"
  /\ \/ boot' = "task" /\ mtx' = TRUE /\ UNCHANGED seg
     \/ Rollback
  /\ UNCHANGED <<worker_ready, g_asmp, wpc, beat, quiet>>

(* mptask_init, assign, two bindobj and exec: any of them may fail.         *)
BootTask ==
  /\ boot = "task"
  /\ \/ boot' = "ready" /\ wpc' = "start" /\ UNCHANGED <<mtx, seg>>
     \/ Rollback /\ UNCHANGED wpc
  /\ UNCHANGED <<worker_ready, g_asmp, beat, quiet>>

(* Three seconds for the worker to say it is ready.                         *)
BootReady ==
  /\ boot = "ready"
  /\ IF worker_ready
     THEN boot' = "online" /\ g_asmp' = TRUE /\ beat' = FALSE /\ quiet' = 1
          /\ UNCHANGED <<mtx, seg>>
     ELSE Rollback /\ UNCHANGED <<g_asmp, beat, quiet>>
  /\ UNCHANGED <<worker_ready, wpc>>

Boot ==
  /\ BootShm \/ BootMutex \/ BootTask \/ BootReady
  /\ UNCHANGED <<outboxVars, pushVars, sem, inbox_done, wk, last, snap, monVars, late>>

--------------------------------------------------------------------------------
(* The worker.                                                              *)

(* An attach without a segment, or a header of another build, ends it.      *)
WorkerStart ==
  /\ wpc = "start"
  /\ \/ wpc' = "ready" /\ seg = "live"
     \/ wpc' = "off"
  /\ UNCHANGED <<outboxVars, inbox_done, wk, last, snap, worker_ready, beat, quiet>>

WorkerReady ==
  /\ wpc = "ready" /\ wpc' = "idle"
  /\ worker_ready' = TRUE
  /\ UNCHANGED <<outboxVars, inbox_done, wk, last, snap, beat, quiet>>

Heartbeat == beat' = TRUE /\ quiet' = 0

WorkerIdles ==
  /\ wpc = "idle" /\ inbox_seq = last
  /\ Heartbeat
  /\ UNCHANGED <<outboxVars, workVars, worker_ready>>

WorkerTakes ==
  /\ wpc = "idle" /\ inbox_seq # last
  /\ last' = inbox_seq /\ wpc' = "copy" /\ wk' = 1
  /\ UNCHANGED <<outboxVars, inbox_done, snap, worker_ready, beat, quiet>>

Advance(from, to) ==
  IF wk = LastPart THEN wpc' = to /\ wk' = 1 ELSE wpc' = from /\ wk' = wk + 1

WorkerCopies ==
  /\ wpc = "copy"
  /\ snap' = [snap EXCEPT ![wk] = inbox[wk]]
  /\ Advance("copy", "line")
  /\ UNCHANGED <<outboxVars, inbox_done, last, worker_ready, beat, quiet>>

WorkerPlaces ==
  /\ wpc = "line"
  /\ \/ Refused(LineLen[wk]) /\ Advance("line", "done")
     \/ Placed(LineLen[wk]) /\ wpc' = "commit" /\ UNCHANGED wk
  /\ UNCHANGED <<inbox_done, last, snap, worker_ready, beat, quiet>>

WorkerCommits ==
  /\ wpc = "commit"
  /\ Commit(<<snap[wk], wk>>, LineLen[wk])
  /\ Advance("line", "done")
  /\ UNCHANGED <<inbox_done, last, snap, worker_ready, beat, quiet>>

WorkerReports ==
  /\ wpc = "done" /\ wpc' = "idle"
  /\ inbox_done' = last
  /\ Heartbeat
  /\ UNCHANGED <<outboxVars, wk, last, snap, worker_ready>>

Worker ==
  /\ \/ WorkerStart \/ WorkerReady \/ WorkerIdles \/ WorkerTakes
     \/ WorkerCopies \/ WorkerPlaces \/ WorkerCommits \/ WorkerReports
  /\ UNCHANGED <<boot, seg, mtx, g_asmp, pushVars, sem, monVars, late>>

--------------------------------------------------------------------------------
(* The main task: uac2_monitor_push.                                        *)

WorkerFinished == wpc \in {"off", "idle"} /\ last = inbox_seq
Settled == handled = g_mon_seq /\ mon = "wait" /\ (g_asmp => WorkerFinished)

PushBegins ==
  /\ push = "idle" /\ boot \in {"online", "failed"}
  /\ g_mon_seq < MaxPushes /\ g_mon_seq' = g_mon_seq + 1
  /\ push' = IF g_asmp THEN "copy" ELSE "post"
  /\ pk' = 1
  /\ late' = (late \/ ~Settled)
  /\ UNCHANGED <<inbox, inbox_seq, sem>>

PushCopies ==
  /\ push = "copy"
  /\ inbox' = [inbox EXCEPT ![pk] = g_mon_seq]
  /\ IF pk = LastPart THEN push' = "publish" /\ UNCHANGED pk
                      ELSE push' = "copy" /\ pk' = pk + 1
  /\ UNCHANGED <<g_mon_seq, inbox_seq, sem, late>>

PushPublishes ==
  /\ push = "publish" /\ push' = "post"
  /\ inbox_seq' = g_mon_seq
  /\ UNCHANGED <<g_mon_seq, pk, inbox, sem, late>>

(* Deviant: every push posts.                                               *)
PushPosts_Always ==
  /\ push = "post" /\ push' = "idle"
  /\ sem' = sem + 1
  /\ UNCHANGED <<g_mon_seq, pk, inbox, inbox_seq, late>>

(* Deviant: only a monitor that is waiting is posted (< for <=).            *)
PushPosts_OnlyWhenAwaited ==
  /\ push = "post" /\ push' = "idle"
  /\ sem' = IF sem <= 0 /\ mon = "wait" THEN sem + 1 ELSE sem
  /\ UNCHANGED <<g_mon_seq, pk, inbox, inbox_seq, late>>

(* The semaphore never counts above one: snapshots coalesce.                *)
PushPosts ==
  /\ push = "post" /\ push' = "idle"
  /\ sem' = IF sem <= 0 THEN sem + 1 ELSE sem
  /\ UNCHANGED <<g_mon_seq, pk, inbox, inbox_seq, late>>

PushOn == PushCopies \/ PushPublishes \/ PushPosts
Push == (PushBegins \/ PushOn)
        /\ UNCHANGED <<outboxVars, bootVars, g_asmp, workVars, beat, monVars, quiet>>

--------------------------------------------------------------------------------
(* The monitor thread.                                                      *)

Text(s) == {<<s, k>> : k \in Parts}
LinesIn(bytes) ==
  {l \in (0..MaxPushes) \X Parts :
     \E i \in DOMAIN bytes : StartsWhole(bytes, i, l, LineLen[l[2]])}

(* sem_wait.  Between it and the lock the main task may push once more, and *)
(* post: the snapshot of that push is then taken twice.                     *)
TakeSem ==
  /\ mon = "wait" /\ mon' = "copy"
  /\ sem > 0 /\ sem' = sem - 1
  /\ UNCHANGED <<out_tail, g_asmp, beat, mseq, mhead, served, stall, handled, shown, quiet,
                 late>>

(* The slot and its number, copied under the lock.                          *)
TakeCopy ==
  /\ mon = "copy"
  /\ mseq' = g_mon_seq
  /\ mon' = IF g_asmp THEN "poll" ELSE "local"
  /\ served' = FALSE
  /\ UNCHANGED <<out_tail, g_asmp, sem, beat, mhead, stall, handled, shown, quiet, late>>

NextTurn(tail) ==
  /\ mhead' = out_head
  /\ mon' = IF tail = out_head THEN "check" ELSE "print"

PollServed ==
  /\ mon = "poll" /\ inbox_done = mseq
  /\ NextTurn(out_tail)
  /\ served' = TRUE
  /\ UNCHANGED <<out_tail, g_asmp, sem, beat, mseq, stall, handled, shown, quiet, late>>

(* Deviant: the monitor waits as long as it takes.                          *)
PollGivesUp_Never == FALSE
(* Fifty polls of a millisecond without an answer.                          *)
PollGivesUp ==
  /\ mon = "poll" /\ inbox_done # mseq
  /\ mon' = "check"
  /\ late' = TRUE
  /\ UNCHANGED <<out_tail, g_asmp, sem, beat, mseq, mhead, served, stall, handled, shown, quiet>>

PrintChunk ==
  /\ mon = "print" /\ mon' = "release"
  /\ shown' = shown \union LinesIn(Chunk(mhead))
  /\ UNCHANGED <<out_tail, g_asmp, sem, beat, mseq, mhead, served, stall, handled, quiet, late>>

Release ==
  /\ mon = "release"
  /\ out_tail' = TailAfter(mhead)
  /\ NextTurn(TailAfter(mhead))
  /\ UNCHANGED <<g_asmp, sem, beat, mseq, served, stall, handled, shown, quiet, late>>

(* Deviant: missed heartbeats add up although others came in between.       *)
Stall_AddsUp == IF beat THEN stall ELSE stall + 1
Stall == IF beat THEN 0 ELSE stall + 1
(* The heartbeat, and the end of a snapshot that the worker has served.     *)
Check ==
  /\ mon = "check"
  /\ beat' = FALSE
  /\ stall' = Stall
  /\ g_asmp' = (Stall < Strikes)
  /\ quiet' = quiet + 1
  /\ mon' = IF served THEN "wait" ELSE "local"
  /\ handled' = IF served THEN mseq ELSE handled
  /\ UNCHANGED <<out_tail, sem, mseq, mhead, served, shown, late>>

PrintLocally ==
  /\ mon = "local" /\ mon' = "wait"
  /\ shown' = shown \union Text(mseq)
  /\ handled' = mseq
  /\ UNCHANGED <<out_tail, g_asmp, sem, beat, mseq, mhead, served, stall, quiet, late>>

Monitor ==
  /\ push = "idle" /\ boot \in {"online", "failed"}
  /\ \/ TakeSem \/ TakeCopy \/ PollServed \/ PollGivesUp \/ PrintChunk \/ Release
     \/ Check \/ PrintLocally
  /\ UNCHANGED <<outbox, out_head, out_dropped, at, bootVars, pushVars, workVars>>

Next == Boot \/ Worker \/ Push \/ Monitor

Spec == Init /\ [][Next]_vars

(* The boot ends, a push ends, and the monitor runs when nothing above it   *)
(* does.  Nothing is assumed of the worker.                                 *)
FairSpec == Spec /\ WF_vars(Boot) /\ WF_vars(Push /\ PushOn) /\ WF_vars(Monitor)

--------------------------------------------------------------------------------
BootTypes ==
  /\ boot \in {"shm", "mutex", "task", "ready", "online", "failed"}
  /\ seg \in {"none", "live", "gone"} /\ mtx \in BOOLEAN
  /\ worker_ready \in BOOLEAN /\ g_asmp \in BOOLEAN
Snapshots == 0..MaxPushes
WorkTypes ==
  /\ wpc \in {"off", "start", "ready", "idle", "copy", "line", "commit", "done"}
  /\ wk \in Parts /\ last \in Snapshots /\ snap \in [Parts -> Snapshots]
  /\ inbox_done \in Snapshots /\ beat \in BOOLEAN
PushTypes ==
  /\ push \in {"idle", "copy", "publish", "post"} /\ pk \in Parts
  /\ g_mon_seq \in Snapshots /\ inbox_seq \in Snapshots
  /\ inbox \in [Parts -> Snapshots]
MonTypes ==
  /\ mon \in {"wait", "copy", "poll", "print", "release", "check", "local"}
  /\ sem \in 0..1 /\ mseq \in Snapshots /\ mhead \in 0..SIZE
  /\ served \in BOOLEAN /\ stall \in 0..Strikes
  /\ handled \in Snapshots /\ shown \subseteq (Snapshots \X Parts)
  /\ quiet \in Nat /\ late \in BOOLEAN
TypeOK == OutboxTypes /\ BootTypes /\ WorkTypes /\ PushTypes /\ MonTypes

(* The main core only uses a segment that exists and that a worker of its   *)
(* own build has found, and a failed boot holds nothing.  (The worker is    *)
(* not stopped: after the ready time-out it may go on without a segment.)   *)
BootSound ==
  /\ g_asmp => (boot = "online" /\ seg = "live" /\ mtx /\ worker_ready)
  /\ boot = "failed" => (seg # "live" /\ ~mtx)
  /\ (wpc \notin {"off", "start"} /\ seg # "live") => boot = "failed"

(* When every push finds the path settled and every answer comes in time,   *)
(* every snapshot the monitor is done with has appeared, each line whole,   *)
(* of one snapshot, and none of them was dropped.                           *)
PunctualShown ==
  ~late => /\ \A s \in 1..handled : Text(s) \subseteq shown
           /\ out_dropped = 0

(* The worker is given up exactly when three checks in a row have found no  *)
(* turn of its loop since the one before.                                   *)
HeartbeatJudged ==
  [][/\ (g_asmp /\ ~g_asmp') => quiet' > Strikes
     /\ g_asmp' => quiet' <= Strikes]_vars

(* No wake-up is lost although posts coalesce (lines 368-375): once a push  *)
(* is over, a monitor that has not seen its snapshot, because it waits or   *)
(* has copied an earlier one, finds the semaphore posted, whichever of its  *)
(* steps the push came between.                                             *)
Behind ==
  \/ mon = "wait" /\ handled # g_mon_seq
  \/ mon \notin {"wait", "copy"} /\ mseq # g_mon_seq
NoWakeUpLost == (push = "idle" /\ Behind) => sem = 1

(* Whatever becomes of the worker, the monitor gets through with the last   *)
(* snapshot pushed.                                                         *)
MonitorCatchesUp == (handled # g_mon_seq) ~> (handled = g_mon_seq)

(* What the comment at line 109 of monw.c is for ("Keep lines contiguous")  *)
(* and the header of the outbox says ("formatted text lines"): the monitor  *)
(* prints whole lines, one after the other.  It does not, not even when     *)
(* everything is punctual: the bytes skipped before the end of the ring are *)
(* printed too.                                                             *)
PrintsWholeLines ==
  (~late /\ mon = "print") =>
    LET c == Chunk(mhead) IN
    \A i \in DOMAIN c :
      \E j \in 1..i : \E l \in LinesIn(c) :
        StartsWhole(c, j, l, LineLen[l[2]]) /\ i < j + LineLen[l[2]]
================================================================================
