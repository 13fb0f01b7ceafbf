# Verification of the Spresense UAC2 DAC firmware

The firmware turns a Sony Spresense board (CXD5602, NuttX) into a 192 kHz USB
audio device. Packets come from the host every 125 us into a USB interrupt
handler, go through a lock-free ring to a high-priority pump thread, and leave
through sixteen DMA buffers of the audio driver. The code is small, but it runs
in four contexts (USB interrupts, pump thread, main task, monitor thread) and a
second core, with hardly a lock between them. What is in this directory models those
interleavings in TLA+, checks them with TLC and proves with TLAPS every safety
property the passing runs check.

Line numbers refer to `src/uac2_audio_dma.c` ("audio"), `src/uac2_driver.c`
("driver"), `include/uac2_ringbuf.h` ("ring"), `src/uac2_monitor.c`
("monitor"), `worker/monw/monw.c` ("worker") and `src/uac2_asmp_sup.c`
("supervisor").

## 1. The system

| Part | State | Operations | Runs in |
|---|---|---|---|
| PCM ring (ring) | byte array, `head`, `tail` | write; read, flush; init | USB ISR; pump; main |
| Playback engine (audio) | `is_playing`, free pool, message queue, `restart_needed`, stream counters | `audio_write`; `audio_start/stop`; pump loop: stream detection, drain, fluke gate, recovery, feed | ISR; main; pump |
| Feedback controller (audio 197-263) | filtered level, integral | one update per millisecond | pump |
| Buffer sequence tracking (audio 291-337) | 32-entry log, counters | enqueue, dequeue | pump |
| USB configuration (driver) | `config`, `config_applied`, `is_streaming`, endpoints, requests | SET_CONFIGURATION, SET_INTERFACE, disconnect; poll and bring-up; OUT completion | ISR; main; ISR |
| Feedback transport (driver) | `fb_inflight`, staged value, DMA buffer | update, poll; IN completion | pump; ISR |
| EP0 requests (driver 989-1429) | sample rate, mute, volume | clock and feature unit, standard requests | ISR |
| EP0 trace (driver 93-119, 1471-1486) | 128-entry queue | log; dump | ISR; monitor |
| Monitor (`uac2_monitor.c`) | latest snapshot, sequence number, semaphore | push; print loop | main; monitor |
| Sub-core formatter (`worker/monw/monw.c`) | inbox, outbox ring, heartbeat | copy, format, commit a line | second core |
| Supervisor (`uac2_asmp_sup.c`) | shared memory, task handle | boot with time-out | main |
| Main task (`uac2_main.c`) | tick | start-up order, 100 ms loop | main |
| Descriptors, compatibility symbols, device-controller patch, host tools | tables | | |

How they interact. The ISR calls `uac2_audio_write` (ring write, packet count,
semaphore). The main task's `uac2_driver_poll` carries out what the handlers
recorded and calls `uac2_audio_start/stop`; stop clears the ring. The pump
reads the ring, calls the audio driver with ioctls and gets its answers as messages
(DEQUEUE, UNDERRUN, IOERROR, COMPLETE); it also feeds the ring's level to the
feedback controller and submits the result on the feedback endpoint. The
monitor thread and the second core only read copies of counters.

What is hard here. The ring has no lock, and its reset is a `memset` that
interrupts may split. A buffer crosses five places and every call can fail. The
recovery sleeps for up to a second, during which the main task may stop or
start the engine. The configuration handlers only set flags, and the poll that
acts on them 100 ms later compares values, not events. The feedback slot is
shared by a thread and three interrupt handlers.

What makes each part correct:

- ring: every byte accepted is read once, in order; frames stay aligned; the
  two copies never touch the same bytes; a reset never eats the packets
  that come after it;
- engine: buffers are neither lost nor shared; an engine that is down is revived; a
  remainder does not stick; stopped means stopped; a new stream is not cut;
- USB: the OUT request is queued once, a feedback submit that fails or is
  cancelled gives its slot back, and the hardware ends up as the host last asked;
- EP0 requests and trace: the codec follows what the host set and nothing else
  moves it; the trace tells the configuration the device is in;
- monitor, worker, supervisor: a snapshot appears, each line whole, when
  everybody is in time; a slow or dead worker never stops the telemetry; no
  failed boot step leaves anything behind that is still used;
- controller: the output stays in its band, does not wind up, and ends up
  correcting a level that is off; the filter does not overshoot;
- sequence log: losses and completions out of order are reported exactly, and
  an orderly driver is never accused.

## 2. Modules

| Module | Models |
|---|---|
| `PcmFifo` | what the ring promises: a bounded queue of whole frames |
| `Uac2RingBuf` | the ring at the level of its loads, memcpys and stores |
| `AudioPump` | engine control, pump thread, message queue, audio driver |
| `UsbConfig` | configuration, streaming and feedback transport |
| `UsbDevice` | `UsbConfig` reached through EP0, with the feature unit and the trace |
| `FeedbackPI` | the rate controller and the time step it measures |
| `SeqTrack` | the sequence audit of buffers, against a faulty driver |
| `Outbox` | the byte ring between the two cores (operators and state) |
| `Telemetry` | main task's push, monitor thread, worker and its boot, over `Outbox` |
| `MC...` | constants for TLC |
| `...Proofs` | theorems about the module of the same name |
| `NumberLemmas` | `%`, minimum and maximum, for the proofs of rings that wrap |

**Uac2RingBuf.** `write` is four steps (settle the length, copy, copy the part past the
end, publish `head`), `read` likewise, `flush` two, `init` three in the order
of the structure's fields. `w` and `r` count the bytes accepted and released
since the last reset, and each byte is named by its position, so the array's
content says which byte is where. A store of an index publishes all earlier
writes: the release/acquire order the header states. The reset needs a pump
that is not in the middle of a read (`is_playing` is cleared first and the pump
outranks the main task) and a producer call that is not in progress (it is an
interrupt and finishes). The zero fill of a short read goes to memory the ring
does not own and is left out. The write and read paths call
`uac2_ringbuf_available_*` once and load their own index again; since an index
has one writer the model settles the length in one step.

**AudioPump.** The ring is reduced to its level in frames, the message queue to
the buffers it returns and counts of its other messages. Each step of the pump
is the code between two points where another context can act (the sleeps,
and each ENQUEUE or START, around which DMA interrupts come): `Wake` is one loop turn up to the
decision to recover, `GateFirst/GateSecond` the two 50 ms windows,
`Try/Refill/Restart/Judge` one recovery attempt, `Feed...` one turn of the
feed loop. A recovery compares running totals with what they were when it began
(audio 588-589, 607-609): `prog` says that something has completed since
(`Moved`), so that the try after one that has revived the engine stops it again
(unless the host was silent, line 607). A full drain of the queue is one step (`Drain`). `audio_stop` is
three steps: flag, STOP, ring. The audio driver is external: it completes queued
buffers in any order, reports an underrun once when it has none left and may then
die, may report an I/O error, and may fail ENQUEUE or START or return success
from a START that leaves a dead engine dead, each of these counted by
`MaxFaults`. STOP returns every buffer in a message. In the recovery STOP
and the drain after it are one step, so the buffers are back in the pool at once and its COMPLETE
message is drained there too. The pump has priority 150, the main task 100, on
one core: the main task acts only while the pump sleeps (`MainMayRun`), and at
most once per sleep because it polls every 100 ms and no sleep is longer than
50 ms (`polled`).

Ghost variables, which no guard of the code reads: `fresh` (the ring holds frames
accepted after the gap that ends a stream) and `asked` (the last request was
a start; it also tells the caller of `audio_start` and `audio_stop` apart).

**UsbConfig.** The handlers are atomic. `uac2_apply_config_task` is six steps,
between any two of which a handler may run; `uac2_feedback_poll` is three
(refresh, claim, submit). The pump outranks the main task, so the bring-up does not
advance while the pump is inside its poll. What the model covers is the build with
`UAC2_SINGLE_ALT0_STREAMING`. EP_SUBMIT and EP_DISABLE are external and
described by their use: submit queues, disable cancels through the completion
callbacks. The audio engine is the flag `audio`, and its START is taken to succeed.
The ghost `rushed` becomes true when the host changes its mind before the poll has
caught up, `changes` bounds the changes.

**UsbDevice** extends `UsbConfig` and adds what surrounds it in `uac2_setup`.
Every request carries out its effect, records itself and its answer
(`Recorded`, one free slot, a full queue drops) and is atomic, being an interrupt. A
SET_INTERFACE comes from the controller with its packet or synthesised from a
status register; the second way leaves two entries (`SetupSynthesised`). The
feature unit sets all channels whichever is named, and tells the codec at once.
Requests that only read, or are refused without effect, are one action
(`SetupOther`): they occupy the trace and nothing else. The monitor's dump is
three steps (copy, release the slot, print), between any two of which
everything else may run. The ghosts `told` (the configuration a reader of the
printed trace expects) and `untold` (the last change of configuration could not be
in the trace: the queue was full, or it was a disconnect, which is no
request) serve `TraceTellsConfig`; `setups` bounds the requests.

**FeedbackPI** is `uac2_fb_pi_update` in integers, with C's division toward
zero (`Quot`), the dead band, the frozen and the limited integrator and the
clamp, together with the code of the pump loop that measures `dt` (valid
flag, clamp to 50 ms, no refresh while idle: audio 446-466). The level is the
environment's: any value at any moment. `late` bounds the updates with
`dt > FDiv`, beyond which the filter is no longer a mean.

**SeqTrack.** `Enqueue` is a successful ENQUEUE with `track_enqueue`; `Receive`
is a DEQUEUE message with `track_dequeue` and the return to the pool. The
external driver completes in order, and as a fault overtakes, loses or reports twice.
The ghosts are serial numbers that never wrap (`serial`, `latest`, `done`) and
`prompt`: every message came before its buffer was used again.

**Outbox, Telemetry.** A byte of the outbox is known by its line and its place in it, so
that the content shows what is printed. `outbox_write` is two steps (look at the
indices; copy and publish), the drain loop two (print; store `tail`). A snapshot
is its number, with one part per line, and both `memcpy`s, the push
into the inbox and the worker's copy out of it, go part by part while the other
core runs. The boot is four steps, each of which may fail into the roll-back; the
ready time-out is `BootReady` with a worker that has not reported yet and goes on
afterwards. The worker may stop for ever at any point (it has no
fairness): that is its crash. The monitor waits (`TakeSem`),
copies the slot and its number under the lock (`TakeCopy`; a push may come between
the two, and the same snapshot is then handled twice), polls (`PollServed`,
`PollGivesUp`), drains, judges the heartbeat (`Check`) or prints itself. The main task
outranks the monitor on one core, so the monitor does not act inside a push;
the worker does. Ghosts: `shown` (lines that appeared whole), `handled`,
`quiet` (checks since the worker's last turn), `late` (a push met
unfinished work, or the worker missed a time-out).

An operator named `X_Something` stands before `X` and is a variant that
deviates from the code the way a plausible bug would. No specification uses
it. Putting it in the place of `X` must break a property: that is how each
property is shown to depend on the code.

## 3. Runs

All runs use two workers at most; times are for a small machine.

| Run | Checks | Size |
|---|---|---|
| `ring` | TypeOK, FramesAligned, UnreadIntact, CopiesDisjoint, ReadsNextBytes, ResetKeepsNewPackets, ImplementsFifo | 49,775 states, 7 s |
| `pump` | TypeOK, BuffersNotShared, BuffersNotLost, GateBound, CushionKept | 2.0 M states, 60 s |
| `pump_live` | ResidueDrains, EngineRevived | 0.55 M states, 100 s |
| `usb` | TypeOK, DeviceTypeOK, OutQueuedOnce, BusyMeansQueued, PatientHostServed, PatientHostFeedback, TraceTellsConfig, GainFollowsHost, BroughtUp | 737,000 states, 100 s |
| `telemetry` | TypeOK, BootSound, PunctualShown, HeartbeatJudged, NoWakeUpLost, MonitorCatchesUp | 166,000 states, 25 s |
| `feedback` | TypeOK, RailMeansError, HoldsOnRail, FilterNoOvershoot, Corrects | 136,000 states, 65 s |
| `seq` | TypeOK, CleanRun, EntriesAccurate, LossExact, DupIsOvertaken | 839,000 states, 25 s |
| `stop`, `newstream`, `start_retry`, `usb_rush`, `outbox_lines` | one statement of a comment each, which the code does not keep | seconds |

**Bounds and why they are enough.**

- `ring`: 32 bytes, so that one, two or three frames can be queued, packets fit, wrap
  and are truncated; 72 bytes between resets go around the ring more than
  twice. The proofs lift every bound.
- `pump`: three interchangeable buffers (with two, "one held, one in flight,
  one pooled" cannot happen); a ring of 8 frames, in which each zone of the
  drop servo and of the reserve has a level; `MqCap` 8 against at most
  three buffer messages and the few fault and COMPLETE messages that can pile up; one driver
  fault at any point; a recovery of two tries; 25 and 250 quiet wakes are 1
  and 2. `servo_tick` only thins out drops and repeats, so the model lets them
  happen or not.
- `pump_live`: two buffers without symmetry (symmetry is unsound for liveness)
  and packets of one size, 7 frames, which fill the ring at once; three tries and
  one failing driver call. Two tries more
  than failing calls is the hypothesis under which an engine comes back: with one
  more only, the tries may end right after the recovery has stopped the engine its last
  try had revived and a START has failed, and nothing reports an engine that was stopped.
  (The code has 300 tries.)
- `usb`: three changes reach a change in every step of a bring-up followed by a
  second one during its tear-down, and `usb_rush` makes five; the trace holds two
  entries, so three requests (a synthesised SET_INTERFACE makes two entries
  of one) fill it, overflow it and wrap it; the two loudest volumes are where
  the gain's saturation begins. One payload value, since no property compares payloads.
- `telemetry`: lines of 2 and 3 bytes in a ring of 9, so that a text does
  not divide the ring and each line has to be moved to the start in turn; three pushes, so
  that a late worker can meet a second and a third; two strikes for three.
- `feedback`: the constants are scaled so that the ratios that matter stay: a
  clamp twice the integrator's part and half the largest proportional part, a
  clamp of dt three time constants long. The levels are empty, full, the target and one in
  between that is off the dead band.
- `seq`: numbers wrap at 8 and ten enqueues go past it; a log of four entries,
  three buffers (the code has 32 and 16); two faults, of the same or of
  different kinds.

**Deadlock.** It is checked except in `seq`, `telemetry` and `outbox_lines`, where
the bound on enqueues or pushes ends every behaviour.

**Fairness.** The pump's sleeps are time-outs, so `WF(Pump)`; the DMA finishes
a buffer it plays, `WF(EngComplete)`; an `audio_stop` that has begun goes
on, `WF(AudioStopEngine)`, `WF(AudioStopRing)` (they stay enabled
only in a sleep of the pump, hence weak fairness promises no more than the code
does). `pump_live` adds an assumption about time, `Timely`: in the 3 ms a try
sleeps, an engine that runs and has buffers completes as many as the
judgement asks for (two of 1.33 ms each). Without it an engine in perfect order
may be judged dead and be stopped in every try. (`ResidueDrains` does not need it: with two tries and
without it it was checked as well, 0.65 M states.) In `UsbDevice` the main loop polls for ever but is locked out whenever
the pump is in its poll, which comes and goes: `SF(Main)`. The pump leaves
its poll: `WF`. Nothing is assumed of the host: it may fall silent, leave, or
change its mind at any moment within the bound; nor of the monitor's dump.
In `Telemetry` the boot ends (its only wait has a time-out), a push that has
begun ends, and the monitor runs when nothing above it does; all of these are
`WF`, and nothing is assumed of the worker. In `FeedbackPI` the pump
wakes for ever in time (`WF(TimelyWake)`): its semaphore wait ends after 2 ms if by nothing else.

**What the runs show.**

- `ring`: every step of the ring is a step of `PcmFifo` or a stutter, including
  a packet in the middle of a flush or a reset.
- `pump`: whatever stop, recovery and failures do to each other, buffers are
  conserved. `CushionKept` fixes what the reserve really guarantees, `ReserveMin - 1` = 7
  buffers at the driver; the comment says 8 (below).
- `pump_live`: `EngineRevived` holds although `restart_needed` is cleared before
  the recovery, because UNDERRUN messages that arrive later set it again, and although
  the recovery itself stops an engine whose buffers its last try has seen complete (audio 607-612).
- `usb`: a *patient* host, one that waits for the poll between two changes, is
  always served. Nothing of the sort holds for one that does not wait (see below); only
  `OutQueuedOnce` and `BusyMeansQueued` hold for every host. The latter is about the
  device's side of the feedback slot only: whoever fails to submit or cancels gives it back.
  Whether the controller ever completes the queued request is not claimed; by
  the driver's own comments it may not (driver 229-231, 299-306), and the slot then
  stays busy while the refresh of its buffer carries the values. A
  SET_CONFIGURATION of a value the device does not have is refused, but only
  after all has been taken down (driver 418-470): a request that failed ends the
  stream, and whoever reads the trace must know it, which is what `Reading` says of a refused entry.
  A disconnect leaves nothing in the trace.
- `telemetry`: with everybody in time every line of every snapshot appears whole
  (`PunctualShown`); with a worker that is late, stalls or dies the monitor
  still gets through with the last snapshot pushed (`MonitorCatchesUp`), no push
  goes unnoticed wherever it finds the monitor (`NoWakeUpLost`), and it
  gives the worker up after exactly three checks without a turn of its loop. When the
  worker is late none of the other promises hold: its text of a snapshot the
  monitor printed itself comes out with the next one, the inbox may be copied
  while it is written, and a line skipped to the ring's start may run past
  `out_tail`. A snapshot whose lines the worker dropped for lack of space is still
  taken as served. After the ready time-out the worker goes on in a segment that
  the boot has destroyed (`BootSound` says that only then).
- `feedback`: the output is on its rail only while the filtered level is far off
  (`RailMeansError`), the integrator stands still there unless the level comes nearer
  to the target (`HoldsOnRail`: no wind-up), and a level that stays off is answered with at least the
  integrator's full part (`Corrects`). The filter is a mean for `dt` up to
  16 ms only (`FilterNoOvershoot`); a later update overshoots, by 3.1 at the
  clamp of 50, and from 32 on updates in a row diverge. `fb_last` is not refreshed while
  the engine is stopped, so the first update after a pause is always of that kind.
- `seq`: losses are located exactly (`LossExact`), completions out of order are
  counted exactly (`DupIsOvertaken`), an orderly driver is not accused
  (`CleanRun`) before the 32-bit number wraps, after 66 days of playing at
  750 buffers a second; from then on `last_deq_seq` stays at its maximum and every
  completion counts as a duplicate.
  What it does not count are the double completions it was made for (below).

**Disagreements between comments and code** (the violation runs):

1. `stop`: the recovery tests `is_playing` once and can start an engine that was
   stopped during one of its sleeps (audio 555, 640).
2. `newstream`: the flush at the start of a stream drops the packet that
   revealed it (audio 490-498). The driver's residue and the packet cannot
   be told apart by then.
3. `start_retry`: a START that fails is not retried; the retry sits behind the
   `continue` of the idle path (audio 430-441, 515).
4. `usb_rush`: leaving and re-entering the configuration between two polls goes
   unnoticed, the endpoints stay disabled (driver 734, 606).
5. `outbox_lines`: a line that does not fit before the end of the outbox is put at
   its start and nothing records where the text ended, so the monitor prints
   the skipped bytes between two lines at every wrap (worker 109-113, monitor
   247-250), even when everybody is in time.

Four more without a run of their own:

- The gate that is to tell a fluke from a death never says fluke. Nothing
  refills the engine between its windows, so even one that completes every buffer
  there is falls short of ten in each (audio 545-551, 581; proved for all sizes
  as `FlukeBranchDead`).
- The reserve is said to wait with 8 buffers in flight or more; the one
  just popped counts, so it waits with 7 (audio 765-766, 774; `CushionKept`).
- `dup_count` is said to count the double completions of a number, the
  evidence of a replay by the hardware (audio 102-105). The first report removes the entry
  and the second finds none, so neither counter moves (audio 307; proved for
  all sizes as `SecondReportUnseen`). A second report that comes after the buffer was
  used again takes the new use's entry.
- The feedback buffer is rewritten in flight, about which the two comments (driver
  55-58 and 294-308) contradict each other; the code follows the second.

## 4. Proofs

Every invariant and every action property of the passing runs, and the ring's
refinement of the abstract queue, are theorems. They hold for every value of the constants that satisfies
the named assumptions, which TLC evaluates on each run:

| Assumption | Says | In the code |
|---|---|---|
| `RingAssumption` | capacity and lengths are whole frames | 131072; audio 1212 refuses other lengths |
| `PumpAssumption` | at least one buffer; a buffer of 2 frames or more; four buffers fit the ring | 16 buffers of 256 frames |
| `UsbAssumption` | the nominal feedback value is a value | |
| `DeviceAssumption`, `LevelsAdvertised` | trace of 3 entries or more; the host sets volumes of the advertised range, whole decibels from -96 to 0 | 128; driver 1145-1151 |
| `FeedbackAssumption` | the integrator's part is weaker than the clamp; levels are within the ring | 4096 and 8192 |
| `SeqAssumption` | no more buffers than entries of the log | 16 and 32 |
| `TelemetryAssumption`, `RoomForText` | a text and one more line fit the outbox | at most 10 lines of less than 512 bytes in 8192 |

Two theorems of `AudioPumpProofs` have a hypothesis of their own, `QueueFits`:
the message queue has room for two messages a buffer, four more, and the driver
faults of the run. The code's 128 places leave 92 for faults once 36 are
taken. It cannot do without a bound on faults: an engine that reports errors
while the pump sleeps fills any queue, and a DEQUEUE message that is lost is a
buffer that is lost. (`pump` runs with a queue of 8, three less than the theorem asks
for, and finds no loss either.)

Each module proves one inductive invariant, `IInv` (`DeviceInv` for
`UsbDevice`), with one lemma for each action or for each part of the invariant,
and derives its theorems from it. Why an invariant is needed that says more than the properties:

- `Uac2RingBufProofs`: nothing in the six invariants of `ring` says that the
  space granted at the start of a write is still
  free when it is copied, nor what a half-done copy has left. `ProdInv` and
  `ConsInv` say so per program counter, `ResetInv` says that between the two stores of a
  reset the stale `tail` only ever refuses bytes. Lemmas about distance,
  wrap-around and alignment carry the arithmetic. `IsFifo` is the refinement:
  `QueueSeen` reads off the invariant that what the users see is a run of
  consecutive stream positions (`Run(Base, Size)`) although the bytes wrap, so that each
  step only moves an end of the run. Publishing between the first two stores of a
  reset is a stutter, since `head` is about to be cleared, and after the second
  an append to the new stream.
- `AudioPumpProofs`: the strengthening for `BuffersNotShared` and `GateBound` is
  the pump's hand (a buffer exactly between pop and
  ENQUEUE) and that what the first window counted is in the free
  pool until the second is judged. `NotShared` needs no assumption about the
  length of the message queue: a lost message loses a buffer but never
  shares one. `FlukeBranchDead` follows: with fewer buffers than two windows
  ask for (16 < 20), every pass of the gate ends in a restart.
  `NoBufferLost` needs to know how much can pile up between two drains.
  `ComplInv`: one COMPLETE at most, because an engine is
  started again only after the pump has woken. `FaultInv` is an account: each UNDERRUN needs
  an engine that was fed or started since the last one, `Left` is how often
  that can still happen before the pump drains (as many times as there are buffers in the pool
  and two more in the recovery, whose refill does not drain), and
  each step pays for the messages it adds with a chance it uses up. `CushionStays` counts what is
  not in the pool as being with the driver, which is `BuffersNotLost`.
- `UsbConfigProofs`: the five invariants of `UsbConfig` for any number of changes.
  `PatientInv` is the table of what a patient host can find at each step of the
  bring-up; `FeedbackInv` says the pump is inside its poll only while
  the engine runs, so no SET_CONFIGURATION of a patient host falls between
  claim and submit of a request that is already queued.
- `UsbDeviceProofs`: every step of the device is one of `UsbConfig` or leaves its variables alone
  (`DeviceRefines`, which is how the module is written and no result of its own), so that `DeviceSafe`
  carries the five invariants over. For `TraceTellsConfig` the invariant
  follows the reader through the dump: between release and print the
  entry is in the monitor's copy only (`Reader`). `Tells` speaks of the last entry that
  names a configuration instead of folding over the queue, so that a recorded,
  a released and a dropped entry each change one end of the quantifier's range. `CodecFollows`
  rests on the gain being strictly monotone in whole decibels.
- `FeedbackPIProofs`: lemmas about C's division (sign, bound, monotony, distance from the
  exact quotient) carry `TypeOK` and the rest. `TypeOK` holds the bands of output and integral for every time
  step, and the range of the filter as long as no update came late; after a late one nothing bounds it.
  `OnRail` strengthens it: a rate on its rail is what the last error and the integral gave,
  so that the freeze test, which sees the new error and the old integral, comes out the same while the error
  grows (`HoldsOnRail`).
- `SeqTrackProofs`: the log is exact (`LogExact`: a buffer's only entry is that of its last
  use, at the place of its serial) as long as no report came for a buffer that is in
  use again. Order (`Ordered`), conservation and the window of serials that are
  still some buffer's last then give what the counters must be. `LossExact` and
  `DupIsOvertaken` are about the cardinality of a set that grows by at most one element with each report,
  so that no induction over the history is needed.
- `TelemetryProofs`: `SafeInv` holds with any worker: how far the boot is says what
  exists (`BootInv`), the checks since the worker's last turn are the strikes
  (`BeatInv`), and the sequence numbers are in order (`HandoffInv`). While nobody is late,
  push, worker and monitor take turns (`TurnInv`), and the
  lines written so far lie in the ring one after the other from the tail on,
  one of them possibly moved to the start (`HeadOf`, with the place of a line
  given by the layout `RoomForText` postulates). `DrainInv` follows the drain, which
  shows what lies before the ring's end and then what lies at its start.
  `NoWakeUpLost` is inductive as it stands.

Model-checked only: the liveness properties `ResidueDrains`, `EngineRevived`, `BroughtUp`,
`MonitorCatchesUp` and `Corrects` (fairness and ENABLED are beyond the prover), and the
violation runs.

## 5. Not modelled

- A codec call that fails: its result is ignored (audio 1278, 1303), so that what the host
  reads back and what is played part. `GainFollowsHost` is about calls that succeed.
- Formatting, logging, statistics, CRC and capture buffers: no control depends on them.
- Register writes (CSR arming, NAK bits), which have no effect the class driver
  reads; the multi-alt branches, which the build does not compile; unbind and
  the failures of allocation at bind and of ENQUEUE at initialisation.
- EP0 answers, and whether a request may still be using the one EP0 request
  object when the next arrives: the controller decides that, and its base
  file is not in the repository (only a patch to it is).
- Time itself: the recovery's 100 ms to 1 s against the ring's 85 ms is not
  compared, and the drop servo's tick is left open. A ring that overruns meanwhile
  truncates packets, which the ring's model has.
- The main task's abort of a failed start-up and the register snapshot it
  takes; `AudioPump`, `UsbDevice` and `Telemetry` start where its order (audio, USB, monitor)
  leaves them. A START that fails during the bring-up is in `AudioPump`
  (`start_retry`); `UsbConfig` takes it to succeed.
- Descriptor tables, SDK compatibility symbols, host tools and build scripts: constant data or not part
  of the firmware.

## 6. Plan

Every safety property of the runs is proved. What could still be proved:

1. The safety half of one more liveness argument: for `EngineRevived`, that a dead
   engine always has a report in the queue, a recovery requested or one under way.
   TLC then only checks that the steps get done. (For `MonitorCatchesUp` it is `NoWakeUpLost`.)
2. A bound on driver faults between two drains in place of one for the
   whole run in `QueueFits`; it needs a history variable that counts them.
3. That the findings are no accident of the small instances: for which constants
   `PrintsWholeLines` must fail.
