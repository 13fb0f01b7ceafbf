------------------------------- MODULE UsbDevice -------------------------------
(***************************************************************************)
(* The whole of src/uac2_driver.c as the host meets it: UsbConfig reached  *)
(* through the control endpoint (uac2_setup), with the feature unit and    *)
(* the trace of control requests.                                          *)
(*                                                                         *)
(* uac2_setup runs in the USB interrupt: it carries a request out, records *)
(* the request and its answer in a single-producer single-consumer queue   *)
(* (uac2_log_setup) and answers.  The monitor thread empties the queue     *)
(* (uac2_dump_setup_logs); it has the lowest priority, so that everything  *)
(* else may come between its copy of an entry, its store of the tail and   *)
(* its printf.                                                             *)
(*                                                                         *)
(* The controller reports a SET_INTERFACE twice, once with the packet and  *)
(* once synthesised from its status register; the second report leaves a   *)
(* mark of its own in the trace before its answer.  The requests that only *)
(* read, and those refused for what they name, differ in their answer and  *)
(* in nothing else: here they are one entry of the trace.                  *)
(***************************************************************************)
EXTENDS UsbConfig, Sequences, FiniteSetsExt

CONSTANTS
  Levels,        \* volumes the host may choose, in 1/256 dB
  LogSize,       \* UAC2_LOG_SIZE
  MaxSetups      \* bound: control requests the host makes

ASSUME DeviceAssumption ==
  /\ Levels \subseteq Int /\ 0 \in Levels
  /\ LogSize \in Nat /\ LogSize > 2 /\ MaxSetups \in Nat

(* The host keeps to the range the feature unit advertises: whole decibels  *)
(* from -96 to 0.                                                           *)
ASSUME LevelsAdvertised == Levels \subseteq {256 * k : k \in (-96)..0}

VARIABLES
  mute, volume,      \* what GET_CUR answers, for each channel
  codec,             \* what the audio driver was last told
  trace,             \* g_setup_logs
  logHead, logTail,  \* g_log_head, g_log_tail
  dpc,               \* where the monitor is in uac2_dump_setup_logs
  copied,            \* its copy of an entry
  told,              \* the configuration a reader of the printed trace expects
  untold,            \* the last change of configuration is not in the trace
  setups             \* control requests so far

unitVars == <<mute, volume, codec>>
ringVars == <<trace, logHead, setups>>
dumpVars == <<logTail, dpc, copied, told>>
deviceVars == <<vars, unitVars, ringVars, dumpVars, untold>>

Channels == 0..2                      \* master, left, right

Request(req, value, ok) == [req |-> req, value |-> value, ok |-> ok]
Configured(c) == Request("config", c, c \in {Off, UAC2_CONFIG_ID})
Interface(ok) == Request("iface", Off, ok)
Synthesised   == Request("synth", Off, TRUE)         \* ret = 0x5A5A
Other         == Request("other", Off, TRUE)
Entries == {Configured(c) : c \in {Off, UAC2_CONFIG_ID, Bogus}}
           \union {Interface(ok) : ok \in BOOLEAN} \union {Synthesised, Other}

DeviceInit ==
  /\ Init
  /\ mute = [ch \in Channels |-> FALSE] /\ volume = [ch \in Channels |-> 0]
  /\ codec = [gain |-> 1000, mute |-> FALSE]
  /\ trace = [i \in 0..(LogSize - 1) |-> Other]
  /\ logHead = 0 /\ logTail = 0
  /\ dpc = "idle" /\ copied = Other
  /\ told = Off /\ untold = FALSE
  /\ setups = 0

--------------------------------------------------------------------------------
(* uac2_log_setup: one slot stays free, and a full queue drops the entry.   *)

After(i) == (i + 1) % LogSize

(* Deviant: the head is not wrapped.                                        *)
Recorded_NoWrap(q, e) ==
  IF q.head + 1 = logTail THEN q
  ELSE [slots |-> [q.slots EXCEPT ![q.head] = e], head |-> q.head + 1]
Recorded(q, e) ==
  IF After(q.head) = logTail THEN q
  ELSE [slots |-> [q.slots EXCEPT ![q.head] = e], head |-> After(q.head)]

TraceIs(q) == trace' = q.slots /\ logHead' = q.head
Queue == [slots |-> trace, head |-> logHead]
LogFull == After(logHead) = logTail

Setup(q) ==
  /\ setups < MaxSetups /\ setups' = setups + 1
  /\ TraceIs(q)
  /\ UNCHANGED dumpVars

(* SET_CONFIGURATION: the configuration the device has already is accepted  *)
(* without effect; one it does not have is refused with all taken down.     *)
(* Deviant: the unknown configuration is refused before the endpoints are   *)
(* disabled.                                                                *)
Choose_RefusesFirst(c) ==
  IF c = Bogus THEN config' = Off /\ HostChange /\ streaming' = FALSE
                    /\ UNCHANGED <<mainVars, outVars, fbVars, fpc>>
  ELSE SetConfig(c) \/ (c = config /\ UNCHANGED vars)
Choose(c) == SetConfig(c) \/ (c = config /\ UNCHANGED vars)
SetupConfig(c) ==
  /\ Choose(c)
  /\ Setup(Recorded(Queue, Configured(c)))
  /\ untold' = LogFull
  /\ UNCHANGED unitVars

(* SET_INTERFACE of the streaming interface's only setting.                 *)
Select ==
  /\ SetInterface \/ (config = Off /\ UNCHANGED vars)
  /\ UNCHANGED <<unitVars, untold>>
Selected == Interface(config = UAC2_CONFIG_ID)
SetupInterface == Select /\ Setup(Recorded(Queue, Selected))
SetupSynthesised ==
  Select /\ Setup(Recorded(Recorded(Queue, Synthesised), Selected))

(* The feature unit: whichever channel is named, all of them are set, and   *)
(* the codec is told at once, in tenths of a percent.                       *)
(* Deviant: the setting is taken for unsigned.                              *)
Percent_Unsigned(v) == IF v <= -32768 THEN 0 ELSE 100
Percent(v) ==
  IF v <= -24576 THEN 0 ELSE IF v >= 0 THEN 100 ELSE ((v + 24576) * 100) \div 24576

SetVolume(v) ==
  /\ volume' = [ch \in Channels |-> v]
  /\ codec' = [codec EXCEPT !.gain = 10 * Percent(v)]
  /\ UNCHANGED mute

SetMute(on) ==
  /\ mute' = [ch \in Channels |-> on]
  /\ codec' = [codec EXCEPT !.mute = on]
  /\ UNCHANGED volume

SetupUnit ==
  /\ (\E v \in Levels : SetVolume(v)) \/ (\E on \in BOOLEAN : SetMute(on))
  /\ Setup(Recorded(Queue, Other))
  /\ UNCHANGED <<vars, untold>>

(* Descriptors, GET_*, the clock (which stays at 192 kHz whatever it is     *)
(* set to), terminals, vendor requests, and everything refused.             *)
SetupOther ==
  /\ Setup(Recorded(Queue, Other))
  /\ UNCHANGED <<vars, unitVars, untold>>

Control ==
  \/ \E c \in {Off, UAC2_CONFIG_ID, Bogus} : SetupConfig(c)
  \/ SetupInterface \/ SetupSynthesised \/ SetupUnit \/ SetupOther

(* What happens to the device without a control request.                    *)
Unplugged == Disconnect /\ untold' = TRUE /\ UNCHANGED <<unitVars, ringVars, dumpVars>>

Quietly(A) == A /\ UNCHANGED <<unitVars, ringVars, dumpVars, untold>>
Elsewhere ==
  \/ Unplugged
  \/ Quietly(IsoOutComplete) \/ Quietly(FbInComplete) \/ Quietly(Main) \/ Quietly(Pump)

--------------------------------------------------------------------------------
(* uac2_dump_setup_logs in the monitor thread.                              *)

(* A reader takes an accepted SET_CONFIGURATION for the configuration it    *)
(* names and a refused one for none.                                        *)
Reading(c, e) ==
  IF e.req # "config" THEN c ELSE IF e.ok THEN e.value ELSE Off

DumpCopy ==
  /\ dpc = "idle" /\ logTail # logHead
  /\ copied' = trace[logTail] /\ dpc' = "release"
  /\ UNCHANGED <<logTail, told>>

(* Deviant: the tail skips what the interrupt recorded since the copy.      *)
DumpRelease_TakesAll ==
  /\ dpc = "release" /\ dpc' = "print"
  /\ logTail' = logHead
  /\ UNCHANGED <<copied, told>>
DumpRelease ==
  /\ dpc = "release" /\ dpc' = "print"
  /\ logTail' = After(logTail)
  /\ UNCHANGED <<copied, told>>

DumpPrint ==
  /\ dpc = "print" /\ dpc' = "idle"
  /\ told' = Reading(told, copied)
  /\ copied' = Other                    \* the copy goes out of scope
  /\ UNCHANGED logTail

Dump == (DumpCopy \/ DumpRelease \/ DumpPrint)
        /\ UNCHANGED <<vars, unitVars, ringVars, untold>>

DeviceNext == Control \/ Elsewhere \/ Dump

DeviceSpec == DeviceInit /\ [][DeviceNext]_deviceVars

DeviceFairSpec ==
  /\ DeviceSpec
  /\ SF_deviceVars(Quietly(Main)) /\ WF_deviceVars(fpc # "idle" /\ Quietly(Pump))

--------------------------------------------------------------------------------
DeviceTypeOK ==
  /\ mute \in [Channels -> BOOLEAN] /\ volume \in [Channels -> Levels]
  /\ codec \in [gain : 0..1000, mute : BOOLEAN]
  /\ trace \in [0..(LogSize - 1) -> Entries]
  /\ logHead \in 0..(LogSize - 1) /\ logTail \in 0..(LogSize - 1)
  /\ dpc \in {"idle", "release", "print"} /\ copied \in Entries
  /\ told \in {Off, UAC2_CONFIG_ID} /\ untold \in BOOLEAN
  /\ setups \in 0..MaxSetups

(* What is still to be printed: the queue behind the monitor's own copy.    *)
Waiting == [i \in 1..((logHead - logTail) % LogSize) |-> trace[(logTail + i - 1) % LogSize]]
Unread == CASE dpc = "idle"    -> Waiting
            [] dpc = "release" -> <<copied>> \o Tail(Waiting)
            [] dpc = "print"   -> <<copied>> \o Waiting

(* The trace tells what the device is: whoever reads on to its end knows    *)
(* the configuration, whatever the interrupt recorded between two steps of  *)
(* the monitor, unless the change itself was dropped by a full queue or     *)
(* came from the cable (a disconnect is no control request).                *)
Named(entries) == {i \in DOMAIN entries : entries[i].req = "config"}
ReadOn(c, entries) ==
  IF Named(entries) = {} THEN c ELSE Reading(c, entries[Max(Named(entries))])
TraceTellsConfig == ~untold => ReadOn(told, Unread) = config

(* The codec follows the host: a higher setting of any channel, as the host *)
(* reads it back, is a higher gain, and neither gain nor mute changes for   *)
(* any other reason: not with the configuration, the cable or the engine.   *)
GainFollowsHost ==
  [][\A ch \in Channels :
       /\ (codec'.gain > codec.gain) <=> (volume'[ch] > volume[ch])
       /\ (codec'.gain < codec.gain) <=> (volume'[ch] < volume[ch])
       /\ codec'.mute = mute'[ch]]_deviceVars
================================================================================
