------------------------------- MODULE UsbConfig -------------------------------
(***************************************************************************)
(* Configuration and streaming of src/uac2_driver.c (single Alt 0 build):  *)
(* the USB interrupt handlers that record what the host wants, the main    *)
(* task's 100 ms poll that carries it out on the hardware, the completion  *)
(* callbacks of the two isochronous endpoints, and the pump thread's paced *)
(* submission of feedback.                                                 *)
(*                                                                         *)
(* Interrupt handlers are atomic and come between any two steps of the     *)
(* tasks.  The pump outranks the main task, which therefore makes no step  *)
(* while the pump is inside uac2_feedback_poll.  The device controller is  *)
(* external: EP_DISABLE cancels what is queued (cxd56_epdisable in the     *)
(* patch), EP_SUBMIT queues a request whether or not the endpoint is       *)
(* configured.  uac2_audio_start is taken to succeed here; AudioPump has   *)
(* the case where it does not.                                             *)
(***************************************************************************)
EXTENDS Integers, FiniteSets

CONSTANTS
  Values,        \* payloads the rate controller produces
  Nominal,       \* the payload of uac2_bind, 24.0 samples per microframe
  MaxChanges     \* bound: configuration changes the host makes

ASSUME UsbAssumption == Nominal \in Values /\ MaxChanges \in Nat

Off == 0
UAC2_CONFIG_ID == 1
Bogus == 2                \* any configuration value the device does not have

VARIABLES
  config,        \* the configuration the interrupt handlers recorded
  streaming,     \* is_streaming
  applied,       \* config_applied
  mpc,           \* where the main task is in uac2_apply_config_task
  audio,         \* the engine has been started
  outEp, outq,   \* EP2 OUT configured; times outreq is queued on it
  fbEp, fbq,     \* EP1 IN configured; times fbreq is queued on it
  inflight,      \* fb_inflight
  staged,        \* fb_has_pending
  pending,       \* fb_pending_q16
  buf,           \* fbreq->buf
  fpc,           \* where the pump is in uac2_feedback_poll
  rushed,        \* the host changed its mind before the poll had caught up
  changes        \* configuration changes so far

hostVars == <<config, streaming, rushed, changes>>
mainVars == <<applied, mpc, audio>>
outVars  == <<outEp, outq>>
fbVars   == <<fbEp, fbq, inflight, staged, pending, buf>>
vars == <<hostVars, mainVars, outVars, fbVars, fpc>>

Init ==
  /\ config = Off /\ streaming = FALSE /\ applied = Off
  /\ mpc = "idle" /\ audio = FALSE
  /\ outEp = FALSE /\ outq = 0 /\ fbEp = FALSE /\ fbq = 0
  /\ inflight = FALSE /\ staged = FALSE /\ pending = Nominal /\ buf = Nominal
  /\ fpc = "idle"
  /\ rushed = FALSE /\ changes = 0

CaughtUp == mpc = "idle" /\ applied = config

--------------------------------------------------------------------------------
(* Interrupt handlers.                                                      *)

(* The completion callback of EP2 queues the request again while streaming. *)
Requeue_Always(stream) == 1
Requeue(stream) == IF stream THEN 1 ELSE 0

(* EP_DISABLE completes what is queued with -ESHUTDOWN; is_streaming has    *)
(* been cleared before, so that no callback queues its request again.       *)
CancelOut_WhileStreaming == outq' = IF outq > 0 THEN Requeue(streaming) ELSE 0
CancelOut == outq' = IF outq > 0 THEN Requeue(FALSE) ELSE 0

ResetConfig ==
  /\ CancelOut /\ outEp' = FALSE
  /\ fbq' = 0 /\ fbEp' = FALSE
  /\ inflight' = FALSE /\ staged' = FALSE

HostChange ==
  /\ changes < MaxChanges /\ changes' = changes + 1
  /\ rushed' = (rushed \/ ~CaughtUp)

SetConfig_AnyValue(c) ==
  /\ c # config
  /\ HostChange
  /\ ResetConfig
  /\ config' = c
  /\ streaming' = (c # Off)
  /\ UNCHANGED <<mainVars, pending, buf, fpc>>

SetConfig(c) ==
  /\ c # config
  /\ HostChange
  /\ ResetConfig
  /\ config' = IF c = UAC2_CONFIG_ID THEN c ELSE Off
  /\ streaming' = (c = UAC2_CONFIG_ID)
  /\ UNCHANGED <<mainVars, pending, buf, fpc>>

Disconnect ==
  /\ HostChange
  /\ ResetConfig
  /\ config' = Off /\ streaming' = FALSE
  /\ UNCHANGED <<mainVars, pending, buf, fpc>>

SetInterface ==
  /\ config = UAC2_CONFIG_ID
  /\ streaming' = TRUE
  /\ UNCHANGED <<config, rushed, changes, mainVars, outVars, fbVars, fpc>>

IsoOutComplete ==
  /\ outEp /\ outq > 0
  /\ outq' = outq - 1 + Requeue(streaming)
  /\ UNCHANGED <<hostVars, mainVars, outEp, fbVars, fpc>>

FbInComplete ==
  /\ fbEp /\ fbq > 0
  /\ fbq' = fbq - 1
  /\ inflight' = FALSE
  /\ UNCHANGED <<hostVars, mainVars, outVars, fbEp, staged, pending, buf, fpc>>

Isr ==
  \/ \E c \in {Off, UAC2_CONFIG_ID, Bogus} : SetConfig(c)
  \/ Disconnect \/ SetInterface \/ IsoOutComplete \/ FbInComplete

--------------------------------------------------------------------------------
(* The main task: uac2_driver_poll and, step by step, the bring-up.         *)

PollStops ==
  /\ mpc = "idle" /\ config # applied /\ config = Off
  /\ audio' = FALSE /\ applied' = Off
  /\ UNCHANGED mpc

PollApplies ==
  /\ mpc = "idle" /\ config # applied /\ config = UAC2_CONFIG_ID
  /\ mpc' = "out"
  /\ UNCHANGED <<applied, audio>>

Poll == (PollStops \/ PollApplies) /\ UNCHANGED <<outVars, fbVars>>

ConfigureOut ==
  /\ mpc = "out" /\ mpc' = "fb"
  /\ outEp' = TRUE
  /\ UNCHANGED <<applied, audio, outq, fbVars>>

ConfigureFb ==
  /\ mpc = "fb" /\ mpc' = "arm"
  /\ fbEp' = TRUE
  /\ UNCHANGED <<applied, audio, outVars, fbq, inflight, staged, pending, buf>>

SubmitOut_Forgotten ==
  /\ mpc = "arm" /\ mpc' = "start"
  /\ UNCHANGED <<applied, audio, outVars, fbVars>>

SubmitOut ==
  /\ mpc = "arm" /\ mpc' = "start"
  /\ outq' = outq + 1
  /\ UNCHANGED <<applied, audio, outEp, fbVars>>

StartAudio ==
  /\ mpc = "start" /\ mpc' = "record"
  /\ audio' = TRUE
  /\ UNCHANGED <<applied, outVars, fbVars>>

(* config_applied takes the configuration as it is by now.                  *)
RecordApplied ==
  /\ mpc = "record" /\ mpc' = "idle"
  /\ applied' = config
  /\ UNCHANGED <<audio, outVars, fbVars>>

MainStep ==
  Poll \/ ConfigureOut \/ ConfigureFb \/ SubmitOut \/ StartAudio \/ RecordApplied
Main == fpc = "idle" /\ MainStep /\ UNCHANGED <<hostVars, fpc>>

--------------------------------------------------------------------------------
(* The pump thread: uac2_feedback_update stages a value, and while playing  *)
(* uac2_feedback_poll refreshes the buffer and submits it if no transfer is *)
(* in flight.                                                               *)

FeedbackUpdate ==
  /\ fpc = "idle"
  /\ \E v \in Values : pending' = v
  /\ staged' = TRUE
  /\ fpc' = IF audio THEN "poll" ELSE "idle"
  /\ UNCHANGED <<outVars, fbEp, fbq, inflight, buf>>

PollRefresh ==
  /\ fpc = "poll"
  /\ IF streaming
     THEN /\ buf' = IF staged THEN pending ELSE buf
          /\ staged' = FALSE
          /\ fpc' = "claim"
     ELSE UNCHANGED <<buf, staged>> /\ fpc' = "idle"
  /\ UNCHANGED <<outVars, fbEp, fbq, inflight, pending>>

PollClaim_WithoutFlag ==
  /\ fpc = "claim"
  /\ fpc' = IF inflight THEN "idle" ELSE "submit"
  /\ UNCHANGED <<outVars, fbVars>>

PollClaim ==
  /\ fpc = "claim"
  /\ inflight' = TRUE
  /\ fpc' = IF inflight THEN "idle" ELSE "submit"
  /\ UNCHANGED <<outVars, fbEp, fbq, staged, pending, buf>>

(* A failed EP_SUBMIT releases the slot and stages the value again.         *)
SubmitFails_KeepsSlot == staged' = TRUE /\ pending' = buf /\ UNCHANGED <<inflight, fbq>>
SubmitFails == inflight' = FALSE /\ staged' = TRUE /\ pending' = buf /\ UNCHANGED fbq
SubmitSucceeds == fbq' = fbq + 1 /\ UNCHANGED <<inflight, staged, pending>>
PollSubmit ==
  /\ fpc = "submit" /\ fpc' = "idle"
  /\ SubmitFails \/ SubmitSucceeds
  /\ UNCHANGED <<outVars, fbEp, buf>>

Pump == (FeedbackUpdate \/ PollRefresh \/ PollClaim \/ PollSubmit)
        /\ UNCHANGED <<hostVars, mainVars>>

Next == Isr \/ Main \/ Pump

Spec == Init /\ [][Next]_vars

(* The main loop polls every 100 ms for ever and the pump leaves            *)
(* uac2_feedback_poll.  Nothing is assumed of the host.                     *)
Fairness == SF_vars(Main) /\ WF_vars(fpc # "idle" /\ Pump)
FairSpec == Spec /\ Fairness

--------------------------------------------------------------------------------
FlagTypes ==
  /\ streaming \in BOOLEAN /\ audio \in BOOLEAN /\ rushed \in BOOLEAN
  /\ outEp \in BOOLEAN /\ fbEp \in BOOLEAN
  /\ inflight \in BOOLEAN /\ staged \in BOOLEAN
StateTypes ==
  /\ config \in {Off, UAC2_CONFIG_ID} /\ applied \in {Off, UAC2_CONFIG_ID}
  /\ mpc \in {"idle", "out", "fb", "arm", "start", "record"}
  /\ fpc \in {"idle", "poll", "claim", "submit"}
  /\ outq \in Nat /\ fbq \in Nat
  /\ pending \in Values /\ buf \in Values
  /\ changes \in 0..MaxChanges
TypeOK == FlagTypes /\ StateTypes

(* The one OUT request is never queued twice, whichever of the bring-up,    *)
(* the completion callback and a disconnect in the middle of them queued or *)
(* cancelled it (a request linked twice corrupts the endpoint's list).      *)
OutQueuedOnce == outq <= 1

(* Outside the claim of a submission a feedback slot marked busy has its    *)
(* request queued: a submit that fails at once gives the slot back (lines   *)
(* 273-275 and 342-350), and so does whoever cancels the request.  It does  *)
(* not say that the request completes: on the hardware it may never (lines  *)
(* 229-231 and 299-306), the slot then stays busy, and a new value reaches  *)
(* the controller by the refresh of the queued buffer alone.                *)
BusyMeansQueued == (inflight /\ fpc # "submit") => fbq > 0

(* A host that waits for the poll between two changes gets what it asked    *)
(* for: both endpoints armed, the request queued, the engine running; or    *)
(* all of it down.                                                          *)
PatientHostServed ==
  (~rushed /\ CaughtUp) =>
    LET on == config = UAC2_CONFIG_ID IN
    /\ (streaming <=> on) /\ (audio <=> on)
    /\ (outEp <=> on) /\ (fbEp <=> on)
    /\ outq = IF on THEN 1 ELSE 0

(* For such a host the feedback request is never queued twice and the slot  *)
(* is not free while it is queued and the stream is on (lines 313-316).     *)
PatientHostFeedback ==
  ~rushed => /\ fbq <= 1
             /\ (fbq = 1 /\ streaming) => inflight

(* A configuration the host keeps is brought up.                            *)
BroughtUp ==
  (config = UAC2_CONFIG_ID /\ ~rushed)
    ~> (config # UAC2_CONFIG_ID \/ rushed \/ (CaughtUp /\ audio /\ outq = 1))

(* The comments of lines 457-463 and 480-485 have the poll do the hardware  *)
(* work of SET_CONFIGURATION: with the configuration on record as applied,  *)
(* the streaming endpoint is configured.  The code does not keep to it.     *)
ConfiguredIsArmed ==
  (CaughtUp /\ config = UAC2_CONFIG_ID) => outEp
================================================================================
