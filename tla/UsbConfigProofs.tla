---------------------------- MODULE UsbConfigProofs ----------------------------
(***************************************************************************)
(* Safety of the configuration handlers, the poll's bring-up and the       *)
(* feedback submission for any number of configuration changes, any set of *)
(* payloads and any interleaving of interrupts, main task and pump.        *)
(***************************************************************************)
EXTENDS UsbConfig, TLAPS

Up == config = UAC2_CONFIG_ID

(* Nothing is queued on EP2 when the bring-up is about to submit: it only   *)
(* starts from Off, and SET_CONFIGURATION cancelled what was queued.        *)
OutInv ==
  /\ outq <= 1
  /\ mpc \in {"out", "fb", "arm"} => outq = 0
  /\ (mpc = "idle" /\ applied = Off /\ Up) => outq = 0

(* What a patient host finds: the poll is due to bring everything up, due   *)
(* to take the engine down, has nothing to do, or is part of the way        *)
(* through bringing up.                                                     *)
PatientInv ==
  ~rushed =>
    /\ streaming <=> Up
    /\ mpc = "idle" =>
         /\ audio <=> applied # Off
         /\ (outEp <=> Up /\ applied # Off) /\ (fbEp <=> Up /\ applied # Off)
         /\ outq = (IF Up /\ applied # Off THEN 1 ELSE 0)
    /\ mpc # "idle" =>
         /\ Up /\ applied = Off
         /\ (outEp <=> mpc # "out") /\ (fbEp <=> mpc \notin {"out", "fb"})
         /\ outq = (IF mpc \in {"start", "record"} THEN 1 ELSE 0)
         /\ audio <=> mpc = "record"

(* For a patient host the pump is inside uac2_feedback_poll only while the  *)
(* engine runs, so a new SET_CONFIGURATION cannot come between claiming the *)
(* slot and submitting; that is what keeps the request from being queued    *)
(* twice.                                                                   *)
FeedbackInv ==
  ~rushed =>
    /\ fbq <= 1
    /\ (fbq = 1 /\ streaming) => inflight
    /\ fpc # "idle" => audio
    /\ fpc = "claim" => (streaming \/ fbq = 0)
    /\ fpc = "submit" => fbq = 0 /\ (streaming => inflight)

IInv == TypeOK /\ OutInv /\ BusyMeansQueued /\ PatientInv /\ FeedbackInv

LEMMA InitInv == Init => IInv
  <1> SUFFICES ASSUME Init PROVE IInv  OBVIOUS
  <1> USE UsbAssumption DEF Init, Up, Off, UAC2_CONFIG_ID
  <1>1. FlagTypes  BY Zenon DEF FlagTypes
  <1>2. StateTypes  BY DEF StateTypes
  <1>3. OutInv /\ BusyMeansQueued  BY DEF OutInv, BusyMeansQueued
  <1>4. PatientInv  BY DEF PatientInv
  <1>5. FeedbackInv  BY DEF FeedbackInv
  <1> QED  BY <1>1, <1>2, <1>3, <1>4, <1>5 DEF IInv, TypeOK

(* A flag is only ever set to the value of a condition.                     *)
LEMMA FlagStep ==
  ASSUME FlagTypes, Next
  PROVE  FlagTypes'
  <1> USE DEF FlagTypes, hostVars, mainVars, outVars, fbVars
  <1>1. CASE \E c \in {Off, UAC2_CONFIG_ID, Bogus} : SetConfig(c)
    BY <1>1, Zenon DEF SetConfig, HostChange, ResetConfig, CancelOut, Requeue
  <1>2. CASE Disconnect
    BY <1>2, Zenon DEF Disconnect, HostChange, ResetConfig, CancelOut, Requeue
  <1>3. CASE SetInterface
    BY <1>3, Zenon DEF SetInterface
  <1>4. CASE IsoOutComplete
    BY <1>4, Zenon DEF IsoOutComplete, Requeue
  <1>5. CASE FbInComplete
    BY <1>5, Zenon DEF FbInComplete
  <1>6. CASE Main /\ PollStops /\ UNCHANGED <<outVars, fbVars>>
    BY <1>6, Zenon DEF PollStops, Main
  <1>7. CASE Main /\ PollApplies /\ UNCHANGED <<outVars, fbVars>>
    BY <1>7, Zenon DEF PollApplies, Main
  <1>8. CASE Main /\ ConfigureOut
    BY <1>8, Zenon DEF ConfigureOut, Main
  <1>9. CASE Main /\ ConfigureFb
    BY <1>9, Zenon DEF ConfigureFb, Main
  <1>10. CASE Main /\ SubmitOut
    BY <1>10, Zenon DEF SubmitOut, Main
  <1>11. CASE Main /\ StartAudio
    BY <1>11, Zenon DEF StartAudio, Main
  <1>12. CASE Main /\ RecordApplied
    BY <1>12, Zenon DEF RecordApplied, Main
  <1>13. CASE Pump /\ FeedbackUpdate
    BY <1>13, Zenon DEF FeedbackUpdate, Pump
  <1>14. CASE Pump /\ PollRefresh
    BY <1>14, Zenon DEF PollRefresh, Pump
  <1>15. CASE Pump /\ PollClaim
    BY <1>15, Zenon DEF PollClaim, Pump
  <1>16. CASE Pump /\ PollSubmit
    BY <1>16, Zenon DEF PollSubmit, Pump, SubmitFails, SubmitSucceeds
  <1> QED
    BY <1>1, <1>2, <1>3, <1>4, <1>5, <1>6, <1>7, <1>8, <1>9, <1>10, <1>11, <1>12, <1>13, <1>14, <1>15, <1>16
    DEF Next, Isr, Main, MainStep, Poll, Pump

(* Everything else keeps its type too.                                      *)
LEMMA StateStep ==
  ASSUME TypeOK, Next
  PROVE  StateTypes'
  <1> USE UsbAssumption DEF TypeOK, StateTypes, hostVars, mainVars, outVars, fbVars, Off, UAC2_CONFIG_ID, Bogus
  <1>1. CASE \E c \in {Off, UAC2_CONFIG_ID, Bogus} : SetConfig(c)
    BY <1>1 DEF SetConfig, HostChange, ResetConfig, CancelOut, Requeue
  <1>2. CASE Disconnect
    BY <1>2 DEF Disconnect, HostChange, ResetConfig, CancelOut, Requeue
  <1>3. CASE SetInterface
    BY <1>3 DEF SetInterface
  <1>4. CASE IsoOutComplete
    BY <1>4 DEF IsoOutComplete, Requeue
  <1>5. CASE FbInComplete
    BY <1>5 DEF FbInComplete
  <1>6. CASE Main /\ PollStops /\ UNCHANGED <<outVars, fbVars>>
    BY <1>6 DEF PollStops, Main
  <1>7. CASE Main /\ PollApplies /\ UNCHANGED <<outVars, fbVars>>
    BY <1>7 DEF PollApplies, Main
  <1>8. CASE Main /\ ConfigureOut
    BY <1>8 DEF ConfigureOut, Main
  <1>9. CASE Main /\ ConfigureFb
    BY <1>9 DEF ConfigureFb, Main
  <1>10. CASE Main /\ SubmitOut
    BY <1>10 DEF SubmitOut, Main
  <1>11. CASE Main /\ StartAudio
    BY <1>11 DEF StartAudio, Main
  <1>12. CASE Main /\ RecordApplied
    BY <1>12 DEF RecordApplied, Main
  <1>13. CASE Pump /\ FeedbackUpdate
    BY <1>13 DEF FeedbackUpdate, Pump
  <1>14. CASE Pump /\ PollRefresh
    BY <1>14 DEF PollRefresh, Pump
  <1>15. CASE Pump /\ PollClaim
    BY <1>15 DEF PollClaim, Pump
  <1>16. CASE Pump /\ PollSubmit
    BY <1>16 DEF PollSubmit, Pump, SubmitFails, SubmitSucceeds
  <1> QED
    BY <1>1, <1>2, <1>3, <1>4, <1>5, <1>6, <1>7, <1>8, <1>9, <1>10, <1>11, <1>12, <1>13, <1>14, <1>15, <1>16
    DEF Next, Isr, Main, MainStep, Poll, Pump

(* The bring-up is the only submitter besides the completion callback, and  *)
(* it finds the endpoint empty.                                             *)
LEMMA OutStep ==
  ASSUME TypeOK, OutInv, Next
  PROVE  OutInv'
  <1> USE DEF TypeOK, StateTypes, OutInv, hostVars, mainVars, outVars, fbVars, Up, Off, UAC2_CONFIG_ID, Bogus, CaughtUp
  <1>1. CASE \E c \in {Off, UAC2_CONFIG_ID, Bogus} : SetConfig(c)
    BY <1>1 DEF SetConfig, HostChange, ResetConfig, CancelOut, Requeue
  <1>2. CASE Disconnect
    BY <1>2 DEF Disconnect, HostChange, ResetConfig, CancelOut, Requeue
  <1>3. CASE SetInterface
    BY <1>3 DEF SetInterface
  <1>4. CASE IsoOutComplete
    BY <1>4 DEF IsoOutComplete, Requeue
  <1>5. CASE FbInComplete
    BY <1>5 DEF FbInComplete
  <1>6. CASE Main /\ PollStops /\ UNCHANGED <<outVars, fbVars>>
    BY <1>6 DEF PollStops, Main
  <1>7. CASE Main /\ PollApplies /\ UNCHANGED <<outVars, fbVars>>
    BY <1>7 DEF PollApplies, Main
  <1>8. CASE Main /\ ConfigureOut
    BY <1>8 DEF ConfigureOut, Main
  <1>9. CASE Main /\ ConfigureFb
    BY <1>9 DEF ConfigureFb, Main
  <1>10. CASE Main /\ SubmitOut
    BY <1>10 DEF SubmitOut, Main
  <1>11. CASE Main /\ StartAudio
    BY <1>11 DEF StartAudio, Main
  <1>12. CASE Main /\ RecordApplied
    BY <1>12 DEF RecordApplied, Main
  <1>13. CASE Pump /\ FeedbackUpdate
    BY <1>13 DEF FeedbackUpdate, Pump
  <1>14. CASE Pump /\ PollRefresh
    BY <1>14 DEF PollRefresh, Pump
  <1>15. CASE Pump /\ PollClaim
    BY <1>15 DEF PollClaim, Pump
  <1>16. CASE Pump /\ PollSubmit
    BY <1>16 DEF PollSubmit, Pump, SubmitFails, SubmitSucceeds
  <1> QED
    BY <1>1, <1>2, <1>3, <1>4, <1>5, <1>6, <1>7, <1>8, <1>9, <1>10, <1>11, <1>12, <1>13, <1>14, <1>15, <1>16
    DEF Next, Isr, Main, MainStep, Poll, Pump

(* Whoever clears the queue clears the flag.                                *)
LEMMA BusyStep ==
  ASSUME TypeOK, BusyMeansQueued, Next
  PROVE  BusyMeansQueued'
  <1> USE DEF TypeOK, FlagTypes, StateTypes, BusyMeansQueued, hostVars, mainVars, outVars, fbVars
  <1>1. CASE \E c \in {Off, UAC2_CONFIG_ID, Bogus} : SetConfig(c)
    BY <1>1 DEF SetConfig, HostChange, ResetConfig, CancelOut, Requeue
  <1>2. CASE Disconnect
    BY <1>2 DEF Disconnect, HostChange, ResetConfig, CancelOut, Requeue
  <1>3. CASE SetInterface
    BY <1>3 DEF SetInterface
  <1>4. CASE IsoOutComplete
    BY <1>4 DEF IsoOutComplete, Requeue
  <1>5. CASE FbInComplete
    BY <1>5 DEF FbInComplete
  <1>6. CASE Main /\ PollStops /\ UNCHANGED <<outVars, fbVars>>
    BY <1>6 DEF PollStops, Main
  <1>7. CASE Main /\ PollApplies /\ UNCHANGED <<outVars, fbVars>>
    BY <1>7 DEF PollApplies, Main
  <1>8. CASE Main /\ ConfigureOut
    BY <1>8 DEF ConfigureOut, Main
  <1>9. CASE Main /\ ConfigureFb
    BY <1>9 DEF ConfigureFb, Main
  <1>10. CASE Main /\ SubmitOut
    BY <1>10 DEF SubmitOut, Main
  <1>11. CASE Main /\ StartAudio
    BY <1>11 DEF StartAudio, Main
  <1>12. CASE Main /\ RecordApplied
    BY <1>12 DEF RecordApplied, Main
  <1>13. CASE Pump /\ FeedbackUpdate
    BY <1>13 DEF FeedbackUpdate, Pump
  <1>14. CASE Pump /\ PollRefresh
    BY <1>14 DEF PollRefresh, Pump
  <1>15. CASE Pump /\ PollClaim
    BY <1>15 DEF PollClaim, Pump
  <1>16. CASE Pump /\ PollSubmit
    BY <1>16 DEF PollSubmit, Pump, SubmitFails, SubmitSucceeds
  <1> QED
    BY <1>1, <1>2, <1>3, <1>4, <1>5, <1>6, <1>7, <1>8, <1>9, <1>10, <1>11, <1>12, <1>13, <1>14, <1>15, <1>16
    DEF Next, Isr, Main, MainStep, Poll, Pump

(* A change that comes when the poll has caught up finds one of two states. *)
LEMMA PatientStep ==
  ASSUME TypeOK, PatientInv, Next
  PROVE  PatientInv'
  <1> USE DEF TypeOK, FlagTypes, StateTypes, PatientInv, hostVars, mainVars, outVars, fbVars, Up, Off, UAC2_CONFIG_ID, Bogus, CaughtUp
  <1>1. CASE \E c \in {Off, UAC2_CONFIG_ID, Bogus} : SetConfig(c)
    <2>1. PICK c \in {Off, UAC2_CONFIG_ID, Bogus} : SetConfig(c)  BY <1>1
    <2>2. CASE rushed'  BY <2>2
    <2>3. CASE ~rushed'
      <3>1. ~rushed /\ mpc = "idle" /\ applied = config /\ mpc' = "idle" /\ applied' = applied
        BY <2>1, <2>3 DEF SetConfig, HostChange
      <3>2. ~outEp' /\ ~fbEp' /\ outq' = 0 /\ audio' = audio
        BY <2>1 DEF SetConfig, ResetConfig, CancelOut, Requeue
      <3>3. c = UAC2_CONFIG_ID => streaming' /\ config' = UAC2_CONFIG_ID /\ config = Off
        BY <2>1 DEF SetConfig
      <3>4. c # UAC2_CONFIG_ID => ~streaming' /\ config' = Off
        BY <2>1 DEF SetConfig
      <3> QED  BY <3>1, <3>2, <3>3, <3>4
    <2> QED  BY <2>2, <2>3
  <1>2. CASE Disconnect
    BY <1>2 DEF Disconnect, HostChange, ResetConfig, CancelOut, Requeue
  <1>3. CASE SetInterface
    BY <1>3 DEF SetInterface
  <1>4. CASE IsoOutComplete
    BY <1>4 DEF IsoOutComplete, Requeue
  <1>5. CASE FbInComplete
    BY <1>5 DEF FbInComplete
  <1>6. CASE Main /\ PollStops /\ UNCHANGED <<outVars, fbVars>>
    BY <1>6 DEF PollStops, Main
  <1>7. CASE Main /\ PollApplies /\ UNCHANGED <<outVars, fbVars>>
    BY <1>7 DEF PollApplies, Main
  <1>8. CASE Main /\ ConfigureOut
    BY <1>8 DEF ConfigureOut, Main
  <1>9. CASE Main /\ ConfigureFb
    BY <1>9 DEF ConfigureFb, Main
  <1>10. CASE Main /\ SubmitOut
    BY <1>10 DEF SubmitOut, Main
  <1>11. CASE Main /\ StartAudio
    BY <1>11 DEF StartAudio, Main
  <1>12. CASE Main /\ RecordApplied
    BY <1>12 DEF RecordApplied, Main
  <1>13. CASE Pump /\ FeedbackUpdate
    BY <1>13 DEF FeedbackUpdate, Pump
  <1>14. CASE Pump /\ PollRefresh
    BY <1>14 DEF PollRefresh, Pump
  <1>15. CASE Pump /\ PollClaim
    BY <1>15 DEF PollClaim, Pump
  <1>16. CASE Pump /\ PollSubmit
    BY <1>16 DEF PollSubmit, Pump, SubmitFails, SubmitSucceeds
  <1> QED
    BY <1>1, <1>2, <1>3, <1>4, <1>5, <1>6, <1>7, <1>8, <1>9, <1>10, <1>11, <1>12, <1>13, <1>14, <1>15, <1>16
    DEF Next, Isr, Main, MainStep, Poll, Pump

(* The pump's steps against every interrupt of a patient host.              *)
LEMMA FeedbackStep ==
  ASSUME TypeOK, PatientInv, FeedbackInv, Next
  PROVE  FeedbackInv'
  <1> USE DEF TypeOK, FlagTypes, StateTypes, PatientInv, FeedbackInv, hostVars, mainVars, outVars, fbVars, Up, Off, UAC2_CONFIG_ID, Bogus, CaughtUp
  <1>1. CASE \E c \in {Off, UAC2_CONFIG_ID, Bogus} : SetConfig(c)
    BY <1>1 DEF SetConfig, HostChange, ResetConfig, CancelOut, Requeue
  <1>2. CASE Disconnect
    BY <1>2 DEF Disconnect, HostChange, ResetConfig, CancelOut, Requeue
  <1>3. CASE SetInterface
    BY <1>3 DEF SetInterface
  <1>4. CASE IsoOutComplete
    BY <1>4 DEF IsoOutComplete, Requeue
  <1>5. CASE FbInComplete
    BY <1>5 DEF FbInComplete
  <1>6. CASE Main /\ PollStops /\ UNCHANGED <<outVars, fbVars>>
    BY <1>6 DEF PollStops, Main
  <1>7. CASE Main /\ PollApplies /\ UNCHANGED <<outVars, fbVars>>
    BY <1>7 DEF PollApplies, Main
  <1>8. CASE Main /\ ConfigureOut
    BY <1>8 DEF ConfigureOut, Main
  <1>9. CASE Main /\ ConfigureFb
    BY <1>9 DEF ConfigureFb, Main
  <1>10. CASE Main /\ SubmitOut
    BY <1>10 DEF SubmitOut, Main
  <1>11. CASE Main /\ StartAudio
    BY <1>11 DEF StartAudio, Main
  <1>12. CASE Main /\ RecordApplied
    BY <1>12 DEF RecordApplied, Main
  <1>13. CASE Pump /\ FeedbackUpdate
    BY <1>13 DEF FeedbackUpdate, Pump
  <1>14. CASE Pump /\ PollRefresh
    BY <1>14 DEF PollRefresh, Pump
  <1>15. CASE Pump /\ PollClaim
    BY <1>15 DEF PollClaim, Pump
  <1>16. CASE Pump /\ PollSubmit
    BY <1>16 DEF PollSubmit, Pump, SubmitFails, SubmitSucceeds
  <1> QED
    BY <1>1, <1>2, <1>3, <1>4, <1>5, <1>6, <1>7, <1>8, <1>9, <1>10, <1>11, <1>12, <1>13, <1>14, <1>15, <1>16
    DEF Next, Isr, Main, MainStep, Poll, Pump

LEMMA StutterStep ==
  ASSUME IInv, UNCHANGED vars
  PROVE  IInv'
  <1> USE DEF vars, hostVars, mainVars, outVars, fbVars
  <1>1. FlagTypes' /\ StateTypes'  BY DEF IInv, TypeOK, FlagTypes, StateTypes
  <1>2. OutInv' /\ BusyMeansQueued'  BY DEF IInv, OutInv, BusyMeansQueued, Up
  <1>3. PatientInv'  BY DEF IInv, PatientInv, Up
  <1>4. FeedbackInv'  BY DEF IInv, FeedbackInv
  <1> QED  BY <1>1, <1>2, <1>3, <1>4 DEF IInv, TypeOK

LEMMA Invariance == Spec => []IInv
  <1>1. IInv /\ [Next]_vars => IInv'
    <2> SUFFICES ASSUME IInv, Next PROVE IInv'
      BY StutterStep
    <2>1. FlagTypes' /\ StateTypes'  BY FlagStep, StateStep DEF IInv, TypeOK
    <2>2. OutInv' /\ BusyMeansQueued'  BY OutStep, BusyStep DEF IInv
    <2>3. PatientInv' /\ FeedbackInv'  BY PatientStep, FeedbackStep DEF IInv
    <2> QED  BY <2>1, <2>2, <2>3 DEF IInv, TypeOK
  <1> QED  BY InitInv, <1>1, PTL DEF Spec

--------------------------------------------------------------------------------
(* Every variable keeps its type.                                           *)
THEOREM TypeCorrect == Spec => []TypeOK
  <1>1. IInv => TypeOK  BY DEF IInv
  <1> QED  BY Invariance, <1>1, PTL

(* The OUT request is never queued twice, however fast the host changes its *)
(* mind and wherever in the bring-up the interrupt falls.                   *)
THEOREM OutOnce == Spec => []OutQueuedOnce
  <1>1. IInv => OutQueuedOnce  BY DEF IInv, OutInv, OutQueuedOnce
  <1> QED  BY Invariance, <1>1, PTL

(* A busy feedback slot has its request queued, whichever of submit, its    *)
(* failure, completion and disconnect came last.                            *)
THEOREM BusyQueued == Spec => []BusyMeansQueued
  <1>1. IInv => BusyMeansQueued  BY DEF IInv
  <1> QED  BY Invariance, <1>1, PTL

(* A host that lets the poll catch up between two changes finds, whenever   *)
(* the poll has caught up, everything up or everything down.                *)
THEOREM PatientServed == Spec => []PatientHostServed
  <1>1. IInv => PatientHostServed
    BY DEF IInv, TypeOK, StateTypes, PatientInv, PatientHostServed, CaughtUp, Up, Off,
       UAC2_CONFIG_ID
  <1> QED  BY Invariance, <1>1, PTL

(* For such a host the feedback request is queued at most once.             *)
THEOREM PatientFeedback == Spec => []PatientHostFeedback
  <1>1. IInv => PatientHostFeedback  BY DEF IInv, FeedbackInv, PatientHostFeedback
  <1> QED  BY Invariance, <1>1, PTL

================================================================================
