------------------------------ MODULE MCFeedbackPI ------------------------------
(* The constants of the code, scaled so that the ratios that matter stay: a *)
(* clamp twice the integrator's part and half the largest proportional      *)
(* part, a late update three time constants long.                           *)
EXTENDS FeedbackPI

MCLevels == {0, 9, 16, 32}
MCWaits == {0, 1, 3, 12}
================================================================================
