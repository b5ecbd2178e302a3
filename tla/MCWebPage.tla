------------------------------ MODULE MCWebPage ------------------------------
(* Instances of WebPage for TLC.                                           *)
EXTENDS WebPage

\* The text of time 1 parses back one unit in the last place too high.
ShiftedTime(time) == IF time = 1 THEN 2 ELSE time
=============================================================================
