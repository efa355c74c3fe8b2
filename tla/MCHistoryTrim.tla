---------------------------- MODULE MCHistoryTrim ----------------------------
(***************************************************************************)
(* Instances of HistoryTrim for TLC: lengths around zero.  A negative      *)
(* AutoTrimLength is accepted by PUT config and trims nothing.             *)
(***************************************************************************)
EXTENDS HistoryTrim

MCLengths == {-1, 0, 1, 2}

===============================================================================
