--------------------------- MODULE MCDaemonTimers ---------------------------
(* A small instance of DaemonTimers for TLC.                               *)
EXTENDS DaemonTimers, TLC

(* The matching minutes of two crons, one of which is far apart, and the   *)
(* length of an interval.                                                  *)
SmallMatches == ("often" :> {1, 2, 3}) @@ ("seldom" :> {1, 5})
SmallPeriod  == ("poll" :> 4)
=============================================================================
