------------------------------ MODULE Monitors ------------------------------
(***************************************************************************)
(* The three monitors side by side.  Each is a process of its own, with a  *)
(* memory of its own; they have the clock in common, and here the history  *)
(* of what was heard and reported.                                         *)
(***************************************************************************)
EXTENDS AuthMonitor, ApiMonitor, NetworkMonitor

ASSUME MonitorsAssumption ==
  /\ {ManyGuesses, ManyUsers, ManyLockouts, ManyPorts, ManyQueries} \subseteq Nat \ {0}
  /\ {ManyRequests, ManyEndpoints} \subseteq Nat
  /\ {GuessSpan, LockoutSpan, RateSpan, ScanSpan} \subseteq Nat
  /\ {GuessRest, StuffingRest, ScanRest, QuerySpan} \subseteq Nat \ {0}

authOnly == <<ipFailures, lockouts, priorFailures, rests, handling>>
netOnly == <<syns, lastScan, traffic, trafficPast, learning, queries>>
monitorVars == <<watchVars, authOnly, requestWindow, netOnly>>

MonitorsInit == AuthMonInit /\ ApiMonInit /\ NetMonInit

WatchLogins == AuthMonNext /\ UNCHANGED <<requestWindow, netOnly>>
WatchRequests == ApiMonNext /\ UNCHANGED <<authOnly, netOnly>>
WatchPackets == NetMonNext /\ UNCHANGED <<authOnly, requestWindow>>

MonitorsNext == WatchLogins \/ WatchRequests \/ WatchPackets

MonitorsSpec == MonitorsInit /\ [][MonitorsNext]_monitorVars

-----------------------------------------------------------------------------
(* Properties *)

\* The attacks the monitors watch for are reported when they are seen and not
\* again while one rests: passwords guessed, requests in floods, ports scanned.
BurstsAreReported == GuessingIsReported /\ FloodsAreReported /\ ScansAreReported
=============================================================================
