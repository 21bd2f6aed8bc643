---------------------------- MODULE MCFingerprint ----------------------------
(* Fingerprint for TLC: one service, and events in the forms that producers send. *)
EXTENDS Fingerprint

\* A browser's event names its severity with a word, a monitor's with a record.
MCEvents ==
  {[severity |-> "high", error |-> TRUE, peer |-> {"p"}, layer |-> "browser"],
   [severity |-> "low", error |-> FALSE, peer |-> {}, layer |-> "browser"],
   [severity |-> "record", error |-> FALSE, peer |-> {"q"}, layer |-> "network"]}
=============================================================================
