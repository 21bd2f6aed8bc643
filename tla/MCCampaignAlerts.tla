-------------------------- MODULE MCCampaignAlerts --------------------------
(* Instances of CampaignAlerts for TLC: incidents of one service, plain in   *)
(* everything but severity and confidence.                                   *)
EXTENDS CampaignAlerts
CONSTANTS None0, NoCampaign0, api

Incident(id, severity, confidence) ==
  [id |-> id, service |-> api, workload |-> None0, ip |-> None0, user |-> None0,
   key |-> None0, severity |-> severity, confidence |-> confidence, path |-> <<>>,
   steps |-> <<>>, stage |-> None0, techniques |-> {}]

Quiet == Incident("quiet", 1, 1)
Doubtful == Incident("doubtful", 2, 1)
Loudest == Incident("loudest", 3, 2)
Low == Incident("low", 1, 2)

Mixed == {Quiet, Low, Loudest}
Growing == {Doubtful, Low, Loudest}
Crossing == {Doubtful, Low}
NoAddresses == {None0}
TwoThreads == 1..2
ThreeThreads == 1..3
Nothing == {}
CrashesAndCache == {"crash", "eviction", "redis"}
=============================================================================
