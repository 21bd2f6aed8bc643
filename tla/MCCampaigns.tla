---------------------------- MODULE MCCampaigns ----------------------------
(* Instances of Campaigns for TLC.  Two incidents of service api, the second *)
(* repeating a step and a path hop of the first and older in time, and one   *)
(* of an actor known by its address only.  One event of the first was        *)
(* delivered, and buffered, twice.                                           *)
EXTENDS Campaigns
CONSTANTS None0, NoCampaign0, api, db, addr, nobody, e1, e2, e3, recon, access

Step(event, time, stage) == [event |-> event, time |-> time, stage |-> stage]

Incident(id, service, ip, severity, confidence, path, steps, stage, techniques) ==
  [id |-> id, service |-> service, workload |-> None0, ip |-> ip, user |-> None0,
   key |-> None0, severity |-> severity, confidence |-> confidence, path |-> path,
   steps |-> steps, stage |-> stage, techniques |-> techniques]

First == Incident("i1", api, addr, 2, 1, <<api, db>>,
                  <<Step(e1, 2, None0), Step(e1, 2, None0), Step(e2, 4, None0)>>, recon, {"t1"})
Second == Incident("i2", api, nobody, 1, 2, <<db, api>>,
                   <<Step(e3, 1, access), Step(e2, 4, None0), Step(None0, 5, None0)>>,
                   recon, {"t1", "t2"})
Other == Incident("i3", None0, addr, 3, 2, <<>>, <<>>, None0, {})

ApiTwice == {First, Second}
Mixed == {First, Second, Other}
NoAddresses == {None0, nobody}
NoThreads == {}
Everything == {"postgres", "redis", "eviction", "crash"}
=============================================================================
