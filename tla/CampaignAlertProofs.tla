------------------------- MODULE CampaignAlertProofs -------------------------
(***************************************************************************)
(* Proofs about the notification threads and the channel: which campaigns  *)
(* the messages show, and whose message a campaign row records, in any     *)
(* interleaving of the threads with each other and the aggregator, with    *)
(* failing stores, failing requests, deleted messages and dying processes. *)
(***************************************************************************)
EXTENDS CampaignProofs

USE AlertAssumption

-----------------------------------------------------------------------------
(* The inductive invariant *)

Post ==
  [cid : Cids, of : SUBSET Cids, kind : Kinds, gone : BOOLEAN,
   severity : Severities, confidence : Confidences]

Passed(severity, confidence, kind) ==
  confidence >= Threshold /\ (kind = "extended" => severity >= High)

PostsOK ==
  /\ posts \in Seq(Post)
  /\ \A m \in DOMAIN posts : Passed(posts[m].severity, posts[m].confidence, posts[m].kind)

\* A thread runs for a campaign that was made; past the gate its alert passed.
Thread(th) ==
  /\ DOMAIN th = {"pc", "copy", "kind", "tries"}
  /\ th.pc \in {"idle", "gate", "post", "patch", "attach", "detach"}
  /\ th.kind \in Kinds /\ th.tries \in 0..(MaxRetries - 1)
  /\ th.pc # "idle" => Made(th.copy) /\ th.copy.confidence >= Threshold
  /\ th.pc \notin {"idle", "gate"} => Passed(th.copy.severity, th.copy.confidence, th.kind)

ThreadsOK == DOMAIN thr = Attachers /\ \A t \in Attachers : Thread(thr[t])

\* The thread of the incident being merged has not been started yet.
InTurn ==
  /\ ing.pc # "idle" => arrivals > 0
  /\ \A t \in Attachers : thr[t].pc # "idle" => t < arrivals \/ (t = arrivals /\ ing.pc = "idle")

Own(m, cid) == m # None => m \in DOMAIN posts /\ posts[m].cid = cid

\* A call to attach_discord_message is its thread's, for a message of the campaign.
CallsOK ==
  \A t \in Attachers :
    /\ att[t].pc # "idle" => thr[t].pc \in {"attach", "detach"}
    /\ Own(att[t].message, att[t].cid)

MessagesOwn == \A k \in Cids : rows[k] # NoCampaign => Own(rows[k].message, k)

LimitsOK == patchLast \in [Cids -> {Never} \cup (0..MaxTime)] /\ troubles \in 0..MaxTroubles

AlertsOK == CopiesOK /\ PostsOK /\ ThreadsOK /\ InTurn /\ CallsOK /\ MessagesOwn /\ LimitsOK

LEMMA AlertsAreTyped == AlertsOK => AlertTypeOK /\ AlertsPassTheGate /\ RowMessageIsOwn
<1> SUFFICES ASSUME AlertsOK PROVE AlertTypeOK /\ AlertsPassTheGate /\ RowMessageIsOwn
  OBVIOUS
<1>1. TypeOK
  BY CopiesAreTyped DEF AlertsOK
<1>2. \A m \in DOMAIN posts : posts[m] \in Post
  BY ElementOfSeq, LenProperties DEF AlertsOK, PostsOK
<1>3. AlertTypeOK
  BY <1>1, <1>2 DEF AlertsOK, AlertTypeOK, CopiesOK, AttMade, ThreadsOK, Thread, CallsOK, Own, LimitsOK,
                    Made, IsCopy, Post
<1>4. AlertsPassTheGate
  BY DEF AlertsOK, PostsOK, Passed, AlertsPassTheGate
<1>5. RowMessageIsOwn
  BY DEF AlertsOK, MessagesOwn, Own, RowMessageIsOwn
<1> QED BY <1>3, <1>4, <1>5

-----------------------------------------------------------------------------
(* The aggregator's steps leave the threads and the channel alone *)

\* A row of rs is new, or records the message its row recorded.
SameMessages(rs) ==
  \A k \in Cids :
    rs[k] # NoCampaign => rs[k].message = None \/ (rows[k] # NoCampaign /\ rs[k].message = rows[k].message)

LEMMA MessagesStay ==
  ASSUME CopiesOK, IngestStep \/ SweepStep
  PROVE  SameMessages(rows')
<1>0. \A k \in Cids : rows[k] # NoCampaign => IsCopy(rows[k])
  BY DEF CopiesOK, RowsMade, Made
<1>1. ASSUME NEW c, rows' = ClosedRows(c) PROVE SameMessages(rows')
  <2>1. \A k \in Cids : rows'[k] = rows[k] \/ (rows[k] # NoCampaign /\ rows'[k] = [rows[k] EXCEPT !.status = "closed"])
    BY <1>1 DEF ClosedRows, CopiesOK, RowsOK
  <2> QED BY <1>0, <2>1, ClosedFields DEF SameMessages
<1>2. CASE IngestUpdate
  <2>1. CASE rows' = UpdatedRows(ing.copy)
    <3>1. Made(ing.copy) /\ ing.copy.cid \in Cids /\ IsCopy(ing.copy)
      BY <1>2 DEF IngestUpdate, CopiesOK, IngMade, Made, IsCopy, IsCampaign
    <3>2. \A k \in Cids : k # ing.copy.cid => rows'[k] = rows[k]
      BY <2>1, <3>1, UpdatingIs
    <3>3. rows[ing.copy.cid] # NoCampaign => rows'[ing.copy.cid].message = rows[ing.copy.cid].message
      BY <1>0, <2>1, <3>1, UpdatedFields DEF CopiesOK, RowsOK
    <3>4. rows[ing.copy.cid] = NoCampaign => rows' = rows
      BY <2>1, <3>1, UpdatingIs
    <3> QED BY <3>2, <3>3, <3>4 DEF SameMessages
  <2> QED BY <1>2, <2>1 DEF IngestUpdate, SameMessages
<1>3. CASE IngestInsert
  <2> DEFINE c == NewCampaign(created + 1, ing.inc, clock)
  <2>1. c.message = None
    BY DEF NewCampaign
  <2>2. rows' = [rows EXCEPT ![c.cid] = c] \/ rows' = rows
    BY <1>3 DEF IngestInsert, InsertRow, tableVars
  <2> HIDE DEF c
  <2> QED BY <2>1, <2>2 DEF SameMessages, CopiesOK, RowsOK
<1>4. CASE ~(IngestUpdate \/ IngestInsert)
  <2>1. rows' = rows \/ \E c : rows' = ClosedRows(c)
    BY <1>4 DEF IngestStep, IngestLoad, IngestReload, IngestCache, IngestClose, IngestUncache,
                SweepStep, SweepStart, SweepLoad, SweepClose, SweepUncache, SweepEnd, tableVars
  <2> QED BY <1>1, <2>1 DEF SameMessages
<1> QED BY <1>2, <1>3, <1>4

\* Ids are not taken back.
LEMMA CreatedGrows ==
  ASSUME CopiesOK, IngestStep \/ SweepStep
  PROVE  created' >= created
<1>1. created \in Nat
  BY DEF CopiesOK, NumOK
<1>2. created' \in {created, created + 1}
  <2>1. CASE IngestInsert
    BY <2>1 DEF IngestInsert, tableVars
  <2>2. CASE ~IngestInsert
    BY <2>2 DEF IngestStep, IngestLoad, IngestReload, IngestCache, IngestClose, IngestUncache, IngestUpdate,
                SweepStep, SweepStart, SweepLoad, SweepClose, SweepUncache, SweepEnd, tableVars
  <2> QED BY <2>1, <2>2
<1> QED BY <1>1, <1>2

LEMMA StillMade ==
  ASSUME CopiesOK, CopiesOK', created' >= created
  PROVE  /\ \A c : Made(c) => Made(c)'
         /\ thr' = thr /\ ThreadsOK => ThreadsOK'
<1>1. created \in Nat /\ created' \in Nat
  BY DEF CopiesOK, NumOK
<1>2. \A c : Made(c) => IsCopy(c) /\ c.cid <= created'
  BY <1>1 DEF Made, IsCopy, IsCampaign, Cids
<1> QED BY <1>2 DEF Made, ThreadsOK, Thread

\* What the aggregator leaves alone stays as it was.
LEMMA AlertsAside ==
  ASSUME AlertsOK, CopiesOK', UNCHANGED alertVars, att' = att, created' >= created,
         SameMessages(rows'), InTurn'
  PROVE  AlertsOK'
<1>1. ThreadsOK'
  BY StillMade DEF AlertsOK, alertVars
<1>2. MessagesOwn'
  BY DEF AlertsOK, MessagesOwn, SameMessages, Own, alertVars
<1> QED BY <1>1, <1>2 DEF AlertsOK, PostsOK, CallsOK, Own, LimitsOK, alertVars

LEMMA AggregatorAside ==
  ASSUME AlertsOK, UNCHANGED alertVars,
         \/ Tick \/ (\E a \in Actors : Evict(a)) \/ (\E inc \in Incidents : IngestStart(inc))
         \/ IngestStep \/ SweepStep \/ UNCHANGED aggVars
  PROVE  AlertsOK'
<1>0. CopiesOK
  BY DEF AlertsOK
<1>1. CopiesOK'
  BY <1>0, RestMade, StartMade, IngestMade, SweepMade
<1>2. att' = att
  BY DEF Tick, Evict, IngestStart, IngestStep, IngestLoad, IngestReload, IngestCache, IngestClose,
         IngestUncache, IngestInsert, IngestUpdate, ingUnchanged, SweepStep, SweepStart, SweepLoad,
         SweepClose, SweepUncache, SweepEnd, swpUnchanged, aggVars, threadVars
<1>3. created' >= created /\ SameMessages(rows')
  <2>1. CASE IngestStep \/ SweepStep
    BY <1>0, <2>1, MessagesStay, CreatedGrows
  <2>2. CASE UNCHANGED <<rows, created>>
    BY <1>0, <2>2 DEF SameMessages, CopiesOK, NumOK
  <2> QED BY <2>1, <2>2 DEF Tick, Evict, IngestStart, aggVars, tableVars
<1>4. InTurn'
  <2>1. arrivals \in Nat /\ Attachers \subseteq Nat
    BY DEF AlertsOK, CopiesOK, NumOK
  <2>2. CASE \E inc \in Incidents : IngestStart(inc)
    <3>1. arrivals' = arrivals + 1 /\ thr' = thr
      BY <2>2 DEF IngestStart, alertVars
    <3>2. \A t \in Attachers : thr[t].pc # "idle" => t < arrivals'
      BY <2>1, <3>1 DEF AlertsOK, InTurn
    <3> QED BY <2>1, <3>1, <3>2 DEF InTurn
  <2>3. CASE IngestStep
    <3>1. ing.pc # "idle" /\ arrivals' = arrivals
      BY <2>3 DEF IngestStep, IngestLoad, IngestReload, IngestCache, IngestClose,
                  IngestUncache, IngestInsert, IngestUpdate, ingUnchanged
    <3> QED BY <2>1, <3>1 DEF AlertsOK, InTurn, alertVars
  <2>4. CASE UNCHANGED <<ing, arrivals>>
    BY <2>4 DEF AlertsOK, InTurn, alertVars
  <2> QED BY <2>2, <2>3, <2>4
          DEF Tick, Evict, SweepStep, SweepStart, SweepLoad, SweepClose, SweepUncache, SweepEnd,
              swpUnchanged, aggVars, threadVars
<1> QED BY <1>1, <1>2, <1>3, <1>4, AlertsAside

-----------------------------------------------------------------------------
(* Threads are started and die *)

LEMMA NoThreadIs == Thread(NoThread) /\ NoThread.pc = "idle"
  BY DEF NoThread, Thread, Kinds

LEMMA NotifyKeeps ==
  ASSUME AlertsOK, Notify
  PROVE  AlertsOK'
<1> DEFINE fresh == [pc |-> "gate", copy |-> ing.copy, kind |-> ing.kind, tries |-> 0]
<1>1. /\ CopiesOK /\ IngestReturn /\ UNCHANGED <<patchLast, posts, troubles>>
      /\ \/ thr' = [thr EXCEPT ![arrivals] = @]
         \/ thr' = [thr EXCEPT ![arrivals] = fresh] /\ ing.copy.confidence >= Threshold
  BY DEF Notify, AlertsOK
<1>2. CopiesOK'
  BY <1>1, ReturnMade
<1>3. /\ ing.pc = "return" /\ ing' = NoIngest /\ Made(ing.copy) /\ ing.kind \in Kinds
      /\ UNCHANGED <<clock, rows, created, arrivals, att>>
  BY <1>1 DEF IngestReturn, CopiesOK, IngMade, tableVars, ingUnchanged
<1>4. (Thread(fresh) /\ fresh.pc = "gate") \/ ~(ing.copy.confidence >= Threshold)
  BY <1>3 DEF Thread
<1>5. arrivals \in Attachers /\ thr[arrivals].pc = "idle" /\ DOMAIN thr = Attachers
  <2>1. arrivals \in 0..MaxArrivals /\ arrivals > 0
    BY <1>3 DEF AlertsOK, CopiesOK, NumOK, InTurn
  <2> QED BY <1>3, <2>1 DEF AlertsOK, InTurn, ThreadsOK
<1> HIDE DEF fresh
<1>6. /\ DOMAIN thr' = Attachers
      /\ \A t \in Attachers :
           thr'[t] = thr[t] \/ (t = arrivals /\ thr'[t] = fresh /\ Thread(fresh))
  BY <1>1, <1>4, <1>5
<1>7. ThreadsOK'
  <2>1. \A t \in Attachers : Thread(thr'[t])
    BY <1>6 DEF AlertsOK, ThreadsOK
  <2> QED BY <1>3, <1>6, <2>1 DEF ThreadsOK, Thread, Made
<1>8. InTurn'
  BY <1>3, <1>6, NoneAreTyped DEF AlertsOK, InTurn
<1>9. CallsOK'
  BY <1>1, <1>3, <1>5, <1>6 DEF AlertsOK, CallsOK, Own
<1>10. PostsOK' /\ MessagesOwn' /\ LimitsOK'
  BY <1>1, <1>3 DEF AlertsOK, PostsOK, MessagesOwn, Own, LimitsOK
<1> QED BY <1>2, <1>7, <1>8, <1>9, <1>10 DEF AlertsOK

LEMMA CrashKeeps ==
  ASSUME AlertsOK, AlertCrash
  PROVE  AlertsOK'
<1>1. /\ CopiesOK /\ UNCHANGED <<posts, troubles, rows, arrivals>> /\ ing' = NoIngest
      /\ att' = [t \in Attachers |-> NoAttach] /\ thr' = [t \in Attachers |-> NoThread]
      /\ patchLast' = [c \in Cids |-> Never]
  BY DEF AlertCrash, Crash, AlertsOK, tableVars
<1>2. CopiesOK'
  BY <1>1, RestMade DEF AlertCrash
<1>3. ThreadsOK'
  BY <1>1, NoThreadIs DEF ThreadsOK, Thread, Made
<1>4. InTurn'
  BY <1>1, NoThreadIs, NoneAreTyped DEF InTurn
<1>5. CallsOK'
  <2>1. NoAttach.message = None
    BY DEF NoAttach
  <2> QED BY <1>1, <2>1, NoneAreTyped DEF CallsOK, Own
<1>6. PostsOK' /\ MessagesOwn' /\ LimitsOK'
  BY <1>1 DEF AlertsOK, PostsOK, MessagesOwn, Own, LimitsOK
<1> QED BY <1>2, <1>3, <1>4, <1>5, <1>6 DEF AlertsOK

-----------------------------------------------------------------------------
(* The moves of a notification thread *)

OthersStay(t) == DOMAIN thr' = Attachers /\ \A s \in Attachers \ {t} : thr'[s] = thr[s]

LEMMA EndIs ==
  ASSUME AlertsOK, NEW t \in Attachers, End(t)
  PROVE  OthersStay(t) /\ Thread(thr'[t]) /\ thr'[t].pc = "idle"
<1>1. DOMAIN thr' = Attachers /\ thr'[t] = NoThread /\ \A s \in Attachers \ {t} : thr'[s] = thr[s]
  BY DEF End, AlertsOK, ThreadsOK
<1> QED BY <1>1, NoThreadIs DEF OthersStay

LEMMA GotoIs ==
  ASSUME AlertsOK, NEW t \in Attachers, NEW label \in {"post", "patch", "attach", "detach"},
         Goto(t, label), thr[t].pc # "idle",
         Passed(thr[t].copy.severity, thr[t].copy.confidence, thr[t].kind)
  PROVE  OthersStay(t) /\ Thread(thr'[t]) /\ thr'[t].pc = label
<1>1. Thread(thr[t]) /\ DOMAIN thr = Attachers
  BY DEF AlertsOK, ThreadsOK
<1>2. DOMAIN thr' = Attachers /\ \A s \in Attachers \ {t} : thr'[s] = thr[s]
  BY <1>1 DEF Goto
<1>3. /\ DOMAIN thr'[t] = {"pc", "copy", "kind", "tries"}
      /\ thr'[t].pc = label /\ thr'[t].tries = 0
      /\ thr'[t].copy = thr[t].copy /\ thr'[t].kind = thr[t].kind
  BY <1>1 DEF Goto, Thread
<1>4. Thread(thr'[t])
  BY <1>1, <1>3 DEF Thread
<1> QED BY <1>2, <1>3, <1>4 DEF OthersStay

LEMMA RetryIs ==
  ASSUME AlertsOK, NEW t \in Attachers, Retry(t)
  PROVE  OthersStay(t) /\ Thread(thr'[t]) /\ thr'[t].pc \in {thr[t].pc, "idle"}
<1>1. Thread(thr[t]) /\ DOMAIN thr = Attachers
  BY DEF AlertsOK, ThreadsOK
<1>2. CASE thr[t].tries + 1 < MaxRetries /\ thr' = [thr EXCEPT ![t].tries = @ + 1]
  <2>1. DOMAIN thr' = Attachers /\ \A s \in Attachers \ {t} : thr'[s] = thr[s]
    BY <1>1, <1>2
  <2>2. /\ DOMAIN thr'[t] = {"pc", "copy", "kind", "tries"}
        /\ thr'[t].pc = thr[t].pc /\ thr'[t].tries = thr[t].tries + 1
        /\ thr'[t].copy = thr[t].copy /\ thr'[t].kind = thr[t].kind
    BY <1>1, <1>2 DEF Thread
  <2>3. Thread(thr'[t])
    BY <1>1, <1>2, <2>2 DEF Thread
  <2> QED BY <2>1, <2>2, <2>3 DEF OthersStay
<1> QED BY <1>2, EndIs DEF Retry

LEMMA ThreadMoves ==
  ASSUME AlertsOK, NEW t \in Attachers, UNCHANGED <<created, arrivals, ing>>, thr[t].pc # "idle",
         OthersStay(t), Thread(thr'[t])
  PROVE  ThreadsOK' /\ InTurn'
<1>1. \A s \in Attachers : Thread(thr'[s])
  BY DEF AlertsOK, ThreadsOK, OthersStay
<1>2. ThreadsOK'
  BY <1>1 DEF ThreadsOK, OthersStay, Thread, Made
<1>3. \A s \in Attachers : thr'[s].pc # "idle" => thr[s].pc # "idle"
  BY DEF OthersStay
<1>4. InTurn'
  BY <1>3 DEF AlertsOK, InTurn
<1> QED BY <1>2, <1>4

\* A thread that runs alone: outside attach_discord_message, tables untouched.
LEMMA AloneKeeps ==
  ASSUME AlertsOK, NEW t \in Attachers, UNCHANGED aggVars, LimitsOK', thr[t].pc # "idle",
         att[t].pc = "idle", OthersStay(t), Thread(thr'[t]), PostsOK',
         DOMAIN posts \subseteq DOMAIN posts', \A m \in DOMAIN posts : posts'[m].cid = posts[m].cid
  PROVE  AlertsOK'
<1>1. CopiesOK'
  BY RestMade DEF AlertsOK
<1>2. UNCHANGED <<created, arrivals, ing, att, rows>>
  BY DEF aggVars, tableVars, threadVars
<1>3. ThreadsOK' /\ InTurn'
  BY <1>2, ThreadMoves
<1>4. CallsOK' /\ MessagesOwn'
  BY <1>2 DEF AlertsOK, CallsOK, MessagesOwn, Own, OthersStay
<1> QED BY <1>1, <1>3, <1>4 DEF AlertsOK

\* A thread enters attach_discord_message for a message of its campaign.
LEMMA CallKeeps ==
  ASSUME AlertsOK, NEW t \in Attachers, UNCHANGED aggButAtt, LimitsOK', thr[t].pc # "idle",
         OthersStay(t), Thread(thr'[t]), thr'[t].pc \in {"attach", "detach"}, PostsOK',
         DOMAIN posts \subseteq DOMAIN posts', \A m \in DOMAIN posts : posts'[m].cid = posts[m].cid,
         NEW message, AttachStart(t, thr[t].copy.cid, message),
         message = None \/ (message \in DOMAIN posts' /\ posts'[message].cid = thr[t].copy.cid)
  PROVE  AlertsOK'
<1> DEFINE v == [NoAttach EXCEPT !.pc = "row", !.cid = thr[t].copy.cid, !.message = message]
<1>1. UNCHANGED <<clock, rows, created, linked, cache, index, mishaps, arrivals, ing, swp>>
  BY DEF aggButAtt, tableVars, cacheVars
<1>2. thr[t].copy.cid \in Cids /\ CopiesOK
  BY DEF AlertsOK, ThreadsOK, Thread, Made, IsCopy, IsCampaign
<1>3. att' = [att EXCEPT ![t] = v]
  BY DEF AttachStart
<1>4. /\ DOMAIN v = {"pc", "cid", "message", "copy"} /\ v.pc = "row"
      /\ v.cid = thr[t].copy.cid /\ v.message = message
  BY DEF NoAttach
<1> HIDE DEF v
<1>5. AttMade'
  BY <1>1, <1>2, <1>3, <1>4, AttMadeBut
<1>6. CopiesOK'
  BY <1>1, <1>2, <1>5, Kept DEF CopiesOK
<1>7. ThreadsOK' /\ InTurn'
  BY <1>1, ThreadMoves
<1>8. att'[t] = v /\ \A s \in Attachers \ {t} : att'[s] = att[s]
  BY <1>2, <1>3 DEF CopiesOK, AttMade
<1>9. CallsOK'
  <2> SUFFICES ASSUME NEW s \in Attachers
               PROVE  /\ att'[s].pc # "idle" => thr'[s].pc \in {"attach", "detach"}
                      /\ att'[s].message # None =>
                           att'[s].message \in DOMAIN posts' /\ posts'[att'[s].message].cid = att'[s].cid
    BY DEF CallsOK, Own
  <2>1. CASE s = t
    BY <1>4, <1>8, <2>1
  <2>2. CASE s # t
    BY <1>8, <2>2 DEF AlertsOK, CallsOK, Own, OthersStay
  <2> QED BY <2>1, <2>2
<1>10. MessagesOwn'
  BY <1>1 DEF AlertsOK, MessagesOwn, Own
<1> QED BY <1>6, <1>7, <1>9, <1>10 DEF AlertsOK

-----------------------------------------------------------------------------
(* The channel *)

LEMMA ShownIs ==
  ASSUME AlertsOK, NEW t \in Attachers, thr[t].pc \in {"post", "patch"}, NEW cid \in Cids,
         NEW kind, kind \in {"created", thr[t].kind}, NEW before \in SUBSET Cids
  PROVE  /\ Shown(t, cid, kind, before) \in Post /\ Shown(t, cid, kind, before).cid = cid
         /\ LET p == Shown(t, cid, kind, before) IN Passed(p.severity, p.confidence, p.kind)
<1>1. Thread(thr[t]) /\ thr[t].copy.cid \in Cids /\ thr[t].copy.severity \in Severities
      /\ thr[t].copy.confidence \in Confidences
  BY DEF AlertsOK, ThreadsOK, Thread, Made, IsCopy, IsCampaign
<1>2. Passed(thr[t].copy.severity, thr[t].copy.confidence, thr[t].kind) /\ kind \in Kinds
  BY <1>1 DEF Thread, Kinds
<1> QED BY <1>1, <1>2 DEF Shown, Post, Passed

LEMMA PostingKeeps ==
  ASSUME AlertsOK, NEW t \in Attachers, thr[t].pc = "post",
         posts' = Append(posts, Shown(t, thr[t].copy.cid, "created", {}))
  PROVE  /\ PostsOK' /\ DOMAIN posts \subseteq DOMAIN posts'
         /\ \A m \in DOMAIN posts : posts'[m].cid = posts[m].cid
         /\ Len(posts) + 1 \in DOMAIN posts' /\ posts'[Len(posts) + 1].cid = thr[t].copy.cid
<1> DEFINE p == Shown(t, thr[t].copy.cid, "created", {})
<1>1. p \in Post /\ p.cid = thr[t].copy.cid /\ Passed(p.severity, p.confidence, p.kind)
  <2>1. thr[t].copy.cid \in Cids
    BY DEF AlertsOK, ThreadsOK, Thread, Made, IsCopy, IsCampaign
  <2> QED BY <2>1, ShownIs
<1>2. posts \in Seq(Post) /\ Len(posts) \in Nat /\ DOMAIN posts = 1..Len(posts)
  BY LenProperties DEF AlertsOK, PostsOK
<1> HIDE DEF p
<1>3. /\ posts' \in Seq(Post) /\ DOMAIN posts' = 1..(Len(posts) + 1)
      /\ posts'[Len(posts) + 1] = p /\ \A m \in 1..Len(posts) : posts'[m] = posts[m]
  <2>1. posts' = Append(posts, p)
    BY DEF p
  <2> QED BY <1>1, <1>2, <2>1, AppendProperties, LenProperties
<1>4. PostsOK'
  BY <1>1, <1>2, <1>3 DEF AlertsOK, PostsOK, Passed
<1> QED BY <1>1, <1>2, <1>3, <1>4

\* A message is replaced by one of the same campaign that passed.
LEMMA ReplacingKeeps ==
  ASSUME AlertsOK, NEW m, NEW p, posts' = [posts EXCEPT ![m] = p],
         m \in DOMAIN posts => /\ p \in Post /\ p.cid = posts[m].cid
                               /\ Passed(p.severity, p.confidence, p.kind)
  PROVE  /\ PostsOK' /\ DOMAIN posts \subseteq DOMAIN posts'
         /\ \A n \in DOMAIN posts : posts'[n].cid = posts[n].cid
<1>1. posts \in Seq(Post) /\ Len(posts) \in Nat /\ DOMAIN posts = 1..Len(posts)
  BY LenProperties DEF AlertsOK, PostsOK
<1>2. CASE m \in DOMAIN posts
  <2>1. posts' \in Seq(Post) /\ DOMAIN posts' = DOMAIN posts
    BY <1>1, <1>2, ExceptSeq
  <2>2. posts'[m] = p /\ \A n \in DOMAIN posts \ {m} : posts'[n] = posts[n]
    BY <1>2
  <2> QED BY <1>2, <2>1, <2>2 DEF AlertsOK, PostsOK, Passed
<1>3. CASE m \notin DOMAIN posts
  <2>1. posts' = posts
    BY <1>1, <1>3
  <2> QED BY <2>1 DEF AlertsOK, PostsOK, Passed
<1> QED BY <1>2, <1>3

LEMMA EditKeeps ==
  ASSUME AlertsOK, NEW t \in Attachers, thr[t].pc = "patch", Edit(t)
  PROVE  /\ PostsOK' /\ DOMAIN posts \subseteq DOMAIN posts'
         /\ \A m \in DOMAIN posts : posts'[m].cid = posts[m].cid
<1> DEFINE m == thr[t].copy.message
           p == Shown(t, posts[m].cid, thr[t].kind, posts[m].of)
<1>1. posts' = [posts EXCEPT ![m] = p]
  BY DEF Edit
<1>2. ASSUME m \in DOMAIN posts
      PROVE  p \in Post /\ p.cid = posts[m].cid /\ Passed(p.severity, p.confidence, p.kind)
  <2>1. posts[m] \in Post
    <3> HIDE DEF m
    <3> QED BY <1>2, ElementOfSeq, LenProperties DEF AlertsOK, PostsOK
  <2>2. posts[m].cid \in Cids /\ posts[m].of \in SUBSET Cids
    BY <2>1 DEF Post
  <2> QED BY <2>2, ShownIs
<1> HIDE DEF m, p
<1> QED BY <1>1, <1>2, ReplacingKeeps

LEMMA DeleteKeeps ==
  ASSUME AlertsOK, NEW m \in DOMAIN posts, Delete(m)
  PROVE  AlertsOK'
<1> DEFINE p == [posts[m] EXCEPT !.gone = TRUE]
<1>1. posts' = [posts EXCEPT ![m] = p] /\ UNCHANGED <<aggVars, thr, patchLast>> /\ LimitsOK'
  BY DEF Delete, Trouble, AlertsOK, LimitsOK
<1>2. posts[m] \in Post
  BY ElementOfSeq, LenProperties DEF AlertsOK, PostsOK
<1>3. /\ p \in Post /\ p.cid = posts[m].cid /\ p.severity = posts[m].severity
      /\ p.confidence = posts[m].confidence /\ p.kind = posts[m].kind
  BY <1>2 DEF Post
<1> HIDE DEF p
<1>4. Passed(p.severity, p.confidence, p.kind)
  BY <1>3 DEF AlertsOK, PostsOK
<1>5. /\ PostsOK' /\ DOMAIN posts \subseteq DOMAIN posts'
      /\ \A n \in DOMAIN posts : posts'[n].cid = posts[n].cid
  BY <1>1, <1>3, <1>4, ReplacingKeeps
<1>6. CopiesOK' /\ UNCHANGED <<created, arrivals, ing, att, rows, thr>>
  BY <1>1, RestMade DEF AlertsOK, aggVars, tableVars, threadVars
<1>7. ThreadsOK' /\ InTurn' /\ CallsOK' /\ MessagesOwn'
  BY <1>5, <1>6 DEF AlertsOK, ThreadsOK, Thread, Made, InTurn, CallsOK, MessagesOwn, Own
<1> QED BY <1>1, <1>5, <1>6, <1>7 DEF AlertsOK

-----------------------------------------------------------------------------
(* The steps of a thread *)

LEMMA BusyThread ==
  ASSUME AlertsOK, NEW t \in Attachers
  PROVE  /\ thr[t].pc \notin {"attach", "detach"} => att[t].pc = "idle"
         /\ thr[t].pc \notin {"idle", "gate"} =>
              Passed(thr[t].copy.severity, thr[t].copy.confidence, thr[t].kind)
         /\ thr[t].pc # "idle" =>
              thr[t].copy.confidence >= Threshold /\ thr[t].copy.cid \in Cids
  BY DEF AlertsOK, CallsOK, ThreadsOK, Thread, Made, IsCopy, IsCampaign

LEMMA GateKeeps ==
  ASSUME AlertsOK, NEW t \in Attachers, Gate(t)
  PROVE  AlertsOK'
<1>1. thr[t].pc = "gate" /\ UNCHANGED <<aggVars, posts, troubles>>
  BY DEF Gate
<1>2. \/ End(t) /\ patchLast' = patchLast
      \/ /\ thr[t].kind = "extended" => thr[t].copy.severity >= High
         /\ patchLast' \in {patchLast, [patchLast EXCEPT ![thr[t].copy.cid] = clock]}
         /\ Send(t)
  BY DEF Gate
<1>3. LimitsOK'
  BY <1>1, <1>2, BusyThread DEF AlertsOK, LimitsOK, CopiesOK, NumOK
<1>4. OthersStay(t) /\ Thread(thr'[t])
  <2>1. CASE Send(t) /\ (thr[t].kind = "extended" => thr[t].copy.severity >= High)
    <3>1. PICK label \in {"post", "patch", "attach", "detach"} : Goto(t, label)
      BY <2>1 DEF Send
    <3>2. Passed(thr[t].copy.severity, thr[t].copy.confidence, thr[t].kind)
      BY <1>1, <2>1, BusyThread DEF Passed
    <3> QED BY <1>1, <3>1, <3>2, GotoIs
  <2> QED BY <1>2, <2>1, EndIs
<1>5. PostsOK' /\ DOMAIN posts' = DOMAIN posts
  BY <1>1 DEF AlertsOK, PostsOK
<1> QED BY <1>1, <1>3, <1>4, <1>5, BusyThread, AloneKeeps

LEMMA PostOkKeeps ==
  ASSUME AlertsOK, NEW t \in Attachers, PostOk(t)
  PROVE  AlertsOK'
<1>1. /\ thr[t].pc = "post" /\ UNCHANGED <<aggButAtt, patchLast, troubles>>
      /\ posts' = Append(posts, Shown(t, thr[t].copy.cid, "created", {}))
      /\ Goto(t, "attach") /\ AttachStart(t, thr[t].copy.cid, Len(posts) + 1)
  BY DEF PostOk
<1>2. OthersStay(t) /\ Thread(thr'[t]) /\ thr'[t].pc = "attach"
  BY <1>1, BusyThread, GotoIs
<1>3. LimitsOK'
  BY <1>1 DEF AlertsOK, LimitsOK
<1> QED BY <1>1, <1>2, <1>3, PostingKeeps, CallKeeps

LEMMA PatchGoneKeeps ==
  ASSUME AlertsOK, NEW t \in Attachers, PatchGone(t)
  PROVE  AlertsOK'
<1>1. /\ thr[t].pc = "patch" /\ UNCHANGED <<aggButAtt, patchLast, posts, troubles>>
      /\ Goto(t, "detach") /\ AttachStart(t, thr[t].copy.cid, None)
  BY DEF PatchGone
<1>2. OthersStay(t) /\ Thread(thr'[t]) /\ thr'[t].pc = "detach"
  BY <1>1, BusyThread, GotoIs
<1>3. LimitsOK' /\ PostsOK' /\ DOMAIN posts' = DOMAIN posts
  BY <1>1 DEF AlertsOK, LimitsOK, PostsOK
<1> QED BY <1>1, <1>2, <1>3, CallKeeps

\* A request that failed, or was carried out and its reply lost or useless.
LEMMA FailureKeeps ==
  ASSUME AlertsOK, NEW t \in Attachers, PostFails(t) \/ PatchFails(t)
  PROVE  AlertsOK'
<1>1. thr[t].pc \in {"post", "patch"} /\ (Retry(t) \/ End(t))
  BY DEF PostFails, PatchFails
<1>2. UNCHANGED <<aggVars, patchLast>> /\ LimitsOK'
  BY DEF PostFails, PatchFails, Trouble, AlertsOK, LimitsOK
<1>3. OthersStay(t) /\ Thread(thr'[t])
  BY <1>1, RetryIs, EndIs DEF PostFails, PatchFails
<1>4. /\ PostsOK' /\ DOMAIN posts \subseteq DOMAIN posts'
      /\ \A m \in DOMAIN posts : posts'[m].cid = posts[m].cid
  <2>1. CASE posts' = posts
    BY <2>1 DEF AlertsOK, PostsOK
  <2> QED BY <2>1, PostingKeeps, EditKeeps DEF PostFails, PatchFails
<1>5. thr[t].pc # "idle" /\ att[t].pc = "idle"
  BY BusyThread DEF PostFails, PatchFails
<1> QED BY <1>2, <1>3, <1>4, <1>5, AloneKeeps

LEMMA PatchOkKeeps ==
  ASSUME AlertsOK, NEW t \in Attachers, PatchOk(t)
  PROVE  AlertsOK'
<1>1. thr[t].pc = "patch" /\ Edit(t) /\ End(t) /\ UNCHANGED <<aggVars, patchLast, troubles>>
  BY DEF PatchOk
<1>2. LimitsOK'
  BY <1>1 DEF AlertsOK, LimitsOK
<1> QED BY <1>1, <1>2, BusyThread, EditKeeps, EndIs, AloneKeeps

LEMMA RecordedKeeps ==
  ASSUME AlertsOK, NEW t \in Attachers, Recorded(t)
  PROVE  AlertsOK'
<1>1. /\ att[t].pc = "idle" /\ UNCHANGED <<aggVars, patchLast, posts, troubles>>
      /\ thr[t].pc \in {"attach", "detach"} /\ (End(t) \/ Goto(t, "post"))
  BY DEF Recorded
<1>2. OthersStay(t) /\ Thread(thr'[t])
  BY <1>1, BusyThread, EndIs, GotoIs
<1>3. LimitsOK' /\ PostsOK' /\ DOMAIN posts' = DOMAIN posts
  BY <1>1 DEF AlertsOK, LimitsOK, PostsOK
<1> QED BY <1>1, <1>2, <1>3, AloneKeeps

\* attach_discord_message writes its message to its campaign's row only.
LEMMA AttachKeeps ==
  ASSUME AlertsOK, NEW t \in Attachers, AttachStep(t), UNCHANGED alertVars
  PROVE  AlertsOK'
<1>1. CopiesOK /\ CopiesOK'
  BY AttachMade DEF AlertsOK
<1>2. UNCHANGED <<created, arrivals, ing, thr, posts, patchLast, troubles>> /\ att[t].pc # "idle"
  BY DEF AttachStep, AttachRow, AttachLoad, AttachCache, attUnchanged, alertVars
<1>3. PostsOK' /\ ThreadsOK' /\ InTurn' /\ LimitsOK'
  BY <1>2 DEF AlertsOK, PostsOK, ThreadsOK, Thread, Made, InTurn, LimitsOK
<1>4. /\ \A s \in Attachers \ {t} : att'[s] = att[s]
      /\ att'[t] = NoAttach \/ (att'[t].cid = att[t].cid /\ att'[t].message = att[t].message)
  <2>1. DOMAIN att = Attachers /\ DOMAIN att[t] = {"pc", "cid", "message", "copy"}
    BY <1>1 DEF CopiesOK, AttMade
  <2>2. \/ att' = [att EXCEPT ![t] = NoAttach]
        \/ att' = [att EXCEPT ![t].pc = "load"]
        \/ \E c : att' = [att EXCEPT ![t].pc = "cache", ![t].copy = c]
    BY DEF AttachStep, AttachRow, AttachLoad, AttachCache, AttachEnd
  <2> QED BY <2>1, <2>2
<1>5. CallsOK'
  <2>1. NoAttach.message = None /\ NoAttach.pc = "idle"
    BY DEF NoAttach
  <2> SUFFICES ASSUME NEW s \in Attachers
               PROVE  /\ att'[s].pc # "idle" => thr[s].pc \in {"attach", "detach"}
                      /\ Own(att'[s].message, att'[s].cid)
    BY <1>2 DEF CallsOK, Own
  <2>2. CASE s = t
    BY <1>2, <1>4, <2>1, <2>2 DEF AlertsOK, CallsOK, Own
  <2>3. CASE s # t
    BY <1>4, <2>3 DEF AlertsOK, CallsOK
  <2> QED BY <2>2, <2>3
<1>6. MessagesOwn'
  <2>1. \A k \in Cids : rows'[k] # NoCampaign =>
          \/ rows[k] # NoCampaign /\ rows'[k].message = rows[k].message
          \/ k = att[t].cid /\ rows'[k].message = att[t].message
    <3>1. \A k \in Cids : rows[k] # NoCampaign => IsCopy(rows[k])
      BY <1>1 DEF CopiesOK, RowsMade, Made
    <3>2. \/ rows' = rows
          \/ /\ rows[att[t].cid] # NoCampaign /\ att[t].cid \in Cids
             /\ rows' = [rows EXCEPT ![att[t].cid].message = att[t].message]
      BY <1>1 DEF AttachStep, AttachRow, AttachLoad, AttachCache, CopiesOK, AttMade
    <3>3. \A k \in Cids :
            \/ rows'[k] = rows[k]
            \/ /\ k = att[t].cid /\ rows[k] # NoCampaign
               /\ rows'[k] = [rows[k] EXCEPT !.message = att[t].message]
      BY <1>1, <3>2 DEF CopiesOK, RowsOK
    <3> SUFFICES ASSUME NEW k \in Cids, rows'[k] # rows[k]
                 PROVE  k = att[t].cid /\ rows'[k].message = att[t].message
      OBVIOUS
    <3>4. LET u == [rows[k] EXCEPT !.message = att[t].message] IN u.message = att[t].message
      BY <3>1, <3>3, MessageFields
    <3> QED BY <3>3, <3>4
  <2> QED BY <1>2, <2>1 DEF AlertsOK, MessagesOwn, CallsOK, Own
<1> QED BY <1>1, <1>3, <1>5, <1>6 DEF AlertsOK

-----------------------------------------------------------------------------
LEMMA InitAlerts == AlertInit => AlertsOK
<1> SUFFICES ASSUME AlertInit PROVE AlertsOK
  OBVIOUS
<1>1. /\ Init /\ thr = [t \in Attachers |-> NoThread] /\ patchLast = [c \in Cids |-> Never]
      /\ posts = <<>> /\ troubles = 0 /\ att = [t \in Attachers |-> NoAttach] /\ ing = NoIngest
      /\ rows = [c \in Cids |-> NoCampaign]
  BY DEF AlertInit, Init
<1>2. CopiesOK
  BY <1>1, InitMade
<1>3. PostsOK
  BY <1>1 DEF PostsOK
<1>4. ThreadsOK /\ InTurn
  BY <1>1, NoThreadIs, NoneAreTyped DEF ThreadsOK, InTurn
<1>5. CallsOK /\ MessagesOwn
  <2>1. NoAttach.message = None /\ NoAttach.pc = "idle"
    BY DEF NoAttach
  <2> QED BY <1>1, <2>1 DEF CallsOK, MessagesOwn, Own
<1>6. LimitsOK
  BY <1>1 DEF LimitsOK
<1> QED BY <1>2, <1>3, <1>4, <1>5, <1>6 DEF AlertsOK

LEMMA NextAlerts == AlertsOK /\ [AlertNext]_allVars => AlertsOK'
<1> SUFFICES ASSUME AlertsOK, [AlertNext]_allVars PROVE AlertsOK'
  OBVIOUS
<1>1. CASE AlertCrash
  BY <1>1, CrashKeeps
<1>2. CASE Notify
  BY <1>2, NotifyKeeps
<1>3. ASSUME NEW t \in Attachers, Alert(t) PROVE AlertsOK'
  BY <1>3, GateKeeps, PostOkKeeps, PatchGoneKeeps, FailureKeeps, PatchOkKeeps, RecordedKeeps, AttachKeeps
     DEF Alert
<1>4. ASSUME NEW m \in DOMAIN posts, Delete(m) PROVE AlertsOK'
  BY <1>4, DeleteKeeps
<1>5. CASE UNCHANGED allVars
  BY <1>5, AggregatorAside DEF allVars
<1> QED BY <1>1, <1>2, <1>3, <1>4, <1>5, AggregatorAside DEF AlertNext

\* The notifications keep their types: a thread has a campaign that was made, a
\* call to the aggregator belongs to a waiting thread and names a message.
THEOREM TypesOfAlerts == AlertSpec => []AlertTypeOK
  BY InitAlerts, NextAlerts, AlertsAreTyped, PTL DEF AlertSpec

\* Every message in the channel shows a campaign that passed the gate, whichever
\* thread wrote it last: a thread past the gate keeps the copy that passed.
THEOREM EveryAlertPassed == AlertSpec => []AlertsPassTheGate
  BY InitAlerts, NextAlerts, AlertsAreTyped, PTL DEF AlertSpec

\* The message a row records was posted for that campaign: a call carries the id
\* of a message of its own campaign, and no other write touches the column.
THEOREM RowsOwnTheirMessages == AlertSpec => []RowMessageIsOwn
  BY InitAlerts, NextAlerts, AlertsAreTyped, PTL DEF AlertSpec
=============================================================================
