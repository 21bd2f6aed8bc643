--------------------------- MODULE CampaignAlerts ---------------------------
(***************************************************************************)
(* The campaign aggregator together with its Discord notifications         *)
(* (backend/engine/correlation/notification_dispatcher.py and the end of   *)
(* CorrelationEngine.publish_incident).  Every incident whose campaign     *)
(* passes the alert gate starts a notification thread with the campaign it *)
(* was merged into; the thread posts a new message or edits the recorded   *)
(* one, and records a new message's id through the aggregator.  Threads    *)
(* run side by side and finish in any order.  Discord may refuse a         *)
(* request, or carry it out and lose the reply; messages may be deleted.   *)
(*                                                                         *)
(* Thread t is the one of the t-th arrival; it is att[t] while it is       *)
(* inside attach_discord_message.                                          *)
(***************************************************************************)
EXTENDS Campaigns

CONSTANTS
  Threshold,      \* CAMPAIGN_ALERT_THRESHOLD
  High,           \* rank of severity "high"
  PatchInterval,  \* CAMPAIGN_PATCH_INTERVAL, in ticks
  MaxRetries,     \* DISCORD_MAX_RETRIES
  MaxTroubles,    \* bound: failed requests and deleted messages
  Sweeping        \* bound: does the sweeper run beside the other threads?

ASSUME AlertAssumption ==
  /\ Attachers = 1..MaxArrivals
  /\ PatchInterval \in Nat /\ MaxRetries \in Nat \ {0} /\ MaxTroubles \in Nat
  /\ Sweeping \in BOOLEAN

Never == 0 - (PatchInterval + 1)

VARIABLES
  thr,        \* the notification threads
  patchLast,  \* _patch_last: when an "extended" change last passed, by campaign
  posts,      \* the messages of the channel; a message's id is its place
  troubles    \* failed requests and deleted messages so far

alertVars == <<thr, patchLast, posts, troubles>>
allVars == <<aggVars, alertVars>>

NoThread == [pc |-> "idle", copy |-> NoCampaign, kind |-> "none", tries |-> 0]

AlertInit ==
  /\ Init
  /\ thr = [t \in Attachers |-> NoThread]
  /\ patchLast = [c \in Cids |-> Never]
  /\ posts = <<>>
  /\ troubles = 0

-----------------------------------------------------------------------------
(* The end of publish_incident *)

\* A campaign over the threshold gets a thread; a duplicate's does nothing.
Notify ==
  LET start == ing.copy.confidence >= Threshold /\ ing.kind # "duplicate"
  IN  /\ IngestReturn
      /\ thr' = [thr EXCEPT ![arrivals] =
                  IF start THEN [pc |-> "gate", copy |-> ing.copy, kind |-> ing.kind, tries |-> 0]
                  ELSE @]
      /\ UNCHANGED <<patchLast, posts, troubles>>

-----------------------------------------------------------------------------
(* dispatch *)

End(t) == thr' = [thr EXCEPT ![t] = NoThread]

Goto(t, label) == thr' = [thr EXCEPT ![t].pc = label, ![t].tries = 0]

\* A new message when the campaign was created or has none recorded in this
\* copy; an edit otherwise.
Send(t) ==
  Goto(t, IF thr[t].kind = "created" \/ thr[t].copy.message = None THEN "post" ELSE "patch")

\* Mutant: an "extended" change of any campaign goes out.
GateOfAll(t) ==
  /\ thr[t].pc = "gate"
  /\ Send(t)
  /\ UNCHANGED <<aggVars, patchLast, posts, troubles>>

\* The webhook url is read from Redis: no answer, no alert.  An "extended"
\* change passes for high campaigns only, and once per PatchInterval.
Gate(t) ==
  /\ thr[t].pc = "gate"
  /\ LET c == thr[t].copy
         extended == thr[t].kind = "extended"
         due == clock - patchLast[c.cid] >= PatchInterval
     IN  \/ extended /\ ~(c.severity >= High /\ due) /\ End(t) /\ UNCHANGED patchLast
         \/ RedisFaults /\ End(t) /\ UNCHANGED patchLast
         \/ /\ extended => c.severity >= High /\ due
            /\ patchLast' = IF extended THEN [patchLast EXCEPT ![c.cid] = clock] ELSE patchLast
            /\ Send(t)
  /\ UNCHANGED <<aggVars, posts, troubles>>

\* The message of campaign cid, which has shown the campaigns of "before", now
\* shows this thread's copy: "of" is every campaign the message ever showed.
Shown(t, cid, kind, before) ==
  [cid |-> cid, of |-> before \cup {thr[t].copy.cid}, kind |-> kind, gone |-> FALSE,
   severity |-> thr[t].copy.severity, confidence |-> thr[t].copy.confidence]

Trouble == troubles < MaxTroubles /\ troubles' = troubles + 1

\* One try more, or none left.
Retry(t) ==
  IF thr[t].tries + 1 < MaxRetries THEN thr' = [thr EXCEPT ![t].tries = @ + 1] ELSE End(t)

aggButAtt == <<clock, tableVars, cacheVars, arrivals, ing, swp>>

PostOk(t) ==
  /\ thr[t].pc = "post"
  /\ posts' = Append(posts, Shown(t, thr[t].copy.cid, "created", {}))
  /\ Goto(t, "attach")
  /\ AttachStart(t, thr[t].copy.cid, Len(posts) + 1)
  /\ UNCHANGED <<aggButAtt, patchLast, troubles>>

\* Mutant: an error ends the thread.
PostFailsForGood(t) ==
  /\ thr[t].pc = "post" /\ Trouble
  /\ End(t)
  /\ UNCHANGED <<aggVars, patchLast, posts>>

\* A refusal, rate limit, connection error or, after the message was created,
\* a lost reply: all are tried again.  A reply without a message id is a
\* success whose message nobody records.
PostFails(t) ==
  /\ thr[t].pc = "post" /\ Trouble
  /\ \/ Retry(t) /\ UNCHANGED posts
     \/ posts' = Append(posts, Shown(t, thr[t].copy.cid, "created", {})) /\ (Retry(t) \/ End(t))
  /\ UNCHANGED <<aggVars, patchLast>>

Target(t) == posts[thr[t].copy.message]

\* The message now shows this thread's copy.
Edit(t) ==
  /\ ~Target(t).gone
  /\ posts' = [posts EXCEPT ![thr[t].copy.message] = Shown(t, @.cid, thr[t].kind, @.of)]

PatchOk(t) ==
  /\ thr[t].pc = "patch"
  /\ Edit(t) /\ End(t)
  /\ UNCHANGED <<aggVars, patchLast, troubles>>

\* As PostFails: the request failed, or was carried out and its reply lost.
PatchFails(t) ==
  /\ thr[t].pc = "patch" /\ Trouble
  /\ Retry(t)
  /\ Edit(t) \/ UNCHANGED posts
  /\ UNCHANGED <<aggVars, patchLast>>

\* 404: the recorded id is cleared and a new message posted.
PatchGone(t) ==
  /\ thr[t].pc = "patch" /\ Target(t).gone
  /\ Goto(t, "detach")
  /\ AttachStart(t, thr[t].copy.cid, None)
  /\ UNCHANGED <<aggButAtt, patchLast, posts, troubles>>

\* Mutant: the thread does not wait for the call.
RecordedAtOnce(t) ==
  /\ \/ thr[t].pc = "attach" /\ End(t)
     \/ thr[t].pc = "detach" /\ Goto(t, "post")
  /\ UNCHANGED <<aggVars, patchLast, posts, troubles>>

\* attach_discord_message has returned.
Recorded(t) ==
  /\ att[t].pc = "idle"
  /\ \/ thr[t].pc = "attach" /\ End(t)
     \/ thr[t].pc = "detach" /\ Goto(t, "post")
  /\ UNCHANGED <<aggVars, patchLast, posts, troubles>>

Alert(t) ==
  \/ Gate(t) \/ PostOk(t) \/ PostFails(t) \/ PatchOk(t) \/ PatchFails(t)
  \/ PatchGone(t) \/ Recorded(t)
  \/ AttachStep(t) /\ UNCHANGED alertVars

\* Somebody deletes a message of the channel.
Delete(m) ==
  /\ ~posts[m].gone /\ Trouble
  /\ posts' = [posts EXCEPT ![m].gone = TRUE]
  /\ UNCHANGED <<aggVars, thr, patchLast>>

-----------------------------------------------------------------------------
\* The process dies with its threads and what the dispatcher remembers.
AlertCrash ==
  /\ Crash
  /\ thr' = [t \in Attachers |-> NoThread]
  /\ patchLast' = [c \in Cids |-> Never]
  /\ UNCHANGED <<posts, troubles>>

AlertNext ==
  \/ AlertCrash
  \/ /\ \/ Tick
        \/ \E a \in Actors : Evict(a)
        \/ \E inc \in Incidents : IngestStart(inc)
        \/ IngestStep
        \/ Sweeping /\ SweepStep
     /\ UNCHANGED alertVars
  \/ Notify
  \/ \E t \in Attachers : Alert(t)
  \/ \E m \in DOMAIN posts : Delete(m)

AlertSpec == AlertInit /\ [][AlertNext]_allVars

\* The incident thread and the notification threads run on.
AlertFairSpec ==
  /\ AlertSpec
  /\ WF_allVars((IngestStep /\ UNCHANGED alertVars) \/ Notify)
  /\ \A t \in Attachers : WF_allVars(Alert(t))

-----------------------------------------------------------------------------
(* Properties *)

AlertTypeOK ==
  /\ TypeOK
  /\ DOMAIN thr = Attachers /\ DOMAIN att = Attachers
  /\ \A t \in Attachers :
       /\ thr[t].pc \in {"idle", "gate", "post", "patch", "attach", "detach"}
       /\ thr[t].tries \in 0..(MaxRetries - 1)
       /\ thr[t].pc # "idle" => IsCampaign(thr[t].copy)
       /\ att[t].pc \in {"idle", "row", "load", "cache"}
       /\ att[t].pc # "idle" => thr[t].pc \in {"attach", "detach"}
       /\ att[t].message \in {None} \cup DOMAIN posts
  /\ patchLast \in [Cids -> {Never} \cup (0..MaxTime)]
  /\ troubles \in 0..MaxTroubles
  /\ \A m \in DOMAIN posts : posts[m].cid \in Cids

\* The message a campaign row records was posted for that campaign.
RowMessageIsOwn ==
  \A c \in Cids :
    rows[c] # NoCampaign /\ rows[c].message # None => posts[rows[c].message].cid = c

\* "Alerts dispatch only when max_confidence >= CAMPAIGN_ALERT_THRESHOLD", and
\* an "extended" change "only fires for high/critical campaigns": true of every
\* message in the channel, edited or new, however the threads race.
AlertsPassTheGate ==
  \A m \in DOMAIN posts :
    /\ posts[m].confidence >= Threshold
    /\ posts[m].kind = "extended" => posts[m].severity >= High

\* An open campaign of high severity over the threshold is shown in the channel,
\* when fewer requests fail than a thread tries and the process lives on.  It
\* need not get a message of its own: an id recorded late is written on whatever
\* campaign the actor has open by then (AttachLoad, AttachCache), and that
\* campaign's thread then edits the message of the campaign before it.
HighCampaignIsAnnounced ==
  \A c \in Cids :
    (/\ IsActive(rows[c])
     /\ rows[c].severity >= High
     /\ rows[c].confidence >= Threshold)
    ~> (mishaps > 0 \/ \E m \in DOMAIN posts : c \in posts[m].of)

\* "ONE Discord message per campaign" (publish_incident): with Discord working
\* and nothing deleted, no campaign has two messages.
OneMessagePerCampaign ==
  \A m, n \in DOMAIN posts : posts[m].cid = posts[n].cid => m = n

\* "severity is monotonic max": no update of a row lowers its severity.
SeverityIsMonotonic ==
  [][\A c \in Cids : rows[c] # NoCampaign => rows[c].severity <= rows'[c].severity]_rows
=============================================================================
