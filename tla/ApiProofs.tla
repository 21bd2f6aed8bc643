------------------------------ MODULE ApiProofs ------------------------------
(***************************************************************************)
(* Proofs about the stores behind the API and the requests that write      *)
(* them: campaigns in the tables, captures, the settings of the firewall,  *)
(* an analyst's decisions, simulated attacks, accounts and tokens; and     *)
(* about the feeds of indicators, the logins of the auth-service and the   *)
(* topology collector with its drift detector.  For any number of requests *)
(* at a time, any incidents, captures, settings, decisions, feeds,         *)
(* accounts, roles, times and thresholds, scenarios of any length, any     *)
(* Compose file and traffic, and deployments, restarts and rounds without  *)
(* Redis in any order.                                                     *)
(*                                                                         *)
(* A request takes several steps and what it wrote may be written over, so *)
(* what a store holds in the end depends on what each request that is      *)
(* still on its way has done: that is what the invariants say.             *)
(***************************************************************************)
EXTENDS Triage, WafConfig, ThreatFeed, AttackConsole, Accounts, LoginService,
        CampaignTables, PcapJobs, Topology, Induction, FiniteSetTheorems, SequenceTheorems, TLAPS

-------------------------------------------------------------------------------
(* Campaigns and their incidents, in the tables *)

ActorsSeen == {ActorOf[i] : i \in Incidents} \cup {EngineActorOf[i] : i \in Incidents}
CampaignRow ==
  [actor : ActorsSeen, incidents : SUBSET Incidents, count : Nat, active : BOOLEAN, stored : BOOLEAN]

TablesTypeOK ==
  /\ campaigns \in Seq(CampaignRow)
  /\ DOMAIN linked \subseteq Incidents /\ Old \subseteq DOMAIN linked /\ DOMAIN chained = DOMAIN linked

\* A row lists what is linked, and one incident is not in two rows.
RowsAgree ==
  /\ \A c \in DOMAIN campaigns :
       /\ campaigns[c].incidents \subseteq DOMAIN linked
       /\ campaigns[c].count = Cardinality(campaigns[c].incidents)
       /\ \A i \in campaigns[c].incidents : linked[i] # Null /\ chained[i] # Null
       /\ ~campaigns[c].stored => campaigns[c].incidents = {} /\ ~campaigns[c].active
  /\ \A c, d \in DOMAIN campaigns : c # d => campaigns[c].incidents \cap campaigns[d].incidents \subseteq raced

LinksAgree ==
  \A i \in DOMAIN linked :
    /\ linked[i] # Null => linked[i] \in DOMAIN campaigns /\ Sound(linked[i], i)
    /\ chained[i] # Null => chained[i] \in DOMAIN campaigns /\ Sound(chained[i], i)

\* What a copy lists no other row and no copy of another row does.
CopiesAgree ==
  /\ \A k \in Copies : /\ k \in [id : 0..Len(campaigns), incidents : SUBSET DOMAIN linked]
                       /\ \A j \in k.incidents \ raced : ListedBy(j) \subseteq {k.id}
  /\ \A k, l \in Copies : k.id # l.id => k.incidents \cap l.incidents \subseteq raced
  /\ Behind \subseteq missing

\* Only the copy being made has no number, and it lists one incident.
EngineOK ==
  /\ adding \in [at : {"idle", "write", "cache"}, actor : ActorsSeen \cup {Null}, inc : Incidents \cup {Null},
                 copy : [id : Nat, incidents : SUBSET Incidents]]
  /\ adding.at = "idle" => adding = Idle
  /\ adding.at # "idle" => adding.inc \in Incidents /\ adding.actor = EngineActorOf[adding.inc]
  /\ adding.at = "write" /\ adding.copy.id = 0 => adding.copy.incidents = {adding.inc}
  /\ adding.at = "cache" => adding.copy.id # 0
  /\ attaching = Idle \/ attaching.copy.id # 0
  /\ \A a \in DOMAIN cached : cached[a].id # 0

Nowhere(i) == ListedBy(i) = {} /\ i \notin InCopies

\* Nobody lists what the engine, the simulator or the script is about to list, unless the
\* script read it while only the engine knew of it.
NoneIsListed ==
  /\ underWay \subseteq DOMAIN linked \ Simulated /\ \A i \in underWay \ raced : Nowhere(i)
  /\ DOMAIN filing \subseteq (Incidents \cap Simulated) \ DOMAIN linked
  /\ \A i \in DOMAIN filing : filing[i] = Null \/ (filing[i] \in DOMAIN campaigns /\ campaigns[filing[i]].stored)
  /\ \A g \in script.groups : g \subseteq DOMAIN linked /\ g # {}
  /\ \A g \in script.groups : \A i \in g \ raced : i \notin underWay /\ Nowhere(i)
  /\ \A g, h \in script.groups : g # h => g \cap h = {}

\* A script that ran has linked what it found, or is going to.
ScriptSees ==
  /\ script \in [at : {"off", "insert"}, groups : SUBSET SUBSET Incidents]
  /\ scripts > 0 => \A i \in Old \ missed : ActorOf[i] # Null /\ linked[i] = Null => i \in UNION script.groups

TablesInv == TablesTypeOK /\ RowsAgree /\ LinksAgree /\ CopiesAgree /\ EngineOK /\ NoneIsListed /\ ScriptSees

-----------------------------------------------------------------------------
(* The groups of the script *)

LEMMA EarlierIsOrder ==
  /\ \A i \in Incidents : ~Earlier(i, i)
  /\ \A i, j \in Incidents : Earlier(i, j) \/ i = j \/ Earlier(j, i)
  /\ \A i, j, k \in Incidents : Earlier(i, j) /\ Earlier(j, k) => Earlier(i, k)
<1>0. Incidents \subseteq Nat /\ Null \notin Int /\ \A i \in Incidents : FirstAt[i] = Null \/ FirstAt[i] \in Int
  BY TablesAssumption
<1>1. ASSUME NEW i \in Incidents PROVE ~Earlier(i, i)
  BY <1>0 DEF Earlier
<1>2. ASSUME NEW i \in Incidents, NEW j \in Incidents PROVE Earlier(i, j) \/ i = j \/ Earlier(j, i)
  BY <1>0 DEF Earlier
<1>3. ASSUME NEW i \in Incidents, NEW j \in Incidents, NEW k \in Incidents, Earlier(i, j), Earlier(j, k)
      PROVE  Earlier(i, k)
  BY <1>0, <1>3 DEF Earlier
<1> QED BY <1>1, <1>2, <1>3

LEMMA LastOfSome ==
  ASSUME NEW some \in SUBSET Incidents, some # {}
  PROVE  \E i \in some : \A j \in some : ~Earlier(i, j)
<1>1. IsFiniteSet(some)
  BY TablesAssumption, FS_Subset
<1>2. \E R : \A i, j \in Incidents : <<i, j>> \in R <=> Earlier(i, j)
  <2> WITNESS {p \in Incidents \X Incidents : Earlier(p[1], p[2])}
  <2> QED OBVIOUS
<1>3. PICK R : \A i, j \in Incidents : <<i, j>> \in R <=> Earlier(i, j)
  BY <1>2
<1>4. \A i \in some : <<i, i>> \notin R
  BY <1>3, EarlierIsOrder
<1>5. ASSUME NEW x \in some, NEW y \in some, NEW z \in some, <<x, y>> \in R, <<y, z>> \in R PROVE <<x, z>> \in R
  BY <1>3, <1>5, EarlierIsOrder
<1>6. \E i \in some : \A j \in some : <<i, j>> \notin R
  BY <1>1, <1>4, <1>5, Topmost
<1> QED BY <1>3, <1>6

LEMMA FirstOfSome ==
  ASSUME NEW some \in SUBSET Incidents, some # {}
  PROVE  \E i \in some : \A j \in some : ~Earlier(j, i)
<1>1. IsFiniteSet(some)
  BY TablesAssumption, FS_Subset
<1>2. \E R : \A i, j \in Incidents : <<i, j>> \in R <=> Earlier(j, i)
  <2> WITNESS {p \in Incidents \X Incidents : Earlier(p[2], p[1])}
  <2> QED OBVIOUS
<1>3. PICK R : \A i, j \in Incidents : <<i, j>> \in R <=> Earlier(j, i)
  BY <1>2
<1>4. \A i \in some : <<i, i>> \notin R
  BY <1>3, EarlierIsOrder
<1>5. ASSUME NEW x \in some, NEW y \in some, NEW z \in some, <<x, y>> \in R, <<y, z>> \in R PROVE <<x, z>> \in R
  BY <1>3, <1>5, EarlierIsOrder
<1>6. \E i \in some : \A j \in some : <<i, j>> \notin R
  BY <1>1, <1>4, <1>5, Topmost
<1> QED BY <1>3, <1>6

\* Every incident of an actor is in a group, and in no second one.
LEMMA GroupsCover ==
  ASSUME NEW some \in SUBSET Incidents, NEW i \in some
  PROVE  \E b \in Beginnings(some) : i \in Group(some, b)
<1> DEFINE before == {b \in Beginnings(some) : ~Earlier(i, b)}
<1>1. before # {}
  <2>1. PICK f \in some : \A j \in some : ~Earlier(j, f)
    BY FirstOfSome
  <2>2. f \in Beginnings(some) /\ ~Earlier(i, f)
    BY <2>1 DEF Beginnings, LastBefore
  <2> QED BY <2>2
<1>2. before \in SUBSET Incidents
  BY DEF Beginnings
<1>3. PICK b \in before : \A c \in before : ~Earlier(b, c)
  BY <1>1, <1>2, LastOfSome
<1>4. i \in Group(some, b)
  BY <1>3 DEF Group
<1> QED BY <1>3, <1>4

LEMMA GroupsApart ==
  ASSUME NEW some \in SUBSET Incidents, NEW b \in Beginnings(some), NEW c \in Beginnings(some),
         Group(some, b) # Group(some, c)
  PROVE  Group(some, b) \cap Group(some, c) = {}
<1>1. b \in Incidents /\ c \in Incidents /\ b # c
  BY DEF Beginnings
<1>2. Earlier(b, c) \/ Earlier(c, b)
  BY <1>1, EarlierIsOrder
<1> QED BY <1>2 DEF Group

LEMMA GroupHasFirst ==
  ASSUME NEW some \in SUBSET Incidents, NEW b \in Beginnings(some)
  PROVE  b \in Group(some, b)
<1>1. b \in some /\ ~Earlier(b, b)
  BY EarlierIsOrder DEF Beginnings
<1>2. ~\E c \in Beginnings(some) : Earlier(b, c) /\ ~Earlier(b, c)
  OBVIOUS
<1> QED BY <1>1, <1>2 DEF Group

LEMMA GroupsAreApart ==
  ASSUME NEW some \in SUBSET Incidents
  PROVE  /\ UNION GroupsOf(some) = some
         /\ \A g \in GroupsOf(some) : g # {} /\ g \subseteq some
         /\ \A g, h \in GroupsOf(some) : g # h => g \cap h = {}
<1> DEFINE his(a) == {i \in some : ActorOf[i] = a}
           actors == {ActorOf[i] : i \in some}
<1>1. \A g : g \in GroupsOf(some) <=> \E a \in actors : \E b \in Beginnings(his(a)) : g = Group(his(a), b)
  <2>1. GroupsOf(some) = UNION {{Group(his(a), b) : b \in Beginnings(his(a))} : a \in actors}
    BY DEF GroupsOf
  <2> HIDE DEF his, actors
  <2> QED BY <2>1
<1>2. \A a : his(a) \in SUBSET Incidents /\ his(a) \subseteq some
  OBVIOUS
<1>3. \A a, b : Group(his(a), b) \subseteq his(a)
  BY DEF Group
<1>4. \A i \in some : ActorOf[i] \in actors /\ i \in his(ActorOf[i])
  OBVIOUS
<1>5. \A a1, a2 : a1 # a2 => his(a1) \cap his(a2) = {}
  OBVIOUS
<1> HIDE DEF his, actors
<1>6. ASSUME NEW i \in some PROVE i \in UNION GroupsOf(some)
  <2>1. PICK b \in Beginnings(his(ActorOf[i])) : i \in Group(his(ActorOf[i]), b)
    BY <1>2, <1>4, GroupsCover
  <2> QED BY <2>1, <1>1, <1>4
<1>7. ASSUME NEW g \in GroupsOf(some) PROVE g # {} /\ g \subseteq some
  <2>1. PICK a \in actors : \E b \in Beginnings(his(a)) : g = Group(his(a), b)
    BY <1>1
  <2>2. PICK b \in Beginnings(his(a)) : g = Group(his(a), b)
    BY <2>1
  <2> QED BY <2>2, <1>2, <1>3, GroupHasFirst
<1>8. ASSUME NEW g \in GroupsOf(some), NEW h \in GroupsOf(some), g # h PROVE g \cap h = {}
  <2>1. PICK a1 \in actors, a2 \in actors :
          /\ \E b \in Beginnings(his(a1)) : g = Group(his(a1), b)
          /\ \E c \in Beginnings(his(a2)) : h = Group(his(a2), c)
    BY <1>1
  <2>2. PICK b \in Beginnings(his(a1)), c \in Beginnings(his(a2)) : g = Group(his(a1), b) /\ h = Group(his(a2), c)
    BY <2>1
  <2>3. CASE a1 = a2
    BY <1>2, <1>8, <2>2, <2>3, GroupsApart
  <2>4. CASE a1 # a2
    BY <1>3, <1>5, <2>2, <2>4
  <2> QED BY <2>3, <2>4
<1> QED BY <1>6, <1>7, <1>8

-----------------------------------------------------------------------------
(* Rows and links *)

\* One row is written, or added at the end.
RowWritten(c, row) ==
  /\ campaigns' \in Seq(CampaignRow) /\ c \in DOMAIN campaigns' /\ campaigns'[c] = row
  /\ DOMAIN campaigns' = DOMAIN campaigns \cup {c}
  /\ \A d \in DOMAIN campaigns : d # c => campaigns'[d] = campaigns[d]
  /\ Len(campaigns') \in Nat /\ Len(campaigns) <= Len(campaigns') /\ c \in 1..Len(campaigns')

LEMMA Rewriting ==
  ASSUME TablesTypeOK, NEW c \in DOMAIN campaigns, NEW row \in CampaignRow,
         campaigns' = [campaigns EXCEPT ![c] = row]
  PROVE  RowWritten(c, row)
<1>1. campaigns \in Seq(CampaignRow) /\ DOMAIN campaigns = 1..Len(campaigns) /\ Len(campaigns) \in Nat
  BY LenProperties DEF TablesTypeOK
<1>2. Len(campaigns') = Len(campaigns)
  BY <1>1, ExceptSeq
<1> QED BY <1>1, <1>2, ExceptSeq DEF RowWritten

LEMMA Adding ==
  ASSUME TablesTypeOK, NEW row \in CampaignRow, campaigns' = Append(campaigns, row)
  PROVE  RowWritten(Len(campaigns) + 1, row) /\ Len(campaigns) + 1 \in Nat /\ Len(campaigns) + 1 \notin DOMAIN campaigns
<1>1. campaigns \in Seq(CampaignRow) /\ DOMAIN campaigns = 1..Len(campaigns) /\ Len(campaigns) \in Nat
  BY LenProperties DEF TablesTypeOK
<1>2. /\ campaigns' \in Seq(CampaignRow) /\ DOMAIN campaigns' = 1..(Len(campaigns) + 1)
      /\ campaigns'[Len(campaigns) + 1] = row /\ \A d \in 1..Len(campaigns) : campaigns'[d] = campaigns[d]
      /\ Len(campaigns') = Len(campaigns) + 1
  BY <1>1, AppendProperties
<1> QED BY <1>1, <1>2 DEF RowWritten

\* What the row lists nobody else did; what it lists no more was missing from a copy.
RowSound(c, row) ==
  /\ row.count = Cardinality(row.incidents)
  /\ ~row.stored => row.incidents = {} /\ ~row.active
  /\ \A j \in row.incidents \ raced : ListedBy(j) \subseteq {c}
  /\ c \in DOMAIN campaigns => campaigns[c].incidents \ row.incidents \subseteq missing /\ campaigns[c].stored = row.stored

\* A link is set to a row that lists the incident, or that there is not, or stays.
LinkedTo(c, row, before, after) ==
  /\ row.incidents \subseteq DOMAIN after /\ DOMAIN before \subseteq DOMAIN after
  /\ \A i \in DOMAIN after : \/ after[i] = c /\ (i \in row.incidents \/ ~row.stored)
                             \/ i \in DOMAIN before /\ after[i] = before[i] /\ (i \in row.incidents => before[i] # Null)

LEMMA WritingLists ==
  ASSUME NEW c, NEW row, RowWritten(c, row)
  PROVE  /\ \A j : j \notin row.incidents => ListedBy(j)' \subseteq ListedBy(j)
         /\ \A j : ListedBy(j)' \subseteq ListedBy(j) \cup {c}
  BY DEF RowWritten, ListedBy

LEMMA WritingKeepsRows ==
  ASSUME TablesInv, NEW c, NEW row, c # Null, RowWritten(c, row), RowSound(c, row), raced' = raced,
         DOMAIN chained' = DOMAIN linked',
         LinkedTo(c, row, linked, linked'), LinkedTo(c, row, chained, chained')
  PROVE  RowsAgree'
<1>0. RowsAgree /\ DOMAIN chained = DOMAIN linked /\ c \in DOMAIN campaigns' /\ campaigns'[c] = row
  BY DEF TablesInv, TablesTypeOK, RowWritten
<1>1. \A i \in DOMAIN linked : linked[i] # Null => linked'[i] # Null
  BY DEF LinkedTo
<1>2. \A i \in DOMAIN linked : chained[i] # Null => chained'[i] # Null
  BY <1>0 DEF LinkedTo
<1>3. ASSUME NEW d \in DOMAIN campaigns'
      PROVE  /\ campaigns'[d].incidents \subseteq DOMAIN linked'
             /\ campaigns'[d].count = Cardinality(campaigns'[d].incidents)
             /\ \A i \in campaigns'[d].incidents : linked'[i] # Null /\ chained'[i] # Null
             /\ ~campaigns'[d].stored => campaigns'[d].incidents = {} /\ ~campaigns'[d].active
  <2>1. CASE d = c
    <3>1. row.incidents \subseteq DOMAIN linked' /\ row.incidents \subseteq DOMAIN chained'
      BY DEF LinkedTo
    <3>2. \A i \in row.incidents : linked'[i] # Null /\ chained'[i] # Null
      BY <3>1 DEF LinkedTo
    <3> QED BY <1>0, <2>1, <3>1, <3>2 DEF RowSound
  <2>2. CASE d # c
    <3>1. d \in DOMAIN campaigns /\ campaigns'[d] = campaigns[d]
      BY <2>2 DEF RowWritten
    <3>2. DOMAIN linked \subseteq DOMAIN linked'
      BY DEF LinkedTo
    <3> QED BY <1>0, <1>1, <1>2, <3>1, <3>2 DEF RowsAgree
  <2> QED BY <2>1, <2>2
<1>4. ASSUME NEW d \in DOMAIN campaigns', d # c PROVE row.incidents \cap campaigns'[d].incidents \subseteq raced'
  <2>1. d \in DOMAIN campaigns /\ campaigns'[d] = campaigns[d]
    BY <1>4 DEF RowWritten
  <2> QED BY <1>4, <2>1 DEF RowSound, ListedBy
<1>5. ASSUME NEW d \in DOMAIN campaigns', NEW e \in DOMAIN campaigns', d # e
      PROVE  campaigns'[d].incidents \cap campaigns'[e].incidents \subseteq raced'
  <2>1. CASE d = c
    BY <1>0, <1>4, <1>5, <2>1
  <2>2. CASE e = c
    BY <1>0, <1>4, <1>5, <2>2
  <2>3. CASE d # c /\ e # c
    <3>1. d \in DOMAIN campaigns /\ e \in DOMAIN campaigns /\ campaigns'[d] = campaigns[d] /\ campaigns'[e] = campaigns[e]
      BY <2>3 DEF RowWritten
    <3> QED BY <1>0, <1>5, <3>1 DEF RowsAgree
  <2> QED BY <2>1, <2>2, <2>3
<1> QED BY <1>3, <1>5 DEF RowsAgree

\* A link that was sound stays so.
LEMMA WritingKeepsLink ==
  ASSUME NEW c, NEW row, RowWritten(c, row), RowSound(c, row), missing \subseteq missing',
         NEW i, NEW link \in DOMAIN campaigns, Sound(link, i)
  PROVE  link \in DOMAIN campaigns' /\ Sound(link, i)'
<1>1. link \in DOMAIN campaigns' /\ campaigns'[c] = row
  BY DEF RowWritten
<1>2. CASE i \in missing
  BY <1>1, <1>2 DEF Sound
<1>3. CASE ~campaigns[link].stored
  BY <1>1, <1>3 DEF Sound, RowWritten, RowSound
<1>4. CASE link \in ListedBy(i)
  <2>1. CASE link # c
    BY <1>1, <1>4, <2>1 DEF Sound, RowWritten, ListedBy
  <2>2. CASE link = c
    BY <1>1, <1>4, <2>2 DEF Sound, RowSound, ListedBy
  <2> QED BY <2>1, <2>2
<1> QED BY <1>2, <1>3, <1>4 DEF Sound

LEMMA WritingKeepsLinks ==
  ASSUME TablesInv, NEW c, NEW row, RowWritten(c, row), RowSound(c, row), missing \subseteq missing',
         DOMAIN chained' = DOMAIN linked',
         LinkedTo(c, row, linked, linked'), LinkedTo(c, row, chained, chained')
  PROVE  LinksAgree'
<1>0. LinksAgree /\ DOMAIN chained = DOMAIN linked /\ c \in DOMAIN campaigns' /\ campaigns'[c] = row
  BY DEF TablesInv, TablesTypeOK, RowWritten
<1>1. \A i : i \in row.incidents \/ ~row.stored => Sound(c, i)'
  BY <1>0 DEF Sound, ListedBy
<1>2. ASSUME NEW i \in DOMAIN linked', NEW link, link = linked'[i], link # Null PROVE link \in DOMAIN campaigns' /\ Sound(link, i)'
  <2>1. CASE link = c /\ (i \in row.incidents \/ ~row.stored)
    BY <1>0, <1>1, <2>1
  <2>2. CASE i \in DOMAIN linked /\ linked'[i] = linked[i]
    <3>1. link \in DOMAIN campaigns /\ Sound(link, i)
      BY <1>0, <1>2, <2>2 DEF LinksAgree
    <3> QED BY <3>1, WritingKeepsLink
  <2> QED BY <1>2, <2>1, <2>2 DEF LinkedTo
<1>3. ASSUME NEW i \in DOMAIN linked', NEW link, link = chained'[i], link # Null PROVE link \in DOMAIN campaigns' /\ Sound(link, i)'
  <2>0. i \in DOMAIN chained'
    OBVIOUS
  <2>1. CASE link = c /\ (i \in row.incidents \/ ~row.stored)
    BY <1>0, <1>1, <2>1
  <2>2. CASE i \in DOMAIN chained /\ chained'[i] = chained[i]
    <3>1. link \in DOMAIN campaigns /\ Sound(link, i)
      BY <1>0, <1>3, <2>2 DEF LinksAgree
    <3> QED BY <3>1, WritingKeepsLink
  <2> QED BY <2>0, <1>3, <2>1, <2>2 DEF LinkedTo
<1> QED BY <1>2, <1>3 DEF LinksAgree, Sound, ListedBy

-----------------------------------------------------------------------------
(* Copies *)

LEMMA WhereCopiesAre ==
  /\ \A k : k \in Copies <=> (\E a \in DOMAIN cached : k = cached[a]) \/ k = adding.copy \/ k = attaching.copy
  /\ \A k : k \in Copies' <=> (\E a \in DOMAIN cached' : k = cached'[a]) \/ k = adding'.copy \/ k = attaching'.copy
  /\ \A i : i \in InCopies <=> \E k \in Copies : i \in k.incidents
  /\ \A i : i \in InCopies' <=> \E k \in Copies' : i \in k.incidents
  BY DEF Copies, InCopies

LEMMA NoCopyIs == NoCopy.id = 0 /\ NoCopy.incidents = {} /\ Idle.copy = NoCopy /\ Idle.at = "idle"
  BY DEF NoCopy, Idle

\* A step that makes one copy at most.
LEMMA CopiesLater ==
  ASSUME TablesInv, DOMAIN linked \subseteq DOMAIN linked', Len(campaigns') \in Nat, Len(campaigns) <= Len(campaigns'),
         raced \subseteq raced', missing' = missing \cup Behind',
         NEW n, n \in [id : 0..Len(campaigns'), incidents : SUBSET DOMAIN linked'],
         \A k \in Copies' : k \in Copies \/ k = n,
         \A k \in Copies' : k.id # n.id => k.incidents \cap n.incidents \subseteq raced',
         \A k \in Copies' : \A j \in k.incidents \ raced' : ListedBy(j)' \subseteq {k.id}
  PROVE  CopiesAgree'
<1>0. CopiesAgree /\ Len(campaigns) \in Nat
  BY LenProperties DEF TablesInv, TablesTypeOK
<1>1. ASSUME NEW k \in Copies' PROVE k \in [id : 0..Len(campaigns'), incidents : SUBSET DOMAIN linked']
  <2>1. CASE k = n
    BY <2>1
  <2>2. CASE k \in Copies
    <3>1. k \in [id : 0..Len(campaigns), incidents : SUBSET DOMAIN linked]
      BY <1>0, <2>2 DEF CopiesAgree
    <3>2. 0..Len(campaigns) \subseteq 0..Len(campaigns')
      BY <1>0
    <3> QED BY <3>1, <3>2
  <2> QED BY <2>1, <2>2
<1>2. ASSUME NEW k \in Copies', NEW l \in Copies', k.id # l.id PROVE k.incidents \cap l.incidents \subseteq raced'
  <2>1. CASE k = n \/ l = n
    BY <1>2, <2>1
  <2>2. CASE k # n /\ l # n
    <3>1. k \in Copies /\ l \in Copies
      BY <2>2
    <3> QED BY <1>0, <1>2, <3>1 DEF CopiesAgree
  <2> QED BY <2>1, <2>2
<1>3. Behind' \subseteq missing'
  OBVIOUS
<1> QED BY <1>1, <1>2, <1>3 DEF CopiesAgree

\* The rest of the invariant.
LEMMA NoneIsListedLater ==
  ASSUME TablesInv, DOMAIN linked \subseteq DOMAIN linked', raced' = raced,
         NEW new, \A j : j \notin new /\ Nowhere(j) => Nowhere(j)',
         underWay' \subseteq underWay, underWay' \cap new \subseteq raced,
         script'.groups \subseteq script.groups, (UNION script'.groups) \cap new \subseteq raced,
         DOMAIN filing' \cap DOMAIN linked' = {},
         \A i \in DOMAIN filing' : \/ i \in DOMAIN filing /\ filing'[i] = filing[i]
                                   \/ /\ i \in Incidents \cap Simulated
                                      /\ filing'[i] = Null \/ (filing'[i] \in DOMAIN campaigns /\ campaigns[filing'[i]].stored),
         \A d \in DOMAIN campaigns : d \in DOMAIN campaigns' /\ (campaigns[d].stored => campaigns'[d].stored)
  PROVE  NoneIsListed'
<1>0. NoneIsListed
  BY DEF TablesInv
<1>1. underWay' \subseteq DOMAIN linked' \ Simulated /\ \A i \in underWay' \ raced : Nowhere(i)'
  BY <1>0 DEF NoneIsListed
<1>2. DOMAIN filing' \subseteq (Incidents \cap Simulated) \ DOMAIN linked'
  BY <1>0 DEF NoneIsListed
<1>3. \A i \in DOMAIN filing' : filing'[i] = Null \/ (filing'[i] \in DOMAIN campaigns' /\ campaigns'[filing'[i]].stored)
  BY <1>0 DEF NoneIsListed
<1>4. \A g \in script'.groups : g \subseteq DOMAIN linked' /\ g # {}
  BY <1>0 DEF NoneIsListed
<1>5. ASSUME NEW g \in script'.groups, NEW i \in g \ raced PROVE i \notin underWay' /\ Nowhere(i)'
  <2>1. i \notin underWay /\ Nowhere(i)
    BY <1>0 DEF NoneIsListed
  <2>2. i \notin new
    BY <1>5
  <2> QED BY <2>1, <2>2
<1>6. \A g, h \in script'.groups : g # h => g \cap h = {}
  BY <1>0 DEF NoneIsListed
<1> QED BY <1>1, <1>2, <1>3, <1>4, <1>5, <1>6 DEF NoneIsListed

\* Steps of the engine that write no row: one copy is made at most.
LEMMA EngineGoesOn ==
  ASSUME TablesInv, UNCHANGED <<tableVars, filing, scriptVars>>, missing' = missing \cup Behind', EngineOK',
         underWay' \subseteq underWay,
         NEW n, n \in [id : 0..Len(campaigns), incidents : SUBSET DOMAIN linked],
         \A k \in Copies' : k \in Copies \/ k = n,
         \A k \in Copies' : k.id # n.id => k.incidents \cap n.incidents \subseteq raced,
         \A j \in n.incidents \ raced : ListedBy(j) \subseteq {n.id} /\ j \notin underWay' /\ j \notin UNION script.groups
  PROVE  TablesInv'
<1>0. /\ TablesTypeOK /\ RowsAgree /\ LinksAgree /\ CopiesAgree /\ NoneIsListed /\ ScriptSees
      /\ UNCHANGED <<linked, chained, campaigns, filing, script, scripts, missed, raced>> /\ Len(campaigns) \in Nat
      /\ missing \subseteq missing'
  BY LenProperties DEF TablesInv, TablesTypeOK, tableVars, scriptVars
<1>1. \A j : ListedBy(j)' = ListedBy(j)
  BY <1>0 DEF ListedBy
<1>2. TablesTypeOK' /\ RowsAgree' /\ ScriptSees'
  BY <1>0 DEF TablesTypeOK, RowsAgree, ScriptSees
<1>3. LinksAgree'
  BY <1>0 DEF LinksAgree, Sound, ListedBy
<1>4. \A k \in Copies' : \A j \in k.incidents \ raced' : ListedBy(j)' \subseteq {k.id}
  BY <1>0, <1>1 DEF CopiesAgree
<1>5. CopiesAgree'
  BY <1>0, <1>4, CopiesLater
<1>6. PICK new : new = n.incidents
  OBVIOUS
<1>7. NoneIsListed'
  <2>1. \A j : j \notin new /\ Nowhere(j) => Nowhere(j)'
    BY <1>1, <1>6, WhereCopiesAre DEF Nowhere
  <2>2. underWay' \cap new \subseteq raced /\ (UNION script'.groups) \cap new \subseteq raced
    BY <1>0, <1>6
  <2>3. DOMAIN filing' \cap DOMAIN linked' = {}
    BY <1>0 DEF NoneIsListed
  <2>4. /\ \A i \in DOMAIN filing' : i \in DOMAIN filing /\ filing'[i] = filing[i]
        /\ \A d \in DOMAIN campaigns : d \in DOMAIN campaigns' /\ (campaigns[d].stored => campaigns'[d].stored)
        /\ DOMAIN linked \subseteq DOMAIN linked' /\ script'.groups \subseteq script.groups /\ raced' = raced
    BY <1>0
  <2> QED BY <2>1, <2>2, <2>3, <2>4, NoneIsListedLater
<1> QED BY <1>2, <1>3, <1>5, <1>7 DEF TablesInv

\* Some copies go, or one is put in another place.
LEMMA CopiesGo ==
  ASSUME TablesInv, UNCHANGED <<tableVars, filing, scriptVars>>, missing' = missing \cup Behind', EngineOK',
         underWay' \subseteq underWay, \A k \in Copies' : k \in Copies \/ k = NoCopy
  PROVE  TablesInv'
<1>1. NoCopy \in [id : 0..Len(campaigns), incidents : SUBSET DOMAIN linked] /\ NoCopy.incidents = {}
  BY LenProperties DEF NoCopy, TablesInv, TablesTypeOK
<1> QED BY <1>1, EngineGoesOn

\* A row is written; a copy gets a number at most.
LEMMA RowGoesOn ==
  ASSUME TablesInv, NEW c, NEW row, c # Null, RowWritten(c, row), RowSound(c, row),
         DOMAIN chained' = DOMAIN linked', DOMAIN linked' \subseteq Incidents,
         LinkedTo(c, row, linked, linked'), LinkedTo(c, row, chained, chained'),
         missing' = missing \cup Behind', raced' = raced, EngineOK', ScriptSees',
         underWay' = underWay, underWay \cap row.incidents \subseteq raced,
         script'.groups \subseteq script.groups, (UNION script'.groups) \cap row.incidents \subseteq raced,
         DOMAIN filing' \cap DOMAIN linked' = {},
         \A i \in DOMAIN filing' : i \in DOMAIN filing /\ filing'[i] = filing[i],
         NEW n, n \in [id : 0..Len(campaigns'), incidents : SUBSET DOMAIN linked'], n.incidents \subseteq InCopies,
         \A k \in Copies' : k \in Copies \/ k = n,
         \A k \in Copies' : k.id # n.id => k.incidents \cap n.incidents \subseteq raced,
         \A j \in n.incidents \ raced : ListedBy(j)' \subseteq {n.id},
         \A k \in Copies' : k.id # c => k.incidents \cap row.incidents \subseteq raced
  PROVE  TablesInv'
<1>0. CopiesAgree /\ TablesTypeOK /\ missing \subseteq missing' /\ DOMAIN linked \subseteq DOMAIN linked'
  BY DEF TablesInv, LinkedTo
<1>1. RowsAgree' /\ LinksAgree'
  BY <1>0, WritingKeepsRows, WritingKeepsLinks
<1>2. TablesTypeOK'
  BY <1>0 DEF TablesTypeOK, RowWritten
<1>3. ASSUME NEW k \in Copies', NEW j \in k.incidents \ raced' PROVE ListedBy(j)' \subseteq {k.id}
  <2>1. CASE k = n
    BY <1>3, <2>1
  <2>2. CASE k \in Copies
    <3>1. ListedBy(j) \subseteq {k.id}
      BY <1>0, <1>3, <2>2 DEF CopiesAgree
    <3>2. CASE k.id = c
      BY <3>1, <3>2, WritingLists
    <3>3. CASE k.id # c
      <4>1. j \notin row.incidents
        BY <1>3, <3>3
      <4> QED BY <3>1, <4>1, WritingLists
    <3> QED BY <3>2, <3>3
  <2> QED BY <2>1, <2>2
<1>4. CopiesAgree'
  BY <1>0, <1>3, CopiesLater DEF RowWritten
<1>5. ASSUME NEW j, j \notin row.incidents, Nowhere(j) PROVE Nowhere(j)'
  <2>1. ListedBy(j)' = {}
    BY <1>5, WritingLists DEF Nowhere
  <2>2. j \notin InCopies'
    BY <1>5, WhereCopiesAre DEF Nowhere
  <2> QED BY <2>1, <2>2 DEF Nowhere
<1>6. \A d \in DOMAIN campaigns : d \in DOMAIN campaigns' /\ (campaigns[d].stored => campaigns'[d].stored)
  BY DEF RowWritten, RowSound
<1>7. NoneIsListed'
  BY <1>0, <1>5, <1>6, NoneIsListedLater
<1> QED BY <1>1, <1>2, <1>4, <1>7 DEF TablesInv

\* Writing a row and no copy.
LEMMA CopiesStay ==
  ASSUME TablesInv, UNCHANGED <<cached, adding, attaching>>
  PROVE  Copies' = Copies /\ EngineOK'
<1>1. EngineOK
  BY DEF TablesInv
<1> QED BY <1>1 DEF EngineOK, Copies

LEMMA CopyOfAdding ==
  ASSUME TablesInv
  PROVE  /\ adding.copy \in Copies /\ adding.copy.incidents \subseteq InCopies
         /\ \A k \in Copies : k.id # adding.copy.id => k.incidents \cap adding.copy.incidents \subseteq raced
<1>1. CopiesAgree /\ adding.copy \in Copies
  BY WhereCopiesAre DEF TablesInv
<1> QED BY <1>1, WhereCopiesAre DEF CopiesAgree

\* What is in a row or a copy is not about to be listed, and a row's incidents are in no
\* copy of another.
LEMMA SomewhereIsNotNew ==
  ASSUME TablesInv, NEW j, j \notin raced, ~Nowhere(j)
  PROVE  j \notin underWay /\ j \notin UNION script.groups
  BY DEF TablesInv, NoneIsListed

LEMMA OwnRow ==
  ASSUME TablesInv, NEW c \in DOMAIN campaigns
  PROVE  /\ underWay \cap campaigns[c].incidents \subseteq raced
         /\ (UNION script.groups) \cap campaigns[c].incidents \subseteq raced
         /\ \A k \in Copies : k.id # c => k.incidents \cap campaigns[c].incidents \subseteq raced
         /\ \A j \in campaigns[c].incidents \ raced : ListedBy(j) \subseteq {c}
<1>1. \A j \in campaigns[c].incidents : c \in ListedBy(j) /\ ~Nowhere(j)
  BY DEF ListedBy, Nowhere
<1>2. \A j \in campaigns[c].incidents \ raced : j \notin underWay /\ j \notin UNION script.groups
  BY <1>1, SomewhereIsNotNew
<1>3. \A k \in Copies : k.id # c => k.incidents \cap campaigns[c].incidents \subseteq raced
  BY <1>1 DEF TablesInv, CopiesAgree
<1>4. \A j \in campaigns[c].incidents \ raced : ListedBy(j) \subseteq {c}
  BY DEF TablesInv, RowsAgree, ListedBy
<1> QED BY <1>2, <1>3, <1>4

LEMMA RowAlone ==
  ASSUME TablesInv, NEW c, NEW row, c # Null, RowWritten(c, row), RowSound(c, row),
         DOMAIN chained' = DOMAIN linked', DOMAIN linked' \subseteq Incidents,
         LinkedTo(c, row, linked, linked'), LinkedTo(c, row, chained, chained'),
         missing' = missing \cup Behind', raced' = raced, Copies' = Copies, EngineOK', underWay' = underWay, ScriptSees',
         underWay \cap row.incidents \subseteq raced,
         script'.groups \subseteq script.groups, (UNION script'.groups) \cap row.incidents \subseteq raced,
         DOMAIN filing' \cap DOMAIN linked' = {},
         \A i \in DOMAIN filing' : i \in DOMAIN filing /\ filing'[i] = filing[i],
         \A k \in Copies : k.id # c => k.incidents \cap row.incidents \subseteq raced
  PROVE  TablesInv'
<1> DEFINE n == adding.copy
<1>0. /\ CopiesAgree /\ n \in Copies /\ n.incidents \subseteq InCopies
      /\ \A k \in Copies : k.id # n.id => k.incidents \cap n.incidents \subseteq raced
      /\ DOMAIN linked \subseteq DOMAIN linked' /\ Len(campaigns) \in Nat /\ Len(campaigns) <= Len(campaigns') /\ Len(campaigns') \in Nat
  BY CopyOfAdding, LenProperties DEF TablesInv, TablesTypeOK, LinkedTo, RowWritten
<1>1. n \in [id : 0..Len(campaigns), incidents : SUBSET DOMAIN linked] /\ \A j \in n.incidents \ raced : ListedBy(j) \subseteq {n.id}
  BY <1>0 DEF CopiesAgree
<1> HIDE DEF n
<1>2. n \in [id : 0..Len(campaigns'), incidents : SUBSET DOMAIN linked']
  BY <1>0, <1>1
<1>3. ASSUME NEW j \in n.incidents \ raced PROVE ListedBy(j)' \subseteq {n.id}
  <2>1. CASE n.id = c
    BY <1>1, <1>3, <2>1, WritingLists
  <2>2. CASE n.id # c
    <3>1. j \notin row.incidents
      BY <1>0, <1>3, <2>2
    <3> QED BY <1>1, <1>3, <3>1, WritingLists
  <2> QED BY <2>1, <2>2
<1> QED BY <1>0, <1>2, <1>3, RowGoesOn

-----------------------------------------------------------------------------
(* The steps *)

LEMMA InitTables == CampTableInit => TablesInv
<1> SUFFICES ASSUME CampTableInit PROVE TablesInv
  OBVIOUS
<1>1. /\ campaigns = <<>> /\ DOMAIN linked = Old /\ chained = linked /\ (\A i \in Old : linked[i] = Null)
      /\ cached = <<>> /\ underWay = {} /\ filing = <<>> /\ script = Off /\ scripts = 0
      /\ adding = Idle /\ attaching = Idle /\ missing = {}
  BY DEF CampTableInit
<1>2. campaigns \in Seq(CampaignRow) /\ DOMAIN campaigns = {} /\ DOMAIN cached = {} /\ DOMAIN filing = {} /\ Len(campaigns) = 0
  BY <1>1, EmptySeq
<1>3. TablesTypeOK
  BY <1>1, <1>2, TablesAssumption DEF TablesTypeOK
<1>4. RowsAgree /\ LinksAgree /\ ScriptSees /\ \A j : ListedBy(j) = {}
  BY <1>1, <1>2 DEF RowsAgree, LinksAgree, ScriptSees, Off, ListedBy
<1>5. \A k : k \in Copies <=> k = NoCopy
  BY <1>1, <1>2, NoCopyIs, WhereCopiesAre
<1>6. CopiesAgree
  <2>1. NoCopy \in [id : 0..Len(campaigns), incidents : SUBSET DOMAIN linked]
    BY <1>2 DEF NoCopy
  <2>2. Behind = {}
    BY <1>5, NoCopyIs DEF Behind
  <2> QED BY <1>4, <1>5, <2>1, <2>2, NoCopyIs DEF CopiesAgree
<1>7. EngineOK
  BY <1>1, <1>2 DEF EngineOK, Idle, NoCopy
<1>8. NoneIsListed
  BY <1>1, <1>2 DEF NoneIsListed, Off
<1> QED BY <1>3, <1>4, <1>6, <1>7, <1>8 DEF TablesInv

LEMMA Detecting ==
  ASSUME TablesInv, NEW i \in Incidents, Detect(i), missing' = missing \cup Behind'
  PROVE  TablesInv'
<1>1. /\ TablesTypeOK /\ RowsAgree /\ LinksAgree /\ CopiesAgree /\ EngineOK /\ NoneIsListed /\ ScriptSees
      /\ DOMAIN linked \subseteq Incidents /\ DOMAIN chained = DOMAIN linked /\ Len(campaigns) \in Nat /\ missing \subseteq missing'
  BY LenProperties DEF TablesInv, TablesTypeOK
<1>2. /\ i \notin DOMAIN linked /\ i \notin Simulated /\ underWay' = underWay \cup {i}
      /\ UNCHANGED <<campaigns, cached, adding, attaching, filing, script, scripts, missed, raced>>
      /\ DOMAIN linked' = DOMAIN linked \cup {i} /\ DOMAIN chained' = DOMAIN linked \cup {i}
      /\ \A j \in DOMAIN linked : linked'[j] = linked[j] /\ chained'[j] = chained[j]
      /\ linked'[i] = Null /\ chained'[i] = Null
  BY <1>1 DEF Detect, With, scriptVars
<1>3. Copies' = Copies /\ EngineOK' /\ adding.copy \in Copies
  BY <1>2, CopiesStay, CopyOfAdding
<1>4. \A j : ListedBy(j)' = ListedBy(j)
  BY <1>2 DEF ListedBy
<1>5. Nowhere(i)
  <2>1. ListedBy(i) = {}
    BY <1>1, <1>2 DEF RowsAgree, ListedBy
  <2>2. \A k \in Copies : k.incidents \subseteq DOMAIN linked
    BY <1>1 DEF CopiesAgree
  <2> QED BY <1>2, <2>1, <2>2, WhereCopiesAre DEF Nowhere
<1>6. TablesTypeOK'
  BY <1>1, <1>2 DEF TablesTypeOK
<1>7. RowsAgree'
  BY <1>1, <1>2 DEF RowsAgree
<1>8. LinksAgree'
  BY <1>1, <1>2, <1>4 DEF LinksAgree, Sound
<1>9. CopiesAgree'
  <2>1. adding.copy \in [id : 0..Len(campaigns'), incidents : SUBSET DOMAIN linked']
    <3>1. adding.copy \in [id : 0..Len(campaigns), incidents : SUBSET DOMAIN linked]
      BY <1>1, <1>3 DEF CopiesAgree
    <3> QED BY <1>2, <3>1
  <2>2. \A k \in Copies' : \A j \in k.incidents \ raced' : ListedBy(j)' \subseteq {k.id}
    BY <1>1, <1>2, <1>3, <1>4 DEF CopiesAgree
  <2>3. \A k \in Copies' : k.id # adding.copy.id => k.incidents \cap adding.copy.incidents \subseteq raced'
    BY <1>1, <1>2, <1>3 DEF CopiesAgree
  <2> QED BY <1>1, <1>2, <1>3, <2>1, <2>2, <2>3, CopiesLater
<1>10. NoneIsListed'
  <2>1. \A j : Nowhere(j) => Nowhere(j)'
    BY <1>3, <1>4, WhereCopiesAre DEF Nowhere
  <2> QED BY <1>1, <1>2, <1>5, <2>1 DEF NoneIsListed
<1>11. ScriptSees'
  BY <1>1, <1>2 DEF ScriptSees, TablesTypeOK
<1> QED BY <1>3, <1>6, <1>7, <1>8, <1>9, <1>10, <1>11 DEF TablesInv

\* What the engine loads: a copy it has, a row, or nothing.
Loadable(k) ==
  /\ k \in [id : 0..Len(campaigns), incidents : SUBSET DOMAIN linked]
  /\ \A j \in k.incidents \ raced : ListedBy(j) \subseteq {k.id} /\ ~Nowhere(j)
  /\ \A l \in Copies : k.id # l.id => k.incidents \cap l.incidents \subseteq raced
  /\ k = NoCopy \/ k.id # 0

LEMMA RowIsLoadable ==
  ASSUME TablesInv, NEW a
  PROVE  Loadable(RowCopy(a)) /\ Loadable(NoCopy)
<1>0. Len(campaigns) \in Nat /\ DOMAIN campaigns = 1..Len(campaigns)
  BY LenProperties DEF TablesInv, TablesTypeOK
<1>1. Loadable(NoCopy)
  <2>1. NoCopy \in [id : 0..Len(campaigns), incidents : SUBSET DOMAIN linked]
    BY <1>0 DEF NoCopy
  <2> QED BY <2>1, NoCopyIs DEF Loadable
<1>2. CASE ActiveOf(a) # {}
  <2>1. PICK c : c \in ActiveOf(a) /\ RowCopy(a) = [id |-> c, incidents |-> campaigns[c].incidents]
    BY <1>2 DEF RowCopy
  <2>2. c \in DOMAIN campaigns /\ campaigns[c].incidents \subseteq DOMAIN linked
    BY <2>1 DEF ActiveOf, TablesInv, RowsAgree
  <2>3. RowCopy(a) \in [id : 0..Len(campaigns), incidents : SUBSET DOMAIN linked] /\ RowCopy(a).id # 0
    BY <1>0, <2>1, <2>2
  <2>4. \A j \in campaigns[c].incidents : ~Nowhere(j)
    BY <2>2 DEF Nowhere, ListedBy
  <2>5. /\ \A k \in Copies : k.id # c => k.incidents \cap campaigns[c].incidents \subseteq raced
        /\ \A j \in campaigns[c].incidents \ raced : ListedBy(j) \subseteq {c}
    BY <2>2, OwnRow
  <2>6. RowCopy(a).id = c /\ RowCopy(a).incidents = campaigns[c].incidents
    BY <2>1
  <2> QED BY <1>1, <2>3, <2>4, <2>5, <2>6 DEF Loadable
<1>3. CASE ActiveOf(a) = {}
  BY <1>1, <1>3 DEF RowCopy
<1> QED BY <1>1, <1>2, <1>3

LEMMA LoadsAreLoadable ==
  ASSUME TablesInv, NEW a, NEW fails, NEW k \in Loads(a, fails)
  PROVE  Loadable(k)
<1>1. CASE k = RowCopy(a) \/ k = NoCopy
  BY <1>1, RowIsLoadable
<1>2. CASE a \in DOMAIN cached /\ k = cached[a]
  <2>1. k \in Copies /\ k.id # 0 /\ \A j \in k.incidents : ~Nowhere(j)
    BY <1>2, WhereCopiesAre DEF TablesInv, EngineOK, Nowhere
  <2> QED BY <2>1 DEF Loadable, TablesInv, CopiesAgree
<1> QED BY <1>1, <1>2 DEF Loads

\* The copy that was loaded, and one incident more that nobody else lists.
LEMMA MergingIn ==
  ASSUME TablesInv, UNCHANGED <<tableVars, cached, attaching, filing, scriptVars>>, missing' = missing \cup Behind',
         underWay' \subseteq underWay, NEW k, Loadable(k), NEW i \in DOMAIN linked, adding' = Merging(i, k),
         i \notin raced => /\ ListedBy(i) = {} /\ i \notin underWay' /\ i \notin UNION script.groups
                          /\ i \notin attaching.copy.incidents /\ \A a \in DOMAIN cached : i \notin cached[a].incidents
  PROVE  TablesInv'
<1> DEFINE n == [k EXCEPT !.incidents = k.incidents \cup {i}]
<1>0. /\ TablesTypeOK /\ EngineOK /\ CopiesAgree /\ Len(campaigns) \in Nat /\ i \in Incidents
      /\ k \in [id : 0..Len(campaigns), incidents : SUBSET DOMAIN linked] /\ DOMAIN linked \subseteq Incidents
  BY LenProperties DEF TablesInv, TablesTypeOK, Loadable
<1>1. /\ n.id = k.id /\ n.incidents = k.incidents \cup {i}
      /\ n \in [id : 0..Len(campaigns), incidents : SUBSET DOMAIN linked] /\ n \in [id : Nat, incidents : SUBSET Incidents]
  BY <1>0
<1>2. adding' = [at |-> "write", actor |-> EngineActorOf[i], inc |-> i, copy |-> n]
  BY DEF Merging
<1> HIDE DEF n
<1>3. adding'.copy = n /\ adding'.at = "write" /\ adding'.inc = i /\ adding'.actor = EngineActorOf[i]
  BY <1>2
<1>4. EngineOK'
  <2>1. adding' \in [at : {"idle", "write", "cache"}, actor : ActorsSeen \cup {Null}, inc : Incidents \cup {Null},
                     copy : [id : Nat, incidents : SUBSET Incidents]]
    <3>1. EngineActorOf[i] \in ActorsSeen
      BY <1>0 DEF ActorsSeen
    <3> QED BY <1>0, <1>1, <1>2, <3>1
  <2>2. n.id = 0 => n.incidents = {i}
    BY <1>1, NoCopyIs DEF Loadable
  <2>3. attaching' = Idle \/ attaching'.copy.id # 0
    BY <1>0 DEF EngineOK
  <2>4. \A a \in DOMAIN cached' : cached'[a].id # 0
    BY <1>0 DEF EngineOK
  <2> QED BY <1>0, <1>3, <2>1, <2>2, <2>3, <2>4 DEF EngineOK
<1>5. \A l \in Copies' : l = n \/ (l \in Copies /\ (l = attaching.copy \/ \E a \in DOMAIN cached : l = cached[a]))
  BY <1>3, WhereCopiesAre
<1>6. ASSUME NEW l \in Copies', l.id # n.id PROVE l.incidents \cap n.incidents \subseteq raced
  <2>1. l \in Copies /\ (l = attaching.copy \/ \E a \in DOMAIN cached : l = cached[a])
    BY <1>5, <1>6
  <2>2. l.incidents \cap k.incidents \subseteq raced
    BY <1>1, <1>6, <2>1 DEF Loadable
  <2>3. i \in raced \/ i \notin l.incidents
    BY <2>1
  <2> QED BY <1>1, <2>2, <2>3
<1>7. ASSUME NEW j \in n.incidents \ raced PROVE ListedBy(j) \subseteq {n.id} /\ j \notin underWay' /\ j \notin UNION script.groups
  <2>1. CASE j = i
    BY <1>7, <2>1
  <2>2. CASE j \in k.incidents
    <3>1. ListedBy(j) \subseteq {k.id} /\ ~Nowhere(j)
      BY <1>7, <2>2 DEF Loadable
    <3> QED BY <1>1, <1>7, <3>1, SomewhereIsNotNew
  <2> QED BY <1>1, <2>1, <2>2
<1> QED BY <1>1, <1>4, <1>5, <1>6, <1>7, EngineGoesOn

LEMMA AggregateLoading ==
  ASSUME TablesInv, NEW i \in Incidents, NEW fails, AggregateLoad(i, fails), missing' = missing \cup Behind'
  PROVE  TablesInv'
<1>0. EngineOK /\ NoneIsListed
  BY DEF TablesInv
<1>1. /\ i \in underWay /\ adding = Idle /\ underWay' = underWay \ {i}
      /\ UNCHANGED <<tableVars, cached, attaching, filing, scriptVars>>
      /\ IF EngineActorOf[i] = Null THEN adding' = Idle
         ELSE \E copy \in Loads(EngineActorOf[i], fails) : adding' = Merging(i, copy)
  BY DEF AggregateLoad
<1>2. CASE EngineActorOf[i] = Null
  <2>1. adding' = adding /\ UNCHANGED <<cached, attaching>>
    BY <1>1, <1>2
  <2> QED BY <1>1, <2>1, CopiesStay, CopiesGo
<1>3. CASE EngineActorOf[i] # Null
  <2>1. PICK k \in Loads(EngineActorOf[i], fails) : adding' = Merging(i, k)
    BY <1>1, <1>3
  <2>2. Loadable(k)
    BY LoadsAreLoadable
  <2>3. i \in DOMAIN linked /\ (i \notin raced => Nowhere(i) /\ i \notin UNION script.groups)
    BY <1>0, <1>1 DEF NoneIsListed
  <2>4. i \notin raced => /\ ListedBy(i) = {} /\ i \notin underWay' /\ i \notin UNION script.groups
                         /\ i \notin attaching.copy.incidents /\ \A a \in DOMAIN cached : i \notin cached[a].incidents
    BY <1>1, <2>3, WhereCopiesAre DEF Nowhere
  <2> QED BY <1>1, <2>1, <2>2, <2>3, <2>4, MergingIn
<1> QED BY <1>2, <1>3

\* The copy without a number lists one incident, which is nowhere else.
LEMMA FirstOfCampaign ==
  ASSUME TablesInv, adding.at = "write", adding.copy.id = 0
  PROVE  /\ adding.inc \in DOMAIN linked /\ adding.inc \in Incidents /\ adding.copy.incidents = {adding.inc}
         /\ adding.inc \notin raced => /\ ListedBy(adding.inc) = {}
                                      /\ adding.inc \notin underWay /\ adding.inc \notin UNION script.groups
                                      /\ adding.inc \notin attaching.copy.incidents
                                      /\ \A a \in DOMAIN cached : adding.inc \notin cached[a].incidents
<1>0. /\ EngineOK /\ CopiesAgree /\ adding.copy \in Copies /\ attaching.copy \in Copies
      /\ \A a \in DOMAIN cached : cached[a] \in Copies
      /\ DOMAIN campaigns = 1..Len(campaigns) /\ Len(campaigns) \in Nat
  BY WhereCopiesAre, LenProperties DEF TablesInv, TablesTypeOK
<1>1. adding.copy.incidents = {adding.inc} /\ adding.inc \in Incidents
  BY <1>0 DEF EngineOK
<1>2. adding.inc \in DOMAIN linked
  BY <1>0, <1>1 DEF CopiesAgree
<1> SUFFICES ASSUME adding.inc \notin raced
             PROVE  /\ ListedBy(adding.inc) = {}
                    /\ adding.inc \notin underWay /\ adding.inc \notin UNION script.groups
                    /\ adding.inc \notin attaching.copy.incidents
                    /\ \A a \in DOMAIN cached : adding.inc \notin cached[a].incidents
  BY <1>1, <1>2
<1>3. ListedBy(adding.inc) = {}
  <2>1. ListedBy(adding.inc) \subseteq {0}
    BY <1>0, <1>1 DEF CopiesAgree
  <2> QED BY <1>0, <2>1 DEF ListedBy
<1>4. ~Nowhere(adding.inc)
  BY <1>0, <1>1, WhereCopiesAre DEF Nowhere
<1>5. \A l \in Copies : l.id # 0 => adding.inc \notin l.incidents
  BY <1>0, <1>1 DEF CopiesAgree
<1>6. attaching.copy.id # 0 \/ attaching.copy.incidents = {}
  BY <1>0, NoCopyIs DEF EngineOK
<1> QED BY <1>0, <1>3, <1>4, <1>5, <1>6, SomewhereIsNotNew DEF EngineOK

LEMMA AggregateBeingRefused ==
  ASSUME TablesInv, NEW fails, AggregateRefused(fails), missing' = missing \cup Behind'
  PROVE  TablesInv'
<1>0. EngineOK
  BY DEF TablesInv
<1>1. /\ adding.at = "write" /\ adding.copy.id = 0 /\ underWay' = underWay
      /\ UNCHANGED <<tableVars, cached, attaching, filing, scriptVars>>
  BY DEF AggregateRefused
<1>2. PICK k \in Loads(adding.actor, fails) : adding' = IF k = NoCopy THEN Idle ELSE Merging(adding.inc, k)
  BY DEF AggregateRefused
<1>3. CASE k = NoCopy
  <2>1. adding' = Idle
    BY <1>2, <1>3
  <2>2. EngineOK'
    BY <1>0, <1>1, <2>1 DEF EngineOK, Idle, NoCopy
  <2>3. \A l \in Copies' : l \in Copies \/ l = NoCopy
    BY <1>1, <2>1, NoCopyIs, WhereCopiesAre
  <2> QED BY <1>1, <2>2, <2>3, CopiesGo
<1>4. CASE k # NoCopy
  <2>1. adding' = Merging(adding.inc, k) /\ Loadable(k)
    BY <1>2, <1>4, LoadsAreLoadable
  <2>2. PICK i : i = adding.inc
    OBVIOUS
  <2>3. /\ i \in DOMAIN linked
        /\ i \notin raced => /\ ListedBy(i) = {} /\ i \notin underWay' /\ i \notin UNION script.groups
                            /\ i \notin attaching.copy.incidents /\ \A a \in DOMAIN cached : i \notin cached[a].incidents
    BY <1>1, <2>2, FirstOfCampaign
  <2> QED BY <1>1, <2>1, <2>2, <2>3, MergingIn
<1> QED BY <1>3, <1>4

\* Its links never vanish: what the script has to link stays the same.
LEMMA ScriptKeepsSeeing ==
  ASSUME TablesInv, UNCHANGED <<script, scripts, missed>>,
         \A i \in DOMAIN linked : linked'[i] = Null => linked[i] = Null
  PROVE  ScriptSees'
  BY DEF TablesInv, TablesTypeOK, ScriptSees

LEMMA PutIs ==
  ASSUME NEW links, NEW some, NEW c
  PROVE  /\ DOMAIN Put(links, some, c) = DOMAIN links
         /\ \A i \in DOMAIN links : Put(links, some, c)[i] = IF i \in some THEN c ELSE links[i]
  BY DEF Put

LEMMA AggregateUpdating ==
  ASSUME TablesInv, NEW fails \in BOOLEAN, AggregateUpdate(fails), missing' = missing \cup Behind'
  PROVE  TablesInv'
<1> DEFINE c == adding.copy.id
           all == adding.copy.incidents
           old == campaigns[c]
           row == IF old.stored THEN [old EXCEPT !.incidents = all, !.count = Cardinality(all)] ELSE old
<1>0. /\ TablesTypeOK /\ RowsAgree /\ EngineOK /\ CopiesAgree /\ adding.copy \in Copies /\ all \subseteq InCopies
      /\ DOMAIN campaigns = 1..Len(campaigns) /\ Len(campaigns) \in Nat /\ campaigns \in Seq(CampaignRow)
      /\ DOMAIN linked \subseteq Incidents /\ DOMAIN chained = DOMAIN linked /\ Null \notin Nat
  BY CopyOfAdding, LenProperties, TablesAssumption DEF TablesInv, TablesTypeOK
<1>1. /\ adding.at = "write" /\ c # 0 /\ adding' = [adding EXCEPT !.at = "cache"]
      /\ UNCHANGED <<cached, underWay, attaching, filing, script, scripts, missed, raced>>
      /\ IF fails THEN UNCHANGED tableVars
         ELSE /\ campaigns' = IF old.stored THEN [campaigns EXCEPT ![c] = row] ELSE campaigns
              /\ linked' = Put(linked, all, c) /\ chained' = Put(chained, all, c)
  BY DEF AggregateUpdate, scriptVars
<1>2. /\ adding'.copy = adding.copy /\ adding'.at = "cache" /\ adding'.inc = adding.inc /\ adding'.actor = adding.actor
      /\ adding' \in [at : {"idle", "write", "cache"}, actor : ActorsSeen \cup {Null}, inc : Incidents \cup {Null},
                     copy : [id : Nat, incidents : SUBSET Incidents]]
  BY <1>0, <1>1 DEF EngineOK
<1>3. EngineOK'
  BY <1>0, <1>1, <1>2 DEF EngineOK
<1>4. Copies' = Copies
  BY <1>1, <1>2 DEF Copies
<1>5. CASE fails
  <2>1. UNCHANGED <<tableVars, filing, scriptVars>> /\ underWay' \subseteq underWay
    BY <1>1, <1>5 DEF scriptVars
  <2> QED BY <1>3, <1>4, <2>1, CopiesGo
<1>6. CASE ~fails
  <2>1. adding.copy \in [id : 0..Len(campaigns), incidents : SUBSET DOMAIN linked]
    BY <1>0 DEF CopiesAgree
  <2>2. c \in DOMAIN campaigns /\ c \in Nat /\ c # Null /\ all \subseteq DOMAIN linked /\ all \subseteq Incidents
    BY <1>0, <1>1, <2>1
  <2>3. old \in CampaignRow
    BY <1>0, <2>2, ElementOfSeq
  <2>4. Cardinality(all) \in Nat
    BY <2>2, TablesAssumption, FS_Subset, FS_CardinalityType
  <2>5. /\ row \in CampaignRow /\ row.stored = old.stored
        /\ old.stored => row.incidents = all /\ row.count = Cardinality(all)
        /\ ~old.stored => row = old /\ row.incidents = {} /\ ~row.active /\ row.count = Cardinality({})
    <3>1. CASE old.stored
      BY <2>2, <2>3, <2>4, <3>1 DEF CampaignRow
    <3>2. CASE ~old.stored
      BY <1>0, <2>2, <2>3, <3>2 DEF RowsAgree
    <3> QED BY <3>1, <3>2
  <2>6. campaigns' = IF old.stored THEN [campaigns EXCEPT ![c] = row] ELSE campaigns
    BY <1>1, <1>6
  <2>7. \A j \in all \ raced : ListedBy(j) \subseteq {c} /\ ~Nowhere(j) /\ j \notin underWay /\ j \notin UNION script.groups
    <3>1. \A j \in all \ raced : ListedBy(j) \subseteq {c} /\ ~Nowhere(j)
      BY <1>0 DEF CopiesAgree, Nowhere
    <3> QED BY <3>1, SomewhereIsNotNew
  <2>8. \A k \in Copies : k.id # c => k.incidents \cap all \subseteq raced
    BY <1>0 DEF CopiesAgree
  <2>9. old.incidents \ all \subseteq missing
    <3>1. Behind \subseteq missing
      BY <1>0 DEF CopiesAgree
    <3> QED BY <1>0, <1>1, <3>1 DEF Behind
  <2>10. \A i \in DOMAIN linked : /\ linked'[i] = (IF i \in all THEN c ELSE linked[i])
                                  /\ chained'[i] = (IF i \in all THEN c ELSE chained[i])
    BY <1>0, <1>1, <1>6, PutIs
  <2>11. DOMAIN linked' = DOMAIN linked /\ DOMAIN chained' = DOMAIN linked
    BY <1>0, <1>1, <1>6, PutIs
  <2> HIDE DEF c, all, old, row
  <2>12. RowWritten(c, row)
    <3>1. CASE old.stored
      BY <1>0, <2>2, <2>5, <2>6, <3>1, Rewriting
    <3>2. CASE ~old.stored
      BY <1>0, <2>2, <2>5, <2>6, <3>2 DEF RowWritten, old
    <3> QED BY <3>1, <3>2
  <2>13. RowSound(c, row)
    BY <2>5, <2>7, <2>9 DEF RowSound, old
  <2>14. row.incidents \subseteq all
    BY <2>5
  <2>15. \A i \in all : i \in row.incidents \/ ~row.stored
    BY <2>5
  <2>16. LinkedTo(c, row, linked, linked') /\ LinkedTo(c, row, chained, chained')
    BY <1>0, <2>2, <2>10, <2>11, <2>14, <2>15 DEF LinkedTo
  <2>17. ScriptSees'
    BY <1>1, <2>2, <2>10, ScriptKeepsSeeing
  <2>18. DOMAIN filing' \cap DOMAIN linked' = {}
    BY <1>1, <2>11 DEF TablesInv, NoneIsListed
  <2>19. underWay \cap row.incidents \subseteq raced /\ (UNION script'.groups) \cap row.incidents \subseteq raced
    BY <1>1, <2>7, <2>14
  <2>20. \A k \in Copies : k.id # c => k.incidents \cap row.incidents \subseteq raced
    BY <2>8, <2>14
  <2> QED BY <1>0, <1>1, <1>3, <1>4, <2>2, <2>11, <2>12, <2>13, <2>16, <2>17, <2>18, <2>19, <2>20, RowAlone
<1> QED BY <1>5, <1>6

LEMMA AggregateInserting ==
  ASSUME TablesInv, NEW fails \in BOOLEAN, AggregateInsert(fails), missing' = missing \cup Behind'
  PROVE  TablesInv'
<1> DEFINE c == Len(campaigns) + 1
           all == adding.copy.incidents
           row == IF fails THEN Unstored(adding.actor) ELSE RowOf(adding.actor, all)
           n == [adding.copy EXCEPT !.id = c]
<1>0. /\ TablesTypeOK /\ RowsAgree /\ EngineOK /\ CopiesAgree /\ adding.copy \in Copies /\ all \subseteq InCopies
      /\ DOMAIN campaigns = 1..Len(campaigns) /\ Len(campaigns) \in Nat /\ campaigns \in Seq(CampaignRow)
      /\ DOMAIN linked \subseteq Incidents /\ DOMAIN chained = DOMAIN linked /\ Null \notin Nat
  BY CopyOfAdding, LenProperties, TablesAssumption DEF TablesInv, TablesTypeOK
<1>1. /\ adding.at = "write" /\ adding.copy.id = 0
      /\ UNCHANGED <<cached, underWay, attaching, filing, script, scripts, missed, raced>>
      /\ campaigns' = Append(campaigns, row)
      /\ linked' = (IF fails THEN linked ELSE Put(linked, all, c))
      /\ chained' = (IF fails THEN chained ELSE Put(chained, all, c))
      /\ adding' = [adding EXCEPT !.at = "cache", !.copy.id = c]
  BY DEF AggregateInsert, scriptVars
<1>2. /\ all = {adding.inc} /\ adding.inc \in Incidents /\ adding.inc \in DOMAIN linked
      /\ adding.inc \notin raced => ListedBy(adding.inc) = {} /\ adding.inc \notin underWay
                                  /\ adding.inc \notin UNION script.groups
                                  /\ adding.inc \notin attaching.copy.incidents
                                  /\ \A a \in DOMAIN cached : adding.inc \notin cached[a].incidents
  BY <1>1, FirstOfCampaign
<1>3. adding.actor \in ActorsSeen
  BY <1>0, <1>1 DEF EngineOK, ActorsSeen
<1>4. Cardinality(all) \in Nat
  BY <1>2, TablesAssumption, FS_Subset, FS_CardinalityType
<1>5. /\ row \in CampaignRow /\ row.count = Cardinality(row.incidents) /\ row.stored = ~fails
      /\ ~fails => row.incidents = all
      /\ fails => row.incidents = {} /\ ~row.active
  <2>1. CASE fails
    BY <1>3, <2>1, FS_EmptySet DEF Unstored, CampaignRow
  <2>2. CASE ~fails
    BY <1>2, <1>3, <1>4, <2>2 DEF RowOf, CampaignRow
  <2> QED BY <2>1, <2>2
<1>6. c \in Nat /\ c # Null /\ c # 0 /\ c \notin DOMAIN campaigns /\ RowWritten(c, row)
  <2> HIDE DEF row
  <2> QED BY <1>0, <1>1, <1>5, Adding
<1>7. adding.copy \in [id : Nat, incidents : SUBSET Incidents]
  BY <1>0 DEF EngineOK
<1>8. n.id = c /\ n.incidents = all /\ n \in [id : Nat, incidents : SUBSET Incidents]
  BY <1>0, <1>7
<1>9. adding' = [adding EXCEPT !.at = "cache", !.copy = n]
  BY <1>1
<1> HIDE DEF n, c, row
<1>10. /\ adding'.copy = n /\ adding'.at = "cache" /\ adding'.inc = adding.inc /\ adding'.actor = adding.actor
       /\ adding' \in [at : {"idle", "write", "cache"}, actor : ActorsSeen \cup {Null}, inc : Incidents \cup {Null},
                       copy : [id : Nat, incidents : SUBSET Incidents]]
  BY <1>0, <1>8, <1>9 DEF EngineOK
<1>11. EngineOK'
  BY <1>0, <1>1, <1>6, <1>8, <1>10 DEF EngineOK
<1>12. \A l \in Copies' : l = n \/ (l \in Copies /\ (l = attaching.copy \/ \E a \in DOMAIN cached : l = cached[a]))
  BY <1>1, <1>10, WhereCopiesAre
<1>13. ASSUME NEW l \in Copies', l # n PROVE l.incidents \cap all \subseteq raced
  BY <1>2, <1>12, <1>13
<1>14. /\ DOMAIN linked' = DOMAIN linked /\ DOMAIN chained' = DOMAIN linked
       /\ fails => linked' = linked /\ chained' = chained
       /\ ~fails => \A i \in DOMAIN linked : /\ linked'[i] = (IF i \in all THEN c ELSE linked[i])
                                             /\ chained'[i] = (IF i \in all THEN c ELSE chained[i])
  BY <1>0, <1>1, PutIs
<1>15. n \in [id : 0..Len(campaigns'), incidents : SUBSET DOMAIN linked']
  BY <1>2, <1>6, <1>7, <1>8, <1>14 DEF RowWritten, n
<1>16. \A j \in n.incidents \ raced : ListedBy(j)' \subseteq {n.id}
  <2>1. \A j \in all \ raced : ListedBy(j) = {}
    BY <1>2
  <2>2. \A j : ListedBy(j)' \subseteq ListedBy(j) \cup {c}
    BY <1>6, WritingLists
  <2> QED BY <1>8, <2>1, <2>2
<1>17. row.incidents \subseteq all
  BY <1>5
<1>18. RowSound(c, row)
  BY <1>2, <1>5, <1>6, <1>17 DEF RowSound
<1>19. LinkedTo(c, row, linked, linked') /\ LinkedTo(c, row, chained, chained')
  <2>1. row.incidents \subseteq DOMAIN linked
    BY <1>2, <1>17
  <2>2. CASE fails
    BY <1>0, <1>5, <1>14, <2>1, <2>2 DEF LinkedTo
  <2>3. CASE ~fails
    BY <1>0, <1>5, <1>14, <2>1, <2>3 DEF LinkedTo
  <2> QED BY <2>2, <2>3
<1>20. ScriptSees'
  BY <1>1, <1>6, <1>14, ScriptKeepsSeeing
<1>21. DOMAIN filing' \cap DOMAIN linked' = {}
  BY <1>1, <1>14 DEF TablesInv, NoneIsListed
<1>22. underWay \cap row.incidents \subseteq raced /\ (UNION script'.groups) \cap row.incidents \subseteq raced
  BY <1>1, <1>2, <1>17
<1>23. /\ \A k \in Copies' : k \in Copies \/ k = n
       /\ \A k \in Copies' : k.id # n.id => k.incidents \cap n.incidents \subseteq raced
       /\ \A k \in Copies' : k.id # c => k.incidents \cap row.incidents \subseteq raced
  BY <1>8, <1>12, <1>13, <1>17
<1>24. DOMAIN linked' \subseteq Incidents /\ n.incidents \subseteq InCopies /\ underWay' = underWay /\ raced' = raced
  BY <1>0, <1>1, <1>8, <1>14
<1>25. \A i \in DOMAIN filing' : i \in DOMAIN filing /\ filing'[i] = filing[i]
  BY <1>1
<1>26. script'.groups \subseteq script.groups
  BY <1>1
<1> QED BY <1>6, <1>11, <1>14, <1>15, <1>16, <1>18, <1>19, <1>20, <1>21, <1>22, <1>23, <1>24, <1>25, <1>26, RowGoesOn

LEMMA AggregateRaising ==
  ASSUME TablesInv, AggregateRaises, missing' = missing \cup Behind'
  PROVE  TablesInv'
<1>1. adding' = Idle /\ underWay' = underWay /\ UNCHANGED <<tableVars, cached, attaching, filing, scriptVars>>
  BY DEF AggregateRaises
<1>2. EngineOK'
  BY <1>1 DEF TablesInv, EngineOK, Idle, NoCopy
<1>3. \A l \in Copies' : l \in Copies \/ l = NoCopy
  BY <1>1, NoCopyIs, WhereCopiesAre
<1> QED BY <1>1, <1>2, <1>3, CopiesGo

LEMMA AggregateCaching ==
  ASSUME TablesInv, NEW fails, AggregateCache(fails), missing' = missing \cup Behind'
  PROVE  TablesInv'
<1>0. EngineOK
  BY DEF TablesInv
<1>1. /\ adding.at = "cache" /\ adding' = Idle /\ underWay' = underWay
      /\ cached' = (IF fails THEN cached ELSE With(cached, adding.actor, adding.copy))
      /\ UNCHANGED <<tableVars, attaching, filing, scriptVars>>
  BY DEF AggregateCache
<1>2. \A a \in DOMAIN cached' : (a \in DOMAIN cached /\ cached'[a] = cached[a]) \/ cached'[a] = adding.copy
  BY <1>1 DEF With
<1>3. EngineOK'
  <2>1. adding.copy.id # 0
    BY <1>0, <1>1 DEF EngineOK
  <2>2. \A a \in DOMAIN cached' : cached'[a].id # 0
    BY <1>0, <1>2, <2>1 DEF EngineOK
  <2> QED BY <1>0, <1>1, <2>2 DEF EngineOK, Idle, NoCopy
<1>4. \A l \in Copies' : l \in Copies \/ l = NoCopy
  BY <1>1, <1>2, NoCopyIs, WhereCopiesAre
<1> QED BY <1>1, <1>3, <1>4, CopiesGo

LEMMA AttachLoading ==
  ASSUME TablesInv, NEW a, AttachLoad(a), missing' = missing \cup Behind'
  PROVE  TablesInv'
<1>0. EngineOK
  BY DEF TablesInv
<1>1. underWay' = underWay /\ UNCHANGED <<tableVars, cached, adding, filing, scriptVars>>
  BY DEF AttachLoad
<1> DEFINE Holding(k) == [Idle EXCEPT !.at = "cache", !.actor = a, !.copy = k]
<1>2. \E k \in Loads(a, FALSE) \ {NoCopy} : attaching' = Holding(k)
  BY Zenon DEF AttachLoad
<1>a. \A k : Holding(k).copy = k
  BY DEF Idle
<1> HIDE DEF Holding
<1>b. PICK k \in Loads(a, FALSE) \ {NoCopy} : attaching' = Holding(k)
  BY <1>2
<1>3. Loadable(k) /\ k.id # 0 /\ attaching'.copy = k
  BY <1>a, <1>b, LoadsAreLoadable DEF Loadable
<1>4. EngineOK'
  BY <1>0, <1>1, <1>3 DEF EngineOK
<1>5. \A l \in Copies' : l \in Copies \/ l = k
  BY <1>1, <1>3, WhereCopiesAre
<1>6. \A l \in Copies' : l.id # k.id => l.incidents \cap k.incidents \subseteq raced
  BY <1>3, <1>5 DEF Loadable
<1>7. \A j \in k.incidents \ raced : ListedBy(j) \subseteq {k.id} /\ j \notin underWay' /\ j \notin UNION script.groups
  BY <1>1, <1>3, SomewhereIsNotNew DEF Loadable
<1>8. k \in [id : 0..Len(campaigns), incidents : SUBSET DOMAIN linked]
  BY <1>3 DEF Loadable
<1> QED BY <1>1, <1>4, <1>5, <1>6, <1>7, <1>8, EngineGoesOn

LEMMA AttachCaching ==
  ASSUME TablesInv, AttachCache, missing' = missing \cup Behind'
  PROVE  TablesInv'
<1>0. EngineOK
  BY DEF TablesInv
<1>1. /\ attaching # Idle /\ attaching' = Idle /\ underWay' = underWay
      /\ cached' = With(cached, attaching.actor, attaching.copy)
      /\ UNCHANGED <<tableVars, adding, filing, scriptVars>>
  BY DEF AttachCache
<1>2. \A a \in DOMAIN cached' : (a \in DOMAIN cached /\ cached'[a] = cached[a]) \/ cached'[a] = attaching.copy
  BY <1>1 DEF With
<1>3. EngineOK'
  BY <1>0, <1>1, <1>2 DEF EngineOK
<1>4. \A l \in Copies' : l \in Copies \/ l = NoCopy
  BY <1>1, <1>2, NoCopyIs, WhereCopiesAre
<1> QED BY <1>1, <1>3, <1>4, CopiesGo

LEMMA Evicting ==
  ASSUME TablesInv, NEW a, Evict(a), missing' = missing \cup Behind'
  PROVE  TablesInv'
<1>1. /\ \A b \in DOMAIN cached' : b \in DOMAIN cached /\ cached'[b] = cached[b]
      /\ underWay' = underWay /\ UNCHANGED <<tableVars, adding, attaching, filing, scriptVars>>
  BY DEF Evict, Without
<1>2. EngineOK'
  BY <1>1 DEF TablesInv, EngineOK
<1>3. \A l \in Copies' : l \in Copies \/ l = NoCopy
  BY <1>1, WhereCopiesAre
<1> QED BY <1>1, <1>2, <1>3, CopiesGo

LEMMA EngineStopping ==
  ASSUME TablesInv, EngineStops, missing' = missing \cup Behind'
  PROVE  TablesInv'
<1>1. /\ adding' = Idle /\ attaching' = Idle /\ underWay' \subseteq underWay
      /\ UNCHANGED <<tableVars, cached, filing, scriptVars>>
  BY DEF EngineStops
<1>2. EngineOK'
  BY <1>1 DEF TablesInv, EngineOK, Idle, NoCopy
<1>3. \A l \in Copies' : l \in Copies \/ l = NoCopy
  BY <1>1, NoCopyIs, WhereCopiesAre
<1> QED BY <1>1, <1>2, <1>3, CopiesGo

LEMMA Sweeping ==
  ASSUME TablesInv, NEW c, Sweep(c), missing' = missing \cup Behind'
  PROVE  TablesInv'
<1> DEFINE old == campaigns[c]
           row == [old EXCEPT !.active = FALSE]
<1>0. /\ TablesTypeOK /\ RowsAgree /\ campaigns \in Seq(CampaignRow) /\ DOMAIN campaigns = 1..Len(campaigns)
      /\ Len(campaigns) \in Nat /\ DOMAIN linked \subseteq Incidents /\ DOMAIN chained = DOMAIN linked /\ Null \notin Nat
  BY LenProperties, TablesAssumption DEF TablesInv, TablesTypeOK
<1>1. /\ c \in DOMAIN campaigns /\ campaigns' = [campaigns EXCEPT ![c] = row]
      /\ UNCHANGED <<linked, chained, cached, adding, attaching, underWay, filing, script, scripts, missed, raced>>
  BY <1>0 DEF Sweep, engineVars, scriptVars
<1>2. old \in CampaignRow
  BY <1>0, <1>1, ElementOfSeq
<1>3. /\ row \in CampaignRow /\ row.incidents = old.incidents /\ row.count = old.count /\ row.stored = old.stored /\ ~row.active
  BY <1>2 DEF CampaignRow
<1>4. /\ old.incidents \subseteq DOMAIN linked /\ old.count = Cardinality(old.incidents) /\ (~old.stored => old.incidents = {})
      /\ \A i \in old.incidents : linked[i] # Null /\ chained[i] # Null
  BY <1>0, <1>1 DEF RowsAgree
<1>5. /\ underWay \cap old.incidents \subseteq raced /\ (UNION script.groups) \cap old.incidents \subseteq raced
      /\ \A k \in Copies : k.id # c => k.incidents \cap old.incidents \subseteq raced
      /\ \A j \in old.incidents \ raced : ListedBy(j) \subseteq {c}
  BY <1>1, OwnRow
<1> HIDE DEF row
<1>6. RowWritten(c, row) /\ c # Null
  <2>1. RowWritten(c, row)
    BY <1>0, <1>1, <1>3, Rewriting
  <2>2. c # Null
    BY <1>0, <1>1
  <2> QED BY <2>1, <2>2
<1>7. RowSound(c, row)
  BY <1>3, <1>4, <1>5 DEF RowSound
<1>8. LinkedTo(c, row, linked, linked') /\ LinkedTo(c, row, chained, chained')
  BY <1>0, <1>1, <1>3, <1>4 DEF LinkedTo
<1>9. ScriptSees' /\ Copies' = Copies /\ EngineOK'
  BY <1>1, ScriptKeepsSeeing, CopiesStay
<1>10. DOMAIN filing' \cap DOMAIN linked' = {}
  BY <1>1 DEF TablesInv, NoneIsListed
<1>11. underWay \cap row.incidents \subseteq raced /\ (UNION script'.groups) \cap row.incidents \subseteq raced
  BY <1>1, <1>3, <1>5
<1> QED BY <1>0, <1>1, <1>3, <1>5, <1>6, <1>7, <1>8, <1>9, <1>10, <1>11, RowAlone

\* The simulator remembers, or forgets, a campaign.
LEMMA FilingChanges ==
  ASSUME TablesInv, UNCHANGED <<tableVars, engineVars, scriptVars>>, missing' = missing \cup Behind',
         \A i \in DOMAIN filing' : \/ i \in DOMAIN filing /\ filing'[i] = filing[i]
                                   \/ /\ i \in (Incidents \cap Simulated) \ DOMAIN linked
                                      /\ filing'[i] = Null \/ (filing'[i] \in DOMAIN campaigns /\ campaigns[filing'[i]].stored)
  PROVE  TablesInv'
<1>0. /\ TablesTypeOK /\ RowsAgree /\ LinksAgree /\ CopiesAgree /\ NoneIsListed /\ ScriptSees
      /\ UNCHANGED <<linked, chained, campaigns, cached, adding, attaching, underWay, script, scripts, missed, raced>>
      /\ Len(campaigns) \in Nat /\ missing \subseteq missing'
  BY LenProperties DEF TablesInv, TablesTypeOK, tableVars, engineVars, scriptVars
<1>1. \A j : ListedBy(j)' = ListedBy(j)
  BY <1>0 DEF ListedBy
<1>2. Copies' = Copies /\ EngineOK' /\ Behind' = Behind /\ InCopies' = InCopies
  BY <1>0, CopiesStay DEF Behind, Copies, InCopies
<1>3. TablesTypeOK' /\ RowsAgree' /\ ScriptSees'
  BY <1>0 DEF TablesTypeOK, RowsAgree, ScriptSees
<1>4. LinksAgree'
  BY <1>0 DEF LinksAgree, Sound, ListedBy
<1>5. CopiesAgree'
  <2>1. Behind' \subseteq missing'
    OBVIOUS
  <2> QED BY <1>0, <1>1, <1>2, <2>1 DEF CopiesAgree
<1>6. NoneIsListed'
  <2>1. \A j : Nowhere(j) => Nowhere(j)'
    BY <1>1, <1>2 DEF Nowhere
  <2>2. DOMAIN filing' \cap DOMAIN linked' = {}
    BY <1>0 DEF NoneIsListed
  <2>3. underWay' \cap {} \subseteq raced /\ (UNION script'.groups) \cap {} \subseteq raced
    OBVIOUS
  <2>4. \A j : j \notin {} /\ Nowhere(j) => Nowhere(j)'
    BY <2>1
  <2> QED BY <1>0, <2>2, <2>3, <2>4, NoneIsListedLater
<1> QED BY <1>2, <1>3, <1>4, <1>5, <1>6 DEF TablesInv

LEMMA LookingUp ==
  ASSUME TablesInv, NEW i \in Incidents, LookUp(i), missing' = missing \cup Behind'
  PROVE  TablesInv'
<1>1. PICK c : c \in (IF ActiveOf(ActorOf[i]) = {} THEN {Null} ELSE ActiveOf(ActorOf[i])) /\ filing' = With(filing, i, c)
  BY DEF LookUp
<1>2. c = Null \/ (c \in DOMAIN campaigns /\ campaigns[c].stored)
  BY <1>1 DEF ActiveOf, TablesInv, RowsAgree
<1>3. i \in Simulated \ DOMAIN linked /\ UNCHANGED <<tableVars, engineVars, scriptVars>>
  BY DEF LookUp
<1>4. \A j \in DOMAIN filing' : (j \in DOMAIN filing /\ filing'[j] = filing[j]) \/ (j = i /\ filing'[j] = c)
  BY <1>1 DEF With
<1> QED BY <1>2, <1>3, <1>4, FilingChanges

LEMMA FilingASimulated ==
  ASSUME TablesInv, NEW i \in Incidents, FileSimulated(i), missing' = missing \cup Behind'
  PROVE  TablesInv'
<1> DEFINE new == RowOf(ActorOf[i], {i})
           c == IF filing[i] = Null THEN Len(campaigns) + 1 ELSE filing[i]
           old == campaigns[c]
           row == IF filing[i] = Null THEN new
                  ELSE [old EXCEPT !.incidents = old.incidents \cup {i}, !.count = old.count + 1]
<1>1. /\ TablesTypeOK /\ RowsAgree /\ CopiesAgree /\ NoneIsListed
      /\ campaigns \in Seq(CampaignRow) /\ Len(campaigns) \in Nat /\ DOMAIN campaigns = 1..Len(campaigns)
      /\ DOMAIN chained = DOMAIN linked /\ DOMAIN linked \subseteq Incidents /\ Null \notin Nat
  BY LenProperties, TablesAssumption DEF TablesInv, TablesTypeOK
<1>2. /\ i \in DOMAIN filing /\ filing' = Without(filing, i)
      /\ UNCHANGED <<cached, adding, attaching, underWay, script, scripts, missed, raced>>
  BY DEF FileSimulated, engineVars, scriptVars
<1>3. /\ i \in Simulated /\ i \notin DOMAIN linked
      /\ filing[i] # Null => filing[i] \in DOMAIN campaigns /\ campaigns[filing[i]].stored
      /\ \A j \in DOMAIN filing' : j \in DOMAIN filing /\ filing'[j] = filing[j] /\ j # i
  BY <1>1, <1>2 DEF NoneIsListed, Without
<1>4. CASE UNCHANGED tableVars
  <2>1. UNCHANGED <<tableVars, engineVars, scriptVars>>
    BY <1>4 DEF FileSimulated
  <2> QED BY <1>3, <2>1, FilingChanges
<1>5. CASE ~UNCHANGED tableVars
  <2>1. /\ campaigns' = (IF filing[i] = Null THEN Append(campaigns, new) ELSE Appended(c, i))
        /\ linked' = With(linked, i, c) /\ chained' = With(chained, i, c)
    BY <1>5 DEF FileSimulated
  <2>2. filing[i] # Null => c \in DOMAIN campaigns /\ c \in Nat /\ old \in CampaignRow /\ old.stored
    BY <1>1, <1>3, ElementOfSeq
  <2>3. filing[i] = Null => c = Len(campaigns) + 1 /\ c \in Nat /\ c \notin DOMAIN campaigns
    BY <1>1
  <2>4. ListedBy(i) = {} /\ \A k \in Copies : i \notin k.incidents
    BY <1>1, <1>3 DEF RowsAgree, CopiesAgree, ListedBy
  <2>5. filing[i] # Null => /\ row \in CampaignRow /\ row.stored = old.stored /\ row.stored
                            /\ row.incidents = old.incidents \cup {i} /\ row.count = Cardinality(row.incidents)
                            /\ campaigns' = [campaigns EXCEPT ![c] = row]
    <3> SUFFICES ASSUME filing[i] # Null
                 PROVE  /\ row \in CampaignRow /\ row.stored = old.stored /\ row.stored
                        /\ row.incidents = old.incidents \cup {i} /\ row.count = Cardinality(row.incidents)
                        /\ campaigns' = [campaigns EXCEPT ![c] = row]
      OBVIOUS
    <3>1. row = [old EXCEPT !.incidents = old.incidents \cup {i}, !.count = old.count + 1] /\ old \in CampaignRow /\ c \in DOMAIN campaigns /\ old.stored
      BY <2>2
    <3>2. old.incidents \subseteq DOMAIN linked /\ old.count = Cardinality(old.incidents)
      BY <1>1, <3>1 DEF RowsAgree
    <3>3. IsFiniteSet(old.incidents) /\ i \notin old.incidents
      BY <1>1, <1>3, <3>2, TablesAssumption, FS_Subset
    <3>4. Cardinality(old.incidents \cup {i}) = old.count + 1
      BY <3>2, <3>3, FS_AddElement
    <3>5. campaigns' = Appended(c, i)
      BY <2>1
    <3> HIDE DEF c, row, new
    <3>6. campaigns' = [campaigns EXCEPT ![c] = row]
      BY <1>1, <3>1, <3>5 DEF Appended, CampaignRow
    <3> HIDE DEF old
    <3>7. /\ row \in CampaignRow /\ row.stored = old.stored
          /\ row.incidents = old.incidents \cup {i} /\ row.count = old.count + 1
      <4>1. old.incidents \cup {i} \in SUBSET Incidents /\ old.count + 1 \in Nat
        BY <3>1 DEF CampaignRow
      <4> QED BY <3>1, <4>1 DEF CampaignRow
    <3> QED BY <3>1, <3>4, <3>6, <3>7
  <2>6. filing[i] = Null => /\ row \in CampaignRow /\ row.incidents = {i} /\ row.count = Cardinality({i}) /\ row.stored
                            /\ campaigns' = Append(campaigns, row)
    <3>1. ActorOf[i] \in ActorsSeen /\ {i} \in SUBSET Incidents /\ Cardinality({i}) = 1
      BY FS_Singleton DEF ActorsSeen
    <3> QED BY <2>1, <3>1 DEF CampaignRow, RowOf
  <2>7. c \in DOMAIN campaigns => /\ underWay \cap old.incidents \subseteq raced /\ (UNION script.groups) \cap old.incidents \subseteq raced
                                  /\ \A k \in Copies : k.id # c => k.incidents \cap old.incidents \subseteq raced
                                  /\ \A j \in old.incidents \ raced : ListedBy(j) \subseteq {c}
    BY OwnRow
  <2>8. i \notin underWay /\ i \notin UNION script.groups
    BY <1>1, <1>3 DEF NoneIsListed
  <2> HIDE DEF c, row, new, old
  <2>9. c \in Nat /\ c # Null /\ RowWritten(c, row)
    BY <1>1, <2>2, <2>3, <2>5, <2>6, Rewriting, Adding
  <2>10. RowSound(c, row)
    BY <2>2, <2>3, <2>4, <2>5, <2>6, <2>7 DEF RowSound, old
  <2>11. /\ DOMAIN linked' = DOMAIN linked \cup {i} /\ linked'[i] = c /\ (\A j \in DOMAIN linked : linked'[j] = linked[j])
         /\ DOMAIN chained' = DOMAIN linked \cup {i} /\ chained'[i] = c /\ (\A j \in DOMAIN linked : chained'[j] = chained[j])
    BY <1>1, <1>3, <2>1 DEF With
  <2>12. \A j \in row.incidents : j = i \/ (j \in DOMAIN linked /\ linked[j] # Null /\ chained[j] # Null)
    BY <1>1, <2>2, <2>5, <2>6 DEF RowsAgree, old
  <2>13. i \in row.incidents
    BY <2>5, <2>6
  <2>14. LinkedTo(c, row, linked, linked') /\ LinkedTo(c, row, chained, chained')
    BY <1>1, <2>11, <2>12, <2>13 DEF LinkedTo
  <2>15. ScriptSees' /\ Copies' = Copies /\ EngineOK'
    BY <1>2, <2>11, ScriptKeepsSeeing, CopiesStay
  <2>16. DOMAIN filing' \cap DOMAIN linked' = {}
    BY <1>1, <1>3, <2>11 DEF NoneIsListed
  <2>17. underWay \cap row.incidents \subseteq raced /\ (UNION script'.groups) \cap row.incidents \subseteq raced
    BY <1>2, <2>2, <2>3, <2>5, <2>6, <2>7, <2>8
  <2>18. \A k \in Copies : k.id # c => k.incidents \cap row.incidents \subseteq raced
    BY <2>2, <2>3, <2>4, <2>5, <2>6, <2>7
  <2>19. DOMAIN chained' = DOMAIN linked' /\ DOMAIN linked' \subseteq Incidents
    BY <1>1, <2>11
  <2> QED BY <1>2, <1>3, <2>9, <2>10, <2>14, <2>15, <2>16, <2>17, <2>18, <2>19, RowAlone
<1> QED BY <1>4, <1>5

LEMMA Fetching ==
  ASSUME TablesInv, Fetch, missing' = missing \cup Behind'
  PROVE  TablesInv'
<1> DEFINE some == {i \in DOMAIN linked : Groupable(i)}
           late == {i \in InCopies : linked[i] = Null}
<1>1. /\ TablesTypeOK /\ RowsAgree /\ LinksAgree /\ CopiesAgree /\ NoneIsListed /\ ScriptSees
      /\ DOMAIN linked \subseteq Incidents /\ Old \subseteq DOMAIN linked
  BY DEF TablesInv, TablesTypeOK
<1>2. /\ UNCHANGED <<linked, chained, campaigns, cached, adding, attaching, underWay, filing>>
      /\ missed' = {} /\ raced' = raced \cup underWay \cup late /\ script'.groups = GroupsOf(some)
      /\ script' = Off \/ script' = [at |-> "insert", groups |-> GroupsOf(some)]
  BY DEF Fetch, tableVars, engineVars, Off
<1>3. some \in SUBSET Incidents /\ \A i \in some : linked[i] = Null /\ i \in DOMAIN linked
  BY <1>1 DEF Groupable
<1>4. \A i \in Old : ActorOf[i] # Null /\ linked[i] = Null => i \in some
  BY <1>1 DEF Groupable
<1>5. \A i \in some : i \in InCopies => i \in late
  BY <1>3
<1> HIDE DEF some, late
<1>6. /\ UNION GroupsOf(some) = some /\ \A g \in GroupsOf(some) : g # {} /\ g \subseteq some
      /\ \A g, h \in GroupsOf(some) : g # h => g \cap h = {}
  BY <1>3, GroupsAreApart
<1>7. \A j : ListedBy(j)' = ListedBy(j)
  BY <1>2 DEF ListedBy
<1>8. \A i \in some : ListedBy(i) = {}
  BY <1>1, <1>3 DEF RowsAgree, ListedBy
<1>9. Copies' = Copies /\ EngineOK' /\ Behind' = Behind /\ InCopies' = InCopies /\ Behind' \subseteq missing'
  BY <1>2, CopiesStay DEF Behind, Copies, InCopies
<1>10. TablesTypeOK' /\ RowsAgree'
  BY <1>1, <1>2 DEF TablesTypeOK, RowsAgree
<1>11. LinksAgree'
  BY <1>1, <1>2 DEF LinksAgree, Sound, ListedBy
<1>12. CopiesAgree'
  BY <1>1, <1>2, <1>7, <1>9 DEF CopiesAgree
<1>13. NoneIsListed'
  <2>1. \A g \in script'.groups : \A i \in g \ raced' : i \notin underWay' /\ Nowhere(i)'
    BY <1>2, <1>5, <1>6, <1>7, <1>8, <1>9 DEF Nowhere
  <2>2. \A g \in script'.groups : g \subseteq DOMAIN linked' /\ g # {}
    BY <1>2, <1>3, <1>6
  <2>3. \A i \in underWay' \ raced' : Nowhere(i)'
    BY <1>2
  <2> QED BY <1>1, <1>2, <1>6, <2>1, <2>2, <2>3 DEF NoneIsListed
<1>14. ScriptSees'
  <2>1. GroupsOf(some) \in SUBSET SUBSET Incidents
    BY <1>3, <1>6
  <2> QED BY <1>2, <1>4, <1>6, <2>1 DEF ScriptSees, Off
<1> QED BY <1>9, <1>10, <1>11, <1>12, <1>13, <1>14 DEF TablesInv

LEMMA AfterGroup ==
  ASSUME ScriptSees, NEW g \in script.groups
  PROVE  /\ After(g).groups = script.groups \ {g}
         /\ After(g) \in [at : {"off", "insert"}, groups : SUBSET SUBSET Incidents]
  BY DEF ScriptSees, After, Off

LEMMA Inserting ==
  ASSUME TablesInv, NEW g \in script.groups, InsertGroup(g), missing' = missing \cup Behind'
  PROVE  TablesInv'
<1> DEFINE c == Len(campaigns) + 1
           row == BuildCampaign(g)
<1>1. /\ TablesTypeOK /\ RowsAgree /\ CopiesAgree /\ NoneIsListed /\ ScriptSees
      /\ campaigns \in Seq(CampaignRow) /\ Len(campaigns) \in Nat /\ DOMAIN campaigns = 1..Len(campaigns)
      /\ DOMAIN chained = DOMAIN linked /\ DOMAIN linked \subseteq Incidents /\ Null \notin Nat
  BY LenProperties, TablesAssumption DEF TablesInv, TablesTypeOK
<1>2. g \subseteq DOMAIN linked /\ g # {} /\ g \subseteq Nat /\ IsFiniteSet(g)
  BY <1>1, TablesAssumption, FS_Subset DEF NoneIsListed
<1>3. row \in CampaignRow /\ row.incidents = g /\ row.count = Cardinality(g) /\ row.stored
  <2>1. Min(g) \in g
    <3>1. \E x \in g : \A y \in g : x <= y
      BY <1>2, Least
    <3> QED BY <3>1 DEF Min
  <2>2. ActorOf[Min(g)] \in ActorsSeen
    BY <1>1, <1>2, <2>1 DEF ActorsSeen
  <2>3. Cardinality(g) \in Nat
    BY <1>2, FS_CardinalityType
  <2> QED BY <1>1, <1>2, <2>2, <2>3 DEF CampaignRow, BuildCampaign, RowOf
<1> HIDE DEF row
<1>4. /\ campaigns' = Append(campaigns, row) /\ script' = After(g)
      /\ linked' = Put(linked, {i \in g : linked[i] = Null}, Len(campaigns'))
      /\ chained' = Put(chained, {i \in g : chained[i] = Null}, Len(campaigns'))
      /\ UNCHANGED <<cached, adding, attaching, underWay, filing, scripts, missed, raced>>
  BY DEF InsertGroup, engineVars, row
<1>5. c \in Nat /\ c # Null /\ c \notin DOMAIN campaigns /\ RowWritten(c, row) /\ Len(campaigns') = c
  BY <1>1, <1>3, <1>4, Adding, AppendProperties
<1> HIDE DEF c
<1>6. /\ DOMAIN linked' = DOMAIN linked /\ DOMAIN chained' = DOMAIN linked
      /\ \A i \in DOMAIN linked : linked'[i] = (IF i \in g /\ linked[i] = Null THEN c ELSE linked[i])
      /\ \A i \in DOMAIN linked : chained'[i] = (IF i \in g /\ chained[i] = Null THEN c ELSE chained[i])
  BY <1>1, <1>4, <1>5, PutIs
<1>7. \A i \in g \ raced : i \notin underWay /\ Nowhere(i)
  BY <1>1 DEF NoneIsListed
<1>8. RowSound(c, row)
  BY <1>3, <1>5, <1>7 DEF RowSound, Nowhere
<1>9. LinkedTo(c, row, linked, linked') /\ LinkedTo(c, row, chained, chained')
  BY <1>1, <1>2, <1>3, <1>6 DEF LinkedTo
<1>10. script'.groups = script.groups \ {g} /\ script' \in [at : {"off", "insert"}, groups : SUBSET SUBSET Incidents]
  BY <1>1, <1>4, AfterGroup
<1>11. Copies' = Copies /\ EngineOK'
  BY <1>4, CopiesStay
<1>12. ScriptSees'
  <2>1. \A i \in DOMAIN linked : linked'[i] = Null => linked[i] = Null /\ i \notin g
    BY <1>1, <1>5, <1>6
  <2> QED BY <1>1, <1>4, <1>10, <2>1 DEF ScriptSees, TablesTypeOK
<1>13. DOMAIN filing' \cap DOMAIN linked' = {} /\ \A i \in DOMAIN filing' : i \in DOMAIN filing /\ filing'[i] = filing[i]
  BY <1>1, <1>4, <1>6 DEF NoneIsListed
<1>14. underWay \cap row.incidents \subseteq raced /\ (UNION script'.groups) \cap row.incidents \subseteq raced
  <2>1. \A h \in script'.groups : h \cap g = {}
    BY <1>1, <1>10 DEF NoneIsListed
  <2> QED BY <1>3, <1>7, <2>1
<1>15. \A k \in Copies : k.id # c => k.incidents \cap row.incidents \subseteq raced
  BY <1>3, <1>7, WhereCopiesAre DEF Nowhere
<1>16. script'.groups \subseteq script.groups /\ underWay' = underWay /\ raced' = raced /\ DOMAIN chained' = DOMAIN linked'
       /\ DOMAIN linked' \subseteq Incidents
  BY <1>1, <1>4, <1>6, <1>10
<1> QED BY <1>5, <1>8, <1>9, <1>11, <1>12, <1>13, <1>14, <1>15, <1>16, RowAlone

\* The script gives up a group, or all.
LEMMA GivingUp ==
  ASSUME TablesInv, UNCHANGED <<tableVars, engineVars, filing, scripts, raced>>, missing' = missing \cup Behind',
         script' \in [at : {"off", "insert"}, groups : SUBSET SUBSET Incidents],
         script'.groups \subseteq script.groups,
         UNION script.groups \subseteq (UNION script'.groups) \cup missed', missed \subseteq missed'
  PROVE  TablesInv'
<1>1. /\ TablesTypeOK /\ RowsAgree /\ LinksAgree /\ CopiesAgree /\ NoneIsListed /\ ScriptSees
      /\ UNCHANGED <<linked, chained, campaigns, cached, adding, attaching, underWay>>
  BY DEF TablesInv, tableVars, engineVars
<1>2. \A j : ListedBy(j)' = ListedBy(j)
  BY <1>1 DEF ListedBy
<1>3. Copies' = Copies /\ EngineOK' /\ Behind' = Behind /\ InCopies' = InCopies /\ Behind' \subseteq missing'
  BY <1>1, CopiesStay DEF Behind, Copies, InCopies
<1>4. TablesTypeOK' /\ RowsAgree'
  BY <1>1 DEF TablesTypeOK, RowsAgree
<1>5. LinksAgree'
  BY <1>1 DEF LinksAgree, Sound, ListedBy
<1>6. CopiesAgree'
  BY <1>1, <1>2, <1>3 DEF CopiesAgree
<1>7. NoneIsListed'
  BY <1>1, <1>2, <1>3 DEF NoneIsListed, Nowhere
<1>8. ScriptSees'
  <2>1. ASSUME scripts > 0, NEW i \in Old \ missed', ActorOf[i] # Null, linked[i] = Null PROVE i \in UNION script'.groups
    <3>0. i \in Old \ missed /\ i \notin missed'
      OBVIOUS
    <3>1. \A j \in Old \ missed : ActorOf[j] # Null /\ linked[j] = Null => j \in UNION script.groups
      BY <1>1, <2>1 DEF ScriptSees
    <3>2. i \in UNION script.groups
      BY <2>1, <3>0, <3>1
    <3> QED BY <3>0, <3>2
  <2> QED BY <1>1, <2>1 DEF ScriptSees
<1> QED BY <1>3, <1>4, <1>5, <1>6, <1>7, <1>8 DEF TablesInv

LEMMA TablesStep == TablesInv /\ [CampTableNext]_campTableVars => TablesInv'
<1> SUFFICES ASSUME TablesInv, [CampTableNext]_campTableVars PROVE TablesInv'
  OBVIOUS
<1>1. CASE UNCHANGED campTableVars
  <2>1. UNCHANGED <<linked, chained, campaigns, cached, adding, attaching, underWay, filing, script, scripts, missed, raced, missing>>
    BY <1>1 DEF campTableVars, tableVars, engineVars, scriptVars
  <2>2. Behind' = Behind /\ Copies' = Copies /\ EngineOK'
    BY <2>1, CopiesStay DEF Behind, Copies
  <2>3. missing' = missing \cup Behind'
    BY <2>1, <2>2 DEF TablesInv, CopiesAgree
  <2> QED BY <2>1, <2>2, <2>3, CopiesGo DEF tableVars, scriptVars
<1>2. CASE TableStep /\ missing' = missing \cup Behind'
  <2>0. ScriptSees /\ missing' = missing \cup Behind'
    BY <1>2 DEF TablesInv
  <2>1. ASSUME NEW i \in Incidents, Detect(i) \/ LookUp(i) \/ FileSimulated(i) PROVE TablesInv'
    BY <2>0, <2>1, Detecting, LookingUp, FilingASimulated
  <2>2. ASSUME NEW fails \in BOOLEAN, NEW i \in Incidents, AggregateLoad(i, fails) PROVE TablesInv'
    BY <2>0, <2>2, AggregateLoading
  <2>3. ASSUME NEW fails \in BOOLEAN,
               AggregateUpdate(fails) \/ AggregateInsert(fails) \/ AggregateRefused(fails) \/ AggregateCache(fails)
        PROVE  TablesInv'
    BY <2>0, <2>3, AggregateUpdating, AggregateInserting, AggregateBeingRefused, AggregateCaching
  <2>4. CASE AggregateRaises \/ AttachCache \/ EngineStops
    BY <2>0, <2>4, AggregateRaising, AttachCaching, EngineStopping
  <2>5. ASSUME NEW a, AttachLoad(a) \/ Evict(a) PROVE TablesInv'
    BY <2>0, <2>5, AttachLoading, Evicting
  <2>6. ASSUME NEW c, Sweep(c) PROVE TablesInv'
    BY <2>0, <2>6, Sweeping
  <2>7. CASE Fetch
    BY <2>0, <2>7, Fetching
  <2>8. CASE ScriptStops
    <3>1. Off \in [at : {"off", "insert"}, groups : SUBSET SUBSET Incidents] /\ Off.groups = {}
      BY DEF Off
    <3>2. script' = Off /\ missed' = missed \cup UNION script.groups
          /\ UNCHANGED <<tableVars, engineVars, filing, scripts, raced>>
      BY <2>8 DEF ScriptStops
    <3>3. script' \in [at : {"off", "insert"}, groups : SUBSET SUBSET Incidents] /\ script'.groups \subseteq script.groups
      BY <3>1, <3>2
    <3>4. UNION script.groups \subseteq (UNION script'.groups) \cup missed' /\ missed \subseteq missed'
      BY <3>2
    <3> QED BY <2>0, <3>2, <3>3, <3>4, GivingUp
  <2>9. ASSUME NEW g \in script.groups, InsertGroup(g) PROVE TablesInv'
    BY <2>0, <2>9, Inserting
  <2>10. ASSUME NEW g \in script.groups, InsertFails(g) PROVE TablesInv'
    <3>1. script' = After(g) /\ missed' = missed \cup g /\ UNCHANGED <<tableVars, engineVars, filing, scripts, raced>>
      BY <2>10 DEF InsertFails
    <3>2. script'.groups = script.groups \ {g} /\ script' \in [at : {"off", "insert"}, groups : SUBSET SUBSET Incidents]
      BY <2>0, <3>1, AfterGroup
    <3>3. UNION script.groups \subseteq (UNION script'.groups) \cup missed'
      <4>1. ASSUME NEW i \in UNION script.groups PROVE i \in (UNION script'.groups) \cup missed'
        <5>1. PICK h \in script.groups : i \in h
          OBVIOUS
        <5>2. CASE h = g
          BY <3>1, <5>1, <5>2
        <5>3. CASE h # g
          <6>1. h \in script'.groups
            BY <3>2, <5>3
          <6> QED BY <5>1, <6>1
        <5> QED BY <5>2, <5>3
      <4> QED BY <4>1
    <3>4. script'.groups \subseteq script.groups /\ missed \subseteq missed'
      BY <3>1, <3>2
    <3> QED BY <2>0, <3>1, <3>2, <3>3, <3>4, GivingUp
  <2> QED BY <1>2, <2>1, <2>2, <2>3, <2>4, <2>5, <2>6, <2>7, <2>8, <2>9, <2>10 DEF TableStep
<1> QED BY <1>1, <1>2 DEF CampTableNext

LEMMA TablesCountOnce == TablesInv => EachIsCountedOnce
<1> SUFFICES ASSUME TablesInv PROVE EachIsCountedOnce
  OBVIOUS
<1>1. TablesTypeOK /\ RowsAgree /\ LinksAgree /\ ScriptSees
  BY DEF TablesInv
<1>2. ASSUME NEW i \in DOMAIN linked, i \notin raced PROVE Cardinality(ListedBy(i)) <= 1
  <2>1. \A c, d \in ListedBy(i) : c = d
    BY <1>1, <1>2 DEF RowsAgree, ListedBy
  <2>2. CASE ListedBy(i) = {}
    BY <2>2, FS_EmptySet
  <2>3. CASE ListedBy(i) # {}
    <3>1. PICK c : c \in ListedBy(i)
      BY <2>3
    <3>2. ListedBy(i) = {c}
      BY <2>1, <3>1
    <3> QED BY <3>2, FS_Singleton
  <2> QED BY <2>2, <2>3
<1>3. ASSUME NEW i \in DOMAIN linked
      PROVE  /\ linked[i] # Null => Sound(linked[i], i)
             /\ chained[i] # Null => Sound(chained[i], i)
  BY <1>1 DEF LinksAgree
<1>4. \A c \in DOMAIN campaigns : campaigns[c].count = Cardinality(campaigns[c].incidents)
  BY <1>1 DEF RowsAgree
<1>5. ASSUME script = Off, scripts > 0, NEW i \in Old \ missed, ActorOf[i] # Null PROVE linked[i] # Null
  BY <1>1, <1>5 DEF ScriptSees, Off
<1> QED BY <1>2, <1>3, <1>4, <1>5 DEF EachIsCountedOnce

\* Of all incidents, actors and times, however often the script is run, stopped or fails,
\* whatever the engine and the simulator file meanwhile, and whichever calls of the engine
\* to the table or to Redis fail, or its process: an incident is counted by one campaign
\* unless the script read it while only the engine knew of its campaign; the campaign a
\* link names lists the incident unless it was never stored or a stale copy was without
\* it; and a finished run of the script leaves none of the old ones out.
THEOREM EachAlwaysCountedOnce == CampTableSpec => []EachIsCountedOnce
<1>1. CampTableInit => TablesInv
  BY InitTables
<1>2. TablesInv /\ [CampTableNext]_campTableVars => TablesInv'
  BY TablesStep
<1>3. TablesInv => EachIsCountedOnce
  BY TablesCountOnce
<1> QED BY <1>1, <1>2, <1>3, PTL DEF CampTableSpec

-------------------------------------------------------------------------------
(* Captures.  What a source is judged by is either all it sent so far, or it was *)
(* found before (NotYetFound).                                                   *)

IsCapture(packets) == packets \in Seq({packets[n] : n \in DOMAIN packets})

LEMMA CaptureFacts ==
  ASSUME NEW packets, IsCapture(packets)
  PROVE  Len(packets) \in Nat /\ DOMAIN packets = 1..Len(packets)
  BY LenProperties DEF IsCapture

NextKept(packets, src, kind, kept, n) ==
  IF n \notin From(packets, src, kind) THEN kept
  ELSE IF Suspicious(packets, kind, kept) THEN {n} ELSE kept \cup {n}

LEMMA KeptIs ==
  ASSUME NEW packets, IsCapture(packets), NEW src, NEW kind
  PROVE  /\ KeptOf(packets, src, kind)[0] = {}
         /\ \A n \in 1..Len(packets) :
              KeptOf(packets, src, kind)[n] = NextKept(packets, src, kind, KeptOf(packets, src, kind)[n - 1], n)
<1> DEFINE k == Len(packets)
           T == SUBSET DOMAIN packets
           next(p, n) == NextKept(packets, src, kind, p, n)
           F == [n \in 1..k |-> [p \in T |-> next(p, n)]]
           body(h) == [n \in 0..k |-> IF n = 0 THEN {} ELSE next(h[n - 1], n)]
           g == CHOOSE h : h = body(h)
<1>1. k \in Nat /\ DOMAIN packets = 1..k
  BY CaptureFacts
<1>2. \A p \in T, n \in 1..k : next(p, n) \in T
  BY <1>1 DEF NextKept
<1>3. F \in [1..k -> [T -> T]]
  BY <1>2
<1>4. \A n \in 1..k, p \in T : F[n][p] = next(p, n)
  OBVIOUS
<1>5. PICK f : IsRun(f, T, k, {}, F)
  <2>1. {} \in T
    OBVIOUS
  <2> HIDE DEF F, k, T
  <2> QED BY <2>1, <1>1, <1>3, Recursion
<1>6. \A n \in 1..k : f[n] = next(f[n - 1], n)
  <2> HIDE DEF F, next, T
  <2> QED BY <1>4, <1>5, <1>1 DEF IsRun
<1>7. f = body(f)
  <2> HIDE DEF next, T
  <2> QED BY <1>5, <1>6, <1>1 DEF IsRun
<1>8. g = body(g)
  <2> HIDE DEF body
  <2> QED BY <1>7
<1>9. g[0] = {} /\ \A n \in 1..k : g[n] = next(g[n - 1], n)
  <2>1. \A h : h = body(h) => h[0] = {} /\ \A n \in 1..k : h[n] = next(h[n - 1], n)
    <3> SUFFICES ASSUME NEW h, h = body(h) PROVE h[0] = {} /\ \A n \in 1..k : h[n] = next(h[n - 1], n)
      OBVIOUS
    <3> HIDE DEF next, k, T, F, g
    <3>1. \A n \in 0..k : body(h)[n] = IF n = 0 THEN {} ELSE next(h[n - 1], n)
      OBVIOUS
    <3> HIDE DEF body
    <3>2. \A n \in 0..k : h[n] = IF n = 0 THEN {} ELSE next(h[n - 1], n)
      BY <3>1
    <3> QED BY <1>1, <3>2
  <2> HIDE DEF g, body, next
  <2> QED BY <2>1, <1>8
<1>10. KeptOf(packets, src, kind) = g
  BY DEF KeptOf, NextKept
<1> HIDE DEF g
<1> QED BY <1>9, <1>10

FoundIn(packets, src, kind, n) == \E k \in From(packets, src, kind) : k <= n /\ FoundAt(packets, k)

LEMMA FoundAtIs ==
  ASSUME NEW packets, NEW src, NEW kind \in {"syn", "query"}, NEW n \in From(packets, src, kind)
  PROVE  FoundAt(packets, n) <=> Suspicious(packets, kind, KeptOf(packets, src, kind)[n])
  BY DEF From, FoundAt

\* Without packets nothing is found.
LEMMA NothingIsHarmless ==
  ASSUME NEW packets, NEW kind
  PROVE  ~Suspicious(packets, kind, {})
<1>1. ~IsScan(packets, {})
  <2>1. {packets[n].value : n \in {}} = {}
    OBVIOUS
  <2> QED BY <2>1, CapturesAssumption, FS_EmptySet DEF IsScan
<1>2. ~IsTunnel(packets, {})
  <2>1. \A m : {n \in {} : n >= m} = {}
    OBVIOUS
  <2> QED BY <2>1, CapturesAssumption, FS_EmptySet DEF IsTunnel
<1> QED BY <1>1, <1>2 DEF Suspicious

NotYetFound(packets, src, kind, n) ==
  LET kept == KeptOf(packets, src, kind)[n]
  IN  kept = From(packets, src, kind) \cap 1..n /\ ~Suspicious(packets, kind, kept)

LEMMA FoundOrKept ==
  ASSUME NEW packets, IsCapture(packets), NEW src, NEW kind \in {"syn", "query"}
  PROVE  \A n \in 0..Len(packets) : FoundIn(packets, src, kind, n) \/ NotYetFound(packets, src, kind, n)
<1> DEFINE S == {n \in 0..Len(packets) : FoundIn(packets, src, kind, n) \/ NotYetFound(packets, src, kind, n)}
<1>0. Len(packets) \in Nat /\ DOMAIN packets = 1..Len(packets)
  BY CaptureFacts
<1>1. 0 \in S
  <2>1. KeptOf(packets, src, kind)[0] = {} /\ From(packets, src, kind) \cap 1..0 = {}
    BY KeptIs
  <2>2. NotYetFound(packets, src, kind, 0)
    BY <2>1, NothingIsHarmless DEF NotYetFound
  <2> QED BY <2>2, <1>0
<1>2. ASSUME NEW n \in 1..Len(packets), n - 1 \in S PROVE n \in S
  <2>0. n \in Nat /\ n - 1 \in Nat /\ n \in 0..Len(packets)
    BY <1>0
  <2>1. CASE FoundIn(packets, src, kind, n - 1)
    <3>1. FoundIn(packets, src, kind, n)
      <4>1. PICK k \in From(packets, src, kind) : k <= n - 1 /\ FoundAt(packets, k)
        BY <2>1 DEF FoundIn
      <4>2. k \in Nat /\ k <= n
        BY <1>0, <2>0, <4>1 DEF From
      <4> QED BY <4>1, <4>2 DEF FoundIn
    <3> QED BY <2>0, <3>1
  <2>2. CASE NotYetFound(packets, src, kind, n - 1)
    <3> DEFINE kept == KeptOf(packets, src, kind)
    <3>1. kept[n] = NextKept(packets, src, kind, kept[n - 1], n)
      BY KeptIs
    <3>2. kept[n - 1] = From(packets, src, kind) \cap 1..(n - 1) /\ ~Suspicious(packets, kind, kept[n - 1])
      BY <2>2 DEF NotYetFound
    <3>3. 1..n = 1..(n - 1) \cup {n}
      BY <2>0
    <3> HIDE DEF kept
    <3>4. CASE n \notin From(packets, src, kind)
      <4>1. kept[n] = kept[n - 1]
        BY <3>1, <3>4 DEF NextKept
      <4>2. kept[n] = From(packets, src, kind) \cap 1..n /\ ~Suspicious(packets, kind, kept[n])
        BY <3>2, <3>3, <3>4, <4>1
      <4> QED BY <2>0, <4>2 DEF NotYetFound, kept
    <3>5. CASE n \in From(packets, src, kind)
      <4>1. kept[n] = kept[n - 1] \cup {n}
        BY <3>1, <3>2, <3>5 DEF NextKept
      <4>2. kept[n] = From(packets, src, kind) \cap 1..n
        BY <3>2, <3>3, <3>5, <4>1
      <4>3. CASE Suspicious(packets, kind, kept[n])
        <5>1. FoundAt(packets, n)
          BY <3>5, <4>3, FoundAtIs DEF kept
        <5> QED BY <2>0, <3>5, <5>1 DEF FoundIn
      <4>4. CASE ~Suspicious(packets, kind, kept[n])
        BY <2>0, <4>2, <4>4 DEF NotYetFound, kept
      <4> QED BY <4>3, <4>4
    <3> QED BY <3>4, <3>5
  <2> QED BY <1>2, <2>1, <2>2
<1>3. \A n \in 0..Len(packets) : n \in S
  <2> HIDE DEF S
  <2> QED BY <1>0, <1>1, <1>2, InductionUpTo
<1> QED BY <1>3

\* What is kept is all since some packet.
KeptSince(packets, src, kind, n, b) ==
  b \in Nat \ {0} /\ KeptOf(packets, src, kind)[n] = {k \in From(packets, src, kind) : b <= k /\ k <= n}

LEMMA KeptIsRecent ==
  ASSUME NEW packets, IsCapture(packets), NEW src, NEW kind
  PROVE  \A n \in 0..Len(packets) : \E b : KeptSince(packets, src, kind, n, b)
<1> DEFINE S == {n \in 0..Len(packets) : \E b : KeptSince(packets, src, kind, n, b)}
<1>0. Len(packets) \in Nat /\ DOMAIN packets = 1..Len(packets) /\ From(packets, src, kind) \subseteq 1..Len(packets)
  BY CaptureFacts DEF From
<1>1. 0 \in S
  <2>1. KeptSince(packets, src, kind, 0, 1)
    BY <1>0, KeptIs DEF KeptSince
  <2> QED BY <1>0, <2>1
<1>2. ASSUME NEW n \in 1..Len(packets), n - 1 \in S PROVE n \in S
  <2>0. n \in Nat /\ n - 1 \in Nat /\ n \in 0..Len(packets)
    BY <1>0
  <2>1. PICK b : KeptSince(packets, src, kind, n - 1, b)
    BY <1>2
  <2> DEFINE kept == KeptOf(packets, src, kind)
  <2>2. kept[n] = NextKept(packets, src, kind, kept[n - 1], n)
    BY KeptIs
  <2>3. b \in Nat \ {0} /\ kept[n - 1] = {k \in From(packets, src, kind) : b <= k /\ k <= n - 1}
    BY <2>1 DEF KeptSince
  <2> HIDE DEF kept
  <2>4. \/ kept[n] = kept[n - 1] /\ n \notin From(packets, src, kind)
        \/ kept[n] = {n} /\ n \in From(packets, src, kind)
        \/ kept[n] = kept[n - 1] \cup {n} /\ n \in From(packets, src, kind)
    BY <2>2 DEF NextKept
  <2>5. CASE kept[n] = {n} /\ n \in From(packets, src, kind)
    <3>1. kept[n] = {k \in From(packets, src, kind) : n <= k /\ k <= n}
      BY <1>0, <2>0, <2>5
    <3>2. KeptSince(packets, src, kind, n, n)
      BY <2>0, <3>1 DEF KeptSince, kept
    <3> QED BY <2>0, <3>2
  <2>6. CASE kept[n] = kept[n - 1] /\ n \notin From(packets, src, kind)
    <3>1. kept[n] = {k \in From(packets, src, kind) : b <= k /\ k <= n}
      BY <1>0, <2>0, <2>3, <2>6
    <3>2. KeptSince(packets, src, kind, n, b)
      BY <2>3, <3>1 DEF KeptSince, kept
    <3> QED BY <2>0, <3>2
  <2>7. CASE kept[n] = kept[n - 1] \cup {n} /\ n \in From(packets, src, kind)
    <3> DEFINE c == IF b <= n THEN b ELSE n
    <3>1. kept[n] = {k \in From(packets, src, kind) : c <= k /\ k <= n}
      BY <1>0, <2>0, <2>3, <2>7
    <3>2. KeptSince(packets, src, kind, n, c)
      BY <2>0, <2>3, <3>1 DEF KeptSince, kept
    <3> QED BY <2>0, <3>2
  <2> QED BY <2>4, <2>5, <2>6, <2>7
<1>3. \A n \in 0..Len(packets) : n \in S
  <2> HIDE DEF S
  <2> QED BY <1>0, <1>1, <1>2, InductionUpTo
<1> QED BY <1>3

\* Whoever scanned is found, and nobody else.
LEMMA ScansAreFound ==
  ASSUME NEW packets, IsCapture(packets), NEW src
  PROVE  Scanned(packets, src) <=> \E n \in From(packets, src, "syn") : FoundAt(packets, n)
<1> DEFINE all == From(packets, src, "syn")
           values(places) == {packets[n].value : n \in places}
           kept == KeptOf(packets, src, "syn")
<1>0. Len(packets) \in Nat /\ DOMAIN packets = 1..Len(packets) /\ all \subseteq 1..Len(packets)
  BY CaptureFacts DEF From
<1>1. ASSUME Scanned(packets, src) PROVE \E n \in all : FoundAt(packets, n)
  <2>1. Suspicious(packets, "syn", all)
    BY <1>1 DEF Scanned, Suspicious, IsScan
  <2>2. all \cap 1..Len(packets) = all
    BY <1>0
  <2>3. ~NotYetFound(packets, src, "syn", Len(packets))
    BY <2>1, <2>2 DEF NotYetFound
  <2>4. FoundIn(packets, src, "syn", Len(packets))
    BY <1>0, <2>3, FoundOrKept
  <2> QED BY <2>4 DEF FoundIn
<1>2. ASSUME NEW n \in all, FoundAt(packets, n) PROVE Scanned(packets, src)
  <2>1. Suspicious(packets, "syn", kept[n])
    BY <1>2, FoundAtIs
  <2>2. PICK b : KeptSince(packets, src, "syn", n, b)
    <3>1. n \in 0..Len(packets)
      BY <1>0, <1>2
    <3> QED BY <3>1, KeptIsRecent
  <2>3. kept[n] \subseteq all
    BY <2>2 DEF KeptSince
  <2>4. IsFiniteSet(values(all))
    <3>1. IsFiniteSet(all)
      <4>1. IsFiniteSet(1..Len(packets))
        BY <1>0, FS_Interval
      <4> HIDE DEF all
      <4> QED BY <1>0, <4>1, FS_Subset
    <3> DEFINE f == [m \in all |-> packets[m].value]
    <3>2. f \in Surjection(all, values(all))
      BY DEF Surjection
    <3> HIDE DEF f
    <3> QED BY <3>1, <3>2, FS_Surjection
  <2>5. values(kept[n]) \subseteq values(all)
    BY <2>3
  <2>6. Cardinality(values(kept[n])) >= ScanPorts
    BY <2>1 DEF Suspicious, IsScan
  <2> HIDE DEF values, all, kept
  <2>7. /\ Cardinality(values(kept[n])) <= Cardinality(values(all)) /\ Cardinality(values(all)) \in Nat
        /\ Cardinality(values(kept[n])) \in Nat
    BY <2>4, <2>5, FS_Subset, FS_CardinalityType
  <2>8. Cardinality(values(all)) >= ScanPorts
    BY <2>6, <2>7, CapturesAssumption
  <2> QED BY <2>8 DEF values, all, Scanned
<1> QED BY <1>1, <1>2

\* And whoever tunnelled.
LEMMA TunnelsAreFound ==
  ASSUME NEW packets, IsCapture(packets), NEW src
  PROVE  Tunnelled(packets, src) <=> \E n \in From(packets, src, "query") : FoundAt(packets, n)
<1> DEFINE all == From(packets, src, "query")
           kept == KeptOf(packets, src, "query")
<1>0. Len(packets) \in Nat /\ DOMAIN packets = 1..Len(packets) /\ all \subseteq 1..Len(packets)
  BY CaptureFacts DEF From
<1>1. ASSUME Tunnelled(packets, src) PROVE \E n \in all : FoundAt(packets, n)
  <2> DEFINE some(m, n) == {k \in all : m <= k /\ k <= n}
  <2>1. PICK m \in DOMAIN packets, n \in DOMAIN packets :
          Cardinality(some(m, n)) = TunnelSpan /\ SumOfValues(packets, some(m, n)) > TunnelSum
    BY <1>1 DEF Tunnelled
  <2>2. CASE NotYetFound(packets, src, "query", n)
    <3>1. kept[n] = all \cap 1..n /\ ~Suspicious(packets, "query", kept[n])
      BY <2>2 DEF NotYetFound
    <3>2. {k \in kept[n] : k >= m} = some(m, n)
      BY <1>0, <3>1
    <3>3. IsTunnel(packets, kept[n])
      <4> HIDE DEF some, all, kept
      <4> QED BY <2>1, <3>2 DEF IsTunnel
    <3> QED BY <3>1, <3>3 DEF Suspicious
  <2>3. CASE FoundIn(packets, src, "query", n)
    BY <2>3 DEF FoundIn
  <2>4. n \in 0..Len(packets)
    BY <1>0
  <2>5. FoundIn(packets, src, "query", n) \/ NotYetFound(packets, src, "query", n)
    BY <2>4, FoundOrKept
  <2> QED BY <2>2, <2>3, <2>5
<1>2. ASSUME NEW n \in all, FoundAt(packets, n) PROVE Tunnelled(packets, src)
  <2>1. IsTunnel(packets, kept[n])
    BY <1>2, FoundAtIs DEF Suspicious
  <2>2. PICK m \in DOMAIN packets : /\ Cardinality({k \in kept[n] : k >= m}) = TunnelSpan
                                    /\ SumOfValues(packets, {k \in kept[n] : k >= m}) > TunnelSum
    BY <2>1 DEF IsTunnel
  <2>3. PICK b : KeptSince(packets, src, "query", n, b)
    <3>1. n \in 0..Len(packets)
      BY <1>0, <1>2
    <3> QED BY <3>1, KeptIsRecent
  <2> DEFINE from == IF b <= m THEN m ELSE b
  <2>4. b \in Nat \ {0} /\ kept[n] = {k \in all : b <= k /\ k <= n}
    BY <2>3 DEF KeptSince
  <2>5. {k \in kept[n] : k >= m} = {k \in all : from <= k /\ k <= n}
    BY <1>0, <2>4
  <2>6. from \in DOMAIN packets
    <3> SUFFICES ASSUME from > n PROVE FALSE
      BY <1>0, <2>4
    <3>1. {k \in all : from <= k /\ k <= n} = {}
      BY <1>0, <2>4
    <3> HIDE DEF from
    <3> QED BY <2>2, <2>5, <3>1, FS_EmptySet, CapturesAssumption
  <2>7. n \in DOMAIN packets
    BY <1>0
  <2> HIDE DEF from, kept
  <2> QED BY <2>2, <2>5, <2>6, <2>7 DEF Tunnelled
<1> QED BY <1>1, <1>2

\* The values of a sequence.
ValuesOf(s) == {s[i] : i \in DOMAIN s}

LEMMA OneMoreValue ==
  ASSUME NEW U, NEW s \in Seq(U), NEW e \in U
  PROVE  Append(s, e) \in Seq(U) /\ ValuesOf(Append(s, e)) = ValuesOf(s) \cup {e}
<1>1. /\ Append(s, e) \in Seq(U) /\ Len(s) \in Nat /\ Len(Append(s, e)) = Len(s) + 1
      /\ DOMAIN s = 1..Len(s) /\ DOMAIN Append(s, e) = 1..(Len(s) + 1)
      /\ \A i \in 1..Len(s) : Append(s, e)[i] = s[i]
      /\ Append(s, e)[Len(s) + 1] = e
  BY AppendProperties, LenProperties
<1>2. 1..(Len(s) + 1) = 1..Len(s) \cup {Len(s) + 1}
  BY <1>1
<1> DEFINE t == Append(s, e)
<1> HIDE DEF t
<1>3. DOMAIN t = 1..Len(s) \cup {Len(s) + 1} /\ (\A i \in 1..Len(s) : t[i] = s[i]) /\ t[Len(s) + 1] = e
  BY <1>1, <1>2 DEF t
<1>4. ValuesOf(t) = ValuesOf(s) \cup {e}
  BY <1>1, <1>3 DEF ValuesOf
<1> QED BY <1>1, <1>4 DEF t

EventsOf(packets) == {EventOf(packets, n) : n \in DOMAIN packets}
FoundUpTo(packets, n) == {EventOf(packets, m) : m \in {x \in 1..n : FoundAt(packets, x)}}

LEMMA DetectedIs ==
  ASSUME NEW packets, IsCapture(packets)
  PROVE  Detected(packets) \in Seq(EventsOf(packets)) /\ ValuesOf(Detected(packets)) = FoundUpTo(packets, Len(packets))
<1> DEFINE k == Len(packets)
           T == Seq(EventsOf(packets))
           next(p, n) == IF FoundAt(packets, n) THEN Append(p, EventOf(packets, n)) ELSE p
           F == [n \in 1..k |-> [p \in T |-> next(p, n)]]
           body(h) == [n \in 0..k |-> IF n = 0 THEN <<>>
                                      ELSE IF FoundAt(packets, n) THEN Append(h[n - 1], EventOf(packets, n))
                                      ELSE h[n - 1]]
           g == CHOOSE h : h = body(h)
<1>1. k \in Nat /\ DOMAIN packets = 1..k
  BY CaptureFacts
<1>2. \A p \in T, n \in 1..k : next(p, n) \in T
  <2> SUFFICES ASSUME NEW p \in T, NEW n \in 1..k PROVE next(p, n) \in T
    OBVIOUS
  <2>1. EventOf(packets, n) \in EventsOf(packets)
    BY <1>1 DEF EventsOf
  <2>2. Append(p, EventOf(packets, n)) \in T
    BY <2>1, AppendProperties
  <2> QED BY <2>2
<1>3. F \in [1..k -> [T -> T]]
  <2> HIDE DEF next, T
  <2> QED BY <1>2
<1>4. \A n \in 1..k, p \in T : F[n][p] = next(p, n)
  <2> HIDE DEF next, T
  <2> QED OBVIOUS
<1>5. PICK f : IsRun(f, T, k, <<>>, F)
  <2>1. <<>> \in T
    BY EmptySeq
  <2> HIDE DEF F, k, T
  <2> QED BY <2>1, <1>1, <1>3, Recursion
<1>6. (\A n \in 1..k : f[n] = next(f[n - 1], n)) /\ f \in [0..k -> T] /\ f[0] = <<>>
  <2>1. \A n \in 1..k : f[n - 1] \in T /\ f[n] = F[n][f[n - 1]]
    <3> HIDE DEF F, next, T
    <3> QED BY <1>5, <1>1 DEF IsRun
  <2>2. f \in [0..k -> T] /\ f[0] = <<>>
    <3> HIDE DEF F, next, T
    <3> QED BY <1>5 DEF IsRun
  <2> HIDE DEF F, next, T
  <2> QED BY <1>4, <2>1, <2>2
<1>7. f = body(f)
  <2>1. \A n \in 0..k : f[n] = IF n = 0 THEN <<>>
                             ELSE IF FoundAt(packets, n) THEN Append(f[n - 1], EventOf(packets, n)) ELSE f[n - 1]
    <3> SUFFICES ASSUME NEW n \in 0..k
                 PROVE  f[n] = IF n = 0 THEN <<>>
                               ELSE IF FoundAt(packets, n) THEN Append(f[n - 1], EventOf(packets, n)) ELSE f[n - 1]
      OBVIOUS
    <3>1. CASE n = 0
      BY <1>6, <3>1
    <3>2. CASE n # 0
      <4>1. n \in 1..k
        <5> HIDE DEF k
        <5> QED BY <1>1, <3>2
      <4>2. f[n] = next(f[n - 1], n)
        <5> HIDE DEF next, k
        <5> QED BY <1>6, <4>1
      <4> QED BY <3>2, <4>2
    <3> QED BY <3>1, <3>2
  <2>2. f = [n \in 0..k |-> f[n]]
    <3> HIDE DEF T, k
    <3> QED BY <1>6
  <2> HIDE DEF k, T
  <2> QED BY <2>1, <2>2
<1>8. g = body(g)
  <2> HIDE DEF body
  <2> QED BY <1>7
<1>9. g[0] = <<>> /\ \A n \in 1..k : g[n] = next(g[n - 1], n)
  <2>1. \A h : h = body(h) => h[0] = <<>> /\ \A n \in 1..k : h[n] = next(h[n - 1], n)
    <3> SUFFICES ASSUME NEW h, h = body(h) PROVE h[0] = <<>> /\ \A n \in 1..k : h[n] = next(h[n - 1], n)
      OBVIOUS
    <3> HIDE DEF k, T, F, g
    <3>1. \A n \in 0..k : body(h)[n] = IF n = 0 THEN <<>> ELSE next(h[n - 1], n)
      OBVIOUS
    <3> HIDE DEF body, next
    <3>2. \A n \in 0..k : h[n] = IF n = 0 THEN <<>> ELSE next(h[n - 1], n)
      BY <3>1
    <3> QED BY <1>1, <3>2
  <2> HIDE DEF g, body, next
  <2> QED BY <2>1, <1>8
<1>10. Detected(packets) = g[k]
  BY DEF Detected
<1> DEFINE S == {n \in 0..k : g[n] \in T /\ ValuesOf(g[n]) = FoundUpTo(packets, n)}
<1> HIDE DEF g, F, body
<1>11. 0 \in S
  <2>1. ValuesOf(<<>>) = {} /\ FoundUpTo(packets, 0) = {}
    BY DEF ValuesOf, FoundUpTo
  <2>2. <<>> \in T
    BY EmptySeq
  <2> HIDE DEF T
  <2>3. g[0] \in T /\ ValuesOf(g[0]) = FoundUpTo(packets, 0)
    BY <1>9, <2>1, <2>2
  <2>4. 0 \in 0..k
    BY <1>1
  <2> QED BY <2>3, <2>4
<1>12. ASSUME NEW n \in 1..k, n - 1 \in S PROVE n \in S
  <2>0. n \in Nat /\ n \in 0..k /\ 1..n = 1..(n - 1) \cup {n} /\ EventOf(packets, n) \in EventsOf(packets)
    BY <1>1 DEF EventsOf
  <2>1. g[n - 1] \in T /\ ValuesOf(g[n - 1]) = FoundUpTo(packets, n - 1)
    BY <1>12
  <2>2. CASE FoundAt(packets, n)
    <3>1. g[n] = Append(g[n - 1], EventOf(packets, n))
      BY <1>9, <2>2
    <3>2. g[n] \in T /\ ValuesOf(g[n]) = ValuesOf(g[n - 1]) \cup {EventOf(packets, n)}
      BY <2>0, <2>1, <3>1, OneMoreValue
    <3>3. FoundUpTo(packets, n) = FoundUpTo(packets, n - 1) \cup {EventOf(packets, n)}
      BY <2>0, <2>2 DEF FoundUpTo
    <3> QED BY <2>0, <2>1, <3>2, <3>3
  <2>3. CASE ~FoundAt(packets, n)
    <3>1. g[n] = g[n - 1]
      BY <1>9, <2>3
    <3>2. FoundUpTo(packets, n) = FoundUpTo(packets, n - 1)
      BY <2>0, <2>3 DEF FoundUpTo
    <3> QED BY <2>0, <2>1, <3>1, <3>2
  <2> QED BY <2>2, <2>3
<1>13. \A n \in 0..k : n \in S
  <2> HIDE DEF S
  <2> QED BY <1>1, <1>11, <1>12, InductionUpTo
<1>14. k \in S
  BY <1>1, <1>13
<1> QED BY <1>10, <1>14

\* What a capture shows.
Shown(packets) ==
  LET sources == {packets[n].src : n \in DOMAIN packets}
  IN  {[type |-> "port_scan", src |-> s] : s \in {x \in sources : Scanned(packets, x)}}
      \cup {[type |-> "dns_tunneling", src |-> s] : s \in {x \in sources : Tunnelled(packets, x)}}

LEMMA DetectedIsShown ==
  ASSUME NEW packets, IsCapture(packets)
  PROVE  ValuesOf(Detected(packets)) = Shown(packets)
<1> DEFINE sources == {packets[n].src : n \in DOMAIN packets}
<1>0. Len(packets) \in Nat /\ DOMAIN packets = 1..Len(packets)
  BY CaptureFacts
<1>1. ASSUME NEW n \in DOMAIN packets, FoundAt(packets, n) PROVE EventOf(packets, n) \in Shown(packets)
  <2>1. packets[n].kind \in {"syn", "query"} /\ packets[n].src \in sources
    BY <1>1 DEF FoundAt
  <2>2. CASE packets[n].kind = "syn"
    <3>1. n \in From(packets, packets[n].src, "syn")
      BY <2>2 DEF From
    <3>2. Scanned(packets, packets[n].src)
      BY <1>1, <3>1, ScansAreFound
    <3> QED BY <2>1, <2>2, <3>2 DEF EventOf, Shown
  <2>3. CASE packets[n].kind = "query"
    <3>1. n \in From(packets, packets[n].src, "query")
      BY <2>3 DEF From
    <3>2. Tunnelled(packets, packets[n].src)
      BY <1>1, <3>1, TunnelsAreFound
    <3> QED BY <2>1, <2>3, <3>2 DEF EventOf, Shown
  <2> QED BY <2>1, <2>2, <2>3
<1>2. ASSUME NEW s, Scanned(packets, s) PROVE [type |-> "port_scan", src |-> s] \in FoundUpTo(packets, Len(packets))
  <2>1. PICK n \in From(packets, s, "syn") : FoundAt(packets, n)
    BY <1>2, ScansAreFound
  <2>2. n \in DOMAIN packets /\ packets[n].kind = "syn" /\ packets[n].src = s
    BY DEF From
  <2>3. EventOf(packets, n) = [type |-> "port_scan", src |-> s]
    BY <2>2 DEF EventOf
  <2> QED BY <1>0, <2>1, <2>2, <2>3 DEF FoundUpTo
<1>3. ASSUME NEW s, Tunnelled(packets, s)
      PROVE  [type |-> "dns_tunneling", src |-> s] \in FoundUpTo(packets, Len(packets))
  <2>1. PICK n \in From(packets, s, "query") : FoundAt(packets, n)
    BY <1>3, TunnelsAreFound
  <2>2. n \in DOMAIN packets /\ packets[n].kind = "query" /\ packets[n].src = s
    BY DEF From
  <2>3. EventOf(packets, n) = [type |-> "dns_tunneling", src |-> s]
    BY <2>2 DEF EventOf
  <2> QED BY <1>0, <2>1, <2>2, <2>3 DEF FoundUpTo
<1>4. FoundUpTo(packets, Len(packets)) \subseteq Shown(packets)
  BY <1>0, <1>1 DEF FoundUpTo
<1>5. Shown(packets) \subseteq FoundUpTo(packets, Len(packets))
  BY <1>2, <1>3 DEF Shown
<1>6. ValuesOf(Detected(packets)) = FoundUpTo(packets, Len(packets))
  BY DetectedIs
<1> QED BY <1>4, <1>5, <1>6

-------------------------------------------------------------------------------
(* Jobs.  A job that was analysed shows and still has to show, together, what its *)
(* capture shows.                                                                *)

KnownEvents == UNION {EventsOf(packets) : packets \in Captures}

Job == [file : Captures \cup {Broken},
        status : {"queued", "processing", "publishing", "complete", "error"},
        found : Seq(KnownEvents), results : Seq(KnownEvents)]

Unrepeated(s) == \A k, m \in DOMAIN s : s[k] = s[m] => k = m

JobHolds(job, told) ==
  /\ IF job.status \in {"publishing", "complete"}
     THEN job.file \in Captures /\ ValuesOf(job.results) \cup ValuesOf(job.found) = Shown(job.file)
     ELSE job.results = <<>>
  /\ job.status = "complete" => job.found = <<>>
  /\ Unrepeated(job.results)
  /\ ValuesOf(told) \subseteq ValuesOf(job.results)

PcapInv ==
  /\ restarts \in Nat
  /\ jobs \in Seq(Job) /\ alerts \in Seq(Seq(KnownEvents)) /\ Len(alerts) = Len(jobs)
  /\ \A j \in DOMAIN jobs : JobHolds(jobs[j], alerts[j])

LEMMA CapturesAreSequences ==
  ASSUME NEW packets \in Captures
  PROVE  /\ IsCapture(packets)
         /\ Detected(packets) \in Seq(KnownEvents) /\ ValuesOf(Detected(packets)) = Shown(packets)
<1>1. IsCapture(packets)
  BY CapturesAssumption DEF IsCapture
<1>2. EventsOf(packets) \subseteq KnownEvents
  BY DEF KnownEvents
<1>3. Detected(packets) \in Seq(EventsOf(packets)) /\ ValuesOf(Detected(packets)) = Shown(packets)
  BY <1>1, DetectedIs, DetectedIsShown
<1>4. Detected(packets) \in Seq(KnownEvents)
  <2> DEFINE d == Detected(packets)
  <2> HIDE DEF d
  <2>1. d \in Seq(EventsOf(packets))
    BY <1>3 DEF d
  <2>2. Len(d) \in Nat /\ d = [n \in 1..Len(d) |-> d[n]] /\ \A n \in 1..Len(d) : d[n] \in KnownEvents
    BY <1>2, <2>1, LenProperties, ElementOfSeq
  <2>3. d \in Seq(KnownEvents)
    BY <2>2, IsASeq
  <2> QED BY <2>3 DEF d
<1> QED BY <1>1, <1>3, <1>4

LEMMA PcapStarts == PcapInit => PcapInv
<1> SUFFICES ASSUME PcapInit PROVE PcapInv
  OBVIOUS
<1>1. jobs = <<>> /\ alerts = <<>> /\ restarts = 0
  BY DEF PcapInit
<1>2. jobs \in Seq(Job) /\ alerts \in Seq(Seq(KnownEvents)) /\ Len(jobs) = 0 /\ Len(alerts) = 0 /\ DOMAIN jobs = {}
  BY <1>1, EmptySeq
<1> QED BY <1>1, <1>2 DEF PcapInv

\* A step at one job.
LEMMA OneJobMoves ==
  ASSUME PcapInv, NEW j \in DOMAIN jobs, NEW job \in Job, NEW told \in Seq(KnownEvents), JobHolds(job, told),
         jobs' = [jobs EXCEPT ![j] = job], alerts' = [alerts EXCEPT ![j] = told], restarts' = restarts
  PROVE  PcapInv'
<1>0. /\ jobs \in Seq(Job) /\ alerts \in Seq(Seq(KnownEvents)) /\ Len(jobs) \in Nat /\ Len(alerts) = Len(jobs)
      /\ DOMAIN jobs = 1..Len(jobs) /\ DOMAIN alerts = 1..Len(jobs)
  BY LenProperties DEF PcapInv
<1>1. /\ jobs' \in Seq(Job) /\ Len(jobs') = Len(jobs)
      /\ alerts' \in Seq(Seq(KnownEvents)) /\ Len(alerts') = Len(jobs)
  BY <1>0, ExceptSeq
<1>2. DOMAIN jobs' = DOMAIN jobs
  BY <1>0
<1>3. ASSUME NEW i \in DOMAIN jobs PROVE JobHolds(jobs'[i], alerts'[i])
  <2>1. jobs'[i] = (IF i = j THEN job ELSE jobs[i]) /\ alerts'[i] = (IF i = j THEN told ELSE alerts[i])
    BY <1>0
  <2>2. JobHolds(jobs[i], alerts[i])
    BY DEF PcapInv
  <2> QED BY <2>1, <2>2
<1> QED BY <1>1, <1>2, <1>3 DEF PcapInv

LEMMA PcapMoves == PcapInv /\ [PcapNext]_pcapVars => PcapInv'
<1> SUFFICES ASSUME PcapInv, [PcapNext]_pcapVars PROVE PcapInv'
  OBVIOUS
<1>0. /\ jobs \in Seq(Job) /\ alerts \in Seq(Seq(KnownEvents)) /\ Len(jobs) \in Nat /\ Len(alerts) = Len(jobs)
      /\ DOMAIN jobs = 1..Len(jobs) /\ DOMAIN alerts = 1..Len(jobs)
      /\ \A j \in DOMAIN jobs : JobHolds(jobs[j], alerts[j])
      /\ \A j \in DOMAIN jobs : jobs[j] \in Job /\ alerts[j] \in Seq(KnownEvents)
      /\ alerts = [j \in DOMAIN jobs |-> alerts[j]]
  BY LenProperties, ElementOfSeq DEF PcapInv
<1>1. ASSUME NEW capture \in Captures \cup {Broken}, StartJob(capture) PROVE PcapInv'
  <2> DEFINE job == [file |-> capture, status |-> "queued", found |-> <<>>, results |-> <<>>]
  <2>1. jobs' = Append(jobs, job) /\ alerts' = Append(alerts, <<>>) /\ restarts' = restarts
    BY <1>1 DEF StartJob
  <2>2. job \in Job /\ <<>> \in Seq(KnownEvents)
    BY EmptySeq DEF Job
  <2>3. JobHolds(job, <<>>)
    BY DEF JobHolds, Unrepeated, ValuesOf
  <2> HIDE DEF job
  <2>4. /\ jobs' \in Seq(Job) /\ Len(jobs') = Len(jobs) + 1 /\ DOMAIN jobs' = 1..(Len(jobs) + 1)
        /\ \A i \in 1..Len(jobs) : jobs'[i] = jobs[i]
        /\ jobs'[Len(jobs) + 1] = job
    BY <1>0, <2>1, <2>2, AppendProperties, LenProperties
  <2>5. /\ alerts' \in Seq(Seq(KnownEvents)) /\ Len(alerts') = Len(jobs) + 1
        /\ \A i \in 1..Len(jobs) : alerts'[i] = alerts[i]
        /\ alerts'[Len(jobs) + 1] = <<>>
    BY <1>0, <2>1, <2>2, AppendProperties, LenProperties
  <2>6. 1..(Len(jobs) + 1) = 1..Len(jobs) \cup {Len(jobs) + 1}
    BY <1>0
  <2>7. \A i \in DOMAIN jobs' : JobHolds(jobs'[i], alerts'[i])
    BY <1>0, <2>3, <2>4, <2>5, <2>6
  <2> QED BY <2>1, <2>4, <2>5, <2>7 DEF PcapInv
<1>2. ASSUME NEW j \in DOMAIN jobs, BeginJob(j) PROVE PcapInv'
  <2> DEFINE job == [jobs[j] EXCEPT !.status = "processing"]
  <2>1. jobs[j].status = "queued" /\ jobs' = [jobs EXCEPT ![j] = job] /\ alerts' = alerts /\ restarts' = restarts
    BY <1>2 DEF BeginJob
  <2>2. alerts' = [alerts EXCEPT ![j] = alerts[j]]
    BY <1>0, <2>1
  <2>3. jobs[j] \in Job /\ alerts[j] \in Seq(KnownEvents) /\ JobHolds(jobs[j], alerts[j])
    BY <1>0
  <2>4. job \in Job
    BY <2>3 DEF Job
  <2>5. JobHolds(job, alerts[j])
    BY <2>1, <2>3 DEF Job, JobHolds
  <2> HIDE DEF job
  <2> QED BY <2>1, <2>2, <2>3, <2>4, <2>5, OneJobMoves
<1>3. ASSUME NEW j \in DOMAIN jobs, AnalyseJob(j) PROVE PcapInv'
  <2>1. jobs[j].status = "processing" /\ alerts' = alerts /\ restarts' = restarts
    BY <1>3 DEF AnalyseJob
  <2>2. alerts' = [alerts EXCEPT ![j] = alerts[j]]
    BY <1>0, <2>1
  <2>3. jobs[j] \in Job /\ alerts[j] \in Seq(KnownEvents) /\ JobHolds(jobs[j], alerts[j])
    BY <1>0
  <2>4. jobs[j].results = <<>>
    BY <2>1, <2>3 DEF JobHolds
  <2>5. CASE jobs[j].file = Broken
    <3> DEFINE job == [jobs[j] EXCEPT !.status = "error"]
    <3>1. jobs' = [jobs EXCEPT ![j] = job]
      BY <1>3, <2>5 DEF AnalyseJob
    <3>2. job \in Job
      BY <2>3 DEF Job
    <3>3. JobHolds(job, alerts[j])
      BY <2>1, <2>3 DEF Job, JobHolds
    <3> HIDE DEF job
    <3> QED BY <2>1, <2>2, <2>3, <3>1, <3>2, <3>3, OneJobMoves
  <2>6. CASE jobs[j].file # Broken
    <3> DEFINE d == Detected(jobs[j].file)
               job == [jobs[j] EXCEPT !.status = "publishing", !.found = d]
    <3>1. jobs' = [jobs EXCEPT ![j] = job]
      BY <1>3, <2>6 DEF AnalyseJob
    <3>2. jobs[j].file \in Captures
      BY <2>3, <2>6 DEF Job
    <3>3. d \in Seq(KnownEvents) /\ ValuesOf(d) = Shown(jobs[j].file)
      BY <3>2, CapturesAreSequences
    <3> HIDE DEF d
    <3>4. job \in Job
      BY <2>3, <3>3 DEF Job
    <3>5. /\ job.status = "publishing" /\ job.file = jobs[j].file /\ job.found = d
          /\ job.results = <<>>
      BY <2>3, <2>4 DEF Job
    <3> HIDE DEF job
    <3>6. ValuesOf(<<>>) = {} /\ Unrepeated(<<>>)
      BY DEF ValuesOf, Unrepeated
    <3>7. ValuesOf(alerts[j]) \subseteq ValuesOf(job.results)
      BY <2>3, <2>4, <3>5 DEF JobHolds
    <3>8. JobHolds(job, alerts[j])
      BY <3>2, <3>3, <3>5, <3>6, <3>7 DEF JobHolds
    <3> QED BY <2>1, <2>2, <2>3, <3>1, <3>4, <3>8, OneJobMoves
  <2> QED BY <2>5, <2>6
<1>4. ASSUME NEW j \in DOMAIN jobs, NEW up \in BOOLEAN, PublishFound(j, up) PROVE PcapInv'
  <2> DEFINE shown == jobs[j].results
             found == jobs[j].found
             e == Head(found)
             now == IF ~Seen(shown, e) THEN Append(shown, e) ELSE shown
             job == [jobs[j] EXCEPT !.found = Tail(found), !.results = now]
             told == IF ~Seen(shown, e) /\ up THEN Append(alerts[j], e) ELSE alerts[j]
  <2>1. /\ jobs[j].status = "publishing" /\ found # <<>> /\ restarts' = restarts
        /\ jobs' = [jobs EXCEPT ![j] = job]
    BY <1>4 DEF PublishFound
  <2>2. alerts' = [alerts EXCEPT ![j] = told]
    BY <1>0, <1>4 DEF PublishFound
  <2>3. jobs[j] \in Job /\ alerts[j] \in Seq(KnownEvents) /\ JobHolds(jobs[j], alerts[j])
    BY <1>0
  <2>4. shown \in Seq(KnownEvents) /\ found \in Seq(KnownEvents)
    BY <2>3 DEF Job
  <2>5. e \in KnownEvents /\ Tail(found) \in Seq(KnownEvents) /\ ValuesOf(found) = {e} \cup ValuesOf(Tail(found))
    <3> HIDE DEF found
    <3>1. Len(found) \in Nat /\ Len(found) # 0 /\ DOMAIN found = 1..Len(found) /\ found[1] = e
      BY <2>1, <2>4, LenProperties, EmptySeq, HeadTailProperties
    <3>2. /\ e \in KnownEvents /\ Tail(found) \in Seq(KnownEvents) /\ DOMAIN Tail(found) = 1..(Len(found) - 1)
          /\ \A i \in 1..(Len(found) - 1) : Tail(found)[i] = found[i + 1]
      BY <2>1, <2>4, <3>1, HeadTailProperties, LenProperties
    <3>3. ValuesOf(found) \subseteq {e} \cup ValuesOf(Tail(found))
      <4> SUFFICES ASSUME NEW i \in 1..Len(found), i # 1 PROVE found[i] \in ValuesOf(Tail(found))
        BY <3>1 DEF ValuesOf
      <4>1. i - 1 \in 1..(Len(found) - 1) /\ (i - 1) + 1 = i
        BY <3>1
      <4>2. Tail(found)[i - 1] = found[i]
        BY <3>2, <4>1
      <4> QED BY <3>2, <4>1, <4>2 DEF ValuesOf
    <3>4. {e} \cup ValuesOf(Tail(found)) \subseteq ValuesOf(found)
      <4>1. e \in ValuesOf(found)
        <5>1. 1 \in DOMAIN found
          BY <3>1
        <5> QED BY <3>1, <5>1 DEF ValuesOf
      <4>2. ASSUME NEW i \in 1..(Len(found) - 1) PROVE Tail(found)[i] \in ValuesOf(found)
        <5>1. i + 1 \in DOMAIN found
          BY <3>1
        <5> QED BY <3>2, <5>1 DEF ValuesOf
      <4> QED BY <3>2, <4>1, <4>2 DEF ValuesOf
    <3> QED BY <3>2, <3>3, <3>4
  <2>6. Seen(shown, e) <=> e \in ValuesOf(shown)
    BY DEF Seen, ValuesOf
  <2>7. now \in Seq(KnownEvents) /\ ValuesOf(now) = ValuesOf(shown) \cup {e}
    <3> HIDE DEF shown, e
    <3>1. Append(shown, e) \in Seq(KnownEvents) /\ ValuesOf(Append(shown, e)) = ValuesOf(shown) \cup {e}
      BY <2>4, <2>5, OneMoreValue
    <3> QED BY <2>4, <2>6, <3>1
  <2>8. told \in Seq(KnownEvents) /\ ValuesOf(told) \subseteq ValuesOf(alerts[j]) \cup {e}
    <3> HIDE DEF e
    <3>1. Append(alerts[j], e) \in Seq(KnownEvents) /\ ValuesOf(Append(alerts[j], e)) = ValuesOf(alerts[j]) \cup {e}
      BY <2>3, <2>5, OneMoreValue
    <3> QED BY <2>3, <3>1
  <2>9. Unrepeated(now)
    <3> HIDE DEF shown, e
    <3>1. Unrepeated(shown)
      BY <2>3 DEF JobHolds, shown
    <3>2. CASE e \in ValuesOf(shown)
      BY <2>6, <3>1, <3>2
    <3>3. CASE e \notin ValuesOf(shown)
      <4>1. now = Append(shown, e)
        BY <2>6, <3>3
      <4>2. /\ Len(shown) \in Nat /\ DOMAIN shown = 1..Len(shown) /\ DOMAIN now = 1..(Len(shown) + 1)
            /\ \A i \in 1..Len(shown) : now[i] = shown[i]
            /\ now[Len(shown) + 1] = e
        BY <2>4, <2>5, <4>1, AppendProperties, LenProperties
      <4> HIDE DEF now
      <4>3. ASSUME NEW k \in DOMAIN now, NEW m \in DOMAIN now, now[k] = now[m] PROVE k = m
        <5>1. \A i \in 1..Len(shown) : now[i] \in ValuesOf(shown)
          BY <4>2 DEF ValuesOf
        <5>2. (k \in 1..Len(shown) \/ k = Len(shown) + 1) /\ (m \in 1..Len(shown) \/ m = Len(shown) + 1)
          BY <4>2
        <5>3. CASE k \in 1..Len(shown) /\ m \in 1..Len(shown)
          BY <3>1, <4>2, <4>3, <5>3 DEF Unrepeated
        <5> QED BY <3>3, <4>2, <4>3, <5>1, <5>2, <5>3
      <4> QED BY <4>3 DEF Unrepeated
    <3> QED BY <3>2, <3>3
  <2>10. /\ job \in Job /\ job.status = "publishing" /\ job.file = jobs[j].file /\ job.found = Tail(found)
         /\ job.results = now
    <3> HIDE DEF now, found
    <3> QED BY <2>1, <2>3, <2>5, <2>7 DEF Job
  <2>11. JobHolds(job, told)
    <3>1. /\ jobs[j].file \in Captures /\ ValuesOf(shown) \cup ValuesOf(found) = Shown(jobs[j].file)
          /\ ValuesOf(alerts[j]) \subseteq ValuesOf(shown)
      BY <2>1, <2>3 DEF JobHolds
    <3> HIDE DEF job, now, found, told, shown, e
    <3> QED BY <2>5, <2>7, <2>8, <2>9, <2>10, <3>1 DEF JobHolds
  <2> HIDE DEF job, told
  <2> QED BY <2>1, <2>2, <2>8, <2>10, <2>11, OneJobMoves
<1>5. ASSUME NEW j \in DOMAIN jobs, FinishJob(j) PROVE PcapInv'
  <2> DEFINE job == [jobs[j] EXCEPT !.status = "complete"]
  <2>1. /\ jobs[j].status = "publishing" /\ jobs[j].found = <<>>
        /\ jobs' = [jobs EXCEPT ![j] = job] /\ alerts' = alerts /\ restarts' = restarts
    BY <1>5 DEF FinishJob
  <2>2. alerts' = [alerts EXCEPT ![j] = alerts[j]]
    BY <1>0, <2>1
  <2>3. jobs[j] \in Job /\ alerts[j] \in Seq(KnownEvents) /\ JobHolds(jobs[j], alerts[j])
    BY <1>0
  <2>4. job \in Job
    BY <2>3 DEF Job
  <2>5. JobHolds(job, alerts[j])
    BY <2>1, <2>3 DEF Job, JobHolds
  <2> HIDE DEF job
  <2> QED BY <2>1, <2>2, <2>3, <2>4, <2>5, OneJobMoves
<1>6. CASE ProcessRestarts
  BY <1>0, <1>6 DEF ProcessRestarts, PcapInv
<1>7. CASE UNCHANGED pcapVars
  BY <1>7 DEF pcapVars, PcapInv
<1> QED BY <1>1, <1>2, <1>3, <1>4, <1>5, <1>6, <1>7 DEF PcapNext

\* A finished analysis of a capture names who scanned and who tunnelled, all of
\* them, nobody else and each once, whatever the capture, whatever jobs run beside
\* it, and whether Redis takes the events or not; what reached the engine is part
\* of what is shown (api/pcap_handler.py).
THEOREM CapturesAlwaysRead == PcapSpec => []CapturesAreRead
<1>1. PcapInv => CapturesAreRead
  <2> SUFFICES ASSUME PcapInv, NEW j \in DOMAIN jobs, jobs[j].status = "complete"
               PROVE  /\ {jobs[j].results[k] : k \in DOMAIN jobs[j].results} = Shown(jobs[j].file)
                      /\ \A k, m \in DOMAIN jobs[j].results : jobs[j].results[k] = jobs[j].results[m] => k = m
                      /\ \A k \in DOMAIN alerts[j] : Seen(jobs[j].results, alerts[j][k])
    BY DEF CapturesAreRead, Shown
  <2>1. JobHolds(jobs[j], alerts[j])
    BY DEF PcapInv
  <2>2. /\ jobs[j].found = <<>> /\ ValuesOf(jobs[j].results) \cup ValuesOf(jobs[j].found) = Shown(jobs[j].file)
        /\ Unrepeated(jobs[j].results) /\ ValuesOf(alerts[j]) \subseteq ValuesOf(jobs[j].results)
    BY <2>1 DEF JobHolds
  <2>3. ValuesOf(<<>>) = {}
    BY DEF ValuesOf
  <2>4. ValuesOf(jobs[j].results) = Shown(jobs[j].file)
    BY <2>2, <2>3
  <2> QED BY <2>2, <2>4 DEF ValuesOf, Unrepeated, Seen
<1>2. PcapSpec => []PcapInv
  BY PcapStarts, PcapMoves, PTL DEF PcapSpec
<1> QED BY <1>1, <1>2, PTL

-----------------------------------------------------------------------------
(* Lists of edges of the topology *)

Edges == Nodes \X Nodes

\* A list of edges, each of them once.
IsList(s) == s \in Seq(Edges) /\ \A m, n \in DOMAIN s : s[m] = s[n] => m = n

\* A finite set can be put in an order, and then each element comes once.
LEMMA SomeOrderIs ==
  ASSUME NEW edges \in SUBSET Edges, IsFiniteSet(edges)
  PROVE  IsList(SomeOrder(edges)) /\ EdgesOf(SomeOrder(edges)) = edges
<1> DEFINE c == Cardinality(edges)
           lists(s) == \A e \in edges : \E n \in DOMAIN s : s[n] = e
           s == SomeOrder(edges)
<1>1. c \in Nat /\ ExistsBijection(1..c, edges)
  BY FS_CardinalityType
<1>2. PICK f \in Bijection(1..c, edges) : TRUE
  BY <1>1 DEF ExistsBijection
<1>3. f \in [1..c -> edges] /\ lists(f)
  BY <1>2 DEF Bijection, Surjection
<1>4. s \in [1..c -> edges] /\ lists(s)
  <2>1. s = CHOOSE x \in [1..c -> edges] : lists(x)
    BY DEF SomeOrder
  <2> HIDE DEF s, lists, c
  <2> QED BY <1>3, <2>1
<1>5. s \in Surjection(1..c, edges)
  BY <1>4 DEF Surjection
<1>6. IsFiniteSet(1..c) /\ Cardinality(1..c) = c
  <2> HIDE DEF c
  <2>1. PICK n \in Nat : n = c
    BY <1>1
  <2>2. Cardinality(1..n) = n
    BY FS_Interval, n >= 0
  <2>3. IsFiniteSet(1..n)
    BY FS_Interval
  <2> QED BY <2>1, <2>2, <2>3
<1>7. s \in Injection(1..c, edges)
  <2> HIDE DEF s
  <2> QED BY <1>5, <1>6, FS_SurjSameCardinalityImpliesInj
<1> HIDE DEF s, c
<1>8. DOMAIN s = 1..c /\ \A m, n \in 1..c : s[m] = s[n] => m = n
  BY <1>4, <1>7 DEF Injection, IsInjective
<1>9. s \in Seq(Edges)
  BY <1>1, <1>4, SeqDef
<1>10. EdgesOf(s) = edges
  BY <1>4 DEF EdgesOf
<1> QED BY <1>8, <1>9, <1>10 DEF IsList, s

\* What is appended is new, so the list still has each edge once.
LEMMA AppendingKeeps ==
  ASSUME NEW s, IsList(s), NEW t, IsList(t), EdgesOf(s) \cap EdgesOf(t) = {}
  PROVE  IsList(s \o t) /\ EdgesOf(s) \subseteq EdgesOf(s \o t) /\ EdgesOf(t) \subseteq EdgesOf(s \o t)
<1> DEFINE u == s \o t
<1>1. /\ s \in Seq(Edges) /\ Len(s) \in Nat /\ DOMAIN s = 1..Len(s)
      /\ t \in Seq(Edges) /\ Len(t) \in Nat /\ DOMAIN t = 1..Len(t)
  BY LenProperties DEF IsList
<1>2. /\ u \in Seq(Edges) /\ Len(u) = Len(s) + Len(t)
      /\ \A i \in 1..(Len(s) + Len(t)) : u[i] = IF i <= Len(s) THEN s[i] ELSE t[i - Len(s)]
  BY <1>1, ConcatProperties
<1>3. DOMAIN u = 1..(Len(s) + Len(t))
  BY <1>1, <1>2, LenProperties
<1> HIDE DEF u
<1>4. ASSUME NEW m \in DOMAIN u, NEW n \in DOMAIN u, u[m] = u[n] PROVE m = n
  <2>1. CASE m <= Len(s) /\ n <= Len(s)
    BY <1>1, <1>2, <1>3, <1>4, <2>1 DEF IsList
  <2>2. CASE m > Len(s) /\ n > Len(s)
    <3>1. /\ m - Len(s) \in 1..Len(t) /\ u[m] = t[m - Len(s)]
          /\ n - Len(s) \in 1..Len(t) /\ u[n] = t[n - Len(s)]
      <4>1. m \in 1..(Len(s) + Len(t)) /\ n \in 1..(Len(s) + Len(t)) /\ ~(m <= Len(s)) /\ ~(n <= Len(s))
        BY <1>1, <1>3, <2>2
      <4> QED BY <1>1, <1>2, <4>1
    <3>2. m - Len(s) = n - Len(s)
      BY <1>1, <1>4, <3>1 DEF IsList
    <3> QED BY <1>1, <1>3, <3>2
  <2>3. CASE m <= Len(s) /\ n > Len(s)
    <3>1. m \in DOMAIN s /\ n - Len(s) \in DOMAIN t /\ s[m] = t[n - Len(s)]
      BY <1>1, <1>2, <1>3, <1>4, <2>3
    <3> QED BY <3>1 DEF EdgesOf
  <2>4. CASE m > Len(s) /\ n <= Len(s)
    <3>1. n \in DOMAIN s /\ m - Len(s) \in DOMAIN t /\ s[n] = t[m - Len(s)]
      BY <1>1, <1>2, <1>3, <1>4, <2>4
    <3> QED BY <3>1 DEF EdgesOf
  <2> QED BY <1>1, <1>3, <2>1, <2>2, <2>3, <2>4
<1>5. EdgesOf(s) \subseteq EdgesOf(u)
  <2>1. \A i \in DOMAIN s : i \in DOMAIN u /\ u[i] = s[i]
    BY <1>1, <1>2, <1>3
  <2> QED BY <2>1 DEF EdgesOf
<1>6. EdgesOf(t) \subseteq EdgesOf(u)
  <2>1. \A i \in DOMAIN t : i + Len(s) \in DOMAIN u /\ u[i + Len(s)] = t[i]
    BY <1>1, <1>2, <1>3
  <2> QED BY <2>1 DEF EdgesOf
<1> QED BY <1>2, <1>4, <1>5, <1>6 DEF IsList, u

-----------------------------------------------------------------------------
(* The settings of the firewall *)

USE WafAssumption

Contents == [Settings -> Values]

\* A request alone: what it does not name it keeps, and its text is in the file it opened.
SaveOK(s) ==
  /\ DOMAIN s = {"step", "named", "misread", "config", "into"}
  /\ s.step \in {"open", "write", "move", "reload"}
  /\ s.into = IF s.step = "write" THEN "tmp" ELSE "none"
  /\ s.step # "reload" =>
       /\ s.config \in Contents /\ s.misread \in BOOLEAN
       /\ \A n \in Settings \ s.named :
            s.config[n] = IF s.misread THEN DefaultValue ELSE LastSaved[n]
  /\ s.step = "write" => tmp = Torn
  /\ s.step = "move" => tmp = s.config

OnlyOneSaves ==
  /\ DOMAIN saver = Savers
  /\ \A r \in Savers : saver[r] = NotSaving \/ SaveOK(saver[r])
  /\ \A q, r \in Savers : saver[q] # NotSaving /\ saver[r] # NotSaving => q = r

FileIsWanted == wanted \in Contents /\ file \in Contents \cup {NoFile} /\ ReadFile = LastSaved

WafInv == ~met => FileIsWanted /\ OnlyOneSaves

LEMMA DefaultsAreContents == Defaults \in Contents
  BY DEF Defaults, Contents, Values

LEMMA InitWaf == WafInit => WafInv
  BY DefaultsAreContents DEF WafInit, WafInv, FileIsWanted, OnlyOneSaves, ReadFile, NotSaving, LastSaved,
                             Defaults

LEMMA SaveBegins ==
  ASSUME WafInv, NEW r \in Savers, NEW changes \in Bodies, NEW misread \in BOOLEAN,
         BeginSave(r, changes, misread)
  PROVE  WafInv'
<1> SUFFICES ASSUME ~met' PROVE FileIsWanted' /\ OnlyOneSaves'
  BY DEF WafInv
<1>1. ~met /\ FileIsWanted /\ OnlyOneSaves /\ \A q \in Savers : saver[q] = NotSaving
  BY DEF BeginSave, WafInv
<1>2. /\ Changed(changes, misread) \in Contents
      /\ \A n \in Settings \ DOMAIN changes :
           Changed(changes, misread)[n] = IF misread THEN DefaultValue ELSE LastSaved[n]
  <2>1. \A n \in DOMAIN changes : changes[n] \in Values
    BY DEF Values
  <2>2. DefaultValue \in Values /\ LastSaved \in Contents
    BY <1>1 DEF LastSaved, Values, FileIsWanted, Contents
  <2>3. Read(misread) = IF misread THEN Defaults ELSE LastSaved
    BY <1>1 DEF Read, FileIsWanted
  <2> QED BY <2>1, <2>2, <2>3 DEF Changed, Contents, Defaults
<1>3. /\ UNCHANGED <<file, tmp, wanted, dropped>> /\ DOMAIN saver' = Savers
      /\ saver' = [saver EXCEPT ![r] = [step |-> "open", named |-> DOMAIN changes, misread |-> misread,
                                        config |-> Changed(changes, misread), into |-> "none"]]
  BY <1>1 DEF BeginSave, OnlyOneSaves
<1>4. FileIsWanted'
  BY <1>1, <1>3 DEF FileIsWanted, ReadFile, LastSaved
<1>5. SaveOK(saver[r])'
  BY <1>1, <1>2, <1>3 DEF SaveOK, OnlyOneSaves, LastSaved
<1> QED BY <1>1, <1>3, <1>4, <1>5 DEF OnlyOneSaves

\* What a request does that is the only one.
LEMMA AloneSaves ==
  ASSUME WafInv, ~met, NEW r \in Savers, saver[r] # NotSaving, met' = met
  PROVE  /\ FileIsWanted /\ OnlyOneSaves /\ SaveOK(saver[r])
         /\ \A q \in Savers \ {r} : saver[q] = NotSaving
  BY DEF WafInv, OnlyOneSaves

LEMMA SaveEnds ==
  ASSUME WafInv, NEW r \in Savers, saver' = [saver EXCEPT ![r] = NotSaving], UNCHANGED <<file, wanted, dropped, met>>,
         tmp' = tmp
  PROVE  WafInv'
  BY DEF WafInv, FileIsWanted, OnlyOneSaves, ReadFile, SaveOK, LastSaved

LEMMA SavingKeeps ==
  ASSUME WafInv, NEW r \in Savers, OpenTmp(r) \/ WriteTmp(r) \/ MoveTmp(r)
  PROVE  WafInv'
<1> SUFFICES ASSUME ~met' PROVE FileIsWanted' /\ OnlyOneSaves'
  BY DEF WafInv
<1>1. ~met /\ met' = met /\ saver[r].step \in {"open", "write", "move"} /\ NotSaving.step = "none"
  BY DEF OpenTmp, WriteTmp, MoveTmp, NotSaving
<1>2. /\ FileIsWanted /\ OnlyOneSaves /\ SaveOK(saver[r]) /\ DOMAIN saver = Savers
      /\ \A q \in Savers \ {r} : saver[q] = NotSaving
  BY <1>1, AloneSaves DEF OnlyOneSaves
<1>3. CASE OpenTmp(r)
  BY <1>2, <1>3 DEF OpenTmp, FileIsWanted, ReadFile, OnlyOneSaves, SaveOK, LastSaved
<1>4. CASE WriteTmp(r)
  <2>1. saver[r].into = "tmp" /\ tmp = Torn
    BY <1>2, <1>4 DEF WriteTmp, SaveOK
  <2>2. Over(r, tmp) = {saver[r].config}
    BY <1>1, <1>2, <2>1 DEF Over
  <2>3. tmp' = saver[r].config /\ file' = file /\ wanted' = wanted /\ dropped' = dropped
    BY <1>4, <2>1, <2>2 DEF WriteTmp
  <2>4. saver' = [saver EXCEPT ![r].step = "move", ![r].into = "none"]
    BY <1>4 DEF WriteTmp
  <2>5. saver[r].step = "write"
    BY <1>4 DEF WriteTmp
  <2>6. SaveOK(saver[r])'
    BY <1>2, <2>3, <2>4, <2>5 DEF SaveOK, LastSaved
  <2> QED BY <1>2, <2>3, <2>4, <2>6 DEF FileIsWanted, ReadFile, OnlyOneSaves, LastSaved
<1>5. CASE MoveTmp(r)
  <2> DEFINE config == saver[r].config
             named == saver[r].named
  <2>1. /\ saver[r].step = "move" /\ tmp = config /\ config \in Contents /\ saver[r].misread \in BOOLEAN
        /\ \A n \in Settings \ named : config[n] = IF saver[r].misread THEN DefaultValue ELSE LastSaved[n]
    BY <1>2, <1>5 DEF MoveTmp, SaveOK
  <2>2. tmp # NoFile /\ tmp # Torn
    BY <2>1 DEF Contents
  <2>3. /\ file' = config
        /\ wanted' = [s \in Settings |-> IF s \in named THEN config[s] ELSE wanted[s]]
        /\ dropped' = (dropped \cup IF saver[r].misread THEN Settings ELSE {}) \ named
        /\ saver' = [q \in Savers |-> IF q = r THEN [NotSaving EXCEPT !.step = "reload"]
                                     ELSE [saver[q] EXCEPT !.into = Moved[@]]]
    BY <1>5, <2>1, <2>2 DEF MoveTmp
  <2>4. LastSaved' = config /\ wanted' \in Contents
    <3>1. \A n \in Settings : (IF n \in dropped' THEN DefaultValue ELSE wanted'[n]) = config[n]
      BY <2>1, <2>3 DEF LastSaved
    <3>2. wanted' \in Contents
      BY <1>2, <2>1, <2>3 DEF FileIsWanted, Contents
    <3> QED BY <2>1, <3>1, <3>2 DEF LastSaved, Contents
  <2>5. [NotSaving EXCEPT !.into = Moved[@]] = NotSaving
    <3>1. NotSaving.into = "none" /\ Moved["none"] = "none"
      BY DEF NotSaving, Moved
    <3>2. [NotSaving EXCEPT !.into = Moved[@]] = [NotSaving EXCEPT !.into = "none"]
      BY <3>1
    <3>3. [NotSaving EXCEPT !.into = NotSaving.into] = NotSaving
      <4>1. \A n \in DOMAIN NotSaving : [NotSaving EXCEPT !.into = NotSaving.into][n] = NotSaving[n]
        OBVIOUS
      <4> QED BY <4>1 DEF NotSaving
    <3> QED BY <3>1, <3>2, <3>3
  <2>6. DOMAIN saver' = Savers /\ \A q \in Savers \ {r} : saver'[q] = NotSaving
    BY <1>2, <2>3, <2>5
  <2>7. SaveOK(saver[r])'
    BY <2>3 DEF SaveOK, NotSaving
  <2>8. FileIsWanted'
    BY <2>1, <2>2, <2>3, <2>4 DEF FileIsWanted, ReadFile
  <2> QED BY <2>6, <2>7, <2>8 DEF OnlyOneSaves
<1> QED BY <1>3, <1>4, <1>5

LEMMA NextWaf == WafInv /\ [WafNext]_wafVars => WafInv'
<1> SUFFICES ASSUME WafInv, [WafNext]_wafVars PROVE WafInv'
  OBVIOUS
<1>1. ASSUME NEW r \in Savers, SaveFails(r) \/ ReloadWaf(r) PROVE WafInv'
  BY <1>1, SaveEnds DEF SaveFails, ReloadWaf
<1>2. CASE RestartApi
  BY <1>2 DEF RestartApi, WafInv, FileIsWanted, ReadFile, OnlyOneSaves, LastSaved
<1>3. CASE UNCHANGED wafVars
  BY <1>3 DEF wafVars, WafInv, FileIsWanted, ReadFile, OnlyOneSaves, SaveOK, LastSaved
<1> QED BY <1>1, <1>2, <1>3, SaveBegins, SavingKeeps DEF WafNext

\* As long as no two requests to set_proxy_config have overlapped, the file that
\* the firewall reads is whole and holds, for every setting, the last value that
\* a request saved for it, whatever failed or stopped half way; but for what a
\* request that could not read the file set back to the defaults.
THEOREM SettingsAlwaysKept == WafSpec => []SettingsAreKept
<1>1. WafInv => SettingsAreKept
  BY DEF WafInv, FileIsWanted, SettingsAreKept, Contents
<1> QED BY <1>1, InitWaf, NextWaf, PTL DEF WafSpec

-----------------------------------------------------------------------------
(* The decisions of analysts *)

Requests == [step : {"none", "table", "answer"}, decision : Decisions \cup {NoDecision},
             taken : BOOLEAN, before : SUBSET (Decisions \cup {NoDecision})]

\* What is in Redis stands or is on its way; and seen from a request that has written,
\* it is not what stood before that request.
TriageInv ==
  /\ deciding \in [Analysts -> Requests]
  /\ \A a \in Analysts : deciding[a].step = "none" <=> deciding[a] = NoRequest
  /\ \A a \in Analysts : deciding[a].step # "none" => deciding[a].decision \in Decisions
  /\ standing \subseteq Decisions \cup {NoDecision}
  /\ inRedis \in standing \cup InTheMaking
  /\ \A a \in Analysts : deciding[a].taken => inRedis \in (standing \ deciding[a].before) \cup InTheMaking

LEMMA InitTriage == TriageInit => TriageInv
  BY DEF TriageInit, TriageInv, Requests, NoRequest, InTheMaking

LEMMA StoredInRedis ==
  ASSUME TriageInv, NEW a \in Analysts, NEW d \in Decisions, NEW taken \in BOOLEAN, DecideInRedis(a, d, taken)
  PROVE  TriageInv'
<1> DEFINE r == [step |-> "table", decision |-> d, taken |-> taken, before |-> standing]
<1>1. /\ deciding' = [deciding EXCEPT ![a] = r] /\ standing' = standing
      /\ inRedis' = IF taken THEN d ELSE inRedis
      /\ deciding[a] = NoRequest /\ deciding \in [Analysts -> Requests]
  BY DEF DecideInRedis, TriageInv
<1>2. r \in Requests /\ r # NoRequest
  BY DEF Requests, TriageInv, NoRequest
<1>3. r.step = "table" /\ r.decision = d /\ r.taken = taken
  OBVIOUS
<1> HIDE DEF r
<1>4. deciding' \in [Analysts -> Requests] /\ deciding'[a] = r /\ \A b \in Analysts \ {a} : deciding'[b] = deciding[b]
  BY <1>1, <1>2
<1>5. InTheMaking \subseteq InTheMaking' /\ (taken => d \in InTheMaking')
  BY <1>1, <1>3, <1>4 DEF InTheMaking, NoRequest
<1>6. inRedis' \in standing' \cup InTheMaking'
  BY <1>1, <1>5 DEF TriageInv
<1>7. ASSUME NEW b \in Analysts, deciding'[b].taken
      PROVE  inRedis' \in (standing' \ deciding'[b].before) \cup InTheMaking'
  <2>1. CASE taken
    BY <1>1, <1>5, <2>1
  <2>2. CASE ~taken
    <3>1. b # a
      BY <1>3, <1>4, <1>7, <2>2
    <3> QED BY <1>1, <1>4, <1>5, <1>7, <2>2, <3>1 DEF TriageInv
  <2> QED BY <2>1, <2>2
<1> QED BY <1>1, <1>2, <1>3, <1>4, <1>6, <1>7 DEF TriageInv

LEMMA RowIsStored ==
  ASSUME TriageInv, NEW a \in Analysts, NEW taken \in BOOLEAN, NEW marked \in BOOLEAN,
         DecideInTable(a, taken, marked)
  PROVE  TriageInv'
<1>1. /\ deciding' = [deciding EXCEPT ![a].step = "answer"] /\ deciding[a].step = "table"
      /\ UNCHANGED <<inRedis, standing>> /\ deciding \in [Analysts -> Requests]
  BY DEF DecideInTable, TriageInv
<1>2. \A b \in Analysts : /\ deciding'[b].decision = deciding[b].decision /\ deciding'[b].taken = deciding[b].taken
                          /\ deciding'[b].before = deciding[b].before
  BY <1>1 DEF Requests
<1>3. /\ deciding' \in [Analysts -> Requests] /\ deciding'[a].step = "answer"
      /\ \A b \in Analysts \ {a} : deciding'[b] = deciding[b]
  BY <1>1 DEF Requests
<1>4. InTheMaking' = InTheMaking
  BY <1>2 DEF InTheMaking
<1>5. deciding'[a] # NoRequest
  BY <1>3 DEF NoRequest
<1> QED BY <1>1, <1>2, <1>3, <1>4, <1>5 DEF TriageInv

LEMMA DecisionIsAnswered ==
  ASSUME TriageInv, NEW a \in Analysts, NEW written \in BOOLEAN, AnswerDecision(a, written)
  PROVE  TriageInv'
<1> DEFINE d == deciding[a].decision
           took == deciding[a].taken
<1>1. /\ deciding \in [Analysts -> Requests] /\ inRedis' = inRedis /\ deciding[a].step = "answer"
      /\ standing' = IF took THEN (standing \ deciding[a].before) \cup {d} ELSE standing
      /\ deciding' = [b \in Analysts |-> IF b = a THEN NoRequest
                                         ELSE IF took THEN [deciding[b] EXCEPT !.before = @ \ {d}]
                                         ELSE deciding[b]]
  BY DEF AnswerDecision, TriageInv
<1>2. d \in Decisions /\ took \in BOOLEAN
  BY <1>1 DEF TriageInv, Requests
<1>3. deciding'[a] = NoRequest /\ NoRequest \in Requests
  BY <1>1 DEF Requests, NoRequest
<1>4. ASSUME NEW b \in Analysts \ {a}
      PROVE  /\ deciding'[b] \in Requests
             /\ deciding'[b].step = deciding[b].step /\ deciding'[b].decision = deciding[b].decision
             /\ deciding'[b].taken = deciding[b].taken
             /\ deciding'[b].before = IF took THEN deciding[b].before \ {d} ELSE deciding[b].before
             /\ deciding'[b].step = "none" <=> deciding'[b] = NoRequest
  <2>1. CASE took
    <3>1. deciding'[b] = [deciding[b] EXCEPT !.before = @ \ {d}] /\ deciding[b] \in Requests
      BY <1>1, <2>1
    <3>2. ASSUME deciding[b] = NoRequest  PROVE  deciding'[b] = NoRequest
      <4>1. NoRequest.before \ {d} = {}
        BY DEF NoRequest
      <4>2. deciding'[b] = [NoRequest EXCEPT !.before = {}]
        BY <3>1, <3>2, <4>1
      <4> QED BY <4>2 DEF NoRequest
    <3> QED BY <2>1, <3>1, <3>2 DEF Requests, TriageInv, NoRequest
  <2>2. CASE ~took
    BY <1>1, <2>2 DEF TriageInv
  <2> QED BY <2>1, <2>2
<1>5. deciding' \in [Analysts -> Requests]
  BY <1>1, <1>3, <1>4
<1>6. standing' \subseteq Decisions \cup {NoDecision}
  BY <1>1, <1>2 DEF TriageInv
<1>7. ASSUME NEW x \in InTheMaking  PROVE  x \in InTheMaking' \/ (took /\ x = d)
  <2>1. PICK b \in Analysts : deciding[b].taken /\ x = deciding[b].decision
    BY <1>7 DEF InTheMaking
  <2>2. CASE b = a
    BY <2>1, <2>2
  <2>3. CASE b # a
    BY <1>4, <2>1, <2>3 DEF InTheMaking
  <2> QED BY <2>2, <2>3
<1>8. took => d \in standing'
  BY <1>1
<1> HIDE DEF d, took
<1>9. inRedis \in standing' \cup InTheMaking'
  <2>1. CASE took
    BY <1>1, <1>7, <1>8, <2>1 DEF TriageInv, took
  <2>2. CASE ~took
    BY <1>1, <1>7, <2>2 DEF TriageInv
  <2> QED BY <2>1, <2>2
<1>10. ASSUME NEW b \in Analysts, deciding'[b].taken
       PROVE  inRedis \in (standing' \ deciding'[b].before) \cup InTheMaking'
  <2>1. b # a
    BY <1>3, <1>10 DEF NoRequest
  <2>2. deciding[b].taken /\ deciding'[b].before = IF took THEN deciding[b].before \ {d} ELSE deciding[b].before
    BY <1>4, <1>10, <2>1
  <2>3. inRedis \in (standing \ deciding[b].before) \cup InTheMaking
    BY <2>2 DEF TriageInv
  <2>4. CASE ~took
    BY <1>1, <1>7, <2>2, <2>3, <2>4
  <2>5. CASE took
    <3>1. d \in standing' \ deciding'[b].before
      BY <1>8, <2>2, <2>5
    <3>2. CASE inRedis \in InTheMaking
      BY <1>7, <3>1, <3>2
    <3>3. CASE inRedis \in standing \ deciding[b].before /\ inRedis \notin InTheMaking
      <4>1. inRedis \notin deciding[a].before
        BY <2>5, <3>3 DEF TriageInv, took
      <4> QED BY <1>1, <2>2, <2>5, <3>3, <4>1
    <3> QED BY <2>3, <3>2, <3>3
  <2> QED BY <2>4, <2>5
<1> QED BY <1>1, <1>3, <1>4, <1>5, <1>6, <1>9, <1>10 DEF TriageInv, NoRequest

LEMMA NextTriage == TriageInv /\ [TriageNext]_triageVars => TriageInv'
<1> SUFFICES ASSUME TriageInv, [TriageNext]_triageVars PROVE TriageInv'
  OBVIOUS
<1>1. CASE MarkExpires
  BY <1>1 DEF MarkExpires, TriageInv, InTheMaking
<1>2. CASE UNCHANGED triageVars
  BY <1>2 DEF triageVars, TriageInv, InTheMaking
<1> QED BY <1>1, <1>2, StoredInRedis, RowIsStored, DecisionIsAnswered DEF TriageNext

\* Of any number of requests that meet, list_incidents and get_incident_status show
\* one that is under way or whose answer no later request has replaced.
THEOREM DecisionsAlwaysShown == TriageSpec => []DecisionsAreShown
<1>1. TriageInv => DecisionsAreShown
  <2> SUFFICES ASSUME TriageInv  PROVE  DecisionsAreShown
    OBVIOUS
  <2>1. inRedis \in standing \cup InTheMaking
    BY DEF TriageInv
  <2> QED BY <2>1 DEF DecisionsAreShown, Single, Listed, ReadStatus
<1> QED BY <1>1, InitTriage, NextTriage, PTL DEF TriageSpec

-----------------------------------------------------------------------------
(* The feeds *)

\* What a refresh has read has all the sources it counts, and a source that is held
\* has been read by the refresh or is still to be tried.
FeedInv ==
  /\ IndicatorsStay
  /\ held \subseteq Sources
  /\ pulled # NotPulling =>
       /\ \A source \in pulled.from : Addresses(source) \subseteq pulled.ips
       /\ held \subseteq pulled.from \cup (DOMAIN Feeds \ pulled.tried)
       /\ pulled.from \subseteq Sources

\* The addresses of a source that was loaded stay known while the source can be read,
\* through the failures of every other source and of Redis, and through restarts.
THEOREM IndicatorsAlwaysStay == FeedSpec => []IndicatorsStay
<1>1. FeedInit => FeedInv
  BY DEF FeedInit, FeedInv, IndicatorsStay
<1>2. FeedInv /\ [FeedNext]_feedVars => FeedInv'
  <2> SUFFICES ASSUME FeedInv, [FeedNext]_feedVars PROVE FeedInv'
    OBVIOUS
  <2>1. ASSUME NEW read \in BOOLEAN, BeginRefreshFeeds(read) PROVE FeedInv'
    BY <2>1 DEF BeginRefreshFeeds, FeedInv, IndicatorsStay, KnownBad, Sources, Addresses
  <2>2. ASSUME NEW read \in BOOLEAN, NEW up \in BOOLEAN, StartFeed(read, up) PROVE FeedInv'
    BY <2>2 DEF StartFeed, BulkLoad, FeedInv, IndicatorsStay, KnownBad, Sources, Addresses
  <2>3. ASSUME NEW up \in BOOLEAN, EndRefreshFeeds(up) PROVE FeedInv'
    BY <2>3 DEF EndRefreshFeeds, BulkLoad, FeedInv, IndicatorsStay, KnownBad, Sources
  <2>4. ASSUME NEW up \in BOOLEAN, NEW f \in DOMAIN Feeds, PullFeed(f, up) PROVE FeedInv'
    BY <2>4, FeedAssumption DEF PullFeed, FeedInv, IndicatorsStay, KnownBad, Sources, Addresses
  <2>5. CASE UNCHANGED feedVars
    BY <2>5 DEF feedVars, FeedInv, IndicatorsStay, KnownBad
  <2> QED BY <2>1, <2>2, <2>3, <2>4, <2>5 DEF FeedNext
<1>3. FeedInv => IndicatorsStay
  BY DEF FeedInv
<1> QED BY <1>1, <1>2, <1>3, PTL DEF FeedSpec

-----------------------------------------------------------------------------
(* Simulated attacks *)

USE ConsoleAssumption

LEMMA Concatenation ==
  ASSUME NEW T, NEW s \in Seq(T), NEW t \in Seq(T)
  PROVE  /\ s \o t \in Seq(T)
         /\ \A n \in DOMAIN s : n \in DOMAIN (s \o t) /\ (s \o t)[n] = s[n]
         /\ \A n \in DOMAIN t : Len(s) + n \in DOMAIN (s \o t) /\ (s \o t)[Len(s) + n] = t[n]
<1>1. /\ s \o t \in Seq(T) /\ Len(s \o t) = Len(s) + Len(t) /\ Len(s) \in Nat /\ Len(t) \in Nat
      /\ DOMAIN s = 1..Len(s) /\ DOMAIN t = 1..Len(t) /\ DOMAIN (s \o t) = 1..Len(s \o t)
      /\ \A i \in 1..(Len(s) + Len(t)) : (s \o t)[i] = IF i <= Len(s) THEN s[i] ELSE t[i - Len(s)]
  BY ConcatProperties, LenProperties
<1>2. \A n \in 1..Len(t) : Len(s) + n \in 1..(Len(s) + Len(t)) /\ ~(Len(s) + n <= Len(s)) /\ Len(s) + n - Len(s) = n
  BY <1>1
<1> QED BY <1>1, <1>2

LayersOf(s) == {s[n] : n \in DOMAIN s}

LEMMA LayersJoin ==
  ASSUME NEW T, NEW s \in Seq(T), NEW t \in Seq(T)
  PROVE  s \o t \in Seq(T) /\ LayersOf(s) \cup LayersOf(t) \subseteq LayersOf(s \o t)
<1>1. s \o t \in Seq(T)
  BY Concatenation
<1>2. ASSUME NEW n \in DOMAIN s  PROVE  s[n] \in LayersOf(s \o t)
  BY Concatenation DEF LayersOf
<1>3. ASSUME NEW n \in DOMAIN t  PROVE  t[n] \in LayersOf(s \o t)
  <2>1. Len(s) + n \in DOMAIN (s \o t) /\ (s \o t)[Len(s) + n] = t[n]
    BY Concatenation
  <2> QED BY <2>1 DEF LayersOf
<1> QED BY <1>1, <1>2, <1>3 DEF LayersOf

Layered == Seq(Required)

LEMMA TimesIs ==
  ASSUME NEW n \in Nat, NEW layer \in Required
  PROVE  Times(n, layer) \in Layered
  BY DEF Times, Layered

Named == {"a", "b", "c", "all"}

LEMMA EverythingHasAllLayers ==
  /\ \A s \in Named : Scenarios[s] \in Layered
  /\ Required \subseteq LayersOf(Scenarios["all"])
<1>1. ScenarioA \in Layered /\ ScenarioB \in Layered
  <2>1. <<"network">> \in Layered /\ <<"api", "network">> \in Layered
    BY DEF Layered, Required
  <2> QED BY <2>1, TimesIs, LayersJoin DEF ScenarioA, ScenarioB, Layered, Required
<1>2. ScenarioC \in Layered /\ Required \subseteq LayersOf(ScenarioC)
  <2> DEFINE hops == Times(Hops, "network")
             last == <<"api", "api", "network">>
  <2>1. <<"auth">> \in Layered /\ last \in Layered /\ hops \in Layered
    BY TimesIs DEF Layered, Required
  <2>2. "auth" \in LayersOf(<<"auth">>) /\ {"api", "network"} \subseteq LayersOf(last)
    BY DEF LayersOf
  <2> HIDE DEF hops, last
  <2>3. <<"auth">> \o hops \in Layered /\ LayersOf(<<"auth">>) \subseteq LayersOf(<<"auth">> \o hops)
    BY <2>1, LayersJoin DEF Layered
  <2>4. /\ (<<"auth">> \o hops) \o last \in Layered
        /\ LayersOf(<<"auth">> \o hops) \cup LayersOf(last) \subseteq LayersOf((<<"auth">> \o hops) \o last)
    BY <2>1, <2>3, LayersJoin DEF Layered
  <2> QED BY <2>2, <2>3, <2>4 DEF ScenarioC, hops, last, Required
<1> DEFINE ab == ScenarioA \o ScenarioB
<1>3. ab \in Layered
  BY <1>1, LayersJoin DEF Layered
<1>4. ab \o ScenarioC \in Layered /\ Required \subseteq LayersOf(ab \o ScenarioC)
  <2> HIDE DEF ab
  <2>1. ab \o ScenarioC \in Layered /\ LayersOf(ScenarioC) \subseteq LayersOf(ab \o ScenarioC)
    BY <1>2, <1>3, LayersJoin DEF Layered
  <2> QED BY <1>2, <2>1
<1>5. Scenarios = [a |-> ScenarioA, b |-> ScenarioB, c |-> ScenarioC, all |-> ab \o ScenarioC]
  BY DEF Scenarios
<1> HIDE DEF ab
<1> DEFINE everything == ab \o ScenarioC
<1>6. everything \in Layered /\ Required \subseteq LayersOf(everything)
  BY <1>4
<1>7. Scenarios = [a |-> ScenarioA, b |-> ScenarioB, c |-> ScenarioC, all |-> everything]
  BY <1>5
<1> HIDE DEF everything
<1>8. /\ Scenarios["a"] = ScenarioA /\ Scenarios["b"] = ScenarioB
      /\ Scenarios["c"] = ScenarioC /\ Scenarios["all"] = everything
  BY <1>7
<1> QED BY <1>1, <1>2, <1>6, <1>8 DEF Named

LEMMA HeadAndTail ==
  ASSUME NEW s \in Layered, s # <<>>
  PROVE  /\ Head(s) \in Required /\ Tail(s) \in Layered /\ Len(Tail(s)) <= Len(s)
         /\ LayersOf(s) \subseteq {Head(s)} \cup LayersOf(Tail(s))
<1>1. /\ Len(s) \in Nat \ {0} /\ Head(s) = s[1] /\ s[1] \in Required /\ Tail(s) \in Layered
      /\ Len(Tail(s)) = Len(s) - 1 /\ DOMAIN s = 1..Len(s) /\ DOMAIN Tail(s) = 1..(Len(s) - 1)
      /\ \A n \in 1..(Len(s) - 1) : Tail(s)[n] = s[n + 1]
  BY DEF Layered
<1>2. \A n \in 1..Len(s) : n = 1 \/ (n - 1 \in 1..(Len(s) - 1) /\ (n - 1) + 1 = n)
  BY <1>1
<1>3. ASSUME NEW n \in DOMAIN s
      PROVE  s[n] \in {Head(s)} \cup LayersOf(Tail(s))
  <2>1. n \in 1..Len(s)
    BY <1>1
  <2>2. CASE n = 1
    BY <1>1, <2>2
  <2>3. CASE n - 1 \in 1..(Len(s) - 1) /\ (n - 1) + 1 = n
    <3>1. n - 1 \in DOMAIN Tail(s) /\ Tail(s)[n - 1] = s[n]
      BY <1>1, <2>3
    <3> QED BY <3>1 DEF LayersOf
  <2> QED BY <1>2, <2>1, <2>2, <2>3
<1> QED BY <1>1, <1>3 DEF LayersOf

Firings == [at : Nat, forced : BOOLEAN, layers : SUBSET Required]

\* What a run of everything has not shown yet is still to come.
SimOK ==
  /\ sim \in [running : BOOLEAN, scenario : Named \cup {""}, todo : Layered]
  /\ sim.running /\ sim.scenario = "all" => Required \subseteq seen \cup LayersOf(sim.todo)

Call == [step : {"none", "start", "record"}, scenario : Named \cup {""}, run : Nat]

CallersOK ==
  /\ caller \in [Callers -> Call]
  /\ \A c \in Callers : caller[c].step = "start" => caller[c].scenario \in Named

ConsoleInv ==
  SimOK /\ CallersOK /\ {clock, runs} \subseteq Nat /\ seen \subseteq Required /\ fired \in Seq(Firings)

LEMMA ConsoleStarts == ConsoleInit => ConsoleInv
<1> SUFFICES ASSUME ConsoleInit  PROVE  ConsoleInv
  OBVIOUS
<1>1. SimOK
  <2>1. <<>> \in Layered
    BY DEF Layered
  <2> QED BY <2>1 DEF ConsoleInit, IdleSim, SimOK
<1>2. CallersOK
  BY DEF ConsoleInit, NoCall, CallersOK, Call
<1> QED BY <1>1, <1>2 DEF ConsoleInit, ConsoleInv, Firings

\* What is said of a step, without the frame.
SimKept ==
  /\ sim.running /\ sim'.running => sim'.scenario = sim.scenario /\ Len(sim'.todo) <= Len(sim.todo)
  /\ sim.running /\ ~sim'.running /\ sim.scenario = "all" =>
       fired' # fired /\ Required \subseteq fired'[Len(fired')].layers

LEMMA AppendedIsLast ==
  ASSUME NEW T, NEW s \in Seq(T), NEW x \in T
  PROVE  Append(s, x) \in Seq(T) /\ Append(s, x) # s /\ Append(s, x)[Len(Append(s, x))] = x
  OBVIOUS

LEMMA FiringIsAppended ==
  ASSUME ConsoleInv, NEW forced \in BOOLEAN, NEW layers \in SUBSET Required, NEW s \in Seq(Firings)
  PROVE  LET t == Append(s, Incident(forced, layers))
         IN  t \in Seq(Firings) /\ t # s /\ t[Len(t)].layers = layers
<1>1. Incident(forced, layers) \in Firings /\ Incident(forced, layers).layers = layers
  BY DEF Incident, Firings, ConsoleInv
<1> QED BY <1>1, AppendedIsLast

LEMMA SimUntouched ==
  ASSUME ConsoleInv, sim' = sim, fired' \in Seq(Firings), seen \subseteq seen', seen' \subseteq Required,
         {clock', runs'} \subseteq Nat, CallersOK'
  PROVE  ConsoleInv' /\ SimKept
<1>1. SimOK'
  <2>1. sim' \in [running : BOOLEAN, scenario : Named \cup {""}, todo : Layered]
    BY DEF ConsoleInv, SimOK
  <2>2. LayersOf(sim.todo)' = LayersOf(sim.todo)
    BY DEF LayersOf
  <2>3. sim'.running /\ sim'.scenario = "all" => Required \subseteq seen' \cup LayersOf(sim'.todo)
    BY <2>2 DEF ConsoleInv, SimOK
  <2> QED BY <2>1, <2>3 DEF SimOK
<1>2. SimKept
  <2>1. sim.todo \in Seq(Required)
    BY DEF ConsoleInv, SimOK, Layered
  <2>2. Len(sim.todo) \in Nat
    BY <2>1
  <2> QED BY <2>2 DEF SimKept
<1> QED BY <1>1, <1>2 DEF ConsoleInv

LEMMA ConsoleStep ==
  ASSUME ConsoleInv, [ConsoleNext]_consoleVars
  PROVE  ConsoleInv' /\ SimKept
<1> USE DEF ConsoleInv
<1>1. ASSUME UNCHANGED <<sim, fired, seen>>, {clock', runs'} \subseteq Nat, CallersOK'
      PROVE  ConsoleInv' /\ SimKept
  BY <1>1, SimUntouched
<1>2. CASE UNCHANGED <<caller, clock, runs, sim, fired, seen>>
  BY <1>1, <1>2 DEF CallersOK
<1>3. CASE ConsoleTick
  <2>1. {clock', runs'} \subseteq Nat
    BY <1>3 DEF ConsoleTick
  <2> QED BY <1>1, <1>3, <2>1 DEF ConsoleTick, CallersOK
<1>4. ASSUME NEW c \in Callers, NEW s \in Requested, AskToRun(c, s)
      PROVE  ConsoleInv' /\ SimKept
  <2>1. CallersOK'
    <3> DEFINE call == [step |-> "start", scenario |-> s, run |-> runs + 1]
    <3>1. s \in Named
      BY ConsoleAssumption DEF Named
    <3>2. runs + 1 \in Nat /\ caller' = [caller EXCEPT ![c] = call]
      BY <1>4 DEF AskToRun
    <3>3. call \in Call /\ call.scenario \in Named
      BY <3>1, <3>2 DEF Call
    <3> HIDE DEF call
    <3> QED BY <3>2, <3>3 DEF CallersOK
  <2>2. {clock', runs'} \subseteq Nat /\ UNCHANGED <<sim, fired, seen>>
    BY <1>4 DEF AskToRun
  <2> QED BY <1>1, <2>1, <2>2
<1>5. ASSUME NEW c \in Callers, caller' = [caller EXCEPT ![c].step = "record"] \/ caller' = [caller EXCEPT ![c] = NoCall]
      PROVE  CallersOK'
  <2>1. CASE caller' = [caller EXCEPT ![c].step = "record"]
    <3>1. [caller[c] EXCEPT !.step = "record"] \in Call
      BY DEF CallersOK, Call
    <3>2. caller' = [caller EXCEPT ![c] = [caller[c] EXCEPT !.step = "record"]]
      BY <2>1
    <3> QED BY <3>1, <3>2 DEF CallersOK
  <2>2. CASE caller' = [caller EXCEPT ![c] = NoCall]
    <3>1. NoCall \in Call /\ NoCall.step = "none"
      BY DEF NoCall, Call
    <3> QED BY <2>2, <3>1 DEF CallersOK
  <2> QED BY <1>5, <2>1, <2>2
<1>6. ASSUME NEW c \in Callers, StartSim(c)
      PROVE  ConsoleInv' /\ SimKept
  <2>1. CASE sim.running
    BY <1>1, <1>5, <1>6, <2>1 DEF StartSim
  <2>2. CASE ~sim.running
    <3> DEFINE scenario == caller[c].scenario
    <3>1. /\ scenario \in Named /\ UNCHANGED <<clock, runs, seen, fired>>
          /\ sim' = [running |-> TRUE, scenario |-> scenario, todo |-> Scenarios[scenario]]
      BY <1>6, <2>2 DEF StartSim, CallersOK
    <3> HIDE DEF scenario
    <3>2. SimOK'
      BY <3>1, EverythingHasAllLayers DEF SimOK
    <3>3. CallersOK'
      BY <1>5, <1>6, <2>2 DEF StartSim
    <3>4. SimKept
      BY <2>2, <3>1 DEF SimKept, SimOK
    <3> QED BY <3>1, <3>2, <3>3, <3>4
  <2> QED BY <2>1, <2>2 DEF SimOK
<1>7. ASSUME NEW c \in Callers, Spawn(c) \/ Record(c)
      PROVE  ConsoleInv' /\ SimKept
  BY <1>1, <1>5, <1>7 DEF Spawn, Record
<1>8. CASE SeeTheEnd \/ CloseRecord \/ ChildEnds \/ \E r \in readers : ReaderEnds(r)
  BY <1>2, <1>8 DEF SeeTheEnd, CloseRecord, ChildEnds, ReaderEnds
<1>9. CASE Emit
  <2> DEFINE layers == {Head(sim.todo)}
  <2>1. /\ sim.running /\ sim.todo \in Layered /\ sim.todo # <<>>
        /\ sim' = [sim EXCEPT !.todo = Tail(@)] /\ UNCHANGED <<clock, runs, caller>>
        /\ Correlate(layers)
    BY <1>9 DEF Emit, SimOK
  <2>2. /\ Head(sim.todo) \in Required /\ Tail(sim.todo) \in Layered /\ Len(Tail(sim.todo)) <= Len(sim.todo)
        /\ LayersOf(sim.todo) \subseteq {Head(sim.todo)} \cup LayersOf(Tail(sim.todo))
    BY <2>1, HeadAndTail
  <2>3. /\ sim'.running /\ sim'.scenario = sim.scenario /\ sim'.todo = Tail(sim.todo)
        /\ sim' \in [running : BOOLEAN, scenario : Named \cup {""}, todo : Layered]
    BY <2>1, <2>2 DEF SimOK
  <2>4. seen' = seen \cup layers /\ (fired' = fired \/ fired' = Append(fired, Incident(FALSE, seen \cup layers)))
    BY <2>1 DEF Correlate, Published
  <2>5. fired' \in Seq(Firings)
    BY <2>2, <2>4, FiringIsAppended
  <2>6. SimOK'
    <3>1. sim'.scenario = "all" => Required \subseteq seen \cup LayersOf(sim.todo)
      BY <2>1, <2>3 DEF SimOK
    <3>2. sim'.scenario = "all" => Required \subseteq seen' \cup LayersOf(Tail(sim.todo))
      BY <2>2, <2>4, <3>1
    <3> QED BY <2>3, <3>2 DEF SimOK
  <2>7. SimKept
    BY <2>2, <2>3 DEF SimKept
  <2> QED BY <2>1, <2>2, <2>4, <2>5, <2>6, <2>7 DEF CallersOK
<1>10. CASE EndSim
  <2>1. /\ sim.running /\ sim.todo = <<>> /\ sim' = IdleSim /\ UNCHANGED <<clock, runs, caller, seen>>
        /\ IF sim.scenario = "all" THEN ForceFire(fired, seen) ELSE UNCHANGED <<fired, quietUntil>>
    BY <1>10 DEF EndSim
  <2>2. SimOK' /\ CallersOK'
    BY <2>1 DEF SimOK, CallersOK, IdleSim, Layered
  <2>3. CASE sim.scenario = "all"
    <3>1. LayersOf(sim.todo) = {}
      BY <2>1 DEF LayersOf
    <3>4. seen = Required
      BY <2>1, <2>3, <3>1 DEF SimOK
    <3>2. fired' = Append(fired, Incident(TRUE, seen))
      BY <2>1, <2>3, <3>4 DEF ForceFire, Required
    <3>3. fired' \in Seq(Firings) /\ fired' # fired /\ fired'[Len(fired')].layers = seen
      BY <3>2, FiringIsAppended
    <3> QED BY <2>1, <2>2, <3>3, <3>4 DEF SimKept, IdleSim
  <2>4. CASE sim.scenario # "all"
    BY <2>1, <2>2, <2>4 DEF SimKept, IdleSim
  <2> QED BY <2>3, <2>4
<1>11. CASE FireKillChain
  <2> DEFINE before == IF clock >= quietUntil THEN Published(seen') ELSE fired
  <2>1. /\ UNCHANGED <<clock, caller, sim>> /\ runs' = runs + 1 /\ seen' = Required
        /\ ForceFire(before, seen')
    BY <1>11 DEF FireKillChain
  <2>2. before \in Seq(Firings)
    BY <2>1, FiringIsAppended DEF Published
  <2> HIDE DEF before
  <2>3. fired' \in Seq(Firings)
    BY <2>1, <2>2, FiringIsAppended DEF ForceFire
  <2>4. CallersOK'
    BY <2>1 DEF CallersOK
  <2> QED BY <2>1, <2>3, <2>4, SimUntouched
<1> QED BY <1>2, <1>3, <1>4, <1>6, <1>7, <1>8, <1>9, <1>10, <1>11 DEF ConsoleNext, consoleVars

\* A run that SimulatorRuntime.start let in keeps its scenario until it ends,
\* whatever requests come in between, and the end of a run of everything fires an
\* incident that has all the required layers, whatever was seen before it.
THEOREM OneSimulationAlways == ConsoleSpec => OneSimulation
<1>1. ConsoleInit => ConsoleInv
  BY ConsoleStarts
<1>2. ConsoleInv /\ [ConsoleNext]_consoleVars => ConsoleInv'
  BY ConsoleStep
<1>3. ConsoleInv /\ [ConsoleNext]_consoleVars =>
        [/\ sim.running /\ sim'.running => sim'.scenario = sim.scenario /\ Len(sim'.todo) <= Len(sim.todo)
         /\ sim.running /\ ~sim'.running /\ sim.scenario = "all" =>
              fired' # fired /\ Required \subseteq fired'[Len(fired')].layers]_<<sim, fired>>
  BY ConsoleStep DEF SimKept
<1> QED BY <1>1, <1>2, <1>3, PTL DEF ConsoleSpec, OneSimulation

-----------------------------------------------------------------------------
(* Accounts and tokens.  A token carries a role that was read when its        *)
(* request began.  So what an access token allows is right until the account  *)
(* changes, and the invariant must follow that role from the request          *)
(* (RequestOK) to the token (TokenOK): since when it is known, and how long   *)
(* it may be used.                                                            *)

UserRow == [state : {"none", "live", "deleted"}, active : BOOLEAN, role : ROLES,
            failed : Nat, locked : Nat, updated : Nat]
Row == [user : Users, until : Nat, revoked : BOOLEAN, by : Nat]
Request == [step : {"success", "failure", "issue", "rotate", "track"}, user : Users, role : ROLES,
            old : Nat, new : Nat, exp : Nat, begun : Nat]

AccTypeOK ==
  /\ accNow \in Nat
  /\ users \in [Users -> UserRow]
  /\ serving \in [Workers -> Request \cup {Waiting}]

\* The tokens are numbered, and each that was replaced knows a later one of its user.
RowsInv ==
  /\ \E n \in Nat : DOMAIN rows = 1..n
  /\ \A r \in DOMAIN rows :
       /\ rows[r] \in Row
       /\ rows[r].by # Nothing => /\ rows[r].by \in DOMAIN rows /\ rows[r].by > r
                                  /\ rows[rows[r].by].user = rows[r].user

\* What was read of an account still is, unless the account was changed since.
\* (us, rs and now are the accounts, refresh tokens and time of before a step or after.)
Known(us, u, role, since) ==
  us[u].updated >= since \/ (us[u].state = "live" /\ us[u].active /\ us[u].role = role)

RequestOK(s, now, us, rs) ==
  /\ s.begun <= now /\ now <= s.begun + RequestTime
  /\ (s.step # "rotate" \/ s.new # Nothing) => Known(us, s.user, s.role, s.begun)
  /\ s.step \in {"track", "rotate"} => s.exp <= s.begun + RequestTime + AccessTtl
  /\ s.step = "rotate" => s.old # Nothing
  /\ s.old # Nothing => s.old \in DOMAIN rs /\ rs[s.old].user = s.user
  /\ s.new # Nothing => s.new \in DOMAIN rs /\ rs[s.new].user = s.user /\ s.new > s.old

TokenOK(t, now, us) ==
  /\ t.user \in Users /\ t.role \in ROLES /\ t.permissions = PermissionsFor(t.role) /\ t.exp \in Nat
  /\ \E since \in Nat : /\ since <= now /\ t.exp <= since + RequestTime + AccessTtl
                        /\ Known(us, t.user, t.role, since)

AccInv ==
  /\ AccTypeOK /\ RowsInv
  /\ \A w \in Workers : serving[w] # Waiting => RequestOK(serving[w], accNow, users, rows)
  /\ \A t \in access : TokenOK(t, accNow, users)

USE AccountsAssumption

-----------------------------------------------------------------------------
(* What a step leaves of what was known *)

\* An account that is changed is marked with the time.
UsersKept ==
  /\ users' \in [Users -> UserRow]
  /\ \A u \in Users : \/ users'[u].updated >= accNow
                      \/ /\ users'[u].updated = users[u].updated /\ users'[u].state = users[u].state
                         /\ users'[u].active = users[u].active /\ users'[u].role = users[u].role

RowsKept ==
  /\ DOMAIN rows \subseteq DOMAIN rows'
  /\ \A r \in DOMAIN rows : rows'[r].user = rows[r].user

LEMMA KnownStays ==
  ASSUME AccTypeOK, UsersKept,
         NEW u \in Users, NEW role, NEW since \in Nat, since <= accNow, Known(users, u, role, since)
  PROVE  Known(users', u, role, since)
<1>1. users[u] \in UserRow /\ users'[u] \in UserRow /\ accNow \in Nat
  BY DEF AccTypeOK, UsersKept
<1>2. users[u].updated \in Nat /\ users'[u].updated \in Nat
  BY <1>1 DEF UserRow
<1> QED BY <1>2 DEF AccTypeOK, UsersKept, Known

LEMMA RequestStays ==
  ASSUME AccTypeOK, UsersKept, RowsKept, accNow' = accNow, NEW s \in Request, RequestOK(s, accNow, users, rows)
  PROVE  RequestOK(s, accNow', users', rows')
<1>1. s.user \in Users /\ s.begun \in Nat /\ s.begun <= accNow /\ accNow \in Nat
  BY DEF Request, RequestOK, AccTypeOK
<1>2. (s.step # "rotate" \/ s.new # Nothing) => Known(users', s.user, s.role, s.begun)
  BY <1>1, KnownStays DEF RequestOK
<1> QED BY <1>1, <1>2 DEF RequestOK, RowsKept

LEMMA TokenStays ==
  ASSUME AccTypeOK, UsersKept, accNow' \in Nat, accNow' >= accNow, NEW t, TokenOK(t, accNow, users)
  PROVE  TokenOK(t, accNow', users')
<1>1. PICK since \in Nat : /\ since <= accNow /\ t.exp <= since + RequestTime + AccessTtl
                           /\ Known(users, t.user, t.role, since)
  BY DEF TokenOK
<1>2. Known(users', t.user, t.role, since)
  BY <1>1, KnownStays DEF TokenOK
<1>3. since <= accNow'
  BY <1>1 DEF AccTypeOK
<1> QED BY <1>1, <1>2, <1>3 DEF TokenOK

\* A step that leaves the time alone need only account for the request it is part
\* of and the tokens it gives out.
LEMMA StepKeeps ==
  ASSUME AccInv, UsersKept, RowsKept, RowsInv', accNow' = accNow,
         NEW w \in Workers, NEW s \in Request \cup {Waiting}, serving' = [serving EXCEPT ![w] = s],
         s # Waiting => RequestOK(s, accNow', users', rows'),
         \A t \in access' \ access : TokenOK(t, accNow', users')
  PROVE  AccInv'
<1>1. AccTypeOK'
  BY DEF AccInv, AccTypeOK, UsersKept
<1>2. \A v \in Workers : serving'[v] # Waiting => RequestOK(serving'[v], accNow', users', rows')
  <2> SUFFICES ASSUME NEW v \in Workers, serving'[v] # Waiting PROVE RequestOK(serving'[v], accNow', users', rows')
    OBVIOUS
  <2>1. CASE v = w
    BY <2>1 DEF AccInv, AccTypeOK
  <2>2. CASE v # w
    <3>1. serving'[v] = serving[v] /\ serving[v] \in Request /\ RequestOK(serving[v], accNow, users, rows)
      BY <2>2 DEF AccInv, AccTypeOK
    <3>2. \A q \in Request : RequestOK(q, accNow, users, rows) => RequestOK(q, accNow', users', rows')
      BY RequestStays DEF AccInv
    <3> QED BY <3>1, <3>2
  <2> QED BY <2>1, <2>2
<1>3. \A t \in access' : TokenOK(t, accNow', users')
  BY TokenStays DEF AccInv, AccTypeOK
<1> QED BY <1>1, <1>2, <1>3 DEF AccInv

LEMMA SameAccounts == ASSUME AccInv, users' = users PROVE UsersKept
  BY DEF AccInv, AccTypeOK, UsersKept

LEMMA SameRows == ASSUME AccInv, rows' = rows PROVE RowsKept /\ RowsInv'
  BY DEF AccInv, RowsInv, RowsKept

LEMMA RoleFields ==
  ASSUME AccInv, NEW u \in Users
  PROVE  /\ users[u] \in UserRow /\ users[u].role \in ROLES /\ users[u].updated \in Nat
         /\ users[u].failed \in Nat /\ users[u].locked \in Nat
  BY DEF AccInv, AccTypeOK, UserRow

LEMMA ServedFields ==
  ASSUME AccInv, NEW w \in Workers, serving[w].step # "none"
  PROVE  /\ serving[w] \in Request /\ RequestOK(serving[w], accNow, users, rows)
         /\ serving[w].user \in Users /\ serving[w].role \in ROLES /\ serving[w].old \in Nat
         /\ serving[w].new \in Nat /\ serving[w].begun \in Nat /\ serving[w].exp \in Nat
<1>1. serving[w] # Waiting
  BY DEF Waiting
<1> QED BY <1>1 DEF AccInv, AccTypeOK, Request

-----------------------------------------------------------------------------
(* The steps of a request *)

LEMMA LoginBegins ==
  ASSUME AccInv, NEW w \in Workers, NEW u \in Users, NEW ok \in BOOLEAN, BeginLogin(w, u, ok)
  PROVE  AccInv'
<1> DEFINE s == [step |-> IF ok THEN "success" ELSE "failure", user |-> u, role |-> users[u].role,
                 old |-> Nothing, new |-> Nothing, exp |-> Nothing, begun |-> accNow]
<1>1. s \in Request
  BY RoleFields DEF Request, Nothing, AccInv, AccTypeOK
<1>2. RequestOK(s, accNow', users', rows')
  BY RoleFields DEF BeginLogin, RequestOK, Known, Exists, AccInv, AccTypeOK, Nothing
<1>3. serving' = [serving EXCEPT ![w] = s] /\ users' = users /\ rows' = rows /\ access' = access
      /\ accNow' = accNow
  BY DEF BeginLogin, Serve
<1> HIDE DEF s
<1> QED BY <1>1, <1>2, <1>3, StepKeeps, SameAccounts, SameRows

LEMMA RefreshBegins ==
  ASSUME AccInv, NEW w \in Workers, NEW r \in DOMAIN rows, BeginRefresh(w, r)
  PROVE  AccInv'
<1> DEFINE u == rows[r].user
           s == [step |-> IF rows[r].until < accNow THEN "rotate" ELSE "issue", user |-> u,
                 role |-> users[u].role, old |-> r, new |-> Nothing, exp |-> Nothing,
                 begun |-> accNow]
<1>1. u \in Users /\ r \in Nat /\ r # Nothing
  BY DEF AccInv, RowsInv, Row, Nothing
<1>2. s \in Request
  BY <1>1, RoleFields DEF Request, Nothing, AccInv, AccTypeOK
<1>3. serving' = [serving EXCEPT ![w] = s] /\ users' = users /\ rows' = rows /\ access' = access
      /\ accNow' = accNow
  BY DEF BeginRefresh, Serve
<1>4. RequestOK(s, accNow', users', rows')
  <2>1. s.step # "rotate" => Known(users, u, s.role, accNow)
    BY DEF BeginRefresh, Refreshable, Known, Exists
  <2> QED BY <1>1, <1>3, <2>1 DEF RequestOK, Known, Exists, AccInv, AccTypeOK, Nothing
<1> HIDE DEF s
<1> QED BY <1>2, <1>3, <1>4, StepKeeps, SameAccounts, SameRows

LEMMA LoginIsRecorded ==
  ASSUME AccInv, NEW w \in Workers, RecordFailure(w) \/ RecordSuccess(w)
  PROVE  AccInv'
<1> DEFINE u == serving[w].user
<1>1. u \in Users /\ serving[w] \in Request /\ RequestOK(serving[w], accNow, users, rows)
  BY ServedFields DEF RecordFailure, RecordSuccess, At
<1>2. rows' = rows /\ access' = access /\ accNow' = accNow
  BY DEF RecordFailure, RecordSuccess
<1>3. UsersKept
  <2>1. \/ users' = users
        \/ \E f, l \in Nat : users' = [users EXCEPT ![u] = [users[u] EXCEPT !.failed = f, !.locked = l]]
    <3>1. CASE RecordFailure(w)
      <4> DEFINE n == IF users[u].failed < MaxFailures THEN users[u].failed + 1 ELSE users[u].failed
                 l == IF n >= MaxFailures THEN accNow + LockFor ELSE users[u].locked
      <4>1. n \in Nat /\ l \in Nat
        BY <1>1, RoleFields DEF AccInv, AccTypeOK
      <4>2. users' = [users EXCEPT ![u] = [users[u] EXCEPT !.failed = n, !.locked = l]]
        BY <3>1 DEF RecordFailure
      <4> HIDE DEF n, l
      <4> QED BY <4>1, <4>2
    <3>2. CASE RecordSuccess(w)
      BY <3>2 DEF RecordSuccess
    <3> QED BY <3>1, <3>2
  <2>2. CASE users' = users
    BY <2>2, SameAccounts
  <2>3. CASE \E f, l \in Nat : users' = [users EXCEPT ![u] = [users[u] EXCEPT !.failed = f, !.locked = l]]
    <3>1. PICK f, l \in Nat : users' = [users EXCEPT ![u] = [users[u] EXCEPT !.failed = f, !.locked = l]]
      BY <2>3
    <3>2. \A row \in UserRow :
            LET new == [row EXCEPT !.failed = f, !.locked = l]
            IN  /\ new \in UserRow /\ new.updated = row.updated /\ new.state = row.state
                /\ new.active = row.active /\ new.role = row.role
      BY DEF UserRow
    <3> QED BY <1>1, <3>1, <3>2, RoleFields DEF UsersKept, AccInv, AccTypeOK
  <2> QED BY <2>1, <2>2, <2>3
<1>4. PICK s \in Request \cup {Waiting} :
        serving' = [serving EXCEPT ![w] = s] /\ (s # Waiting => RequestOK(s, accNow', users', rows'))
  <2>1. CASE RecordFailure(w)
    BY <2>1 DEF RecordFailure, Serve
  <2>2. CASE RecordSuccess(w)
    <3> DEFINE s == [serving[w] EXCEPT !.step = "issue"]
    <3>1. serving' = [serving EXCEPT ![w] = s] /\ serving[w].step = "success"
      BY <2>2 DEF RecordSuccess, Serve, Go, At
    <3>2. s \in Request /\ RequestOK(s, accNow, users, rows)
      BY <1>1, <3>1 DEF Request, RequestOK
    <3>3. RequestOK(s, accNow', users', rows')
      BY <1>2, <1>3, <3>2, RequestStays, SameRows DEF AccInv
    <3> QED BY <3>1, <3>2, <3>3
  <2> QED BY <2>1, <2>2
<1> QED BY <1>2, <1>3, <1>4, StepKeeps, SameRows

LEMMA PairIsIssued ==
  ASSUME AccInv, NEW w \in Workers, IssuePair(w)
  PROVE  AccInv'
<1> DEFINE r == Cardinality(DOMAIN rows) + 1
           u == serving[w].user
           row == [user |-> u, until |-> accNow + RefreshTtl, revoked |-> FALSE, by |-> Nothing]
           step == IF serving[w].old = Nothing THEN "track" ELSE "rotate"
           s == [Go(w, step) EXCEPT !.new = r, !.exp = accNow + AccessTtl]
<1>1. /\ serving[w] \in Request /\ RequestOK(serving[w], accNow, users, rows) /\ u \in Users
      /\ serving[w].old \in Nat /\ serving[w].begun \in Nat /\ serving[w].step = "issue"
  BY ServedFields DEF IssuePair, At
<1>2. PICK n \in Nat : DOMAIN rows = 1..n /\ r = n + 1
  <2>1. PICK n \in Nat : DOMAIN rows = 1..n
    BY DEF AccInv, RowsInv
  <2>2. Cardinality(1..n) = n
    BY FS_Interval, n >= 0
  <2> QED BY <2>1, <2>2
<1>3. /\ serving' = [serving EXCEPT ![w] = s] /\ users' = users /\ access' = access /\ accNow' = accNow
      /\ rows' = [k \in DOMAIN rows \cup {r} |-> IF k = r THEN row ELSE rows[k]]
  BY DEF IssuePair, Serve, StoreRefreshToken
<1> HIDE DEF r, row
<1>4. /\ DOMAIN rows' = 1..r /\ r \in Nat /\ r \notin DOMAIN rows /\ rows'[r] = row /\ r \in DOMAIN rows'
      /\ \A k \in DOMAIN rows : k \in Nat /\ k < r /\ k \in DOMAIN rows' /\ rows'[k] = rows[k]
  BY <1>2, <1>3
<1>5. row \in Row /\ row.user = u /\ row.by = Nothing
  BY <1>1 DEF row, Row, Nothing, AccInv, AccTypeOK
<1>6. RowsKept
  BY <1>4 DEF RowsKept
<1>7. RowsInv'
  <2>1. \A k \in DOMAIN rows' : k = r \/ k \in DOMAIN rows
    BY <1>3
  <2>2. rows'[r] \in Row /\ rows'[r].by = Nothing
    BY <1>4, <1>5
  <2> QED BY <1>4, <2>1, <2>2 DEF AccInv, RowsInv
<1>8. /\ s \in Request /\ s.step = step /\ s.new = r /\ s.exp = accNow + AccessTtl
      /\ s.user = u /\ s.role = serving[w].role /\ s.old = serving[w].old /\ s.begun = serving[w].begun
  <2>1. accNow + AccessTtl \in Nat
    BY DEF AccInv, AccTypeOK
  <2> DEFINE gone == Go(w, step)
  <2>2. /\ gone \in Request /\ gone.step = step /\ gone.user = u /\ gone.role = serving[w].role
        /\ gone.old = serving[w].old /\ gone.begun = serving[w].begun
    BY <1>1 DEF Go, Request
  <2> HIDE DEF gone, step
  <2>3. s = [gone EXCEPT !.new = r, !.exp = accNow + AccessTtl]
    BY DEF gone, step
  <2> HIDE DEF s
  <2>4. /\ s \in Request /\ s.step = gone.step /\ s.new = r /\ s.exp = accNow + AccessTtl
        /\ s.user = gone.user /\ s.role = gone.role /\ s.old = gone.old /\ s.begun = gone.begun
    <3>1. PICK e \in Nat : e = accNow + AccessTtl
      BY <2>1
    <3>2. s = [gone EXCEPT !.new = r, !.exp = e]
      BY <2>3, <3>1
    <3>3. r \in Nat /\ gone \in Request
      BY <1>4, <2>2
    <3> HIDE DEF r
    <3> QED BY <3>1, <3>2, <3>3 DEF Request
  <2> QED BY <2>2, <2>4
<1> HIDE DEF s
<1>9. RequestOK(s, accNow', users', rows')
  <2>1. Known(users', s.user, s.role, s.begun)
    BY <1>1, <1>3, <1>8 DEF RequestOK
  <2>2. s.exp <= s.begun + RequestTime + AccessTtl
    BY <1>1, <1>8 DEF RequestOK, AccInv, AccTypeOK
  <2>3. s.old # Nothing => s.old \in DOMAIN rows' /\ rows'[s.old].user = s.user /\ s.new > s.old
    <3>1. s.old # Nothing => s.old \in DOMAIN rows /\ rows[s.old].user = s.user
      BY <1>1, <1>8 DEF RequestOK
    <3> QED BY <1>4, <1>8, <3>1
  <2>4. s.new \in DOMAIN rows' /\ rows'[s.new].user = s.user /\ s.new # Nothing
    BY <1>4, <1>5, <1>8 DEF Nothing
  <2>5. s.new > s.old
    BY <1>1, <1>4, <1>8, <2>3 DEF Nothing
  <2> QED BY <1>1, <1>3, <1>8, <2>1, <2>2, <2>3, <2>4, <2>5 DEF RequestOK, AccInv, AccTypeOK
<1> QED BY <1>3, <1>6, <1>7, <1>8, <1>9, StepKeeps, SameAccounts

\* Rotating leaves a line of successors, and every replaced token as it was.
LEMMA RowsRotate ==
  ASSUME AccInv, NEW w \in Workers, Rotate(w)
  PROVE  /\ RowsKept /\ RowsInv' /\ DOMAIN rows' = DOMAIN rows
         /\ \A r \in DOMAIN rows : rows[r].revoked => rows'[r] = rows[r]
<1> DEFINE old == serving[w].old
           new == serving[w].new
           row == [rows[old] EXCEPT !.revoked = TRUE, !.by = new]
<1>1. /\ RequestOK(serving[w], accNow, users, rows) /\ serving[w].step = "rotate"
      /\ old \in Nat /\ new \in Nat
  BY ServedFields DEF Rotate, At
<1>2. /\ old \in DOMAIN rows
      /\ new # Nothing => new \in DOMAIN rows /\ new > old /\ rows[new].user = rows[old].user
  BY <1>1 DEF RequestOK
<1>3. CASE rows[old].revoked
  <2>1. rows' = rows
    BY <1>3 DEF Rotate, Revoked
  <2> QED BY <2>1, SameRows
<1>4. CASE ~rows[old].revoked
  <2>1. rows' = [rows EXCEPT ![old] = row]
    BY <1>4 DEF Rotate, Revoked
  <2>2. row \in Row /\ row.user = rows[old].user /\ row.by = new
    <3>1. \A q \in Row : LET x == [q EXCEPT !.revoked = TRUE, !.by = new]
                         IN  x \in Row /\ x.user = q.user /\ x.by = new
      BY <1>1 DEF Row
    <3> QED BY <1>2, <3>1 DEF AccInv, RowsInv
  <2> HIDE DEF row, old, new
  <2>3. /\ DOMAIN rows' = DOMAIN rows
        /\ \A r \in DOMAIN rows : rows'[r] = IF r = old THEN row ELSE rows[r]
    BY <2>1
  <2>4. \A r \in DOMAIN rows : rows'[r].user = rows[r].user /\ rows'[r] \in Row
    BY <2>2, <2>3 DEF AccInv, RowsInv
  <2>5. \A r \in DOMAIN rows :
          rows'[r].by # Nothing => /\ rows'[r].by \in DOMAIN rows /\ rows'[r].by > r
                                   /\ rows'[rows'[r].by].user = rows'[r].user
    <3> SUFFICES ASSUME NEW r \in DOMAIN rows, rows'[r].by # Nothing
                 PROVE  /\ rows'[r].by \in DOMAIN rows /\ rows'[r].by > r
                        /\ rows[rows'[r].by].user = rows[r].user
      BY <2>4
    <3>1. CASE r = old
      BY <1>2, <2>2, <2>3, <3>1
    <3>2. CASE r # old
      BY <2>3, <3>2 DEF AccInv, RowsInv
    <3> QED BY <3>1, <3>2
  <2>6. RowsInv'
    BY <2>3, <2>4, <2>5 DEF AccInv, RowsInv
  <2> QED BY <1>4, <2>3, <2>4, <2>6 DEF RowsKept
<1> QED BY <1>3, <1>4

LEMMA RowIsRotated ==
  ASSUME AccInv, NEW w \in Workers, Rotate(w)
  PROVE  AccInv'
<1> DEFINE gone == [serving[w] EXCEPT !.step = "track"]
<1>1. /\ serving[w] \in Request /\ RequestOK(serving[w], accNow, users, rows)
      /\ serving[w].step = "rotate"
  BY ServedFields DEF Rotate, At
<1>2. /\ gone \in Request /\ gone.step = "track" /\ gone.user = serving[w].user
      /\ gone.role = serving[w].role /\ gone.old = serving[w].old /\ gone.new = serving[w].new
      /\ gone.exp = serving[w].exp /\ gone.begun = serving[w].begun
  BY <1>1 DEF Request
<1> HIDE DEF gone
<1>3. serving[w].new # Nothing => RequestOK(gone, accNow, users, rows)
  BY <1>1, <1>2 DEF RequestOK
<1>4. users' = users /\ access' = access /\ accNow' = accNow
  BY DEF Rotate
<1>5. RowsKept /\ RowsInv' /\ UsersKept
  BY <1>4, RowsRotate, SameAccounts
<1>6. serving[w].new # Nothing => RequestOK(gone, accNow', users', rows')
  BY <1>2, <1>3, <1>4, <1>5, RequestStays DEF AccInv
<1>7. PICK s \in {gone, Waiting} : /\ serving' = [serving EXCEPT ![w] = s]
                                   /\ s # Waiting => RequestOK(s, accNow', users', rows')
  <2>1. CASE serving[w].new = Nothing
    BY <2>1 DEF Rotate, Serve
  <2>2. CASE serving[w].new # Nothing
    BY <1>6, <2>2 DEF Rotate, Serve, Go, gone
  <2> QED BY <2>1, <2>2
<1> QED BY <1>2, <1>4, <1>5, <1>7, StepKeeps

\* A token carries the role its request read.
LEMMA AnswerIsGiven ==
  ASSUME AccInv, NEW w \in Workers, Answer(w)
  PROVE  AccInv'
<1> DEFINE t == AccessToken(serving[w])
<1>1. /\ RequestOK(serving[w], accNow, users, rows) /\ serving[w].step = "track"
      /\ serving[w].user \in Users /\ serving[w].role \in ROLES
      /\ serving[w].begun \in Nat /\ serving[w].exp \in Nat
  BY ServedFields DEF Answer, At
<1>2. /\ access' = access \cup {t} /\ serving' = [serving EXCEPT ![w] = Waiting]
      /\ users' = users /\ rows' = rows /\ accNow' = accNow
  BY DEF Answer, Serve
<1>3. /\ t.user = serving[w].user /\ t.role = serving[w].role /\ t.exp = serving[w].exp
      /\ t.permissions = PermissionsFor(t.role)
  BY <1>1 DEF AccessToken, NormalizeRole
<1> HIDE DEF t
<1>4. TokenOK(t, accNow', users')
  BY <1>1, <1>2, <1>3 DEF TokenOK, RequestOK
<1> QED BY <1>2, <1>4, StepKeeps, SameAccounts, SameRows

LEMMA RequestEnds ==
  ASSUME AccInv, NEW w \in Workers, AbortRequest(w) \/ RestartWorker(w)
  PROVE  AccInv'
<1>1. /\ serving' = [serving EXCEPT ![w] = Waiting]
      /\ access' = access /\ users' = users /\ rows' = rows /\ accNow' = accNow
  BY DEF AbortRequest, RestartWorker, Serve
<1> QED BY <1>1, StepKeeps, SameAccounts, SameRows

-----------------------------------------------------------------------------
(* What is done with a token, and the time *)

LEMMA NoRequestMoves ==
  ASSUME AccInv, UsersKept, rows' = rows, accNow' = accNow, serving' = serving, access' = access
  PROVE  AccInv'
<1>1. AccTypeOK' /\ RowsInv'
  BY SameRows DEF AccInv, AccTypeOK, UsersKept
<1>2. \A w \in Workers : serving'[w] # Waiting => RequestOK(serving'[w], accNow', users', rows')
  <2> SUFFICES ASSUME NEW w \in Workers, serving[w] # Waiting
               PROVE  RequestOK(serving[w], accNow', users', rows')
    OBVIOUS
  <2> QED BY RequestStays, SameRows DEF AccInv, AccTypeOK
<1>3. \A t \in access' : TokenOK(t, accNow', users')
  BY TokenStays DEF AccInv, AccTypeOK
<1> QED BY <1>1, <1>2, <1>3 DEF AccInv

\* Whatever changes an account marks the time.
LEMMA AccountChanges ==
  ASSUME AccInv, NEW u \in Users, NEW row \in UserRow, row.updated = accNow, Change(u, row)
  PROVE  AccInv'
<1>1. UsersKept
  BY DEF Change, UsersKept, AccInv, AccTypeOK
<1> QED BY <1>1, NoRequestMoves DEF Change

LEMMA TokenIsUsed ==
  ASSUME AccInv, NEW w \in Workers, NEW u \in Users, NEW role, NEW active \in BOOLEAN,
         \/ Logout(w) \/ RevokeSession(w) \/ ChangePassword(w) \/ DeleteUser(w, u)
         \/ CreateUser(w, u, role) \/ UpdateUser(w, u, role, active)
  PROVE  AccInv'
<1>0. NormalizeRole(role) \in ROLES /\ accNow \in Nat
  BY DEF NormalizeRole, ROLES, AccInv, AccTypeOK
<1>1. CASE Logout(w) \/ RevokeSession(w)
  BY <1>1, NoRequestMoves, SameAccounts DEF Logout, RevokeSession, Block
<1>2. CASE ChangePassword(w)
  <2>1. PICK t \in access : Change(t.user, [users[t.user] EXCEPT !.updated = accNow])
    BY <1>2 DEF ChangePassword, Accepted, Unexpired
  <2>2. t.user \in Users
    BY DEF AccInv, TokenOK
  <2>3. LET row == [users[t.user] EXCEPT !.updated = accNow] IN row \in UserRow /\ row.updated = accNow
    BY <1>0, <2>2, RoleFields DEF UserRow
  <2> QED BY <2>1, <2>2, <2>3, AccountChanges
<1>3. CASE CreateUser(w, u, role)
  <2>1. NewUser(NormalizeRole(role)) \in UserRow /\ NewUser(NormalizeRole(role)).updated = accNow
    BY <1>0 DEF NewUser, UserRow
  <2> QED BY <1>3, <2>1, AccountChanges DEF CreateUser
<1>4. CASE UpdateUser(w, u, role, active)
  <2> DEFINE row == [users[u] EXCEPT !.role = NormalizeRole(role), !.active = active, !.updated = accNow]
  <2>1. \A q \in UserRow : \A r \in ROLES :
          LET new == [q EXCEPT !.role = r, !.active = active, !.updated = accNow]
          IN  new \in UserRow /\ new.updated = accNow
    BY <1>0 DEF UserRow
  <2>2. row \in UserRow /\ row.updated = accNow
    BY <1>0, <2>1, RoleFields
  <2>3. Change(u, row)
    BY <1>4 DEF UpdateUser
  <2> HIDE DEF row
  <2> QED BY <2>2, <2>3, AccountChanges
<1>5. CASE DeleteUser(w, u)
  <2> DEFINE row == [users[u] EXCEPT !.state = "deleted", !.active = FALSE, !.updated = accNow]
  <2>1. \A q \in UserRow :
          LET new == [q EXCEPT !.state = "deleted", !.active = FALSE, !.updated = accNow]
          IN  new \in UserRow /\ new.updated = accNow
    BY <1>0 DEF UserRow
  <2>2. row \in UserRow /\ row.updated = accNow
    BY <2>1, RoleFields
  <2>3. Change(u, row)
    BY <1>5 DEF DeleteUser
  <2> HIDE DEF row
  <2> QED BY <2>2, <2>3, AccountChanges
<1> QED BY <1>1, <1>2, <1>3, <1>4, <1>5

LEMMA TickKeeps ==
  ASSUME AccInv, AccountsTick
  PROVE  AccInv'
<1>1. /\ accNow \in Nat /\ accNow' = accNow + 1
      /\ users' = users /\ rows' = rows /\ access' = access /\ serving' = serving
  BY DEF AccountsTick, AccInv, AccTypeOK
<1>2. AccTypeOK' /\ RowsInv'
  BY <1>1, SameRows DEF AccInv, AccTypeOK
<1>3. \A w \in Workers : serving'[w] # Waiting => RequestOK(serving'[w], accNow', users', rows')
  <2> SUFFICES ASSUME NEW w \in Workers, serving[w] # Waiting
               PROVE  RequestOK(serving[w], accNow + 1, users, rows)
    BY <1>1
  <2>1. /\ accNow - serving[w].begun < RequestTime /\ serving[w].begun \in Nat
        /\ RequestOK(serving[w], accNow, users, rows)
    BY DEF AccountsTick, AccInv, AccTypeOK, Request
  <2>2. serving[w].begun <= accNow + 1 /\ accNow + 1 <= serving[w].begun + RequestTime
    BY <1>1, <2>1 DEF RequestOK
  <2> QED BY <2>1, <2>2 DEF RequestOK
<1>4. \A t \in access' : TokenOK(t, accNow', users')
  BY <1>1, TokenStays, SameAccounts DEF AccInv
<1> QED BY <1>2, <1>3, <1>4 DEF AccInv

-----------------------------------------------------------------------------

LEMMA InitAccounts == AccountsInit => AccInv
<1> SUFFICES ASSUME AccountsInit PROVE AccInv
  OBVIOUS
<1>1. NewUser("admin") \in UserRow /\ [NewUser("viewer") EXCEPT !.state = "none"] \in UserRow
  <2>1. \A r \in ROLES : NewUser(r) \in UserRow
    BY DEF AccountsInit, NewUser, UserRow
  <2>2. \A q \in UserRow : [q EXCEPT !.state = "none"] \in UserRow
    BY DEF UserRow
  <2> QED BY <2>1, <2>2 DEF ROLES
<1>2. AccTypeOK
  BY <1>1 DEF AccountsInit, AccTypeOK
<1>3. RowsInv
  <2>1. DOMAIN rows = {} /\ {} = 1..0
    BY DEF AccountsInit
  <2> QED BY <2>1 DEF RowsInv
<1> QED BY <1>2, <1>3 DEF AccountsInit, AccInv

LEMMA NextAccounts == AccInv /\ [AccountsNext]_accountVars => AccInv'
<1> SUFFICES ASSUME AccInv, [AccountsNext]_accountVars PROVE AccInv'
  OBVIOUS
<1>1. CASE AccountsTick
  BY <1>1, TickKeeps
<1>2. CASE UNCHANGED accountVars
  BY <1>2, NoRequestMoves, SameAccounts DEF accountVars
<1>3. CASE \E w \in Workers : \/ \E u \in Users, ok \in BOOLEAN : BeginLogin(w, u, ok)
                              \/ \E r \in DOMAIN rows : BeginRefresh(w, r)
                              \/ RecordFailure(w) \/ RecordSuccess(w)
  BY <1>3, LoginBegins, RefreshBegins, LoginIsRecorded
<1>4. CASE \E w \in Workers : \/ IssuePair(w) \/ Rotate(w) \/ Answer(w)
                              \/ AbortRequest(w) \/ RestartWorker(w)
  BY <1>4, PairIsIssued, RowIsRotated, AnswerIsGiven, RequestEnds
<1>5. CASE \E w \in Workers : Logout(w) \/ RevokeSession(w) \/ ChangePassword(w)
  <2>1. PICK w \in Workers : Logout(w) \/ RevokeSession(w) \/ ChangePassword(w)
    BY <1>5
  <2>2. Users # {}
    BY <2>1 DEF Logout, RevokeSession, ChangePassword, SessionsShown, Accepted, Unexpired, AccInv, TokenOK
  <2> QED BY <2>1, <2>2, TokenIsUsed
<1>6. CASE \E w \in Workers : \/ \E u \in Users : DeleteUser(w, u)
                              \/ \E u \in Users, role \in AccRoles :
                                   \/ CreateUser(w, u, role)
                                   \/ \E active \in BOOLEAN : UpdateUser(w, u, role, active)
  BY <1>6, TokenIsUsed
<1> QED BY <1>1, <1>2, <1>3, <1>4, <1>5, <1>6 DEF AccountsNext

\* What an administrator changes reaches every token in time: an access token
\* allows what the role allowed that its request read (_generate_access_token),
\* and a request and the token together last no longer than is waited for.
THEOREM AccessCatchesUpAlways == AccountsSpec => []AccessCatchesUp
<1>1. AccInv => AccessCatchesUp
  <2> SUFFICES ASSUME AccInv, NEW t \in Unexpired,
                      accNow - users[t.user].updated >= AccessTtl + RequestTime
               PROVE  /\ Exists(t.user) /\ users[t.user].active
                      /\ \A p \in DOMAIN PERMISSIONS :
                           Allows(t, p) = (users[t.user].role \in PERMISSIONS[p])
    BY DEF AccessCatchesUp
  <2>1. TokenOK(t, accNow, users) /\ accNow < t.exp /\ accNow \in Nat
    BY DEF AccInv, AccTypeOK, Unexpired
  <2>2. users[t.user].updated \in Nat /\ users[t.user].role \in ROLES
    BY <2>1, RoleFields DEF TokenOK
  <2>3. PICK since \in Nat : /\ t.exp <= since + RequestTime + AccessTtl
                             /\ Known(users, t.user, t.role, since)
    BY <2>1 DEF TokenOK
  <2>4. users[t.user].updated < since
    BY <2>1, <2>2, <2>3 DEF TokenOK
  <2>5. Exists(t.user) /\ users[t.user].active /\ users[t.user].role = t.role
    BY <2>2, <2>3, <2>4 DEF Known, Exists
  <2>6. \A p \in DOMAIN PERMISSIONS : Allows(t, p) = (t.role \in PERMISSIONS[p])
    BY <2>1 DEF Allows, TokenOK, PermissionsFor, NormalizeRole
  <2> QED BY <2>5, <2>6
<1> QED BY <1>1, InitAccounts, NextAccounts, PTL DEF AccountsSpec

\* However many refreshes of one token run at once, it is replaced once and for
\* all by a later one of the same account.
THEOREM RotationIsFinalAlways == AccountsSpec => RotationIsFinal
<1> DEFINE Final == \A r \in DOMAIN rows :
                      /\ rows[r].revoked => rows'[r] = rows[r]
                      /\ rows'[r].by # Nothing => rows'[r].by > r /\ rows'[rows'[r].by].user = rows'[r].user
<1>1. AccInv /\ [AccountsNext]_accountVars => [Final]_rows
  <2> SUFFICES ASSUME AccInv, AccountsNext, rows' # rows PROVE Final
    BY DEF accountVars
  <2>1. PICK w \in Workers : IssuePair(w) \/ Rotate(w)
    BY DEF AccountsNext, AccountsTick, BeginLogin, BeginRefresh, RecordFailure, RecordSuccess, Answer,
           AbortRequest, RestartWorker, Logout, RevokeSession, Block, ChangePassword, CreateUser,
           UpdateUser, DeleteUser, Change
  <2>2. /\ DOMAIN rows \subseteq DOMAIN rows'
        /\ \A r \in DOMAIN rows : rows[r].revoked => rows'[r] = rows[r]
    <3>1. CASE IssuePair(w)
      <4>1. Cardinality(DOMAIN rows) + 1 \notin DOMAIN rows
        <5>1. PICK n \in Nat : DOMAIN rows = 1..n
          BY DEF AccInv, RowsInv
        <5>2. Cardinality(1..n) = n
          BY FS_Interval, n >= 0
        <5> QED BY <5>1, <5>2
      <4> QED BY <3>1, <4>1 DEF IssuePair, StoreRefreshToken
    <3>2. CASE Rotate(w)
      BY <3>2, RowsRotate
    <3> QED BY <2>1, <3>1, <3>2
  <2>3. RowsInv'
    BY NextAccounts DEF AccInv
  <2> QED BY <2>2, <2>3 DEF RowsInv
<1>2. AccountsInit => AccInv
  BY InitAccounts
<1>3. AccInv /\ [AccountsNext]_accountVars => AccInv'
  BY NextAccounts
<1> QED BY <1>1, <1>2, <1>3, PTL DEF AccountsSpec, RotationIsFinal

-----------------------------------------------------------------------------
(* Logins of the auth-service.  A lock says what a login read before others   *)
(* wrote, so the count in the table proves nothing by itself.  What holds in  *)
(* every state is that no count, neither a stored one nor one a login is      *)
(* about to write, is ahead of the wrong passwords that were really tried     *)
(* since the account was last cleared in peace (CountsAreTried): a clearing   *)
(* forgets them only when no other login is about to write an older count.    *)

Logins == [step : {"right", "wrong", "announce"}, name : Names, failed : Nat]

LoginTypeOK ==
  /\ account \in [Names -> [failed : Nat, locked : BOOLEAN]]
  /\ login \in [Threads -> {NoLogin} \cup Logins]
  /\ tries \in [Names -> Nat]
  /\ announced \in [Names -> BOOLEAN]

\* What the table counts was tried, and so was what a login is about to count.
CountsAreTried ==
  /\ \A n \in Names : account[n].failed <= tries[n]
  /\ \A t \in Threads : login[t].step = "wrong" => login[t].failed < tries[login[t].name]

LockedWasTried == \A n \in Names : account[n].locked => tries[n] >= LockAfter

Announcing(t, n) == login[t].step = "announce" /\ login[t].name = n

\* A lock that was not announced yet is being announced, or its announcement was lost.
AnnouncedOrAboutTo ==
  \A n \in Names : announced[n] \/ n \in unsaid \/ \E t \in Threads : Announcing(t, n)

LoginInv == LoginTypeOK /\ CountsAreTried /\ LockedWasTried /\ AnnouncedOrAboutTo

USE LoginAssumption

-----------------------------------------------------------------------------

LEMMA InitLogins == LoginInit => LoginInv
  BY DEF LoginInit, LoginInv, LoginTypeOK, CountsAreTried, LockedWasTried, AnnouncedOrAboutTo,
         NoLogin, Clear

LEMMA LoginSteps ==
  ASSUME NEW t \in Threads, login[t].step # "none", LoginTypeOK
  PROVE  login[t] \in Logins
  BY DEF LoginTypeOK, NoLogin

\* The wrong passwords are only forgotten where the account is clear and nobody
\* else is about to count.
LEMMA ForgottenIs ==
  ASSUME NEW others, Forgotten(others), tries \in [Names -> Nat],
         account' \in [Names -> [failed : Nat, locked : BOOLEAN]],
         NEW n \in Names
  PROVE  /\ tries' \in [Names -> Nat]
         /\ \/ tries'[n] = tries[n]
            \/ account'[n].failed = 0 /\ ~account'[n].locked /\ \A t \in others : ~Deciding(t, n)
<1>1. tries'[n] = IF account'[n] = Clear /\ \A t \in others : ~Deciding(t, n) THEN 0 ELSE tries[n]
  BY DEF Forgotten
<1>2. tries' \in [Names -> Nat]
  BY DEF Forgotten
<1> QED BY <1>1, <1>2 DEF Clear

LEMMA ReadKeeps ==
  ASSUME LoginInv, NEW t \in Threads, NEW n \in Names, NEW ok \in BOOLEAN, ReadAccount(t, n, ok)
  PROVE  LoginInv'
<1> DEFINE read == [step |-> IF ok THEN "right" ELSE "wrong", name |-> n, failed |-> account[n].failed]
<1>1. /\ login' = [login EXCEPT ![t] = read]
      /\ login[t] = NoLogin /\ account' = account /\ announced' = announced /\ unsaid' = unsaid
  BY DEF ReadAccount
<1>2. read \in Logins
  BY DEF LoginInv, LoginTypeOK, Logins
<1>3. tries' \in [Names -> Nat] /\ \A m \in Names : tries'[m] >= tries[m]
  BY DEF ReadAccount, LoginInv, LoginTypeOK
<1>4. ~ok => tries'[n] > account[n].failed
  BY DEF ReadAccount, LoginInv, LoginTypeOK, CountsAreTried
<1>5. LoginTypeOK'
  BY <1>1, <1>2, <1>3 DEF LoginInv, LoginTypeOK
<1>6. CountsAreTried'
  <2>1. \A m \in Names : account'[m].failed <= tries'[m]
    BY <1>1, <1>3 DEF LoginInv, LoginTypeOK, CountsAreTried
  <2>2. ASSUME NEW u \in Threads, login'[u].step = "wrong"
        PROVE  login'[u].failed < tries'[login'[u].name]
    <3>1. CASE u = t
      BY <1>1, <1>4, <2>2, <3>1 DEF LoginInv, LoginTypeOK
    <3>2. CASE u # t
      <4>1. login'[u] = login[u] /\ login[u] \in Logins
        BY <1>1, <2>2, <3>2, LoginSteps DEF LoginInv, LoginTypeOK
      <4> QED BY <1>3, <2>2, <4>1 DEF LoginInv, LoginTypeOK, CountsAreTried, Logins
    <3> QED BY <3>1, <3>2
  <2> QED BY <2>1, <2>2 DEF CountsAreTried
<1>7. LockedWasTried'
  BY <1>1, <1>3 DEF LoginInv, LoginTypeOK, LockedWasTried
<1>8. AnnouncedOrAboutTo'
  BY <1>1 DEF LoginInv, LoginTypeOK, AnnouncedOrAboutTo, Announcing, NoLogin
<1> QED BY <1>5, <1>6, <1>7, <1>8 DEF LoginInv

\* Whatever clears accounts, by a login that then ends or by a reset: counts only
\* fall, nothing is locked, and what is still to be written stays ahead of none.
LEMMA ClearingKeeps ==
  ASSUME LoginInv, NEW some \in SUBSET Threads, Forgotten(Threads \ some),
         LoginTypeOK', UNCHANGED <<announced, unsaid>>,
         \A t \in Threads : login'[t] = IF t \in some THEN NoLogin ELSE login[t],
         \A t \in some : login[t].step # "announce",
         \A n \in Names : /\ account'[n].failed <= account[n].failed
                          /\ account'[n].locked => account[n].locked
  PROVE  LoginInv'
<1>1. \A n \in Names :
        \/ tries'[n] = tries[n]
        \/ /\ account'[n].failed = 0 /\ ~account'[n].locked
           /\ \A t \in Threads \ some : ~Deciding(t, n)
  BY ForgottenIs DEF LoginInv, LoginTypeOK
<1>2. CountsAreTried'
  <2>1. \A n \in Names : account'[n].failed <= tries'[n]
    BY <1>1 DEF LoginInv, LoginTypeOK, CountsAreTried
  <2>2. ASSUME NEW u \in Threads, login'[u].step = "wrong"
        PROVE  login'[u].failed < tries'[login'[u].name]
    <3>1. u \notin some /\ login'[u] = login[u]
      BY <2>2 DEF NoLogin
    <3>2. login[u] \in Logins /\ login[u].step = "wrong" /\ login[u].name \in Names
      BY <2>2, <3>1, LoginSteps DEF LoginInv, Logins
    <3>3. Deciding(u, login[u].name)
      BY <3>2 DEF Deciding
    <3>4. tries'[login[u].name] = tries[login[u].name]
      BY <1>1, <3>1, <3>2, <3>3
    <3> QED BY <3>1, <3>2, <3>4 DEF LoginInv, CountsAreTried
  <2> QED BY <2>1, <2>2 DEF CountsAreTried
<1>3. LockedWasTried'
  BY <1>1 DEF LoginInv, LockedWasTried
<1>4. AnnouncedOrAboutTo'
  BY DEF LoginInv, AnnouncedOrAboutTo, Announcing
<1> QED BY <1>2, <1>3, <1>4 DEF LoginInv

LEMMA RightKeeps ==
  ASSUME LoginInv, NEW t \in Threads, RightPassword(t)
  PROVE  LoginInv'
<1>1. login[t] \in Logins /\ login[t].name \in Names
  BY LoginSteps DEF RightPassword, LoginInv, Logins
<1>2. account' \in [Names -> [failed : Nat, locked : BOOLEAN]]
  BY <1>1 DEF RightPassword, LoginInv, LoginTypeOK
<1>3. tries' \in [Names -> Nat]
  BY DEF RightPassword, Forgotten, LoginInv, LoginTypeOK
<1>4. LoginTypeOK'
  BY <1>1, <1>2, <1>3 DEF RightPassword, LoginInv, LoginTypeOK
<1>5. \A u \in Threads : login'[u] = IF u \in {t} THEN NoLogin ELSE login[u]
  BY DEF RightPassword, LoginInv, LoginTypeOK
<1>6. \A n \in Names : /\ account'[n].failed <= account[n].failed
                       /\ account'[n].locked => account[n].locked
  BY <1>1 DEF RightPassword, LoginInv, LoginTypeOK
<1> QED BY <1>4, <1>5, <1>6, ClearingKeeps DEF RightPassword

LEMMA WrongKeeps ==
  ASSUME LoginInv, NEW t \in Threads, WrongPassword(t)
  PROVE  LoginInv'
<1> DEFINE n == login[t].name
           after == IF Locks(t) THEN [login[t] EXCEPT !.step = "announce"] ELSE NoLogin
<1>1. login[t] \in Logins /\ n \in Names /\ login[t].failed \in Nat
  BY LoginSteps DEF WrongPassword, LoginInv, Logins
<1>2. /\ account' = [account EXCEPT ![n] = [failed |-> login[t].failed + 1, locked |-> Locks(t)]]
      /\ login' = [login EXCEPT ![t] = after]
      /\ announced' = IF Locks(t) THEN [announced EXCEPT ![n] = FALSE] ELSE announced
      /\ unsaid' = IF Locks(t) THEN unsaid \ {n} ELSE unsaid
      /\ tries' = tries
  BY DEF WrongPassword
<1>3. after \in {NoLogin} \cup Logins /\ after.step # "wrong"
  BY <1>1 DEF Logins, NoLogin
<1>4. Locks(t) \in BOOLEAN
  BY DEF Locks
<1>5. login[t].failed + 1 <= tries[n]
  BY <1>1 DEF WrongPassword, LoginInv, LoginTypeOK, CountsAreTried
<1>6. LoginTypeOK'
  <2>1. account' \in [Names -> [failed : Nat, locked : BOOLEAN]]
    BY <1>1, <1>2, <1>4 DEF LoginInv, LoginTypeOK
  <2>2. announced' \in [Names -> BOOLEAN]
    BY <1>2 DEF LoginInv, LoginTypeOK
  <2> QED BY <1>2, <1>3, <2>1, <2>2 DEF LoginInv, LoginTypeOK
<1>7. CountsAreTried'
  BY <1>2, <1>3, <1>5 DEF LoginInv, LoginTypeOK, CountsAreTried
<1>8. LockedWasTried'
  <2> SUFFICES ASSUME NEW m \in Names, account'[m].locked PROVE tries[m] >= LockAfter
    BY <1>2 DEF LockedWasTried
  <2>1. CASE m = n
    <3>1. account'[n].locked = Locks(t) /\ tries[n] \in Nat
      BY <1>1, <1>2 DEF LoginInv, LoginTypeOK
    <3>2. login[t].failed + 1 >= LockAfter
      BY <2>1, <3>1 DEF Locks
    <3> QED BY <1>1, <1>5, <2>1, <3>1, <3>2
  <2>2. CASE m # n
    BY <1>2, <2>2 DEF LoginInv, LoginTypeOK, LockedWasTried
  <2> QED BY <2>1, <2>2
<1>9. AnnouncedOrAboutTo'
  <2> SUFFICES ASSUME NEW m \in Names
               PROVE  announced'[m] \/ m \in unsaid' \/ \E u \in Threads : Announcing(u, m)'
    BY DEF AnnouncedOrAboutTo
  <2>1. CASE m = n /\ Locks(t)
    <3>1. Announcing(t, m)'
      BY <1>1, <1>2, <2>1 DEF Announcing, Logins, LoginInv, LoginTypeOK
    <3> QED BY <3>1
  <2>2. CASE ~(m = n /\ Locks(t))
    <3>1. announced'[m] = announced[m] /\ (m \in unsaid => m \in unsaid')
      BY <1>2, <2>2 DEF LoginInv, LoginTypeOK
    <3>2. ASSUME NEW u \in Threads, Announcing(u, m) PROVE Announcing(u, m)'
      BY <1>2, <3>2 DEF Announcing, WrongPassword, LoginInv, LoginTypeOK
    <3> QED BY <3>1, <3>2 DEF LoginInv, AnnouncedOrAboutTo
  <2> QED BY <2>1, <2>2
<1> QED BY <1>6, <1>7, <1>8, <1>9 DEF LoginInv

\* Logins that end, having announced or not, count nothing.
LEMMA EndingKeeps ==
  ASSUME LoginInv, NEW some \in SUBSET Threads, UNCHANGED <<account, tries>>,
         announced' \in [Names -> BOOLEAN], login' \in [Threads -> {NoLogin} \cup Logins],
         \A t \in Threads : login'[t] = IF t \in some THEN NoLogin ELSE login[t],
         \A n \in Names : announced[n] => announced'[n],
         unsaid \subseteq unsaid',
         \A t \in some : login[t].step = "announce" =>
           announced'[login[t].name] \/ login[t].name \in unsaid'
  PROVE  LoginInv'
<1>1. LoginTypeOK' /\ LockedWasTried'
  BY DEF LoginInv, LoginTypeOK, LockedWasTried
<1>2. CountsAreTried'
  BY DEF LoginInv, LoginTypeOK, CountsAreTried, NoLogin
<1>3. AnnouncedOrAboutTo'
  BY DEF LoginInv, AnnouncedOrAboutTo, Announcing
<1> QED BY <1>1, <1>2, <1>3 DEF LoginInv

LEMMA WriteFailKeeps ==
  ASSUME LoginInv, NEW t \in Threads, WriteFails(t)
  PROVE  LoginInv'
<1>1. login' \in [Threads -> {NoLogin} \cup Logins] /\ announced' \in [Names -> BOOLEAN]
  BY DEF WriteFails, LoginInv, LoginTypeOK
<1>2. \A u \in Threads : login'[u] = IF u \in {t} THEN NoLogin ELSE login[u]
  BY DEF WriteFails, LoginInv, LoginTypeOK
<1> QED BY <1>1, <1>2, EndingKeeps DEF WriteFails

LEMMA AnnounceKeeps ==
  ASSUME LoginInv, NEW t \in Threads, Announce(t)
  PROVE  LoginInv'
<1>1. login[t] \in Logins /\ login[t].name \in Names
  BY LoginSteps DEF Announce, LoginInv, Logins
<1>2. login' \in [Threads -> {NoLogin} \cup Logins] /\ announced' \in [Names -> BOOLEAN]
  BY <1>1 DEF Announce, LoginInv, LoginTypeOK
<1>3. \A u \in Threads : login'[u] = IF u \in {t} THEN NoLogin ELSE login[u]
  BY DEF Announce, LoginInv, LoginTypeOK
<1>4. /\ \A n \in Names : announced[n] => announced'[n]
      /\ unsaid \subseteq unsaid'
      /\ announced'[login[t].name] \/ login[t].name \in unsaid'
  BY <1>1 DEF Announce, LoginInv, LoginTypeOK
<1> QED BY <1>2, <1>3, <1>4, EndingKeeps DEF Announce

LEMMA ResetKeeps ==
  ASSUME LoginInv, NEW some, ResetAccounts(some)
  PROVE  LoginInv'
<1>1. account' \in [Names -> [failed : Nat, locked : BOOLEAN]]
  BY DEF ResetAccounts, Clear, LoginInv, LoginTypeOK
<1>2. tries' \in [Names -> Nat]
  BY DEF ResetAccounts, Forgotten, LoginInv, LoginTypeOK
<1>3. LoginTypeOK'
  BY <1>1, <1>2 DEF ResetAccounts, LoginInv, LoginTypeOK
<1>4. \A n \in Names : /\ account'[n].failed <= account[n].failed
                       /\ account'[n].locked => account[n].locked
  BY DEF ResetAccounts, Clear, LoginInv, LoginTypeOK
<1>5. {} \in SUBSET Threads /\ Threads \ {} = Threads
  OBVIOUS
<1>6. Forgotten(Threads \ {})
  BY <1>5 DEF ResetAccounts
<1>7. \A t \in Threads : login'[t] = IF t \in {} THEN NoLogin ELSE login[t]
  BY DEF ResetAccounts
<1>8. UNCHANGED <<announced, unsaid>>
  BY DEF ResetAccounts
<1> QED BY <1>3, <1>4, <1>5, <1>6, <1>7, <1>8, ClearingKeeps

LEMMA DeathKeeps ==
  ASSUME LoginInv, LoginDies
  PROVE  LoginInv'
<1>1. login' \in [Threads -> {NoLogin} \cup Logins] /\ announced' \in [Names -> BOOLEAN]
  BY DEF LoginDies, LoginInv, LoginTypeOK
<1>2. \A u \in Threads : login'[u] = IF u \in Threads THEN NoLogin ELSE login[u]
  BY DEF LoginDies
<1>3. /\ \A n \in Names : announced[n] => announced'[n]
      /\ unsaid \subseteq unsaid'
      /\ \A t \in Threads : login[t].step = "announce" => login[t].name \in unsaid'
  BY DEF LoginDies
<1> QED BY <1>1, <1>2, <1>3, EndingKeeps DEF LoginDies

\* Whatever logins and resets overlap and whenever the service dies, an account is
\* only locked after LockAfter wrong passwords since it was last cleared in peace,
\* and every lock is announced or about to be, unless Redis did not take its
\* announcement or the death of the process came before it.
THEOREM LocksAreHonestAlways == LoginSpec => []LocksAreHonest
<1>1. LoginInit => LoginInv
  BY InitLogins
<1>2. LoginInv /\ [LoginNext]_loginVars => LoginInv'
  <2> SUFFICES ASSUME LoginInv, [LoginNext]_loginVars PROVE LoginInv'
    OBVIOUS
  <2>1. CASE LoginNext
    BY <2>1, ReadKeeps, RightKeeps, WrongKeeps, WriteFailKeeps, AnnounceKeeps, ResetKeeps,
       DeathKeeps DEF LoginNext
  <2>2. CASE UNCHANGED loginVars
    BY <2>2 DEF loginVars, LoginInv, LoginTypeOK, CountsAreTried, LockedWasTried,
                AnnouncedOrAboutTo, Announcing
  <2> QED BY <2>1, <2>2
<1>3. LoginInv => LocksAreHonest
  BY DEF LoginInv, LockedWasTried, AnnouncedOrAboutTo, Announcing, LocksAreHonest
<1> QED BY <1>1, <1>2, <1>3, PTL DEF LoginSpec

-----------------------------------------------------------------------------
(* The graph of the topology collector *)

USE TopologyAssumption

GraphOK ==
  /\ running \subseteq Nodes /\ serviceMap \subseteq Nodes /\ outages \in Nat
  /\ DOMAIN observed \subseteq Edges /\ IsFiniteSet(DOMAIN observed)
  /\ IsList(graphEdges) /\ StaticEdges \subseteq EdgesOf(graphEdges)

LEMMA GraphShowsServices == GraphOK => GraphIsClean
<1> SUFFICES ASSUME GraphOK PROVE GraphIsClean
  OBVIOUS
<1>1. \A e \in EdgesOf(graphEdges) : e \in Edges
  BY ElementOfSeq, LenProperties DEF GraphOK, IsList, EdgesOf
<1>2. Graph.edges \subseteq Graph.nodes \X Graph.nodes
  <2> SUFFICES ASSUME NEW e \in Edges, e[1] \in serviceMap, e[2] \in serviceMap
               PROVE  e \in serviceMap \X serviceMap
    BY <1>1 DEF Graph, Among
  <2> QED BY DEF Edges
<1> QED BY <1>2 DEF GraphOK, IsList, GraphIsClean

LEMMA InitGraph == TopoInit => GraphOK
<1> SUFFICES ASSUME TopoInit PROVE GraphOK
  OBVIOUS
<1>1. IsList(graphEdges) /\ EdgesOf(graphEdges) = StaticEdges
  BY SomeOrderIs DEF TopoInit, Edges
<1>2. DOMAIN observed = {}
  BY DEF TopoInit
<1>3. IsFiniteSet(DOMAIN observed)
  BY <1>2, FS_EmptySet
<1> QED BY <1>1, <1>2, <1>3 DEF TopoInit, GraphOK

\* What a round makes of the graph: the edges seen of late are appended, once.
LEMMA CollectedGraph ==
  ASSUME GraphOK, NEW redisUp \in BOOLEAN, CollectTopology(redisUp)
  PROVE  GraphOK'
<1> DEFINE new == NewEdges(Collected)
<1>1. /\ running' = running /\ serviceMap' = running
      /\ observed' = [e \in Live |-> observed[e]]
      /\ graphEdges' = graphEdges \o SomeOrder(new)
      /\ outages' \in {outages, outages + 1}
  BY DEF CollectTopology, Collected, GraphOK
<1>2. Live \in SUBSET (DOMAIN observed)
  BY DEF Live
<1>3. new \in SUBSET (DOMAIN observed) /\ new \cap EdgesOf(graphEdges) = {}
  BY <1>2 DEF NewEdges, Among
<1>4. IsFiniteSet(DOMAIN observed)
  BY DEF GraphOK
<1>5. IsFiniteSet(Live) /\ IsFiniteSet(new)
  <2>1. IsFiniteSet(Live)
    BY <1>2, <1>4, FS_Subset
  <2> HIDE DEF new
  <2>2. IsFiniteSet(new)
    BY <1>3, <1>4, FS_Subset
  <2> QED BY <2>1, <2>2
<1> HIDE DEF new
<1>6. IsList(SomeOrder(new)) /\ EdgesOf(SomeOrder(new)) = new
  BY <1>3, <1>5, SomeOrderIs DEF GraphOK
<1>7. IsList(graphEdges')
  BY <1>1, <1>3, <1>6, AppendingKeeps DEF GraphOK
<1>8. EdgesOf(graphEdges) \subseteq EdgesOf(graphEdges')
  BY <1>1, <1>3, <1>6, AppendingKeeps DEF GraphOK
<1>9. DOMAIN observed' = Live
  BY <1>1
<1>10. IsFiniteSet(DOMAIN observed')
  BY <1>5, <1>9
<1>11. outages' \in Nat
  BY <1>1 DEF GraphOK
<1>12. IsList(graphEdges)' /\ (EdgesOf(graphEdges))' = EdgesOf(graphEdges')
  BY <1>7 DEF IsList, EdgesOf
<1> QED BY <1>1, <1>2, <1>8, <1>9, <1>10, <1>11, <1>12 DEF GraphOK

LEMMA NextGraph == GraphOK /\ [TopoNext]_topoVars => GraphOK'
<1> SUFFICES ASSUME GraphOK, [TopoNext]_topoVars PROVE GraphOK'
  OBVIOUS
<1>1. CASE TopoTick \/ UNCHANGED topoVars
  BY <1>1 DEF TopoTick, topoVars, GraphOK, IsList, EdgesOf
<1>2. ASSUME NEW s \in Deployed, Deploy(s) PROVE GraphOK'
  BY <1>2 DEF Deploy, GraphOK, IsList, EdgesOf
<1>3. ASSUME NEW e \in Traffic, AddObservedEdge(e[1], e[2]) PROVE GraphOK'
  <2>1. /\ observed' = RecordObservedEdge(e[1], e[2])
        /\ UNCHANGED <<running, serviceMap, graphEdges, outages>>
    BY <1>3 DEF AddObservedEdge
  <2>2. DOMAIN observed' \in SUBSET (DOMAIN observed \cup {e})
    <3>1. e = <<e[1], e[2]>>
      OBVIOUS
    <3> QED BY <2>1, <3>1 DEF RecordObservedEdge
  <2>3. IsFiniteSet(DOMAIN observed')
    <3>1. IsFiniteSet(DOMAIN observed \cup {e})
      BY FS_AddElement DEF GraphOK
    <3> QED BY <2>2, <3>1, FS_Subset
  <2>4. DOMAIN observed' \subseteq Edges
    BY <2>2 DEF GraphOK, Edges
  <2> QED BY <2>1, <2>3, <2>4 DEF GraphOK, IsList, EdgesOf
<1>4. ASSUME NEW redisUp \in BOOLEAN, AcceptDrift(redisUp) PROVE GraphOK'
  <2>1. outages' \in Nat /\ UNCHANGED <<running, serviceMap, graphEdges, observed>>
    BY <1>4 DEF AcceptDrift, GraphOK
  <2> QED BY <2>1 DEF GraphOK, IsList, EdgesOf
<1>5. ASSUME NEW redisUp \in BOOLEAN, RestartCollector(redisUp) PROVE GraphOK'
  <2>1. /\ serviceMap' = {} /\ graphEdges' = SomeOrder(StaticEdges) /\ DOMAIN observed' = {}
        /\ outages' \in Nat /\ running' = running
    BY <1>5 DEF RestartCollector, GraphOK
  <2>2. IsList(graphEdges') /\ EdgesOf(graphEdges') = StaticEdges
    BY <2>1, SomeOrderIs DEF Edges
  <2>3. IsFiniteSet(DOMAIN observed')
    BY <2>1, FS_EmptySet
  <2> QED BY <2>1, <2>2, <2>3 DEF GraphOK, IsList, EdgesOf
<1> QED BY <1>1, <1>2, <1>3, <1>4, <1>5, CollectedGraph DEF TopoNext

\* The graph never shows an edge twice or loses a static one: what is appended
\* was looked for first, and only a restart starts the list again.
THEOREM GraphStaysClean == TopoSpec => []GraphIsClean
  BY InitGraph, NextGraph, GraphShowsServices, PTL DEF TopoSpec

-----------------------------------------------------------------------------
(* The baseline of the drift detector *)

AnchorsOK ==
  IF baseline = NoBaseline THEN DOMAIN anchored = {}
  ELSE /\ DOMAIN anchored = baseline.services
       /\ \A s \in baseline.services : Neighbours(baseline, s) = anchored[s]

\* While Redis and the collector were there all the time, every service that is
\* rewired against the baseline was named.
RewiredAreNamed ==
  outages = 0 /\ baseline # NoBaseline =>
    \A s \in baseline.services :
      s \in serviceMap /\ Neighbours(Signature, s) # anchored[s] => s \in signalled

TopoOK == GraphOK /\ AnchorsOK /\ RewiredAreNamed

LEMMA TopoImplies == TopoOK => BaselineDoesNotCreep
  BY DEF TopoOK, GraphOK, AnchorsOK, RewiredAreNamed, BaselineDoesNotCreep

LEMMA InitTopo == TopoInit => TopoOK
<1> SUFFICES ASSUME TopoInit PROVE TopoOK
  OBVIOUS
<1>1. baseline = NoBaseline /\ DOMAIN anchored = {}
  BY DEF TopoInit, DriftInit
<1> QED BY <1>1, InitGraph DEF TopoOK, AnchorsOK, RewiredAreNamed

\* A service that is in the baseline and in the new graph with other neighbours is
\* named in a critical event.
LEMMA RewiringIsSignalled ==
  ASSUME baseline # NoBaseline, NEW sig, NEW s \in baseline.services \cap sig.services,
         Neighbours(baseline, s) # Neighbours(sig, s)
  PROVE  /\ Critical(Observed(sig)) # {}
         /\ s \in {x.service : x \in Signals(Observed(sig))}
<1> DEFINE e == Event("neighbour_change", "critical", s)
<1>1. e \in Observed(sig)
  BY DEF Observed, Diff, Rewired
<1>2. e.kind = "neighbour_change" /\ e.severity = "critical" /\ e.target = s
  BY DEF Event
<1> HIDE DEF e
<1>3. e \in Critical(Observed(sig))
  BY <1>1, <1>2 DEF Critical
<1>4. SecurityEvent(e).level = "critical" /\ SecurityEvent(e).service = s
  BY <1>2 DEF SecurityEvent, Level
<1>5. SecurityEvent(e) \in Signals(Observed(sig))
  BY <1>1, <1>4 DEF Signals
<1> QED BY <1>3, <1>4, <1>5

LEMMA CollectingAnchors ==
  ASSUME TopoOK, NEW redisUp \in BOOLEAN, CollectTopology(redisUp)
  PROVE  AnchorsOK' /\ RewiredAreNamed'
<1> DEFINE sig == Fingerprint(Collected, Among(Collected, EdgesOf(graphEdges')))
<1>1. /\ Observe(sig, redisUp) /\ serviceMap' = Collected
      /\ outages' = outages + (IF redisUp THEN 0 ELSE 1)
      /\ signalled' = IF redisUp THEN signalled \cup {x.service : x \in Signals(Observed(sig))} ELSE signalled
      /\ anchored' = [s \in baseline'.services |->
           IF s \in DOMAIN anchored THEN anchored[s] ELSE Neighbours(baseline', s)]
  BY DEF CollectTopology
<1>2. baseline' = IF Critical(Observed(sig)) = {} THEN sig ELSE baseline
  BY <1>1 DEF Observe
<1>3. sig # NoBaseline /\ sig.services = Collected
  <2>1. Collected \in SUBSET Nodes
    BY DEF Collected, TopoOK, GraphOK
  <2>2. Among(Collected, EdgesOf(graphEdges')) \in SUBSET Edges
    <3>1. GraphOK'
      BY CollectedGraph DEF TopoOK
    <3>2. \A e \in EdgesOf(graphEdges') : e \in Edges
      BY <3>1, ElementOfSeq, LenProperties DEF GraphOK, IsList, EdgesOf
    <3> QED BY <3>2 DEF Among
  <2> QED BY <2>1, <2>2 DEF Fingerprint, Edges
<1>4. Signature' = sig
  BY <1>1 DEF Signature, Fingerprint, Among, EdgesOf
<1>5. baseline = NoBaseline => Critical(Observed(sig)) = {}
  BY DEF Observed, Critical
<1> HIDE DEF sig
<1>6. baseline' # NoBaseline
  BY <1>2, <1>3, <1>5
<1>7. AnchorsOK'
  <2> SUFFICES ASSUME NEW s \in baseline'.services
               PROVE  Neighbours(baseline', s) = anchored'[s]
    BY <1>1, <1>6 DEF AnchorsOK, Neighbours
  <2>1. CASE s \notin DOMAIN anchored
    BY <1>1, <2>1
  <2>2. CASE s \in DOMAIN anchored
    <3>1. /\ anchored'[s] = anchored[s] /\ baseline # NoBaseline /\ s \in baseline.services
          /\ Neighbours(baseline, s) = anchored[s]
      BY <1>1, <2>2 DEF TopoOK, AnchorsOK
    <3>2. CASE baseline' = baseline
      BY <3>1, <3>2
    <3>3. CASE baseline' = sig /\ Critical(Observed(sig)) = {}
      BY <3>1, <3>3, RewiringIsSignalled
    <3> QED BY <1>2, <3>2, <3>3
  <2> QED BY <2>1, <2>2
<1>8. RewiredAreNamed'
  <2> SUFFICES ASSUME outages' = 0, NEW s \in baseline'.services, s \in serviceMap',
                      Neighbours(sig, s) # anchored'[s]
               PROVE  s \in signalled'
    BY <1>4, <1>6 DEF RewiredAreNamed, Neighbours
  <2>1. redisUp
    BY <1>1 DEF TopoOK, GraphOK
  <2>2. anchored'[s] = Neighbours(baseline', s)
    BY <1>6, <1>7 DEF AnchorsOK, Neighbours
  <2>3. baseline' = baseline
    BY <1>2, <2>2
  <2>4. s \in baseline.services \cap sig.services /\ Neighbours(baseline, s) # Neighbours(sig, s)
        /\ baseline # NoBaseline
    BY <1>1, <1>3, <1>6, <2>2, <2>3
  <2> QED BY <1>1, <2>1, <2>4, RewiringIsSignalled
<1> QED BY <1>7, <1>8

LEMMA NextTopo == TopoOK /\ [TopoNext]_topoVars => TopoOK'
<1> SUFFICES ASSUME TopoOK, [TopoNext]_topoVars PROVE AnchorsOK' /\ RewiredAreNamed'
  BY NextGraph DEF TopoOK
<1>1. CASE UNCHANGED <<baseline, anchored, serviceMap, graphEdges, signalled, outages>>
  <2>1. AnchorsOK'
    BY <1>1 DEF TopoOK, AnchorsOK, Neighbours
  <2>2. Signature' = Signature
    BY <1>1 DEF Signature, Fingerprint, Among, EdgesOf
  <2>3. RewiredAreNamed'
    BY <1>1, <2>2 DEF TopoOK, RewiredAreNamed, Neighbours
  <2> QED BY <2>1, <2>3
<1>2. ASSUME NEW redisUp \in BOOLEAN, AcceptDrift(redisUp) PROVE AnchorsOK' /\ RewiredAreNamed'
  BY <1>2 DEF AcceptDrift, ResetDrift, AnchorsOK, RewiredAreNamed
<1>3. ASSUME NEW redisUp \in BOOLEAN, RestartCollector(redisUp) PROVE AnchorsOK' /\ RewiredAreNamed'
  <2>1. outages' # 0 /\ anchored' = Anchors(baseline')
    BY <1>3 DEF RestartCollector, TopoOK, GraphOK
  <2>2. AnchorsOK'
    BY <2>1 DEF AnchorsOK, Anchors, Neighbours
  <2> QED BY <2>1, <2>2 DEF RewiredAreNamed
<1> QED BY <1>1, <1>2, <1>3, CollectingAnchors
        DEF TopoNext, TopoTick, Deploy, AddObservedEdge, topoVars, driftVars

\* The baseline does not creep after a service that is rewired in small steps: it
\* follows only graphs in which every service it knows has the neighbours it had,
\* and otherwise the service is named.
THEOREM BaselineStays == TopoSpec => []BaselineDoesNotCreep
  BY InitTopo, NextTopo, TopoImplies, PTL DEF TopoSpec

=============================================================================
