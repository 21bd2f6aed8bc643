------------------------------ MODULE Accounts ------------------------------
(***************************************************************************)
(* api/auth.py, users_bp.py and rbac.py: accounts, access tokens and       *)
(* refresh tokens.                                                         *)
(*                                                                         *)
(* The API runs as several worker processes.  Each request is a series of  *)
(* short transactions on one database, and between two of them the other   *)
(* workers go on; a transaction that fails ends the request, or is logged  *)
(* and passed over (the counting of logins).  Access tokens are signed and *)
(* never looked up: they are good until they expire, except in a worker    *)
(* that remembers their revocation.  What a worker remembers ends with it. *)
(***************************************************************************)
EXTENDS Integers, FiniteSets

CONSTANTS
  Users, Workers,
  AccRoles,        \* roles an administrator asks for; "admin" may be among them
  FirstUser,       \* the account every deployment starts with
  MaxFailures,     \* 5 wrong passwords
  LockFor,         \* lock the account for 15 minutes
  AccessTtl, RefreshTtl,
  MaxBlocked,      \* 10000 revocations remembered
  MaxSessions,     \* 1000 sessions remembered
  RequestTime,     \* bound: how long a request takes
  MaxRows,         \* bound: refresh tokens
  MaxAccClock      \* bound: the clock

ASSUME AccountsAssumption == {LockFor, AccessTtl, RefreshTtl, RequestTime} \subseteq Nat

VARIABLES
  accNow,
  users,           \* table users
  rows,            \* table refresh_tokens, by number
  access,          \* the access tokens given out
  blocklist,       \* worker -> revoked access tokens it remembers
  sessions,        \* worker -> access tokens it gave out and remembers
  serving          \* worker -> the login or refresh it works on

accountVars == <<accNow, users, rows, access, blocklist, sessions, serving>>

-----------------------------------------------------------------------------
(* rbac.py *)

ROLES == {"admin", "analyst", "viewer"}

\* permission -> roles allowed
PERMISSIONS ==
  LET of == [admin |-> {"users.manage", "audit.read", "system.manage", "alerts.manage"},
             team |-> {"incidents.write", "campaigns.read", "mitre.read", "reports.generate",
                       "evaluation.read", "replay.read"},
             all |-> {"incidents.read", "dashboard.read", "topology.read"}]
  IN  [p \in of.admin \cup of.team \cup of.all |->
         IF p \in of.admin THEN {"admin"} ELSE IF p \in of.team THEN {"admin", "analyst"} ELSE ROLES]

\* normalize_role: "user", "readonly", "guest" and anything unknown see, no more.
NormalizeRole(role) == IF role \in ROLES THEN role ELSE "viewer"

PermissionsFor(role) == {p \in DOMAIN PERMISSIONS : NormalizeRole(role) \in PERMISSIONS[p]}

\* permission_required: what the token says, whatever the account is by now.
Allows(t, p) == p \in (IF t.permissions = {} THEN PermissionsFor(t.role) ELSE t.permissions)

\* role_required
HasRole(t, role) == NormalizeRole(t.role) = role

-----------------------------------------------------------------------------

Nothing == 0
Waiting == [step |-> "none"]
Exists(u) == users[u].state = "live"
NewUser(role) == [state |-> "live", active |-> TRUE, role |-> role, failed |-> 0, locked |-> 0, updated |-> accNow]

AccountsInit ==
  /\ accNow = 0
  /\ users = [u \in Users |-> IF u = FirstUser THEN NewUser("admin") ELSE [NewUser("viewer") EXCEPT !.state = "none"]]
  /\ rows = [r \in {} |-> Nothing] /\ access = {}
  /\ blocklist = [w \in Workers |-> {}] /\ sessions = [w \in Workers |-> {}]
  /\ serving = [w \in Workers |-> Waiting]

\* No request is older than RequestTime.
AccountsTick ==
  /\ accNow < MaxAccClock /\ accNow' = accNow + 1
  /\ \A w \in Workers : serving[w] # Waiting => accNow - serving[w].begun < RequestTime
  /\ UNCHANGED <<users, rows, access, blocklist, sessions, serving>>

Serve(w, s) == serving' = [serving EXCEPT ![w] = s]
At(w, step) == serving[w].step = step
Go(w, step) == [serving[w] EXCEPT !.step = step]

-----------------------------------------------------------------------------
(* login *)

BeginLogin(w, u, ok) ==
  /\ At(w, "none")
  /\ Exists(u) /\ users[u].active /\ ~(users[u].locked > accNow)
  /\ Serve(w, [step |-> IF ok THEN "success" ELSE "failure", user |-> u, role |-> users[u].role,
               old |-> Nothing, new |-> Nothing, exp |-> Nothing, begun |-> accNow])
  /\ UNCHANGED <<accNow, users, rows, access, blocklist, sessions>>

\* _record_login_failure, by name: one statement of the database.
RecordFailure(w) ==
  /\ At(w, "failure") /\ Serve(w, Waiting)
  /\ LET row == users[serving[w].user]
         n == IF row.failed < MaxFailures THEN row.failed + 1 ELSE row.failed
         until == IF n >= MaxFailures THEN accNow + LockFor ELSE row.locked
     IN  users' = [users EXCEPT ![serving[w].user] = [row EXCEPT !.failed = n, !.locked = until]]
  /\ UNCHANGED <<accNow, rows, access, blocklist, sessions>>

\* _record_login_success; an error of the database is passed over.
RecordSuccess(w) ==
  /\ At(w, "success") /\ Serve(w, Go(w, "issue"))
  /\ \/ LET row == users[serving[w].user]
        IN  users' = [users EXCEPT ![serving[w].user] = [row EXCEPT !.failed = 0, !.locked = 0]]
     \/ users' = users
  /\ UNCHANGED <<accNow, rows, access, blocklist, sessions>>

-----------------------------------------------------------------------------
(* refresh *)

\* _lookup_refresh
Refreshable(r) == ~rows[r].revoked /\ Exists(rows[r].user)

\* Mutant: a closed account may refresh.
BeginRefreshOfAny(w, r) ==
  /\ At(w, "none")
  /\ ~rows[r].revoked
  /\ Serve(w, [step |-> IF rows[r].until < accNow THEN "rotate" ELSE "issue", user |-> rows[r].user,
               role |-> users[rows[r].user].role, old |-> r, new |-> Nothing, exp |-> Nothing,
               begun |-> accNow])
  /\ UNCHANGED <<accNow, users, rows, access, blocklist, sessions>>

BeginRefresh(w, r) ==
  /\ At(w, "none") /\ Refreshable(r)
  /\ LET expired == rows[r].until < accNow
     IN  /\ expired \/ users[rows[r].user].active
         /\ Serve(w, [step |-> IF expired THEN "rotate" ELSE "issue", user |-> rows[r].user,
                      role |-> users[rows[r].user].role, old |-> r, new |-> Nothing, exp |-> Nothing,
                      begun |-> accNow])
  /\ UNCHANGED <<accNow, users, rows, access, blocklist, sessions>>

\* _generate_access_token: the role of the row that was read when the request began.
AccessToken(s) ==
  [id |-> s.new, user |-> s.user, role |-> NormalizeRole(s.role),
   permissions |-> PermissionsFor(s.role), exp |-> s.exp]

\* _store_refresh_token
StoreRefreshToken(r, u) ==
  LET row == [user |-> u, until |-> accNow + RefreshTtl, revoked |-> FALSE, by |-> Nothing]
  IN  rows' = [k \in DOMAIN rows \cup {r} |-> IF k = r THEN row ELSE rows[k]]

\* _issue_token_pair, for both.
IssuePair(w) ==
  /\ At(w, "issue") /\ Cardinality(DOMAIN rows) < MaxRows
  /\ LET r == Cardinality(DOMAIN rows) + 1
     IN  /\ StoreRefreshToken(r, serving[w].user)
         /\ Serve(w, [Go(w, IF serving[w].old = Nothing THEN "track" ELSE "rotate")
                      EXCEPT !.new = r, !.exp = accNow + AccessTtl])
  /\ UNCHANGED <<accNow, users, access, blocklist, sessions>>

\* Mutant: whatever the row says by now.
RevokedAgain(r, by) == [rows EXCEPT ![r] = [@ EXCEPT !.revoked = TRUE, !.by = by]]

\* _revoke_refresh_token: only a row that is not revoked yet.
Revoked(r, by) ==
  IF rows[r].revoked THEN rows ELSE [rows EXCEPT ![r] = [rows[r] EXCEPT !.revoked = TRUE, !.by = by]]

Rotate(w) ==
  /\ At(w, "rotate")
  /\ rows' = Revoked(serving[w].old, serving[w].new)
  /\ Serve(w, IF serving[w].new = Nothing THEN Waiting ELSE Go(w, "track"))
  /\ UNCHANGED <<accNow, users, access, blocklist, sessions>>

\* _track_session, and the answer.
Answer(w) ==
  /\ At(w, "track") /\ Serve(w, Waiting)
  /\ LET t == AccessToken(serving[w])
         all == sessions[w] \cup {t}
         oldest == CHOOSE x \in all : \A y \in all : x.id <= y.id
     IN  /\ access' = access \cup {t}
         /\ sessions' = [sessions EXCEPT ![w] = IF Cardinality(all) > MaxSessions THEN all \ {oldest} ELSE all]
  /\ UNCHANGED <<accNow, users, rows, blocklist>>

\* The database fails, or the worker does and is started again.
AbortRequest(w) ==
  /\ serving[w] # Waiting /\ Serve(w, Waiting)
  /\ UNCHANGED <<accNow, users, rows, access, blocklist, sessions>>

RestartWorker(w) ==
  /\ Serve(w, Waiting)
  /\ blocklist' = [blocklist EXCEPT ![w] = {}] /\ sessions' = [sessions EXCEPT ![w] = {}]
  /\ UNCHANGED <<accNow, users, rows, access>>

-----------------------------------------------------------------------------
(* What is done with an access token: token_required, permission_required *)

Unexpired == {t \in access : accNow < t.exp}
Accepted(w) == Unexpired \ blocklist[w]

\* What is asked for with users_bp needs the permission, and sessions the role.
Administers(t) == Allows(t, "users.manage")

\* list_sessions: a worker knows of those it gave out.
SessionsShown(w, by) == {t \in sessions[w] : HasRole(by, "admin") \/ t.user = by.user}

Block(w, t) ==
  /\ LET b == blocklist[w] \cup {t}
     IN  blocklist' = [blocklist EXCEPT ![w] = IF Cardinality(b) > MaxBlocked THEN {} ELSE b]
  /\ sessions' = [sessions EXCEPT ![w] = @ \ {t}]
  /\ UNCHANGED <<accNow, users, rows, access, serving>>

Logout(w) == \E t \in Accepted(w) : Block(w, t)

RevokeSession(w) ==
  \E by \in Accepted(w) : \E t \in SessionsShown(w, by) : Block(w, t)

Change(u, row) ==
  /\ users' = [users EXCEPT ![u] = row]
  /\ UNCHANGED <<accNow, rows, access, blocklist, sessions, serving>>

\* change_password does not ask whether the account still is.
ChangePassword(w) == \E t \in Accepted(w) : Change(t.user, [users[t.user] EXCEPT !.updated = accNow])

\* A name that was ever given is refused by the table's key.
CreateUser(w, u, role) ==
  /\ \E by \in Accepted(w) : Administers(by)
  /\ users[u].state = "none" /\ Change(u, NewUser(NormalizeRole(role)))

UpdateUser(w, u, role, active) ==
  /\ \E by \in Accepted(w) : Administers(by)
  /\ Exists(u) /\ Change(u, [users[u] EXCEPT !.role = NormalizeRole(role), !.active = active, !.updated = accNow])

DeleteUser(w, u) ==
  /\ \E by \in Accepted(w) : Administers(by) /\ by.user # u
  /\ Exists(u) /\ Change(u, [users[u] EXCEPT !.state = "deleted", !.active = FALSE, !.updated = accNow])

AccountsNext ==
  \/ AccountsTick
  \/ \E w \in Workers :
       \/ \E u \in Users, ok \in BOOLEAN : BeginLogin(w, u, ok)
       \/ \E r \in DOMAIN rows : BeginRefresh(w, r)
       \/ RecordFailure(w) \/ RecordSuccess(w) \/ IssuePair(w) \/ Rotate(w) \/ Answer(w)
       \/ AbortRequest(w) \/ RestartWorker(w)
       \/ Logout(w) \/ RevokeSession(w) \/ ChangePassword(w)
       \/ \E u \in Users : DeleteUser(w, u)
       \/ \E u \in Users, role \in AccRoles :
            CreateUser(w, u, role) \/ \E active \in BOOLEAN : UpdateUser(w, u, role, active)

AccountsSpec == AccountsInit /\ [][AccountsNext]_accountVars

-----------------------------------------------------------------------------
(* Properties *)

\* Rotation (refresh, _revoke_refresh_token) leaves one line of successors: a
\* token that was replaced stays replaced by the same one, of the same account,
\* however many refreshes of it run at once.
RotationIsFinal ==
  [][\A r \in DOMAIN rows :
       /\ rows[r].revoked => rows'[r] = rows[r]
       /\ rows'[r].by # Nothing => rows'[r].by > r /\ rows'[rows'[r].by].user = rows'[r].user]_rows

\* What an administrator changes reaches every token: once the longest request
\* and the life of an access token have passed since an account was changed, the
\* tokens still in use all allow what its role allows, no more and no less, and
\* none is left of a closed account.
AccessCatchesUp ==
  \A t \in Unexpired :
    accNow - users[t.user].updated >= AccessTtl + RequestTime =>
      /\ Exists(t.user) /\ users[t.user].active
      /\ \A p \in DOMAIN PERMISSIONS : Allows(t, p) = (users[t.user].role \in PERMISSIONS[p])
=============================================================================
