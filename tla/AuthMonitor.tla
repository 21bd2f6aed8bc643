---------------------------- MODULE AuthMonitor ----------------------------
(***************************************************************************)
(* monitors/auth/auth_monitor.py: detections on the logins that            *)
(* auth-service publishes.                                                 *)
(*                                                                         *)
(* One thread handles one message at a time.  /monitor/reset runs in       *)
(* another, and may come while an alert is being published, which asks the *)
(* topology collector and Redis: between the decision to report and the    *)
(* start of the rest that follows.  An alert that Redis does not take is   *)
(* logged and forgotten, and the rest starts all the same.                 *)
(***************************************************************************)
EXTENDS Bursts

CONSTANTS
  Usernames,
  ManyGuesses,     \* 5 failures
  GuessSpan,       \* within 120 seconds
  GuessRest,       \* one report every 60 seconds
  ManyUsers,       \* 5 usernames
  StuffingRest,    \* one report every 300 seconds, which is also the longest span
  RiskyFailures,   \* 3 failures before a success
  ManyLockouts,    \* 3 lockouts
  LockoutSpan      \* within 300 seconds

VARIABLES
  ipFailures,      \* address -> window; its kinds are usernames
  lockouts,        \* address -> window
  priorFailures,   \* user -> failures since the last success
  rests,           \* alert_cooldowns: <<detection, address>> -> when it was last reported
  handling         \* the failure being handled

authMonVars == <<watchVars, ipFailures, lockouts, priorFailures, rests, handling>>

NoEvent == [step |-> "idle"]

NoWindows == [ip \in Addresses |-> Empty]
NoRests == [k \in {"brute_force", "credential_stuffing"} \X Addresses |-> Never]

AuthMonInit ==
  /\ WatchInit
  /\ ipFailures = NoWindows /\ lockouts = NoWindows /\ rests = NoRests
  /\ priorFailures = [u \in Usernames |-> 0] /\ handling = NoEvent

AuthMonTick == Tick /\ UNCHANGED <<ipFailures, lockouts, priorFailures, rests, handling>>

-----------------------------------------------------------------------------

\* detect_brute_force, up to the alert.
HearFailure(ip, user) ==
  /\ handling = NoEvent
  /\ Hear("failure", ip, user)
  /\ priorFailures' = [priorFailures EXCEPT ![user] = @ + 1]
  /\ LET w == InWindow(ipFailures[ip], user, now, GuessSpan)
         report == w.count >= ManyGuesses /\ Rested(rests[<<"brute_force", ip>>], now, GuessRest)
     IN  /\ ipFailures' = [ipFailures EXCEPT ![ip] = w]
         /\ handling' = [step |-> IF report THEN "guessing" ELSE "judge", ip |-> ip, at |-> now]
  /\ UNCHANGED <<now, reports, lockouts, rests>>

\* Mutant: one rest for both detections.
PublishOnce(kind, next) ==
  /\ Raise({Alert(kind, handling.ip, handling.at)})
  /\ rests' = [k \in DOMAIN rests |-> IF k[2] = handling.ip THEN handling.at ELSE rests[k]]
  /\ handling' = next
  /\ UNCHANGED <<now, heard, ipFailures, lockouts, priorFailures>>

\* The alert, and the rest counted from when the failure was heard.
PublishAlert(kind, next) ==
  /\ Raise({Alert(kind, handling.ip, handling.at)})
  /\ rests' = [rests EXCEPT ![<<kind, handling.ip>>] = handling.at]
  /\ handling' = next
  /\ UNCHANGED <<now, heard, ipFailures, lockouts, priorFailures>>

ReportGuessing ==
  /\ handling.step = "guessing"
  /\ PublishAlert("brute_force", [step |-> "judge", ip |-> handling.ip, at |-> handling.at])

\* detect_credential_stuffing looks the window and the clock up again: a reset may have
\* emptied the window, and one that is by now too old is let go.
JudgeStuffing ==
  /\ handling.step = "judge"
  /\ LET ip == handling.ip
         w == ipFailures[ip]
         due == Cardinality(w.kinds) >= ManyUsers /\ Rested(rests[<<"credential_stuffing", ip>>], now, StuffingRest)
         tooLate == now - w.first > StuffingRest
     IN  /\ handling' = IF due /\ ~tooLate THEN [step |-> "stuffing", ip |-> ip, at |-> now] ELSE NoEvent
         /\ Raise(If(due /\ tooLate, {Alert("too_late", ip, now)}))
  /\ UNCHANGED <<now, heard, ipFailures, lockouts, priorFailures, rests>>

ReportStuffing == handling.step = "stuffing" /\ PublishAlert("credential_stuffing", NoEvent)

\* detect_suspicious_login: failures of the user from anywhere, however long ago.
HearSuccess(ip, user) ==
  /\ handling = NoEvent
  /\ Raise(If(priorFailures[user] >= RiskyFailures, {Alert("suspicious_login", ip, now)}))
  /\ priorFailures' = [priorFailures EXCEPT ![user] = 0]
  /\ UNCHANGED <<now, heard, ipFailures, lockouts, rests, handling>>

\* detect_lockout_storm: the count starts again after each report, the window does not.
HearLockout(ip, user) ==
  /\ handling = NoEvent
  /\ Hear("lockout", ip, user)
  /\ LET w == InWindow(lockouts[ip], user, now, LockoutSpan)
         storm == w.count >= ManyLockouts
     IN  /\ lockouts' = [lockouts EXCEPT ![ip] = IF storm THEN [w EXCEPT !.count = 0] ELSE w]
         /\ Raise(If(storm, {Alert("lockout_storm", ip, now)}))
  /\ UNCHANGED <<now, ipFailures, priorFailures, rests, handling>>

Forgotten == [kind |-> "forgotten", ip |-> "", what |-> "", at |-> Never]

\* POST /monitor/reset, for a clean start of the next trial.
ResetAuthMonitor ==
  /\ ipFailures' = NoWindows /\ rests' = NoRests
  /\ heard' = [n \in DOMAIN heard |-> IF heard[n].kind = "failure" THEN Forgotten ELSE heard[n]]
  /\ UNCHANGED <<now, reports, lockouts, priorFailures, handling>>

AuthMonNext ==
  \/ AuthMonTick
  \/ \E ip \in Addresses, u \in Usernames : HearFailure(ip, u) \/ HearSuccess(ip, u) \/ HearLockout(ip, u)
  \/ ReportGuessing \/ JudgeStuffing \/ ReportStuffing
  \/ ResetAuthMonitor

-----------------------------------------------------------------------------
(* Properties *)

\* Whoever fails 9 times in two minutes, tries 9 names or locks 5 accounts is
\* reported, however the failures lie across the windows and whatever a reset in
\* the middle of an alert leaves behind: at the latest one rest after the last report.
\* Names tried are let go if publishing the alert before took longer than a rest.
GuessingIsReported ==
  handling = NoEvent => \A ip \in Addresses :
    /\ BurstsReported(Each(Of("failure", ip)), 2 * ManyGuesses - 1, GuessSpan, GuessRest, 0, {"brute_force"}, ip)
    /\ BurstsReported(Whats(Of("failure", ip)), 2 * ManyUsers - 1, GuessSpan, StuffingRest, 0,
                      {"credential_stuffing", "too_late"}, ip)
    /\ BurstsReported(Each(Of("lockout", ip)), 2 * ManyLockouts - 1, LockoutSpan, 1, 0, {"lockout_storm"}, ip)
=============================================================================
