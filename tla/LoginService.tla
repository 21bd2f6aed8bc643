---------------------------- MODULE LoginService ----------------------------
(***************************************************************************)
(* targets/auth-service/app.py: the logins the authentication monitor      *)
(* watches.  Flask serves each request in a thread of its own.  A login    *)
(* reads the account, decides, and writes back what it decided: between    *)
(* the two, other logins and resets of the account happen, and what is     *)
(* written may be stale.  After the commit it announces a lock on Redis,   *)
(* which may not take it; the service dies at any moment, and one that was *)
(* started without Redis announces nothing for the rest of its life.       *)
(***************************************************************************)
EXTENDS Naturals

CONSTANTS
  Names,          \* accounts
  Threads,
  LockAfter,      \* 5 wrong passwords
  MaxTries        \* bound: wrong passwords of an account

ASSUME LoginAssumption == LockAfter \in Nat

VARIABLES
  account,          \* name -> [failed, locked]: table users
  login,            \* thread -> the login it serves
  redis_available,  \* did the service find Redis when it started?
  tries,            \* history: wrong passwords since the account was last cleared in peace
  announced,        \* history: was account_lockout sent since the last lock was written?
  unsaid            \* history: names with a lock whose account_lockout was lost

loginVars == <<account, login, redis_available, tries, announced, unsaid>>

NoLogin == [step |-> "none"]
Clear == [failed |-> 0, locked |-> FALSE]

LoginInit ==
  /\ account = [n \in Names |-> Clear]
  /\ login = [t \in Threads |-> NoLogin]
  /\ redis_available \in BOOLEAN
  /\ tries = [n \in Names |-> 0] /\ announced = [n \in Names |-> TRUE] /\ unsaid = {}

\* A login that has read account n and will write to it.
Deciding(t, n) == login[t].step \in {"right", "wrong"} /\ login[t].name = n

\* The wrong passwords of n are forgotten when it is cleared and no other login
\* is about to write what it read before.
Forgotten(others) ==
  tries' = [n \in Names |-> IF account'[n] = Clear /\ \A t \in others : ~Deciding(t, n)
                           THEN 0 ELSE tries[n]]

\* The read.  An unknown name and a locked account are refused and nothing changes.
ReadAccount(t, n, ok) ==
  /\ login[t] = NoLogin /\ ~account[n].locked
  /\ ok \/ tries[n] < MaxTries
  /\ login' = [login EXCEPT ![t] = [step |-> IF ok THEN "right" ELSE "wrong", name |-> n,
                                    failed |-> account[n].failed]]
  /\ tries' = IF ok THEN tries ELSE [tries EXCEPT ![n] = @ + 1]
  /\ UNCHANGED <<account, redis_available, announced, unsaid>>

\* A right password clears the failures and leaves the lock as it is by now.
RightPassword(t) ==
  /\ login[t].step = "right"
  /\ account' = [account EXCEPT ![login[t].name].failed = 0]
  /\ login' = [login EXCEPT ![t] = NoLogin]
  /\ Forgotten(Threads \ {t})
  /\ UNCHANGED <<redis_available, announced, unsaid>>

\* A wrong one writes one more than was read, and the lock that follows from it.
Locks(t) == login[t].failed + 1 >= LockAfter

WrongPassword(t) ==
  /\ login[t].step = "wrong"
  /\ LET n == login[t].name
     IN  /\ account' = [account EXCEPT ![n] = [failed |-> login[t].failed + 1, locked |-> Locks(t)]]
         /\ login' = [login EXCEPT ![t] = IF Locks(t) THEN [@ EXCEPT !.step = "announce"] ELSE NoLogin]
         /\ announced' = IF Locks(t) THEN [announced EXCEPT ![n] = FALSE] ELSE announced
         /\ unsaid' = IF Locks(t) THEN unsaid \ {n} ELSE unsaid
  /\ UNCHANGED <<redis_available, tries>>

\* The file does not take the write in time: the request ends with an error.
WriteFails(t) ==
  /\ login[t].step \in {"right", "wrong"}
  /\ login' = [login EXCEPT ![t] = NoLogin]
  /\ UNCHANGED <<account, redis_available, tries, announced, unsaid>>

\* publish_event: an error is only logged.
Announce(t) ==
  /\ login[t].step = "announce"
  /\ \/ redis_available /\ announced' = [announced EXCEPT ![login[t].name] = TRUE] /\ UNCHANGED unsaid
     \/ unsaid' = unsaid \cup {login[t].name} /\ UNCHANGED announced
  /\ login' = [login EXCEPT ![t] = NoLogin]
  /\ UNCHANGED <<account, redis_available, tries>>

\* Mutant: the lock is opened and the failures stay.
ResetOfLocks(some) ==
  /\ account' = [n \in Names |-> IF n \in some THEN [account[n] EXCEPT !.locked = FALSE] ELSE account[n]]
  /\ tries' = [n \in Names |-> IF n \in some /\ \A t \in Threads : ~Deciding(t, n)
                                THEN 0 ELSE tries[n]]
  /\ UNCHANGED <<login, redis_available, announced, unsaid>>

\* reset_account and reset_all_accounts
ResetAccounts(some) ==
  /\ account' = [n \in Names |-> IF n \in some THEN Clear ELSE account[n]]
  /\ Forgotten(Threads)
  /\ UNCHANGED <<login, redis_available, announced, unsaid>>

\* The process dies, between a commit and its announcement too, and is started
\* again: the file stays, and Redis is there or not.
LoginDies ==
  /\ login' = [t \in Threads |-> NoLogin]
  /\ redis_available' \in BOOLEAN
  /\ unsaid' = unsaid \cup {login[t].name : t \in {u \in Threads : login[u].step = "announce"}}
  /\ UNCHANGED <<account, tries, announced>>

LoginNext ==
  \/ \E t \in Threads :
       \/ \E n \in Names, ok \in BOOLEAN : ReadAccount(t, n, ok)
       \/ RightPassword(t) \/ WrongPassword(t) \/ WriteFails(t) \/ Announce(t)
  \/ \E n \in Names : ResetAccounts({n})
  \/ ResetAccounts(Names)
  \/ LoginDies

LoginSpec == LoginInit /\ [][LoginNext]_loginVars

-----------------------------------------------------------------------------
(* Properties *)

\* Stale writes may undo a lock or a reset, never invent a lock: whatever logins,
\* resets and deaths overlap, an account is only locked after five wrong passwords
\* since it was last cleared with no login of it under way.  And a lock the lock-out
\* storm detection has not heard of (account_lockout) is one that is still to be
\* announced, or one whose announcement Redis did not take or that the death of
\* the process between commit and publication left silent: the code repeats none.
LocksAreHonest ==
  \A n \in Names : account[n].locked =>
    /\ tries[n] >= LockAfter
    /\ \/ announced[n] \/ n \in unsaid
       \/ \E t \in Threads : login[t].step = "announce" /\ login[t].name = n
=============================================================================
