-------------------------------- MODULE Sessions --------------------------------
(***************************************************************************)
(* Browser sessions (identity_auth: session_store.py, dependencies.py, the *)
(* end of local_login and entra_callback, logout).  A session is a hash in *)
(* Redis with a TTL and a row in PostgreSQL, written one after the other.  *)
(* Every request touches the hash, in calls between which other requests,  *)
(* a logout and the expiry of the key come.                                *)
(*                                                                         *)
(* One user.  LocalAccount has what a password or a code is checked        *)
(* against; the CSRF token, cookie attributes and audit are left out.      *)
(* External: Redis, which removes a key when its TTL has passed, and the   *)
(* deactivation of the user, which no command of the repository performs.  *)
(***************************************************************************)
EXTENDS Integers, Sequences

CONSTANTS
  SessionIds,
  Calls,                \* requests with a cookie that are under way
  IdleTime, FullTime,   \* session_idle_minutes, session_absolute_hours
  MaxClock,             \* bound: the clock stops here
  MaxTouches            \* bound: requests of each session

ASSUME SessionAssumption ==
  /\ IdleTime \in Nat \ {0} /\ FullTime \in Nat \ {0}
  /\ MaxClock \in Nat /\ MaxTouches \in Nat

VARIABLES
  clock,
  active,     \* users.is_active
  hash,       \* the Redis hash of each session
  record,     \* sessions.revoked_at as committed: NONE where there is no row
  login,      \* how far the login of each session has come
  cookie,     \* sessions whose cookie the browser has
  call,
  touches,
  used        \* history: when a session began, was last used, was ended

sessionVars == <<clock, active, hash, record, login, cookie, call, touches, used>>

Gone == [whole |-> FALSE, idle |-> -1]
Never == MaxClock + IdleTime + FullTime + 1    \* the time to die of a key without a TTL
Absent(s) == hash[s] = Gone

NoCall == [pc |-> "IDLE"]
Lesser(a, b) == IF a < b THEN a ELSE b

(* What a session should still allow, from its history alone.              *)
Live(s) ==
  /\ active /\ ~used[s].ended
  /\ clock < used[s].born + FullTime /\ clock < used[s].seen + IdleTime

--------------------------------------------------------------------------------
(* The end of local_login and of entra_callback                             *)

\* The user is found and active, and the session row inserted.
LogIn(s) ==
  /\ login[s] = "NEW" /\ active
  /\ login' = [login EXCEPT ![s] = "HSET"]
  /\ UNCHANGED <<clock, active, hash, record, cookie, call, touches, used>>

Store(s) ==
  /\ login[s] = "HSET"
  /\ hash' = [hash EXCEPT ![s] =
       [whole |-> TRUE, absolute |-> clock + FullTime, idle |-> clock + IdleTime, dies |-> Never]]
  /\ used' = [used EXCEPT ![s].born = clock, ![s].seen = clock]
  /\ login' = [login EXCEPT ![s] = "EXPIRE"]
  /\ UNCHANGED <<clock, active, record, cookie, call, touches>>

\* EXPIRE: counted from its arrival, and nothing if the key is not there.
Limited(s, ttl) == IF Absent(s) THEN hash ELSE [hash EXCEPT ![s].dies = clock + ttl]

LimitStored(s) ==
  /\ login[s] = "EXPIRE"
  /\ hash' = Limited(s, Lesser(FullTime, IdleTime))
  /\ login' = [login EXCEPT ![s] = "COMMIT"]
  /\ UNCHANGED <<clock, active, record, cookie, call, touches, used>>

CommitLogin(s) ==
  /\ login[s] = "COMMIT"
  /\ record' = [record EXCEPT ![s] = "LIVE"]
  /\ login' = [login EXCEPT ![s] = "ANSWER"]
  /\ UNCHANGED <<clock, active, hash, cookie, call, touches, used>>

SetCookie(s) ==
  /\ login[s] = "ANSWER"
  /\ cookie' = cookie \cup {s}
  /\ login' = [login EXCEPT ![s] = "DONE"]
  /\ UNCHANGED <<clock, active, hash, record, call, touches, used>>

\* A call fails or the process dies: the row is rolled back, Redis is not.
BreakLogin(s) ==
  /\ login[s] \in {"HSET", "EXPIRE", "COMMIT", "ANSWER"}
  /\ login' = [login EXCEPT ![s] = "BROKEN"]
  /\ UNCHANGED <<clock, active, hash, record, cookie, call, touches, used>>

--------------------------------------------------------------------------------
(* get_current_session: touch, then the user                                *)

Move(c, pc) == call' = [call EXCEPT ![c].pc = pc]
EndCall(c) == call' = [call EXCEPT ![c] = NoCall]

Begin(c, s, op) ==
  /\ call[c] = NoCall /\ s \in cookie /\ touches[s] < MaxTouches
  /\ touches' = [touches EXCEPT ![s] = @ + 1]
  /\ call' = [call EXCEPT ![c] = [pc |-> "READ", session |-> s, op |-> op, copy |-> Gone,
                                  to |-> 0, ttl |-> 0, done |-> 0, live |-> Live(s)]]
  /\ UNCHANGED <<clock, active, hash, record, login, cookie, used>>

\* HGETALL; nothing there is SessionExpiredError.
ReadHash(c) ==
  LET s == call[c].session IN
  /\ call[c].pc = "READ"
  /\ IF Absent(s) THEN EndCall(c)
     ELSE call' = [call EXCEPT ![c].pc = "JUDGE", ![c].copy = hash[s]]
  /\ UNCHANGED <<clock, active, hash, record, login, cookie, touches, used>>

\* The copy is judged by the clock, and the new times are set from it.
Judge(c) ==
  LET copy == call[c].copy
      to == Lesser(clock + IdleTime, copy.absolute) IN
  /\ call[c].pc = "JUDGE"
  /\ IF copy.whole /\ clock < copy.absolute /\ clock < copy.idle
     THEN /\ call' = [call EXCEPT ![c].pc = "SLIDE", ![c].to = to, ![c].ttl = to - clock]
          /\ used' = [used EXCEPT ![call[c].session].seen = clock]
     ELSE Move(c, "DELETE") /\ UNCHANGED used
  /\ UNCHANGED <<clock, active, hash, record, login, cookie, touches>>

\* Mutant: HSET of the whole mapping.
SlideMapping(c, h) ==
  [call[c].copy EXCEPT !.idle = call[c].to, !.dies = IF h = Gone THEN Never ELSE h.dies]

\* HSET of one field: on a key that is gone it makes one without the others
\* and without a TTL.
SlideField(c, h) ==
  IF h = Gone THEN [whole |-> FALSE, idle |-> call[c].to, dies |-> Never]
  ELSE [h EXCEPT !.idle = call[c].to]

Slide(c) ==
  LET s == call[c].session IN
  /\ call[c].pc = "SLIDE"
  /\ hash' = [hash EXCEPT ![s] = SlideField(c, @)]
  /\ Move(c, "EXPIRE")
  /\ UNCHANGED <<clock, active, record, login, cookie, touches, used>>

Renew(c) ==
  /\ call[c].pc = "EXPIRE"
  /\ hash' = Limited(call[c].session, call[c].ttl)
  /\ call' = [call EXCEPT ![c].pc = "USER", ![c].copy = Gone, ![c].to = 0, ![c].ttl = 0]
  /\ UNCHANGED <<clock, active, record, login, cookie, touches, used>>

\* is_user_active.
CheckUser(c) ==
  /\ call[c].pc = "USER"
  /\ Move(c, IF ~active THEN "DELETE" ELSE IF call[c].op = "LOGOUT" THEN "LOGOUT" ELSE "SERVED")
  /\ UNCHANGED <<clock, active, hash, record, login, cookie, touches, used>>

Remove(s) ==
  /\ hash' = [hash EXCEPT ![s] = Gone]
  /\ used' = [used EXCEPT ![s].ended = TRUE]

\* DEL of what is incomplete or over, or of what an inactive user has.
Refuse(c) ==
  /\ call[c].pc = "DELETE"
  /\ Remove(call[c].session)
  /\ EndCall(c)
  /\ UNCHANGED <<clock, active, record, login, cookie, touches>>

--------------------------------------------------------------------------------
(* logout, and the end of a request                                         *)

CommitFirst == <<"COMMIT", "REVOKE">>    \* mutant
LogoutSteps == <<"REVOKE", "COMMIT">>

LogoutStep(c, step) ==
  /\ call[c].pc = "LOGOUT" /\ LogoutSteps[call[c].done + 1] = step
  /\ call' = [call EXCEPT ![c].done = @ + 1,
                ![c].pc = IF call[c].done + 1 = Len(LogoutSteps) THEN "SERVED" ELSE @]

Revoke(c) ==
  /\ LogoutStep(c, "REVOKE")
  /\ Remove(call[c].session)
  /\ UNCHANGED <<clock, active, record, login, cookie, touches>>

CommitLogout(c) ==
  /\ LogoutStep(c, "COMMIT")
  /\ record' = [record EXCEPT ![call[c].session] = "REVOKED"]
  /\ UNCHANGED <<clock, active, hash, login, cookie, touches, used>>

\* The answer, or a failing call or a process that dies at any point.
Leave(c) ==
  /\ call[c] # NoCall
  /\ EndCall(c)
  /\ UNCHANGED <<clock, active, hash, record, login, cookie, touches, used>>

--------------------------------------------------------------------------------
Deactivate ==
  /\ active
  /\ active' = FALSE
  /\ UNCHANGED <<clock, hash, record, login, cookie, call, touches, used>>

\* Redis drops the keys whose time has come.
Elapse ==
  LET expired(s) == ~Absent(s) /\ hash[s].dies <= clock + 1 IN
  /\ clock < MaxClock
  /\ clock' = clock + 1
  /\ hash' = [s \in SessionIds |-> IF expired(s) THEN Gone ELSE hash[s]]
  /\ used' = [s \in SessionIds |->
               IF expired(s) /\ hash[s].whole THEN [used[s] EXCEPT !.ended = TRUE] ELSE used[s]]
  /\ UNCHANGED <<active, record, login, cookie, call, touches>>

SessionInit ==
  /\ clock = 0
  /\ active = TRUE
  /\ hash = [s \in SessionIds |-> Gone]
  /\ record = [s \in SessionIds |-> "NONE"]
  /\ login = [s \in SessionIds |-> "NEW"]
  /\ cookie = {}
  /\ call = [c \in Calls |-> NoCall]
  /\ touches = [s \in SessionIds |-> 0]
  /\ used = [s \in SessionIds |-> [born |-> 0, seen |-> 0, ended |-> FALSE]]

SessionNext ==
  \/ \E s \in SessionIds :
       \/ LogIn(s) \/ Store(s) \/ LimitStored(s) \/ CommitLogin(s) \/ SetCookie(s)
       \/ BreakLogin(s)
       \/ \E c \in Calls, op \in {"READ", "LOGOUT"} : Begin(c, s, op)
  \/ \E c \in Calls :
       \/ ReadHash(c) \/ Judge(c) \/ Slide(c) \/ Renew(c) \/ CheckUser(c) \/ Refuse(c)
       \/ Revoke(c) \/ CommitLogout(c) \/ Leave(c)
  \/ Deactivate \/ Elapse

SessionSpec == SessionInit /\ [][SessionNext]_sessionVars

--------------------------------------------------------------------------------
(* Correctness                                                              *)

\* Nobody is served whose session was over when the request began: logged
\* out, deleted, expired, idle too long, or of an inactive user.  A touch that
\* was under way brings none of these back (session_store.py, touch;
\* dependencies.py, get_current_session).
ServedOnlyLive == \A c \in Calls : call[c].pc = "SERVED" => call[c].live

\* The two stores agree as far as anybody can see: a session whose cookie was
\* handed out has its row, and a hash that goes away by itself; one whose row
\* says revoked has no hash that would pass for a session (commands.py:
\* local_login, logout; session_store.py, create).
StoresAgree ==
  \A s \in SessionIds :
    /\ s \in cookie => record[s] # "NONE" /\ (hash[s].whole => hash[s].dies # Never)
    /\ record[s] = "REVOKED" => ~hash[s].whole
================================================================================
