------------------------------ MODULE LocalAccount ------------------------------
(***************************************************************************)
(* One row of local_credentials and what is done to it                     *)
(* (identity_auth/commands.py): logins and re-authentications that count   *)
(* wrong answers and lock the account (D-235), the reset of the password   *)
(* with a token, and the enrolment of a second factor.                     *)
(*                                                                         *)
(* Logins and re-authentications read the clock, then lock the row, and    *)
(* hold it until they commit: what they do to it is one step.  Resets and  *)
(* enrolments read the row without a lock and write later.  Of what they   *)
(* assign, SQLAlchemy writes the columns in which the row differs from the *)
(* copy it was given.                                                      *)
(*                                                                         *)
(* Whether an answer is right is left open; Sessions has what a login      *)
(* leads to.  Hashes, codes, mails, password rules and the grant a         *)
(* re-authentication gives are left out.                                   *)
(***************************************************************************)
EXTENDS Integers, FiniteSets

CONSTANTS
  Users,                        \* requests on the account under way
  Tokens,
  Threshold, Window, Duration,  \* lockout_threshold, _window, _duration
  TokenLife,                    \* password_reset_token_ttl_minutes
  MaxLag,                       \* bound: the time a request takes
  LastMinute, MaxSecrets           \* bounds: the clock, and enrolments

\* By default ten attempts, 15 and 30 minutes: far more than a request takes.
ASSUME AccountAssumption ==
  /\ Threshold \in Nat \ {0, 1} /\ Window \in Nat /\ Duration \in Nat
  /\ TokenLife \in Nat /\ MaxLag \in Nat /\ LastMinute \in Nat /\ MaxSecrets \in Nat
  /\ Duration > Window + MaxLag

VARIABLES
  time,
  credential,   \* the row as committed
  tokens,       \* password_reset_tokens: until when, and whether used
  work,         \* what each request is at
  wrong,        \* history: wrong answers by the time of their request, since
                \* the last right password or reset
  changes       \* history: passwords set with each token

accountVars == <<time, credential, tokens, work, wrong, changes>>

NotLocked == -1
NoWork == [pc |-> "NONE"]
NoWrong == [t \in 0..LastMinute |-> 0]

Done(r) == work' = [work EXCEPT ![r] = NoWork]

\* clock.now() at the start of the command.
Ask(r, kind) ==
  /\ work[r] = NoWork
  /\ work' = [work EXCEPT ![r] = [pc |-> kind, at |-> time]]
  /\ UNCHANGED <<time, credential, tokens, wrong, changes>>

--------------------------------------------------------------------------------
(* local_login and reauth                                                   *)

Attempts == {"LOGIN", "REAUTH"}

\* Mutant: a re-authentication does not look at the lock.
LoginLockedFor(r) == work[r].pc = "LOGIN" /\ credential.lockedUntil > work[r].at
LockedFor(r) == credential.lockedUntil > work[r].at

\* _load_credential_checking_lockout: a lock that is over starts from zero.
Loaded ==
  IF credential.lockedUntil = NotLocked THEN credential
  ELSE [credential EXCEPT !.failed = 0, !.lockedUntil = NotLocked]

\* _register_failed_attempt
Failed(c, at) ==
  LET opens == c.failed = 0 \/ at - c.since > Window
      count == IF opens THEN 1 ELSE c.failed + 1 IN
  [c EXCEPT !.failed = count,
            !.since = IF opens THEN at ELSE @,
            !.lockedUntil = IF count >= Threshold THEN at + Duration ELSE @]

RefuseLocked(r) ==
  /\ work[r].pc \in Attempts /\ LockedFor(r)
  /\ Done(r)
  /\ UNCHANGED <<time, credential, tokens, wrong, changes>>

\* A wrong password, or a wrong code.
AnswerWrong(r) ==
  /\ work[r].pc \in Attempts /\ ~LockedFor(r)
  /\ credential' = Failed(Loaded, work[r].at)
  /\ wrong' = [wrong EXCEPT ![work[r].at] = @ + 1]
  /\ Done(r)
  /\ UNCHANGED <<time, tokens, changes>>

\* A login starts the count anew, a re-authentication leaves it.
AnswerRight(r) ==
  /\ work[r].pc \in Attempts /\ ~LockedFor(r)
  /\ IF work[r].pc = "LOGIN"
     THEN /\ credential' = [Loaded EXCEPT !.failed = 0, !.lockedUntil = NotLocked]
          /\ wrong' = NoWrong
     ELSE credential' = Loaded /\ UNCHANGED wrong
  /\ Done(r)
  /\ UNCHANGED <<time, tokens, changes>>

\* TotpRequiredError: a right password without the code, committed as it is.
AskForCode(r) ==
  /\ work[r].pc = "LOGIN" /\ ~LockedFor(r) /\ credential.enabled
  /\ credential' = Loaded
  /\ Done(r)
  /\ UNCHANGED <<time, tokens, wrong, changes>>

--------------------------------------------------------------------------------
(* request_password_reset and confirm_password_reset                        *)

RequestReset(t) ==
  /\ tokens[t].until = -1
  /\ tokens' = [tokens EXCEPT ![t].until = time + TokenLife]
  /\ UNCHANGED <<time, credential, work, wrong, changes>>

\* Mutant: the token is read without FOR UPDATE.
TokenVisible(t) == t \in Tokens
\* FOR UPDATE waits for the confirmation that holds the token.
TokenFree(t) == \A q \in Users : ~(work[q].pc = "RESET" /\ work[q].token = t)

Lockout(c) == [failed |-> c.failed, lockedUntil |-> c.lockedUntil]

\* The token is locked and judged, the credential read as it is committed.
LoadForReset(r, t) ==
  /\ work[r].pc = "CONFIRM" /\ TokenFree(t)
  /\ IF tokens[t].used \/ tokens[t].until <= work[r].at THEN Done(r)
     ELSE work' = [work EXCEPT ![r] = [pc |-> "RESET", token |-> t, copy |-> Lockout(credential)]]
  /\ UNCHANGED <<time, credential, tokens, wrong, changes>>

\* Mutant: as if every column were written.
WrittenAlways(column, copy, value) == value
\* What assigning `value` to a column leaves in the row.
Written(column, copy, value) == IF copy[column] = value THEN credential[column] ELSE value

WriteReset(r) ==
  LET copy == work[r].copy
      t == work[r].token IN
  /\ work[r].pc = "RESET"
  /\ credential' = [credential EXCEPT !.failed = Written("failed", copy, 0),
                                      !.lockedUntil = Written("lockedUntil", copy, NotLocked)]
  /\ tokens' = [tokens EXCEPT ![t].used = TRUE]
  /\ changes' = [changes EXCEPT ![t] = @ + 1]
  /\ wrong' = NoWrong
  /\ Done(r)
  /\ UNCHANGED time

--------------------------------------------------------------------------------
(* enrol_totp and verify_totp                                               *)

\* Refused when the factor is enabled: the copy always says it is not.
EnrolRead(r) ==
  /\ work[r] = NoWork /\ ~credential.enabled
  /\ work' = [work EXCEPT ![r] = [pc |-> "ENROLLING", copy |-> [enabled |-> FALSE]]]
  /\ UNCHANGED <<time, credential, tokens, wrong, changes>>

\* A fresh secret, not enabled.
WriteEnrol(r) ==
  /\ work[r].pc = "ENROLLING" /\ credential.secret < MaxSecrets
  /\ credential' = [credential EXCEPT !.secret = @ + 1,
                                      !.enabled = Written("enabled", work[r].copy, FALSE)]
  /\ Done(r)
  /\ UNCHANGED <<time, tokens, wrong, changes>>

VerifyRead(r) ==
  /\ work[r] = NoWork /\ ~credential.enabled /\ credential.secret # 0
  /\ work' = [work EXCEPT ![r] = [pc |-> "VERIFYING", copy |-> [enabled |-> FALSE]]]
  /\ UNCHANGED <<time, credential, tokens, wrong, changes>>

\* The code is right for the secret that was read.
WriteVerify(r) ==
  /\ work[r].pc = "VERIFYING"
  /\ credential' = [credential EXCEPT !.enabled = Written("enabled", work[r].copy, TRUE)]
  /\ Done(r)
  /\ UNCHANGED <<time, tokens, wrong, changes>>

\* A refusal, a wrong code, a failing call or a process that dies.
Abort(r) ==
  /\ work[r] # NoWork
  /\ Done(r)
  /\ UNCHANGED <<time, credential, tokens, wrong, changes>>

--------------------------------------------------------------------------------
\* Nobody waits for ever; the history drops what is too old to matter.
Pass ==
  /\ time < LastMinute
  /\ \A r \in Users : "at" \in DOMAIN work[r] => work[r].at + MaxLag > time
  /\ time' = time + 1
  /\ wrong' = [t \in 0..LastMinute |-> IF t + Window + MaxLag < time' THEN 0 ELSE wrong[t]]
  /\ UNCHANGED <<credential, tokens, work, changes>>

AccountInit ==
  /\ time = 0
  /\ credential = [failed |-> 0, since |-> 0, lockedUntil |-> NotLocked,
                   secret |-> 0, enabled |-> FALSE]
  /\ tokens = [t \in Tokens |-> [until |-> -1, used |-> FALSE]]
  /\ work = [r \in Users |-> NoWork]
  /\ wrong = NoWrong
  /\ changes = [t \in Tokens |-> 0]

AccountNext ==
  \/ \E r \in Users :
       \/ \E kind \in Attempts \cup {"CONFIRM"} : Ask(r, kind)
       \/ RefuseLocked(r) \/ AnswerWrong(r) \/ AnswerRight(r) \/ AskForCode(r)
       \/ (\E t \in Tokens : LoadForReset(r, t)) \/ WriteReset(r)
       \/ EnrolRead(r) \/ WriteEnrol(r) \/ VerifyRead(r) \/ WriteVerify(r)
       \/ Abort(r)
  \/ \E t \in Tokens : RequestReset(t)
  \/ Pass

AccountSpec == AccountInit /\ [][AccountNext]_accountVars

--------------------------------------------------------------------------------
(* Correctness                                                              *)

\* The wrong answers that count, one by one: when asked, and which of that minute.
WrongAnswers == UNION {{t} \X (1 .. wrong[t]) : t \in 0..LastMinute}

\* D-235: however logins, re-authentications and resets interleave, no Window,
\* less the time a request takes, holds more wrong answers, with no right
\* password and no reset between them, than one full count and what follows the
\* first of the count before (commands.py, _register_failed_attempt).  With the
\* whole Window it would not hold: a request that starts before the end of a
\* lock may be judged after another one has found the lock over and lifted it.
FailuresBounded ==
  \A from \in 0..LastMinute :
    Cardinality({e \in WrongAnswers : e[1] \in from .. from + Window - MaxLag})
      <= 2 * Threshold - 2

\* A token sets a password once, however many confirmations carry it
\* (commands.py, confirm_password_reset).
SpentOnce == \A t \in Tokens : changes[t] <= 1

\* A second factor that is enabled stays so, although an enrolment may have
\* found it disabled (commands.py, enrol_totp).
FactorStays == [][credential.enabled => credential'.enabled]_accountVars

================================================================================
