------------------------------ MODULE Idempotency ------------------------------
(***************************************************************************)
(* require_idempotency_key and complete (core/idempotency.py) around any   *)
(* command.  A request is one transaction: it looks the key up FOR UPDATE, *)
(* inserts or resets its row, runs the command, stores the outcome in the  *)
(* row and commits all of it.  What it has written is its own until then;  *)
(* a crash or a refusal undoes it.  The answer may be lost afterwards, and *)
(* a client sends the same request, or by mistake another one, with the    *)
(* key again.                                                              *)
(*                                                                         *)
(* The command itself is an effect with an outcome.  A row is of one       *)
(* (key, user, route); Keys stands for these triples.                      *)
(***************************************************************************)
EXTENDS Naturals, Sequences

CONSTANTS
  Keys, Bodies, Requests, None,
  Lifetime,      \* 24 h
  MaxTime        \* bound: the clock stops here

\* `outcome` stands for response_status and response_body: which effect they
\* tell of.  No command commits its row without them.
Row == [body : Bodies, outcome : Nat \ {0}, expires : Nat]

ASSUME IdempotencyAssumption ==
  /\ Lifetime \in Nat \ {0} /\ MaxTime \in Nat
  /\ None \notin Row

VARIABLES
  row,           \* committed idempotency_keys, None where there is none
  request,       \* requests under way
  now,
  effects, answers

keyVars == <<row, request, now, effects, answers>>

Idle == [pc |-> "IDLE"]
\* `at` is clock.now() at the start of the request.
Busy == [pc : {"LOOKUP", "INSERT", "INSERTED", "RESET", "COMMITTED"},
         key : Keys, body : Bodies, at : 0..MaxTime]

At(r, pc) == request[r].pc = pc
Goto(r, pc) == request' = [request EXCEPT ![r].pc = pc]
Finish(r) == request' = [request EXCEPT ![r] = Idle]
On(r, k) == request[r] # Idle /\ request[r].key = k

Arrive(r, k, body) ==
  /\ At(r, "IDLE")
  /\ request' = [request EXCEPT ![r] =
                   [pc |-> "LOOKUP", key |-> k, body |-> body, at |-> now]]
  /\ UNCHANGED <<row, now, effects, answers>>

-----------------------------------------------------------------------------
(* require_idempotency_key *)

\* Mutant: the row is read without FOR UPDATE.
RowVisible(r) == row[request[r].key] # None

\* FOR UPDATE waits for the request that is resetting the row.
RowLocked(r) ==
  /\ row[request[r].key] # None
  /\ \A q \in Requests : On(q, request[r].key) => ~At(q, "RESET")

Current(r) == row[request[r].key].expires > request[r].at

Tell(r, i) ==
  answers' = answers \cup {[key |-> request[r].key, body |-> request[r].body, effect |-> i]}

Replay(r) ==
  /\ At(r, "LOOKUP") /\ RowLocked(r) /\ Current(r)
  /\ row[request[r].key].body = request[r].body
  /\ row[request[r].key].outcome # None
  /\ Tell(r, row[request[r].key].outcome)
  /\ Finish(r)
  /\ UNCHANGED <<row, now, effects>>

\* IDEMPOTENCY_REQUEST_MISMATCH.  (IDEMPOTENCY_IN_PROGRESS for a row without
\* an outcome is never met: the outcome commits with the row.)
Mismatch(r) ==
  /\ At(r, "LOOKUP") /\ RowLocked(r) /\ Current(r)
  /\ row[request[r].key].body # request[r].body
  /\ Finish(r)
  /\ UNCHANGED <<row, now, effects, answers>>

ResetExpired(r) ==
  /\ At(r, "LOOKUP") /\ RowLocked(r) /\ ~Current(r)
  /\ Goto(r, "RESET")
  /\ UNCHANGED <<row, now, effects, answers>>

NotFound(r) ==
  /\ At(r, "LOOKUP") /\ row[request[r].key] = None
  /\ Goto(r, "INSERT")
  /\ UNCHANGED <<row, now, effects, answers>>

\* Mutant: an insert that meets another of the key starts over.
InsertOrStartOver(r) ==
  /\ At(r, "INSERT")
  /\ IF row[request[r].key] = None /\ \A q \in Requests : On(q, request[r].key) => ~At(q, "INSERTED")
     THEN Goto(r, "INSERTED")
     ELSE Goto(r, "LOOKUP")
  /\ UNCHANGED <<row, now, effects, answers>>

\* The unique index makes an insert wait for one that is not committed; a
\* key that is there by then answers IDEMPOTENCY_IN_PROGRESS.
Insert(r) ==
  /\ At(r, "INSERT")
  /\ \A q \in Requests : On(q, request[r].key) => ~At(q, "INSERTED")
  /\ IF row[request[r].key] = None THEN Goto(r, "INSERTED") ELSE Finish(r)
  /\ UNCHANGED <<row, now, effects, answers>>

-----------------------------------------------------------------------------
(* The command, `complete`, and the commit of both *)

Execute(r, k) ==
  effects' = [effects EXCEPT ![k] = Append(@, [body |-> request[r].body, at |-> request[r].at])]

Stored(r, k) ==
  [body |-> request[r].body, outcome |-> Len(effects[k]) + 1, expires |-> request[r].at + Lifetime]

Commit(r) ==
  LET k == request[r].key IN
  /\ At(r, "INSERTED") \/ At(r, "RESET")
  /\ Execute(r, k)
  /\ row' = [row EXCEPT ![k] = Stored(r, k)]
  /\ Goto(r, "COMMITTED")
  /\ UNCHANGED <<now, answers>>

\* Its own effect is the last of the key unless the key has expired since.
Answer(r) ==
  LET k == request[r].key IN
  /\ At(r, "COMMITTED")
  /\ \E i \in 1..Len(effects[k]) :
       /\ effects[k][i] = [body |-> request[r].body, at |-> request[r].at]
       /\ Tell(r, i)
  /\ Finish(r)
  /\ UNCHANGED <<row, now, effects>>

\* The command refuses, the process dies or, after the commit, the answer is
\* lost.
Fail(r) ==
  /\ request[r].pc \in {"INSERTED", "RESET", "COMMITTED"}
  /\ Finish(r)
  /\ UNCHANGED <<row, now, effects, answers>>

Tick ==
  /\ now < MaxTime
  /\ now' = now + 1
  /\ UNCHANGED <<row, request, effects, answers>>

-----------------------------------------------------------------------------
KeyInit ==
  /\ row = [k \in Keys |-> None]
  /\ request = [r \in Requests |-> Idle]
  /\ now = 0
  /\ effects = [k \in Keys |-> <<>>]
  /\ answers = {}

Step(r) ==
  \/ Replay(r) \/ Mismatch(r) \/ ResetExpired(r) \/ NotFound(r) \/ Insert(r)
  \/ Commit(r) \/ Answer(r) \/ Fail(r)

KeyNext ==
  \/ \E r \in Requests, k \in Keys, body \in Bodies : Arrive(r, k, body)
  \/ \E r \in Requests : Step(r)
  \/ Tick

\* A request that has started goes on until it ends; PostgreSQL serves those
\* who wait for a row, or for an insert of the same key, in turn.
KeyFairness == \A r \in Requests : SF_keyVars(Step(r))

KeySpec == KeyInit /\ [][KeyNext]_keyVars /\ KeyFairness

-----------------------------------------------------------------------------
(* Properties *)

Promise == INSTANCE CommandOnce WITH Times <- 0..MaxTime

\* Through retries, races of the same key, expiry and crashes at any point the
\* command takes effect once in 24 hours, and nobody is told of an effect that
\* is not theirs (D-215).
PromiseKept == Promise!Spec

\* No request waits for ever for another of the same key.
RequestsEnd == \A r \in Requests : request[r] # Idle ~> request[r] = Idle
=============================================================================
