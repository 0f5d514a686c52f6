----------------------------- MODULE RequestProofs -----------------------------
(***************************************************************************)
(* Three protocols of requests that are cut short or sent again: the       *)
(* Idempotency-Key keeps its promise (CommandOnce), the verdict of a       *)
(* malware scan names a stored blob and stays what it is, and an import    *)
(* job that is over stays so unless deliveries of its message overlap.     *)
(***************************************************************************)
EXTENDS ImportJob, EvidenceStore, Idempotency, TLAPS

-----------------------------------------------------------------------------
(* The Idempotency-Key *)

Effect == [body : Bodies, at : 0 .. MaxTime]

KeyType ==
  /\ row \in [Keys -> Row \cup {None}]
  /\ request \in [Requests -> Busy \cup {Idle}]
  /\ now \in 0 .. MaxTime
  /\ effects \in [Keys -> Seq(Effect)]

\* Between the lookup and the commit: the command is about to run.
Holds(r) == At(r, "INSERTED") \/ At(r, "RESET")

\* What a request that holds its key has found is still so.
FoundHolds(r) ==
  /\ At(r, "INSERTED") => row[request[r].key] = None
  /\ At(r, "RESET") => row[request[r].key] # None /\ ~Current(r)

\* A key has a row as soon as it has an effect; the row tells of one of its
\* own and expires with the last.
RowTells(k) ==
  IF row[k] = None THEN effects[k] = <<>>
  ELSE /\ row[k].outcome \in 1 .. Len(effects[k])
       /\ effects[k][row[k].outcome].body = row[k].body
       /\ \A i \in 1 .. Len(effects[k]) : effects[k][i].at + Lifetime <= row[k].expires

KeyInv ==
  /\ KeyType
  /\ \A r \in Requests : FoundHolds(r)
  /\ \A r, q \in Requests : Holds(r) /\ Holds(q) /\ request[r].key = request[q].key => r = q
  /\ \A k \in Keys : RowTells(k)

LEMMA KeyInvInit == KeyInit => KeyInv
<1> SUFFICES ASSUME KeyInit PROVE KeyInv
  OBVIOUS
<1>1. KeyType
  BY IdempotencyAssumption DEF KeyInit, KeyType
<1>2. \A r \in Requests : ~Holds(r) /\ FoundHolds(r)
  BY DEF KeyInit, Holds, FoundHolds, At, Idle
<1>3. \A k \in Keys : RowTells(k)
  BY DEF KeyInit, RowTells
<1> QED
  BY <1>1, <1>2, <1>3 DEF KeyInv

\* A request that moves without touching the rows and effects keeps the
\* invariant, provided what it holds from now on is free and as it says.
LEMMA KeyInvMove ==
  ASSUME KeyInv, NEW r \in Requests, NEW busy \in Busy \cup {Idle},
         request' = [request EXCEPT ![r] = busy],
         UNCHANGED <<row, now, effects>>,
         busy.pc \in {"INSERTED", "RESET"} =>
           \A q \in Requests : Holds(q) /\ request[q].key = busy.key => q = r,
         busy.pc = "INSERTED" => row[busy.key] = None,
         busy.pc = "RESET" => row[busy.key] # None /\ ~(row[busy.key].expires > busy.at)
  PROVE  KeyInv'
<1>1. KeyType'
  BY DEF KeyInv, KeyType
<1>2. request'[r] = busy /\ \A q \in Requests \ {r} : request'[q] = request[q]
  BY DEF KeyInv, KeyType
<1>3. \A q \in Requests : FoundHolds(q)'
  <2> TAKE q \in Requests
  <2>1. CASE q = r
    BY <2>1, <1>2 DEF FoundHolds, At, Current
  <2>2. CASE q # r
    BY <2>2, <1>2 DEF KeyInv, FoundHolds, At, Current
  <2> QED
    BY <2>1, <2>2
<1>4. \A q, s \in Requests :
        Holds(q)' /\ Holds(s)' /\ request'[q].key = request'[s].key => q = s
  BY <1>2 DEF KeyInv, Holds, At
<1>5. \A k \in Keys : RowTells(k)'
  BY DEF KeyInv, RowTells
<1> QED
  BY <1>1, <1>3, <1>4, <1>5 DEF KeyInv

LEMMA KeyInvCommit ==
  ASSUME KeyInv, NEW r \in Requests, Commit(r)
  PROVE  KeyInv' /\ Promise!Next
<1> DEFINE k == request[r].key
           done == [body |-> request[r].body, at |-> request[r].at]
           n == Len(effects[k]) + 1
<1>1. /\ request[r] \in Busy /\ k \in Keys /\ done \in Effect /\ Holds(r)
      /\ effects[k] \in Seq(Effect) /\ row[k] \in Row \cup {None}
  <2>1. Holds(r)
    BY DEF Commit, Holds
  <2>2. request[r] \in Busy
    BY <2>1 DEF KeyInv, KeyType, Idle, At, Holds
  <2> QED
    BY <2>1, <2>2 DEF KeyInv, KeyType, Busy, Effect
<1>0. \A i \in 1 .. Len(effects[k]) : effects[k][i].at \in Nat
  <2> SUFFICES ASSUME NEW i \in 1 .. Len(effects[k]) PROVE effects[k][i].at \in Nat
    OBVIOUS
  <2>1. effects[k][i] \in Effect
    BY <1>1
  <2> QED
    BY <2>1, IdempotencyAssumption DEF Effect
<1>2. /\ effects' = [effects EXCEPT ![k] = Append(@, done)]
      /\ row' = [row EXCEPT ![k] = [body |-> request[r].body, outcome |-> n,
                                   expires |-> request[r].at + Lifetime]]
      /\ request' = [request EXCEPT ![r].pc = "COMMITTED"]
      /\ UNCHANGED <<now, answers>>
  BY DEF Commit, Execute, Stored, Goto
<1> HIDE DEF done, k, n
<1>3. /\ effects'[k] = Append(effects[k], done) /\ effects' \in [Keys -> Seq(Effect)]
      /\ \A j \in Keys \ {k} : effects'[j] = effects[j]
  BY <1>1, <1>2 DEF KeyInv, KeyType
<1>4. /\ row'[k] = [body |-> request[r].body, outcome |-> n,
                    expires |-> request[r].at + Lifetime]
      /\ row'[k] \in Row /\ row'[k] # None /\ row' \in [Keys -> Row \cup {None}]
      /\ \A j \in Keys \ {k} : row'[j] = row[j]
  BY <1>1, <1>2, IdempotencyAssumption DEF KeyInv, KeyType, Row, Busy, n
<1>5. /\ \A i \in 1 .. Len(effects[k]) : effects[k][i].at + Lifetime <= request[r].at
      /\ request[r].at \in Nat
  <2>1. CASE At(r, "INSERTED")
    BY <2>1, <1>1 DEF KeyInv, FoundHolds, RowTells, k, Busy
  <2>2. CASE At(r, "RESET")
    <3>1. row[k] \in Row /\ ~(row[k].expires > request[r].at)
      BY <2>2, <1>1 DEF KeyInv, FoundHolds, Current, k
    <3>2. \A i \in 1 .. Len(effects[k]) : effects[k][i].at + Lifetime <= row[k].expires
      BY <3>1, <1>1, IdempotencyAssumption DEF KeyInv, RowTells
    <3> QED
      BY <3>1, <3>2, <1>0, <1>1, IdempotencyAssumption DEF Row, Busy
  <2> QED
    BY <2>1, <2>2, <1>1 DEF Holds
<1>6. KeyType'
  BY <1>2, <1>3, <1>4, <1>1 DEF KeyInv, KeyType, Busy
<1>7. /\ request'[r].pc = "COMMITTED"
      /\ \A q \in Requests \ {r} : request'[q] = request[q]
  BY <1>2, <1>1 DEF KeyInv, KeyType, Busy
<1>8. \A q \in Requests : FoundHolds(q)'
  <2> SUFFICES ASSUME NEW q \in Requests \ {r} PROVE FoundHolds(q)'
    BY <1>7 DEF FoundHolds, At
  <2>1. Holds(q) => request[q].key # k /\ request[q].key \in Keys
    BY <1>1 DEF KeyInv, KeyType, Busy, Idle, Holds, At, k
  <2> QED
    BY <2>1, <1>4, <1>7 DEF KeyInv, FoundHolds, Holds, At, Current
<1>9. \A q, s \in Requests :
        Holds(q)' /\ Holds(s)' /\ request'[q].key = request'[s].key => q = s
  BY <1>7 DEF KeyInv, Holds, At
<1>10. \A j \in Keys : RowTells(j)'
  <2> TAKE j \in Keys
  <2>1. CASE j # k
    BY <2>1, <1>3, <1>4 DEF KeyInv, RowTells
  <2>2. CASE j = k
    <3>1. /\ Len(effects'[k]) = n /\ n \in Nat \ {0} /\ effects'[k][n] = done
          /\ \A i \in 1 .. n : i # n => i \in 1 .. Len(effects[k]) /\ effects'[k][i] = effects[k][i]
      BY <1>1, <1>3 DEF n
    <3>2. done.body = request[r].body /\ done.at = request[r].at
      BY DEF done
    <3>3. \A i \in 1 .. n : effects'[k][i].at + Lifetime <= request[r].at + Lifetime
      <4> TAKE i \in 1 .. n
      <4>1. CASE i = n
        BY <4>1, <3>1, <3>2, <1>5, IdempotencyAssumption
      <4>2. CASE i # n
        <5>1. i \in 1 .. Len(effects[k]) /\ effects'[k][i] = effects[k][i]
          BY <4>2, <3>1
        <5>2. effects[k][i].at \in Nat /\ effects[k][i].at + Lifetime <= request[r].at
          BY <5>1, <1>0, <1>5
        <5> QED
          BY <5>1, <5>2, <1>5, IdempotencyAssumption
      <4> QED
        BY <4>1, <4>2
    <3> QED
      BY <2>2, <1>4, <3>1, <3>2, <3>3 DEF RowTells
  <2> QED
    BY <2>1, <2>2
<1>11. Promise!Next
  <2>1. Promise!Fresh(k, request[r].at)
    BY <1>5 DEF Promise!Fresh
  <2>2. Promise!TakeEffect(k, request[r].body, request[r].at)
    BY <2>1, <1>2 DEF Promise!TakeEffect, done
  <2> QED
    BY <2>2, <1>1 DEF Promise!Next, Busy
<1> QED
  BY <1>6, <1>8, <1>9, <1>10, <1>11 DEF KeyInv

\* One telling of an effect that is the key's and of this body.
LEMMA TellKeepsPromise ==
  ASSUME KeyInv, NEW r \in Requests, request[r] \in Busy,
         NEW i \in 1 .. Len(effects[request[r].key]),
         effects[request[r].key][i].body = request[r].body,
         Tell(r, i), UNCHANGED effects
  PROVE  Promise!Next
<1>1. request[r].key \in Keys /\ request[r].body \in Bodies
  BY DEF Busy
<1>2. Promise!Tell(request[r].key, request[r].body, i)
  BY DEF Promise!Tell, Tell
<1> QED
  BY <1>1, <1>2 DEF Promise!Next

LEMMA KeyInvStep ==
  ASSUME KeyInv, [KeyNext]_keyVars
  PROVE  KeyInv' /\ [Promise!Next]_<<effects, answers>>
<1>1. ASSUME NEW r \in Requests, NEW k \in Keys, NEW body \in Bodies, Arrive(r, k, body)
      PROVE  KeyInv' /\ UNCHANGED <<effects, answers>>
  <2>1. [pc |-> "LOOKUP", key |-> k, body |-> body, at |-> now] \in Busy
    BY DEF KeyInv, KeyType, Busy
  <2> QED
    BY <1>1, <2>1, KeyInvMove DEF Arrive
<1>2. ASSUME NEW r \in Requests, Finish(r), UNCHANGED <<row, now, effects>>
      PROVE  KeyInv'
  BY <1>2, KeyInvMove DEF Finish, Idle
<1>3. ASSUME NEW r \in Requests, ~At(r, "IDLE")
      PROVE  request[r] \in Busy /\ request[r].key \in Keys
  BY <1>3 DEF KeyInv, KeyType, At, Idle, Busy
<1>4. ASSUME NEW r \in Requests, NEW pc \in {"INSERT", "INSERTED", "RESET"}, ~At(r, "IDLE"),
             Goto(r, pc), UNCHANGED <<row, now, effects>>,
             pc # "INSERT" => \A q \in Requests : Holds(q) /\ request[q].key = request[r].key => q = r,
             pc = "INSERTED" => row[request[r].key] = None,
             pc = "RESET" => row[request[r].key] # None /\ ~Current(r)
      PROVE  KeyInv'
  <2>1. PICK busy : busy = [request[r] EXCEPT !.pc = pc]
    OBVIOUS
  <2>2. /\ busy \in Busy /\ busy.pc = pc /\ busy.key = request[r].key /\ busy.at = request[r].at
        /\ request' = [request EXCEPT ![r] = busy]
    BY <1>3, <1>4, <2>1 DEF Busy, Goto
  <2> QED
    BY <1>4, <2>2, KeyInvMove DEF Current
<1>5. ASSUME NEW r \in Requests, Replay(r)
      PROVE  KeyInv' /\ Promise!Next
  <2>1. request[r] \in Busy /\ request[r].key \in Keys
    BY <1>3, <1>5 DEF Replay, At
  <2>2. row[request[r].key] # None /\ row[request[r].key].body = request[r].body
    BY <1>5 DEF Replay, RowLocked
  <2>3. /\ row[request[r].key].outcome \in 1 .. Len(effects[request[r].key])
        /\ effects[request[r].key][row[request[r].key].outcome].body = request[r].body
    BY <2>1, <2>2 DEF KeyInv, RowTells
  <2>4. Promise!Next
    BY <1>5, <2>1, <2>3, TellKeepsPromise DEF Replay
  <2> QED
    BY <1>2, <1>5, <2>4 DEF Replay
<1>6. ASSUME NEW r \in Requests, Mismatch(r) \/ Fail(r)
      PROVE  KeyInv' /\ UNCHANGED <<effects, answers>>
  BY <1>2, <1>6 DEF Mismatch, Fail
<1>7. ASSUME NEW r \in Requests, ResetExpired(r)
      PROVE  KeyInv' /\ UNCHANGED <<effects, answers>>
  <2>1. ~At(r, "IDLE") /\ row[request[r].key] # None /\ ~Current(r)
    BY <1>7 DEF ResetExpired, At, RowLocked
  <2>2. \A q \in Requests : Holds(q) /\ request[q].key = request[r].key => q = r
    <3> SUFFICES ASSUME NEW q \in Requests, Holds(q), request[q].key = request[r].key
                 PROVE  FALSE
      OBVIOUS
    <3>1. ~At(q, "INSERTED")
      BY <2>1 DEF KeyInv, FoundHolds
    <3>2. request[q] # Idle
      BY DEF Holds, At, Idle
    <3> QED
      BY <3>1, <3>2, <1>7 DEF ResetExpired, RowLocked, On, Holds
  <2> QED
    BY <1>4, <1>7, <2>1, <2>2 DEF ResetExpired
<1>8. ASSUME NEW r \in Requests, NotFound(r)
      PROVE  KeyInv' /\ UNCHANGED <<effects, answers>>
  BY <1>4, <1>8 DEF NotFound, At
<1>9. ASSUME NEW r \in Requests, Insert(r)
      PROVE  KeyInv' /\ UNCHANGED <<effects, answers>>
  <2>1. CASE row[request[r].key] # None
    BY <1>2, <1>9, <2>1 DEF Insert
  <2>2. CASE row[request[r].key] = None
    <3>1. ~At(r, "IDLE") /\ Goto(r, "INSERTED") /\ UNCHANGED <<row, now, effects>>
      BY <1>9, <2>2 DEF Insert, At
    <3>2. \A q \in Requests : Holds(q) /\ request[q].key = request[r].key => q = r
      <4> SUFFICES ASSUME NEW q \in Requests, Holds(q), request[q].key = request[r].key
                   PROVE  FALSE
        OBVIOUS
      <4>1. ~At(q, "RESET")
        BY <2>2 DEF KeyInv, FoundHolds
      <4>2. request[q] # Idle
        BY DEF Holds, At, Idle
      <4> QED
        BY <4>1, <4>2, <1>9 DEF Insert, On, Holds
    <3> QED
      BY <1>4, <1>9, <2>2, <3>1, <3>2 DEF Insert
  <2> QED
    BY <2>1, <2>2
<1>10. ASSUME NEW r \in Requests, Answer(r)
       PROVE  KeyInv' /\ Promise!Next
  <2>1. request[r] \in Busy
    BY <1>3, <1>10 DEF Answer, At
  <2>2. PICK i \in 1 .. Len(effects[request[r].key]) :
          /\ effects[request[r].key][i] = [body |-> request[r].body, at |-> request[r].at]
          /\ Tell(r, i)
    BY <1>10 DEF Answer
  <2>3. effects[request[r].key][i].body = request[r].body
    BY <2>2
  <2>4. Promise!Next
    BY <1>10, <2>1, <2>2, <2>3, TellKeepsPromise DEF Answer
  <2> QED
    BY <1>2, <1>10, <2>4 DEF Answer
<1>11. ASSUME Tick
       PROVE  KeyInv' /\ UNCHANGED <<effects, answers>>
  <2>1. KeyType'
    BY <1>11, IdempotencyAssumption DEF KeyInv, KeyType, Tick
  <2> QED
    BY <1>11, <2>1 DEF KeyInv, Tick, FoundHolds, Holds, At, Current, RowTells
<1>12. CASE UNCHANGED keyVars
  BY <1>12 DEF keyVars, KeyInv, KeyType, FoundHolds, Holds, At, Current, RowTells
<1> QED
  BY <1>1, <1>5, <1>6, <1>7, <1>8, <1>9, <1>10, <1>11, <1>12, KeyInvCommit DEF KeyNext, Step

\* Through retries, races of the same key, expiry and crashes at any point the
\* command takes effect once in 24 hours, and every answer tells of an effect
\* of its own key and body: the key's rows and transactions implement
\* CommandOnce (require_idempotency_key, complete).
THEOREM IdempotencyKept == KeySpec => PromiseKept
<1>1. KeyInit => Promise!Init
  BY DEF KeyInit, Promise!Init
<1> QED
  BY <1>1, KeyInvInit, KeyInvStep, PTL DEF KeySpec, PromiseKept, Promise!Spec

-----------------------------------------------------------------------------
(* The evidence store *)

Locked(r) == txn[r].pc \in {"UPLOAD", "COPY", "DELETE", "COMMIT"}
Moving(r) == txn[r].pc \in {"FOUND", "COPY", "DELETE", "COMMIT"}

Txn == [pc : {"UPLOAD", "FOUND", "COPY", "DELETE", "COMMIT"}, kind : {"attach", "webhook"},
        item : Items, blob : Blob \cup {Planned}, scan : Verdict \cup {"PENDING"}]

EvidenceType ==
  /\ evidence \in [Items -> [uri : Blob \cup {Planned}, scan : Verdict \cup {"PENDING"}]]
  /\ uploads \in [Items -> Nat]
  /\ txn \in [Callers -> Txn \cup {NoTxn}]
  /\ notices \subseteq Notice
  /\ \A n \in notices : ~n.blob.quarantined

\* The bytes of b are in the store, under its name or in quarantine.
Kept(b) == b \in store \/ Quarantined(b) \in store

\* What a row says of its blob.
RowHolds(e) ==
  IF evidence[e].uri = Planned THEN evidence[e].scan = "PENDING"
  ELSE /\ evidence[e].uri.item = e /\ Kept(evidence[e].uri)
       /\ evidence[e].scan = "INFECTED" <=> evidence[e].uri.quarantined

\* A transaction has a blob of its item that is not in quarantine; it holds the
\* row with the status it found, PENDING, and has copied before it deletes.
BlobOfItem(r) ==
  Moving(r) => txn[r].blob # Planned /\ txn[r].blob.item = txn[r].item /\ ~txn[r].blob.quarantined
RowOfTxn(r) ==
  /\ Locked(r) => evidence[txn[r].item].scan = "PENDING"
  /\ txn[r].pc = "UPLOAD" =>
       txn[r].kind = "attach" /\ txn[r].blob = Planned /\ uploads[txn[r].item] < MaxUploads
  /\ Locked(r) /\ txn[r].kind = "attach" => evidence[txn[r].item].uri = Planned
  /\ Locked(r) /\ txn[r].kind = "webhook" => evidence[txn[r].item].uri = txn[r].blob
  /\ txn[r].pc = "FOUND" =>
       /\ txn[r].kind = "webhook" /\ evidence[txn[r].item].uri # Planned
       /\ evidence[txn[r].item].scan = "PENDING" => evidence[txn[r].item].uri = txn[r].blob
StoreOfTxn(r) ==
  /\ txn[r].pc \in {"COPY", "DELETE"} => txn[r].scan = "INFECTED"
  /\ txn[r].pc = "DELETE" => Quarantined(txn[r].blob) \in store
  /\ txn[r].pc = "COMMIT" =>
       /\ Kept(txn[r].blob)
       /\ txn[r].scan = "INFECTED" => Quarantined(txn[r].blob) \in store

EvidenceInv ==
  /\ EvidenceType
  /\ \A e \in Items : RowHolds(e)
  /\ \A r \in Callers : BlobOfItem(r) /\ RowOfTxn(r) /\ StoreOfTxn(r)
  /\ \A r, q \in Callers : Locked(r) /\ Locked(q) /\ txn[r].item = txn[q].item => r = q

LEMMA EvidenceInvInit == EvidenceInit => EvidenceInv
<1> SUFFICES ASSUME EvidenceInit PROVE EvidenceInv
  OBVIOUS
<1>1. EvidenceType /\ \A r \in Callers : txn[r].pc = "IDLE"
  BY DEF EvidenceInit, EvidenceType, NoTxn
<1>2. \A e \in Items : RowHolds(e)
  BY DEF EvidenceInit, RowHolds
<1> QED
  BY <1>1, <1>2 DEF EvidenceInv, BlobOfItem, RowOfTxn, StoreOfTxn, Moving, Locked

\* Moving a blob to quarantine renames it once.
LEMMA QuarantinedBlob ==
  ASSUME NEW b \in Blob
  PROVE  /\ Quarantined(b) \in Blob /\ Quarantined(b).quarantined
         /\ Quarantined(b).item = b.item
         /\ Quarantined(Quarantined(b)) = Quarantined(b)
         /\ b.quarantined => Quarantined(b) = b
BY DEF Quarantined, Blob

\* The caller's own state, when it is in a transaction.
LEMMA TxnFields ==
  ASSUME EvidenceInv, NEW r \in Callers
  PROVE  /\ txn[r].pc = "IDLE" <=> txn[r] = NoTxn
         /\ Locked(r) \/ Moving(r) => txn[r] \in Txn
         /\ txn[r].pc # "IDLE" => txn[r] \in Txn /\ (Locked(r) \/ Moving(r))
         /\ Moving(r) => txn[r].blob \in Blob
BY DEF EvidenceInv, EvidenceType, Txn, NoTxn, Locked, Moving, BlobOfItem

\* A caller that goes on from t keeps the invariant, when the row it holds from
\* now on is free, the rows stay and the store keeps what they and the others
\* rely on.
LEMMA EvidenceInvMove ==
  ASSUME EvidenceInv, NEW r \in Callers, NEW t \in Txn \cup {NoTxn},
         txn' = [txn EXCEPT ![r] = t], evidence' = evidence,
         uploads' \in [Items -> Nat],
         \A e \in Items : uploads'[e] = uploads[e] \/ (Locked(r) /\ txn[r].item = e),
         notices' \subseteq Notice, \A n \in notices' : ~n.blob.quarantined,
         \A e \in Items : RowHolds(e)',
         \A q \in Callers \ {r} : Moving(q) => StoreOfTxn(q)',
         BlobOfItem(r)', RowOfTxn(r)', StoreOfTxn(r)',
         t.pc \in {"UPLOAD", "COPY", "DELETE", "COMMIT"} =>
           \A q \in Callers \ {r} : Locked(q) => txn[q].item # t.item
  PROVE  EvidenceInv'
<1>1. txn'[r] = t /\ \A q \in Callers \ {r} : txn'[q] = txn[q]
  BY DEF EvidenceInv, EvidenceType
<1>2. EvidenceType'
  BY DEF EvidenceInv, EvidenceType
<1>3. \A q \in Callers : (BlobOfItem(q) /\ RowOfTxn(q) /\ StoreOfTxn(q))'
  <2> SUFFICES ASSUME NEW q \in Callers \ {r}
               PROVE  (BlobOfItem(q) /\ RowOfTxn(q) /\ StoreOfTxn(q))'
    OBVIOUS
  <2>1. BlobOfItem(q)' /\ (Moving(q) <=> Moving(q)') /\ (Locked(q) <=> Locked(q)')
    BY <1>1 DEF EvidenceInv, BlobOfItem, Moving, Locked
  <2>2. StoreOfTxn(q)'
    BY <2>1 DEF StoreOfTxn, Moving
  <2>3. txn[q].pc = "UPLOAD" => uploads'[txn[q].item] = uploads[txn[q].item]
    <3> SUFFICES ASSUME txn[q].pc = "UPLOAD"
                 PROVE  uploads'[txn[q].item] = uploads[txn[q].item]
      OBVIOUS
    <3>1. Locked(q) /\ txn[q].item \in Items
      BY TxnFields DEF Locked, Txn
    <3> QED
      BY <3>1 DEF EvidenceInv
  <2>4. RowOfTxn(q)'
    BY <2>3, <1>1 DEF EvidenceInv, RowOfTxn, Locked
  <2> QED
    BY <2>1, <2>2, <2>4
<1>4. \A p, q \in Callers : Locked(p)' /\ Locked(q)' /\ txn'[p].item = txn'[q].item => p = q
  BY <1>1 DEF EvidenceInv, Locked
<1> QED
  BY <1>2, <1>3, <1>4 DEF EvidenceInv

\* A store that only grows keeps what is relied on.
LEMMA StoreGrows ==
  ASSUME EvidenceInv, evidence' = evidence, store \subseteq store'
  PROVE  /\ \A e \in Items : RowHolds(e)'
         /\ \A q \in Callers : txn'[q] = txn[q] => StoreOfTxn(q)'
BY DEF EvidenceInv, RowHolds, StoreOfTxn, Kept

\* So does the deletion of a blob that is not in quarantine, when it is there
\* as well or when nobody else speaks of its item.
LEMMA StoreShrinks ==
  ASSUME EvidenceInv, NEW r \in Callers, NEW b, evidence' = evidence, store' = store \ {b},
         b \in Blob \cup {Planned}, b \in Blob => ~b.quarantined,
         \/ b = Planned
         \/ Quarantined(b) \in store
         \/ /\ Locked(r) /\ b.item = txn[r].item /\ evidence[b.item].uri = Planned
  PROVE  /\ \A e \in Items : RowHolds(e)'
         /\ \A q \in Callers \ {r} : Moving(q) /\ txn'[q] = txn[q] => StoreOfTxn(q)'
<1>1. \A c \in Blob : Quarantined(c) \in store => Quarantined(c) \in store'
  BY QuarantinedBlob, StoreAssumption
<1>2. \A c \in Blob : Kept(c) /\ c # b => Kept(c)'
  BY <1>1 DEF Kept
<1>3. b = Planned \/ Quarantined(b) \in store => \A c \in Blob : Kept(c) => Kept(c)'
  BY <1>1, <1>2, StoreAssumption DEF Kept
<1>4. \A e \in Items : RowHolds(e)'
  <2> TAKE e \in Items
  <2>1. evidence[e].uri \in Blob \cup {Planned}
    BY DEF EvidenceInv, EvidenceType
  <2>2. evidence[e].uri # Planned => Kept(evidence[e].uri)'
    BY <2>1, <1>2, <1>3 DEF EvidenceInv, RowHolds
  <2> QED
    BY <2>2 DEF EvidenceInv, RowHolds
<1>5. ASSUME NEW q \in Callers \ {r}, Moving(q), txn'[q] = txn[q]
      PROVE  StoreOfTxn(q)'
  <2>1. PICK c \in Blob : c = txn[q].blob /\ c = txn'[q].blob
    BY <1>5, TxnFields
  <2>2. txn[q].pc = "COMMIT" => Kept(c)'
    <3> SUFFICES ASSUME txn[q].pc = "COMMIT" PROVE Kept(c)'
      OBVIOUS
    <3>1. Kept(c) /\ Locked(q) /\ c.item = txn[q].item
      BY <1>5, <2>1 DEF EvidenceInv, StoreOfTxn, BlobOfItem, Locked
    <3>2. CASE b = Planned \/ Quarantined(b) \in store
      BY <3>1, <3>2, <1>3
    <3>3. CASE Locked(r) /\ b.item = txn[r].item
      <4>1. c # b
        BY <3>1, <3>3 DEF EvidenceInv
      <4> QED
        BY <4>1, <3>1, <1>2
    <3> QED
      BY <3>2, <3>3
  <2> QED
    BY <1>5, <2>1, <2>2, <1>1 DEF EvidenceInv, StoreOfTxn
<1> QED
  BY <1>4, <1>5

\* A transaction that ends without its commit, the store being what it may.
LEMMA EvidenceInvEnd ==
  ASSUME EvidenceInv, NEW r \in Callers, End(r), UNCHANGED <<evidence, uploads>>,
         notices' \subseteq notices,
         \A e \in Items : RowHolds(e)',
         \A q \in Callers \ {r} : Moving(q) => StoreOfTxn(q)'
  PROVE  EvidenceInv'
<1>1. txn' = [txn EXCEPT ![r] = NoTxn] /\ txn'[r].pc = "IDLE" /\ NoTxn.pc = "IDLE"
  BY DEF End, NoTxn, EvidenceInv, EvidenceType
<1>2. BlobOfItem(r)' /\ RowOfTxn(r)' /\ StoreOfTxn(r)'
  BY <1>1 DEF BlobOfItem, RowOfTxn, StoreOfTxn, Moving, Locked
<1>3. uploads' \in [Items -> Nat] /\ notices' \subseteq Notice /\ \A n \in notices' : ~n.blob.quarantined
  BY DEF EvidenceInv, EvidenceType
<1> QED
  BY <1>1, <1>2, <1>3, EvidenceInvMove

LEMMA LockForAttachInv ==
  ASSUME EvidenceInv, NEW r \in Callers, NEW e \in Items, LockForAttach(r, e)
  PROVE  EvidenceInv'
<1>1. PICK t : t = Doing("UPLOAD", "attach", e, Planned, "PENDING")
  OBVIOUS
<1>2. t \in Txn /\ t.pc = "UPLOAD" /\ t.kind = "attach" /\ t.item = e /\ t.blob = Planned
  BY <1>1 DEF Doing, Txn
<1>3. txn' = [txn EXCEPT ![r] = t] /\ txn'[r] = t
  BY <1>1 DEF LockForAttach, EvidenceInv, EvidenceType
<1>4. /\ evidence[e].uri = Planned /\ uploads[e] < MaxUploads /\ evidence[e].scan = "PENDING"
      /\ \A q \in Callers : Locked(q) => txn[q].item # e
  BY DEF LockForAttach, ItemLocked, EvidenceInv, RowHolds, Locked
<1>5. BlobOfItem(r)' /\ RowOfTxn(r)' /\ StoreOfTxn(r)'
  BY <1>2, <1>3, <1>4 DEF LockForAttach, BlobOfItem, RowOfTxn, StoreOfTxn, Moving, Locked
<1>6. \A q \in Callers \ {r} : txn'[q] = txn[q]
  BY <1>3
<1>7. /\ \A f \in Items : RowHolds(f)'
      /\ \A q \in Callers \ {r} : Moving(q) => StoreOfTxn(q)'
  BY <1>6, StoreGrows DEF LockForAttach
<1>8. /\ uploads' \in [Items -> Nat] /\ uploads' = uploads /\ evidence' = evidence
      /\ notices' \subseteq Notice /\ \A n \in notices' : ~n.blob.quarantined
  BY DEF EvidenceInv, EvidenceType, LockForAttach
<1> QED
  BY <1>2, <1>3, <1>4, <1>5, <1>7, <1>8, EvidenceInvMove

LEMMA UploadBlobInv ==
  ASSUME EvidenceInv, NEW r \in Callers, UploadBlob(r)
  PROVE  EvidenceInv'
<1>1. PICK e \in Items : e = txn[r].item
  BY TxnFields DEF UploadBlob, Locked, Txn
<1>2. /\ Locked(r) /\ txn[r].kind = "attach" /\ evidence[e].uri = Planned
      /\ evidence[e].scan = "PENDING" /\ uploads[e] \in 0 .. MaxUploads - 1
  BY <1>1, StoreAssumption DEF UploadBlob, EvidenceInv, EvidenceType, RowOfTxn, Locked
<1>3. PICK b : b = [item |-> e, upload |-> uploads[e] + 1, quarantined |-> FALSE]
  OBVIOUS
<1>4. b \in Blob /\ b.item = e /\ ~b.quarantined /\ b # Planned
  <2>1. uploads[e] + 1 \in 1 .. MaxUploads
    BY <1>2, StoreAssumption
  <2>2. b \in Blob
    BY <2>1, <1>3 DEF Blob
  <2> QED
    BY <2>2, <1>3, StoreAssumption
<1>5. PICK v \in Verdict :
        /\ txn' = [txn EXCEPT ![r] = Doing(NextStep(Scan(v)), "attach", e, b, Scan(v))]
        /\ notices' = IF scanner = "mock" THEN notices
                      ELSE notices \cup {[blob |-> b, verdict |-> v]}
  BY <1>1, <1>3 DEF UploadBlob
<1>6. PICK t : t = Doing(NextStep(Scan(v)), "attach", e, b, Scan(v))
  OBVIOUS
<1>7. /\ t \in Txn /\ t.pc \in {"COPY", "COMMIT"} /\ t.kind = "attach" /\ t.item = e /\ t.blob = b
      /\ t.pc = "COPY" <=> t.scan = "INFECTED"
  BY <1>4, <1>6 DEF Doing, Txn, NextStep, Scan, Verdict
<1>8. txn' = [txn EXCEPT ![r] = t] /\ txn'[r] = t
  BY <1>5, <1>6 DEF EvidenceInv, EvidenceType
<1>9. store' = store \cup {b} /\ uploads' = [uploads EXCEPT ![e] = @ + 1] /\ evidence' = evidence
  BY <1>1, <1>3 DEF UploadBlob
<1>10. BlobOfItem(r)' /\ RowOfTxn(r)' /\ StoreOfTxn(r)'
  BY <1>2, <1>4, <1>7, <1>8, <1>9 DEF BlobOfItem, RowOfTxn, StoreOfTxn, Moving, Locked, Kept
<1>11. \A q \in Callers \ {r} : txn'[q] = txn[q]
  BY <1>8
<1>12. /\ \A f \in Items : RowHolds(f)'
       /\ \A q \in Callers \ {r} : Moving(q) => StoreOfTxn(q)'
  BY <1>9, <1>11, StoreGrows
<1>13. /\ uploads' \in [Items -> Nat]
       /\ \A f \in Items : uploads'[f] = uploads[f] \/ f = e
  BY <1>9 DEF EvidenceInv, EvidenceType
<1>14. notices' \subseteq Notice /\ \A n \in notices' : ~n.blob.quarantined
  BY <1>4, <1>5 DEF EvidenceInv, EvidenceType, Notice
<1>15. \A q \in Callers \ {r} : Locked(q) => txn[q].item # e
  BY <1>1, <1>2 DEF EvidenceInv
<1> QED
  BY <1>1, <1>2, <1>7, <1>8, <1>9, <1>10, <1>12, <1>13, <1>14, <1>15, EvidenceInvMove

LEMMA ReceiveInv ==
  ASSUME EvidenceInv, NEW r \in Callers, NEW n \in Notice, Receive(r, n)
  PROVE  EvidenceInv'
<1>1. /\ n \in notices /\ n.blob \in Blob /\ n.blob # Planned /\ ~n.blob.quarantined
      /\ n.verdict \in Verdict
  BY StoreAssumption DEF Receive, EvidenceInv, EvidenceType, Notice
<1>2. /\ UNCHANGED <<evidence, store, uploads, notices>>
      /\ uploads \in [Items -> Nat] /\ notices \subseteq Notice /\ \A m \in notices : ~m.blob.quarantined
  BY DEF Receive, RefuseUnknown, EvidenceInv, EvidenceType
<1>3. CASE \E e \in Items : evidence[e].uri = n.blob
  <2>1. PICK e \in Items : evidence[e].uri = n.blob
    BY <1>3
  <2>2. n.blob.item = e
    BY <2>1, <1>1 DEF EvidenceInv, RowHolds
  <2>3. PICK t : t = Doing("FOUND", "webhook", e, n.blob, n.verdict)
    OBVIOUS
  <2>4. /\ t \in Txn /\ t.pc = "FOUND" /\ t.kind = "webhook" /\ t.item = e /\ t.blob = n.blob
    BY <2>3, <1>1 DEF Doing, Txn
  <2>5. txn' = [txn EXCEPT ![r] = t] /\ txn'[r] = t
    BY <1>3, <2>2, <2>3 DEF Receive, EvidenceInv, EvidenceType
  <2>6. BlobOfItem(r)' /\ RowOfTxn(r)' /\ StoreOfTxn(r)'
    BY <1>1, <1>2, <2>1, <2>2, <2>4, <2>5 DEF BlobOfItem, RowOfTxn, StoreOfTxn, Moving, Locked
  <2>7. \A q \in Callers \ {r} : txn'[q] = txn[q]
    BY <2>5
  <2>8. /\ \A f \in Items : RowHolds(f)'
        /\ \A q \in Callers \ {r} : Moving(q) => StoreOfTxn(q)'
    BY <1>2, <2>7, StoreGrows
  <2> QED
    BY <1>2, <2>4, <2>5, <2>6, <2>8, EvidenceInvMove
<1>4. CASE ~ \E e \in Items : evidence[e].uri = n.blob
  <2>1. UNCHANGED evidenceVars
    BY <1>4 DEF Receive, RefuseUnknown, evidenceVars
  <2> QED
    BY <2>1 DEF evidenceVars, EvidenceInv, EvidenceType, RowHolds, BlobOfItem, RowOfTxn,
               StoreOfTxn, Kept, Moving, Locked
<1> QED
  BY <1>3, <1>4

LEMMA LockForVerdictInv ==
  ASSUME EvidenceInv, NEW r \in Callers, LockForVerdict(r)
  PROVE  EvidenceInv'
<1>1. /\ txn[r] \in Txn /\ Moving(r) /\ txn[r].kind = "webhook"
      /\ txn[r].blob \in Blob /\ txn[r].blob # Planned
  BY TxnFields, StoreAssumption DEF LockForVerdict, Moving, EvidenceInv, RowOfTxn
<1>2. UNCHANGED <<evidence, store, uploads>>
  BY DEF LockForVerdict
<1>3. /\ \A f \in Items : RowHolds(f)'
      /\ \A q \in Callers : txn'[q] = txn[q] => StoreOfTxn(q)'
  BY <1>2, StoreGrows
<1>4. CASE ~Undecided(r)
  <2>1. End(r) /\ notices' \subseteq notices
    BY <1>4 DEF LockForVerdict, Answered
  <2>2. \A q \in Callers \ {r} : txn'[q] = txn[q]
    BY <2>1 DEF End, EvidenceInv, EvidenceType
  <2> QED
    BY <1>2, <1>3, <2>1, <2>2, EvidenceInvEnd
<1>5. CASE Undecided(r)
  <2>1. PICK e \in Items : e = txn[r].item
    BY <1>1 DEF Txn
  <2>2. /\ evidence[e].scan = "PENDING" /\ evidence[e].uri = txn[r].blob
        /\ Kept(txn[r].blob) /\ txn[r].blob.item = e /\ ~txn[r].blob.quarantined
    BY <1>1, <1>5, <2>1 DEF Undecided, LockForVerdict, EvidenceInv, RowOfTxn, RowHolds,
                           BlobOfItem, Moving
  <2>3. PICK pc \in {"COPY", "COMMIT"} : pc = NextStep(txn[r].scan)
    BY DEF NextStep
  <2>4. PICK t : t = [txn[r] EXCEPT !.pc = pc]
    OBVIOUS
  <2>5. /\ pc = "COPY" <=> txn[r].scan = "INFECTED"
        /\ txn' = [txn EXCEPT ![r].pc = pc] /\ notices' = notices
    BY <1>5, <2>3 DEF LockForVerdict, Continue, NextStep
  <2>6. /\ t \in Txn /\ t.pc = pc /\ t.kind = txn[r].kind /\ t.item = txn[r].item
        /\ t.blob = txn[r].blob /\ t.scan = txn[r].scan
    BY <1>1, <2>4 DEF Txn
  <2>7. txn' = [txn EXCEPT ![r] = t] /\ txn'[r] = t
    BY <2>4, <2>5 DEF EvidenceInv, EvidenceType
  <2>8. Kept(t.blob)'
    <3>1. PICK b : b = t.blob /\ b = t.blob'
      OBVIOUS
    <3> QED
      BY <3>1, <2>2, <2>6, <1>2 DEF Kept
  <2>9. BlobOfItem(r)' /\ RowOfTxn(r)' /\ StoreOfTxn(r)'
    <3>1. BlobOfItem(r)' /\ RowOfTxn(r)'
      BY <1>1, <1>2, <2>1, <2>2, <2>6, <2>7 DEF BlobOfItem, RowOfTxn, Moving, Locked
    <3>2. StoreOfTxn(r)'
      BY <1>2, <2>2, <2>5, <2>6, <2>7 DEF StoreOfTxn, Kept
    <3> QED
      BY <3>1, <3>2
  <2>10. \A q \in Callers \ {r} : txn'[q] = txn[q]
    BY <2>7
  <2>11. \A q \in Callers : Locked(q) => txn[q].item # e
    BY <2>1 DEF LockForVerdict, ItemLocked, Locked
  <2>12. uploads' \in [Items -> Nat] /\ notices' \subseteq Notice /\ \A n \in notices' : ~n.blob.quarantined
    BY <1>2, <2>5 DEF EvidenceInv, EvidenceType
  <2> QED
    BY <1>2, <1>3, <2>1, <2>6, <2>7, <2>9, <2>10, <2>11, <2>12, EvidenceInvMove
<1> QED
  BY <1>4, <1>5

\* A transaction that goes on from one step of the move to the next.
LEMMA ContinueMove ==
  ASSUME EvidenceInv, NEW r \in Callers, NEW pc \in {"DELETE", "COMMIT"},
         txn[r].pc \in {"COPY", "DELETE"}, Continue(r, pc), txn[r].scan = "INFECTED",
         UNCHANGED <<evidence, uploads, notices>>,
         NEW b, b = txn[r].blob, Quarantined(b) \in store',
         \A e \in Items : RowHolds(e)',
         \A q \in Callers \ {r} : Moving(q) /\ txn'[q] = txn[q] => StoreOfTxn(q)'
  PROVE  EvidenceInv'
<1>1. txn[r] \in Txn /\ Locked(r) /\ Moving(r)
  BY TxnFields DEF Moving, Locked
<1>2. PICK t : t = [txn[r] EXCEPT !.pc = pc]
  OBVIOUS
<1>3. /\ t \in Txn /\ t.pc = pc /\ t.kind = txn[r].kind /\ t.item = txn[r].item
      /\ t.blob = txn[r].blob /\ t.scan = txn[r].scan
  BY <1>1, <1>2 DEF Txn
<1>4. txn' = [txn EXCEPT ![r] = t] /\ txn'[r] = t /\ \A q \in Callers \ {r} : txn'[q] = txn[q]
  BY <1>2 DEF Continue, EvidenceInv, EvidenceType
<1>5. BlobOfItem(r)' /\ RowOfTxn(r)'
  BY <1>1, <1>3, <1>4 DEF EvidenceInv, BlobOfItem, RowOfTxn, Moving, Locked
<1>6. StoreOfTxn(r)'
  BY <1>3, <1>4 DEF StoreOfTxn, Kept
<1>7. \A q \in Callers \ {r} : Locked(q) => txn[q].item # t.item
  BY <1>1, <1>3 DEF EvidenceInv
<1>8. uploads' \in [Items -> Nat] /\ notices' \subseteq Notice /\ \A n \in notices' : ~n.blob.quarantined
  BY DEF EvidenceInv, EvidenceType
<1> QED
  BY <1>3, <1>4, <1>5, <1>6, <1>7, <1>8, EvidenceInvMove

\* Who is copying has found the blob infected.
LEMMA CopyInv ==
  ASSUME EvidenceInv, NEW r \in Callers, Copy(r)
  PROVE  EvidenceInv'
<1>1. PICK b \in Blob : b = txn[r].blob
  BY TxnFields DEF Copy, Moving
<1>2. /\ store' = store \cup {Quarantined(b)} /\ Continue(r, "DELETE")
      /\ txn[r].pc = "COPY" /\ UNCHANGED <<evidence, uploads, notices>>
  BY <1>1 DEF Copy
<1>3. txn[r].scan = "INFECTED"
  BY <1>2 DEF EvidenceInv, StoreOfTxn
<1>4. /\ \A e \in Items : RowHolds(e)'
      /\ \A q \in Callers : txn'[q] = txn[q] => StoreOfTxn(q)'
  BY <1>2, StoreGrows
<1>5. Quarantined(b) \in store'
  BY <1>2
<1> QED
  BY <1>1, <1>2, <1>3, <1>4, <1>5, ContinueMove

LEMMA DeleteInv ==
  ASSUME EvidenceInv, NEW r \in Callers, Delete(r)
  PROVE  EvidenceInv'
<1>1. PICK b \in Blob : b = txn[r].blob
  BY TxnFields DEF Delete, Moving
<1>2. /\ store' = store \ {b} /\ Continue(r, "COMMIT")
      /\ txn[r].pc = "DELETE" /\ UNCHANGED <<evidence, uploads, notices>>
  BY <1>1 DEF Delete
<1>3. txn[r].scan = "INFECTED" /\ Quarantined(b) \in store /\ ~b.quarantined
  BY <1>1, <1>2 DEF EvidenceInv, StoreOfTxn, BlobOfItem, Moving
<1>4. Quarantined(b) \in store'
  BY <1>2, <1>3, QuarantinedBlob
<1>5. /\ \A e \in Items : RowHolds(e)'
      /\ \A q \in Callers \ {r} : Moving(q) /\ txn'[q] = txn[q] => StoreOfTxn(q)'
  BY <1>2, <1>3, StoreShrinks
<1> QED
  BY <1>1, <1>2, <1>3, <1>4, <1>5, ContinueMove

LEMMA EndWithoutCommitInv ==
  ASSUME EvidenceInv, NEW r \in Callers, Crash(r) \/ FailCall(r)
  PROVE  EvidenceInv'
<1>1. /\ End(r) /\ txn[r] # NoTxn /\ UNCHANGED <<evidence, uploads, notices>>
      /\ \/ store' = store
         \/ txn[r].kind = "attach" /\ store' = store \ {txn[r].blob}
  BY DEF Crash, FailCall
<1>2. txn[r] \in Txn /\ (Locked(r) \/ Moving(r))
  BY <1>1, TxnFields
<1>3. \A q \in Callers \ {r} : txn'[q] = txn[q]
  BY <1>1 DEF End, EvidenceInv, EvidenceType
<1>4. /\ \A e \in Items : RowHolds(e)'
      /\ \A q \in Callers \ {r} : Moving(q) => StoreOfTxn(q)'
  <2>1. CASE store' = store
    BY <1>1, <1>3, <2>1, StoreGrows
  <2>2. CASE txn[r].kind = "attach" /\ store' = store \ {txn[r].blob}
    <3>1. PICK b \in Blob \cup {Planned} : b = txn[r].blob
      BY <1>2 DEF Txn
    <3>2. Locked(r)
      BY <1>2, <2>2 DEF EvidenceInv, RowOfTxn, Moving, Locked
    <3>3. b # Planned => ~b.quarantined /\ b.item = txn[r].item /\ evidence[b.item].uri = Planned
      BY <2>2, <3>1, <3>2 DEF EvidenceInv, BlobOfItem, RowOfTxn, Moving, Locked
    <3>4. b \in Blob => b # Planned
      BY StoreAssumption
    <3> QED
      BY <1>1, <1>3, <2>2, <3>1, <3>2, <3>3, <3>4, StoreShrinks
  <2> QED
    BY <1>1, <2>1, <2>2
<1> QED
  BY <1>1, <1>4, EvidenceInvEnd

\* The commit: a row that was PENDING gets what the transaction found.
LEMMA CommitTxnInv ==
  ASSUME EvidenceInv, NEW r \in Callers, CommitTxn(r)
  PROVE  EvidenceInv' /\ \A e \in Items : Decided(e) => evidence'[e] = evidence[e]
<1>1. /\ txn[r].pc = "COMMIT" /\ txn[r] \in Txn /\ Locked(r) /\ Moving(r)
  BY TxnFields DEF CommitTxn, Locked, Moving
<1>2. PICK e \in Items, b \in Blob, s \in Verdict \cup {"PENDING"} :
        e = txn[r].item /\ b = txn[r].blob /\ s = txn[r].scan
  BY <1>1, TxnFields DEF Txn
<1>3. PICK uri : uri = IF s = "INFECTED" THEN Quarantined(b) ELSE b
  OBVIOUS
<1>4. /\ evidence' = [evidence EXCEPT ![e] = [uri |-> uri, scan |-> s]]
      /\ End(r) /\ notices' \subseteq notices /\ UNCHANGED <<store, uploads>>
  BY <1>2, <1>3 DEF CommitTxn, NewUri, Answered
<1>5. b.item = e /\ ~b.quarantined /\ Kept(b) /\ (s = "INFECTED" => Quarantined(b) \in store)
  BY <1>1, <1>2 DEF EvidenceInv, BlobOfItem, StoreOfTxn
<1>6. /\ uri \in Blob /\ uri.item = e /\ Kept(uri) /\ uri # Planned
      /\ s = "INFECTED" <=> uri.quarantined
  BY <1>3, <1>5, QuarantinedBlob, StoreAssumption DEF Kept
<1>7. evidence[e].scan = "PENDING"
  BY <1>1, <1>2 DEF EvidenceInv, RowOfTxn
<1>8. /\ evidence' \in [Items -> [uri : Blob \cup {Planned}, scan : Verdict \cup {"PENDING"}]]
      /\ evidence'[e].uri = uri /\ evidence'[e].scan = s
      /\ \A f \in Items \ {e} : evidence'[f] = evidence[f]
  BY <1>4, <1>6 DEF EvidenceInv, EvidenceType
<1>9. txn' = [txn EXCEPT ![r] = NoTxn] /\ txn'[r].pc = "IDLE"
      /\ \A q \in Callers \ {r} : txn'[q] = txn[q]
  BY <1>4 DEF End, NoTxn, EvidenceInv, EvidenceType
<1>10. EvidenceType'
  BY <1>4, <1>8, <1>9 DEF EvidenceInv, EvidenceType
<1>11. \A f \in Items : RowHolds(f)'
  BY <1>4, <1>6, <1>8 DEF EvidenceInv, RowHolds, Kept
<1>12. \A q \in Callers : (BlobOfItem(q) /\ RowOfTxn(q) /\ StoreOfTxn(q))'
  <2> TAKE q \in Callers
  <2>1. CASE q = r
    BY <2>1, <1>9 DEF BlobOfItem, RowOfTxn, StoreOfTxn, Moving, Locked
  <2>2. CASE q # r
    <3>1. txn'[q] = txn[q]
      BY <2>2, <1>9
    <3>2. BlobOfItem(q)' /\ StoreOfTxn(q)'
      BY <3>1, <1>4 DEF EvidenceInv, BlobOfItem, StoreOfTxn, Kept, Moving
    <3>3. Locked(q) => txn[q].item # e
      BY <2>2, <1>1, <1>2 DEF EvidenceInv
    <3>4. txn[q].pc = "FOUND" /\ txn[q].item = e =>
            /\ txn[q].blob = evidence[e].uri /\ evidence[e].uri = b
      <4> SUFFICES ASSUME txn[q].pc = "FOUND", txn[q].item = e
                   PROVE  txn[q].blob = evidence[e].uri /\ evidence[e].uri = b
        OBVIOUS
      <4>1. evidence[e].uri # Planned /\ txn[q].blob = evidence[e].uri
        BY <1>7 DEF EvidenceInv, RowOfTxn
      <4>2. txn[r].kind = "webhook"
        BY <4>1, <1>1, <1>2 DEF EvidenceInv, RowOfTxn, Txn
      <4> QED
        BY <4>1, <4>2, <1>1, <1>2 DEF EvidenceInv, RowOfTxn
    <3>5. RowOfTxn(q)'
      <4>1. CASE Locked(q)
        <5>1. txn[q].item \in Items /\ txn[q].pc # "FOUND"
          BY <4>1, TxnFields DEF Locked, Txn
        <5> QED
          BY <4>1, <5>1, <3>1, <3>3, <1>4, <1>8 DEF EvidenceInv, RowOfTxn, Locked
      <4>2. CASE txn[q].pc = "FOUND"
        <5>1. txn[q].item \in Items /\ ~Locked(q)
          BY <4>2, TxnFields DEF Moving, Txn, Locked
        <5>2. CASE txn[q].item # e
          BY <4>2, <5>1, <5>2, <3>1, <1>8 DEF EvidenceInv, RowOfTxn, Locked
        <5>3. CASE txn[q].item = e
          <6>1. s = "PENDING" => uri = txn[q].blob
            BY <4>2, <5>3, <3>4, <1>3
          <6> QED
            BY <4>2, <5>1, <5>3, <6>1, <3>1, <1>6, <1>8 DEF EvidenceInv, RowOfTxn, Locked
        <5> QED
          BY <5>2, <5>3
      <4>3. CASE ~Locked(q) /\ txn[q].pc # "FOUND"
        BY <4>3, <3>1 DEF RowOfTxn, Locked
      <4> QED
        BY <4>1, <4>2, <4>3
    <3> QED
      BY <3>2, <3>5
  <2> QED
    BY <2>1, <2>2
<1>13. \A p, q \in Callers : Locked(p)' /\ Locked(q)' /\ txn'[p].item = txn'[q].item => p = q
  BY <1>9 DEF EvidenceInv, Locked
<1>14. \A f \in Items : Decided(f) => evidence'[f] = evidence[f]
  BY <1>7, <1>8 DEF Decided, Verdict
<1> QED
  BY <1>10, <1>11, <1>12, <1>13, <1>14 DEF EvidenceInv

LEMMA EvidenceInvStep ==
  ASSUME EvidenceInv, [EvidenceNext]_evidenceVars
  PROVE  EvidenceInv' /\ \A e \in Items : Decided(e) => evidence'[e] = evidence[e]
<1>1. ASSUME NEW r \in Callers, NEW e \in Items, LockForAttach(r, e)
      PROVE  EvidenceInv' /\ evidence' = evidence
  BY <1>1, LockForAttachInv DEF LockForAttach
<1>2. ASSUME NEW r \in Callers, NEW n \in Notice, Receive(r, n)
      PROVE  EvidenceInv' /\ evidence' = evidence
  BY <1>2, ReceiveInv DEF Receive
<1>3. ASSUME NEW r \in Callers, UploadBlob(r) \/ LockForVerdict(r) \/ Copy(r) \/ Delete(r)
      PROVE  EvidenceInv' /\ evidence' = evidence
  BY <1>3, UploadBlobInv, LockForVerdictInv, CopyInv, DeleteInv
     DEF UploadBlob, LockForVerdict, Copy, Delete
<1>4. ASSUME NEW r \in Callers, Crash(r) \/ FailCall(r)
      PROVE  EvidenceInv' /\ evidence' = evidence
  BY <1>4, EndWithoutCommitInv DEF Crash, FailCall
<1>5. ASSUME NEW n \in Notice, Rescan(n)
      PROVE  EvidenceInv' /\ evidence' = evidence
  <2>1. PICK v \in Verdict : notices' = notices \cup {[n EXCEPT !.verdict = v]}
    BY <1>5 DEF Rescan, Verdict
  <2>2. [n EXCEPT !.verdict = v] \in Notice /\ [n EXCEPT !.verdict = v].blob = n.blob
    BY DEF Notice
  <2>3. EvidenceType'
    BY <1>5, <2>1, <2>2 DEF Rescan, EvidenceInv, EvidenceType
  <2> QED
    BY <1>5, <2>3 DEF Rescan, EvidenceInv, RowHolds, BlobOfItem, RowOfTxn, StoreOfTxn, Kept,
                      Moving, Locked
<1>6. CASE UNCHANGED evidenceVars
  BY <1>6 DEF evidenceVars, EvidenceInv, EvidenceType, RowHolds, BlobOfItem, RowOfTxn,
              StoreOfTxn, Kept, Moving, Locked
<1>7. UNCHANGED evidenceVars => evidence' = evidence
  BY DEF evidenceVars
<1> QED
  BY <1>1, <1>2, <1>3, <1>4, <1>5, <1>6, <1>7, CommitTxnInv DEF EvidenceNext

\* A row with a verdict names a quarantined blob if and only if it is INFECTED,
\* and its bytes are in the store, through failing calls, crashes and repeated
\* or contradicting verdicts (attach_file, record_scan_result, ObjectStore.move).
THEOREM VerdictNamed == EvidenceSpec => []VerdictNamesBlob
<1>1. EvidenceInv => VerdictNamesBlob
  BY DEF EvidenceInv, VerdictNamesBlob, RowHolds, Kept, Decided, Verdict
<1> QED
  BY <1>1, EvidenceInvInit, EvidenceInvStep, PTL DEF EvidenceSpec

\* No transaction overwrites a verdict that is final (lock_evidence before the
\* status is read again, record_scan_result).
THEOREM VerdictFinal == EvidenceSpec => FinalVerdict
<1>1. EvidenceInv /\ [EvidenceNext]_evidenceVars =>
        [\A e \in Items : Decided(e) => evidence'[e] = evidence[e]]_evidenceVars
  BY EvidenceInvStep
<1> QED
  BY <1>1, EvidenceInvInit, EvidenceInvStep, PTL DEF EvidenceSpec, FinalVerdict

-----------------------------------------------------------------------------
(* Import jobs *)

\* Either the broker delivers no message twice, or a single worker takes them all.
NoOverlap == MaxRedeliveries = 0 \/ \A v, w \in Workers : v = w

ImportStatus == {"NONE", "PENDING", "PARSED", "PARSE_FAILED", "ACCEPTED"}
UploadState == [at : {"NOT_SENT", "RUNNING", "BROKEN", "ANSWERED"}, done : 0..2]

ImportType ==
  /\ upload \in [Jobs -> UploadState] /\ status \in [Jobs -> ImportStatus]
  /\ imported \in [Jobs -> Nat] /\ queue \in [Jobs -> Nat] /\ redelivered \in 0..MaxRedeliveries
  /\ worker \in [Workers -> [job : Jobs \cup {NoJob}, seen : ImportStatus]]
  /\ \A w \in Workers : worker[w] # IdleWorker => worker[w].job \in Jobs /\ worker[w].seen # "NONE"

Parsing(w, j) == worker[w] # IdleWorker /\ worker[w].job = j

\* A route commits once and enqueues once, after that.
RouteInv(j) ==
  /\ upload[j].at = "NOT_SENT" => upload[j].done = 0
  /\ upload[j].at # "ANSWERED" =>
       /\ upload[j].done < 2
       /\ status[j] = IF upload[j].done = 0 THEN "NONE" ELSE "PENDING"
       /\ queue[j] = 0 /\ \A w \in Workers : ~Parsing(w, j)

\* Without a second delivery there is one message, in the queue or at a worker.
OneMessage(j) ==
  MaxRedeliveries = 0 =>
    /\ queue[j] <= 1
    /\ queue[j] = 1 => \A w \in Workers : ~Parsing(w, j)
    /\ \A v, w \in Workers : Parsing(v, j) /\ Parsing(w, j) => v = w

\* What the worker has seen PENDING is PENDING until it marks it.
SeenInv(j) == \A w \in Workers : Parsing(w, j) /\ worker[w].seen = "PENDING" => status[j] = "PENDING"

ImportInv ==
  /\ ImportType
  /\ \A j \in Jobs : RouteInv(j) /\ OneMessage(j) /\ SeenInv(j)
  /\ \A j \in Jobs : imported[j] = IF status[j] = "ACCEPTED" THEN 1 ELSE 0

AcceptedOnce == \A j \in Jobs : imported[j] <= 1

AsFinal == \A j \in Jobs : status[j] \in {"PARSE_FAILED", "ACCEPTED"} => status'[j] = status[j]
LEMMA ImportStep ==
  ASSUME NoOverlap, ImportInv, [ImportNext]_importVars
  PROVE  ImportInv' /\ AsFinal
<1>0. /\ ImportType /\ NoJob \notin Jobs /\ MaxRedeliveries \in Nat
      /\ \A j \in Jobs : RouteInv(j) /\ OneMessage(j) /\ SeenInv(j)
      /\ \A j \in Jobs : imported[j] = IF status[j] = "ACCEPTED" THEN 1 ELSE 0
  BY ImportAssumption DEF ImportInv, ImportAssumption
\* Where a job's status, messages and workers stay, so does what is said of it.
<1>1. ASSUME NEW j \in Jobs, upload'[j] = upload[j], status'[j] = status[j], queue'[j] = queue[j],
             \A w \in Workers : Parsing(w, j)' => Parsing(w, j) /\ worker'[w] = worker[w]
      PROVE  RouteInv(j)' /\ OneMessage(j)' /\ SeenInv(j)'
  BY <1>0, <1>1 DEF RouteInv, OneMessage, SeenInv
<1>2. ASSUME NEW j \in Jobs,
             UploadWorkbook(j) \/ CommitJob(j) \/ Enqueue(j) \/ BreakRequest(j) \/ Repeat(j)
      PROVE  ImportInv' /\ AsFinal
  <2>1. /\ UNCHANGED <<imported, redelivered, worker>>
        /\ \A k \in Jobs \ {j} : /\ upload'[k] = upload[k] /\ status'[k] = status[k]
                                 /\ queue'[k] = queue[k]
    BY <1>0, <1>2
       DEF UploadWorkbook, CommitJob, Enqueue, BreakRequest, Repeat, Advance, ImportType
  <2>2. \A k \in Jobs, w \in Workers : Parsing(w, k)' <=> Parsing(w, k)
    BY <2>1 DEF Parsing
  <2>3. upload[j] \in UploadState /\ upload[j].done \in 0..2 /\ status[j] \in ImportStatus
        /\ queue[j] \in Nat /\ RouteInv(j) /\ OneMessage(j) /\ SeenInv(j)
    BY <1>0 DEF ImportType, UploadState
  <2>4. /\ upload' \in [Jobs -> UploadState] /\ status' \in [Jobs -> ImportStatus]
        /\ queue' \in [Jobs -> Nat]
        /\ RouteInv(j)' /\ OneMessage(j)' /\ SeenInv(j)'
        /\ status[j] \in {"PARSE_FAILED", "ACCEPTED"} => status'[j] = status[j]
        /\ status'[j] = "ACCEPTED" <=> status[j] = "ACCEPTED"
    <3>1. CASE UploadWorkbook(j)
      BY <1>0, <2>1, <2>2, <2>3, <3>1
         DEF UploadWorkbook, ImportType, UploadState, RouteInv, OneMessage, SeenInv
    <3>2. CASE CommitJob(j)
      <4>0. upload[j].at = "RUNNING" /\ upload[j].done = 0
        BY <2>3, <3>2 DEF CommitJob, NextIs, RouteSteps, RouteInv
      <4>1. /\ upload[j].at = "RUNNING" /\ upload[j].done = 0
            /\ upload' = [upload EXCEPT ![j] = [at |-> "RUNNING", done |-> 1]]
            /\ status' = [status EXCEPT ![j] = "PENDING"] /\ queue' = queue
        <5>1. 0 + 1 # Len(RouteSteps)
          BY DEF RouteSteps
        <5>2. upload' = [upload EXCEPT ![j].done = 0 + 1, ![j].at = "RUNNING"]
          BY <3>2, <4>0, <5>1 DEF CommitJob, Advance
        <5>3. [[upload[j] EXCEPT !.done = 0 + 1] EXCEPT !.at = "RUNNING"]
                = [at |-> "RUNNING", done |-> 1]
          <6>1. ASSUME NEW u \in UploadState
                PROVE  [[u EXCEPT !.done = 0 + 1] EXCEPT !.at = "RUNNING"]
                         = [at |-> "RUNNING", done |-> 1]
            <7>1. PICK a \in {"NOT_SENT", "RUNNING", "BROKEN", "ANSWERED"}, d \in 0..2 :
                    u = [at |-> a, done |-> d]
              BY DEF UploadState
            <7>2. PICK x : x = [u EXCEPT !.done = 0 + 1]
              OBVIOUS
            <7>3. x = [at |-> a, done |-> 1]
              BY <7>1, <7>2
            <7>4. [x EXCEPT !.at = "RUNNING"] = [at |-> "RUNNING", done |-> 1]
              BY <7>3
            <7> QED
              BY <7>2, <7>4
          <6> QED
            BY <2>3, <6>1
        <5>4. status' = [status EXCEPT ![j] = "PENDING"] /\ queue' = queue
          BY <3>2 DEF CommitJob
        <5> QED
          BY <1>0, <4>0, <5>2, <5>3, <5>4 DEF ImportType
      <4> QED
        BY <1>0, <2>1, <2>2, <2>3, <4>1
           DEF ImportType, ImportStatus, UploadState, RouteInv, OneMessage, SeenInv
    <3>3. CASE Enqueue(j)
      <4>1. /\ upload[j].at = "RUNNING" /\ upload[j].done = 1
            /\ upload' = [upload EXCEPT ![j] = [at |-> "ANSWERED", done |-> 2]]
            /\ status' = status /\ queue' = [queue EXCEPT ![j] = queue[j] + 1]
        BY <1>0, <2>3, <3>3
           DEF Enqueue, NextIs, Advance, RouteSteps, ImportType, UploadState, RouteInv
      <4> QED
        BY <1>0, <2>1, <2>2, <2>3, <4>1
           DEF ImportType, UploadState, RouteInv, OneMessage, SeenInv
    <3>4. CASE BreakRequest(j)
      BY <1>0, <2>1, <2>2, <2>3, <3>4
         DEF BreakRequest, ImportType, UploadState, RouteInv, OneMessage, SeenInv
    <3>5. CASE Repeat(j)
      <4>1. CASE status[j] = "NONE"
        <5>1. upload[j].done = 0 /\ upload' = [upload EXCEPT ![j] = [at |-> "NOT_SENT", done |-> 0]]
              /\ UNCHANGED <<status, queue>>
          BY <2>3, <3>5, <4>1 DEF Repeat, NotSent, RouteInv
        <5> QED
          BY <1>0, <2>1, <2>2, <2>3, <3>5, <4>1, <5>1
             DEF Repeat, ImportType, UploadState, RouteInv, OneMessage, SeenInv
      <4>2. CASE status[j] # "NONE"
        <5>1. /\ upload' \in [Jobs -> UploadState] /\ upload'[j].at = "ANSWERED"
              /\ UNCHANGED <<status, queue>>
          BY <1>0, <2>3, <3>5, <4>2 DEF Repeat, ImportType, UploadState
        <5> QED
          BY <1>0, <2>1, <2>2, <2>3, <5>1 DEF ImportType, RouteInv, OneMessage, SeenInv
      <4> QED
        BY <4>1, <4>2
    <3> QED
      BY <1>2, <3>1, <3>2, <3>3, <3>4, <3>5
  <2>5. ImportType'
    BY <1>0, <2>1, <2>4 DEF ImportType
  <2>6. \A k \in Jobs \ {j} : RouteInv(k)' /\ OneMessage(k)' /\ SeenInv(k)'
    BY <1>1, <2>1, <2>2
  <2> QED
    BY <1>0, <2>1, <2>4, <2>5, <2>6 DEF ImportInv, AsFinal
<1>3. ASSUME NEW j \in Jobs, Redeliver(j) PROVE ImportInv' /\ AsFinal
  <2>1. /\ queue[j] > 0 /\ redelivered < MaxRedeliveries
        /\ queue' = [queue EXCEPT ![j] = queue[j] + 1] /\ redelivered' = redelivered + 1
        /\ UNCHANGED <<upload, status, imported, worker>>
    BY <1>3 DEF Redeliver
  <2>2. MaxRedeliveries # 0 /\ ImportType'
    BY <1>0, <2>1 DEF ImportType
  <2>3. \A k \in Jobs, w \in Workers : Parsing(w, k)' <=> Parsing(w, k)
    BY <2>1 DEF Parsing
  <2>4. ASSUME NEW k \in Jobs PROVE RouteInv(k)' /\ OneMessage(k)' /\ SeenInv(k)'
    <3>1. CASE k = j
      BY <1>0, <2>1, <2>2, <2>3, <3>1 DEF RouteInv, OneMessage, SeenInv, ImportType
    <3>2. CASE k # j
      BY <1>0, <1>1, <2>1, <2>3, <3>2 DEF ImportType
    <3> QED
      BY <3>1, <3>2
  <2> QED
    BY <1>0, <2>1, <2>2, <2>4 DEF ImportInv, AsFinal
<1>4. ASSUME NEW w \in Workers, NEW j \in Jobs, Take(w, j) PROVE ImportInv' /\ AsFinal
  <2> DEFINE held == IF status[j] = "NONE" THEN worker[w] ELSE [job |-> j, seen |-> status[j]]
  <2>1. /\ worker[w] = IdleWorker /\ queue[j] > 0 /\ queue' = [queue EXCEPT ![j] = queue[j] - 1]
        /\ UNCHANGED <<upload, status, imported, redelivered>>
        /\ worker' = [worker EXCEPT ![w] = held]
    BY <1>0, <1>4 DEF Take, ImportType
  <2>2. queue' \in [Jobs -> Nat] /\ queue'[j] = queue[j] - 1 /\ queue[j] \in Nat
        /\ \A k \in Jobs \ {j} : queue'[k] = queue[k]
    BY <1>0, <2>1 DEF ImportType
  <2>3. /\ held \in [job : Jobs \cup {NoJob}, seen : ImportStatus]
        /\ held # IdleWorker => held.job = j /\ held.seen = status[j] /\ status[j] # "NONE"
    BY <1>0, <2>1 DEF ImportType, IdleWorker
  <2>4. worker' \in [Workers -> [job : Jobs \cup {NoJob}, seen : ImportStatus]]
        /\ worker'[w] = held /\ \A v \in Workers \ {w} : worker'[v] = worker[v]
    BY <1>0, <2>1, <2>3 DEF ImportType
  <2> HIDE DEF held
  <2>5. ImportType'
    BY <1>0, <2>1, <2>2, <2>3, <2>4 DEF ImportType
  <2>6. \A k \in Jobs \ {j} : \A v \in Workers : Parsing(v, k)' => Parsing(v, k) /\ worker'[v] = worker[v]
    BY <2>3, <2>4 DEF Parsing
  <2>7. RouteInv(j)' /\ OneMessage(j)' /\ SeenInv(j)'
    <3>1. RouteInv(j)'
      BY <1>0, <2>1, <2>2 DEF RouteInv
    <3>2. OneMessage(j)'
      BY <1>0, <2>1, <2>2, <2>4 DEF OneMessage, Parsing
    <3>3. SeenInv(j)'
      BY <1>0, <2>1, <2>3, <2>4 DEF SeenInv, Parsing
    <3> QED
      BY <3>1, <3>2, <3>3
  <2>8. \A k \in Jobs \ {j} : RouteInv(k)' /\ OneMessage(k)' /\ SeenInv(k)'
    BY <1>1, <2>1, <2>2, <2>6
  <2> QED
    BY <1>0, <2>1, <2>5, <2>7, <2>8 DEF ImportInv, AsFinal
\* A worker that ends holds no message any more.
<1>5. ASSUME NEW w \in Workers, worker[w] # IdleWorker,
             worker' = [worker EXCEPT ![w] = IdleWorker], UNCHANGED <<upload, queue>>
      PROVE  /\ worker' \in [Workers -> [job : Jobs \cup {NoJob}, seen : ImportStatus]]
             /\ \A v \in Workers :
                  worker'[v] # IdleWorker => worker'[v].job \in Jobs /\ worker'[v].seen # "NONE"
             /\ \A v \in Workers, j \in Jobs :
                  Parsing(v, j)' => v # w /\ Parsing(v, j) /\ worker'[v] = worker[v]
  <2>1. IdleWorker \in [job : Jobs \cup {NoJob}, seen : ImportStatus]
    BY DEF IdleWorker, ImportStatus
  <2>2. worker' \in [Workers -> [job : Jobs \cup {NoJob}, seen : ImportStatus]]
        /\ worker'[w] = IdleWorker /\ \A v \in Workers \ {w} : worker'[v] = worker[v]
    BY <1>0, <1>5, <2>1 DEF ImportType
  <2> QED
    BY <1>0, <2>2 DEF ImportType, Parsing
<1>6. ASSUME NEW w \in Workers, Abandon(w) PROVE ImportInv' /\ AsFinal
  <2>1. /\ worker[w] # IdleWorker /\ worker' = [worker EXCEPT ![w] = IdleWorker]
        /\ UNCHANGED <<upload, status, imported, queue, redelivered>>
    BY <1>6 DEF Abandon
  <2>2. ImportType'
    BY <1>0, <1>5, <2>1 DEF ImportType
  <2>3. \A j \in Jobs : RouteInv(j)' /\ OneMessage(j)' /\ SeenInv(j)'
    BY <1>1, <1>5, <2>1
  <2> QED
    BY <1>0, <2>1, <2>2, <2>3 DEF ImportInv, AsFinal
\* The verdict is judged by the copy, and nobody else has marked the job since.
<1>7. ASSUME NEW w \in Workers, Mark(w) PROVE ImportInv' /\ AsFinal
  <2>1. PICK j \in Jobs : j = worker[w].job /\ Parsing(w, j)
    BY <1>0, <1>7 DEF Mark, ImportType, Parsing
  <2>2. /\ worker[w] # IdleWorker /\ worker' = [worker EXCEPT ![w] = IdleWorker]
        /\ UNCHANGED <<upload, imported, queue, redelivered>>
        /\ status' = IF LegalVerdict(w) THEN [status EXCEPT ![j] = ParseVerdict(j)] ELSE status
    BY <1>7, <2>1 DEF Mark
  <2>3. /\ worker' \in [Workers -> [job : Jobs \cup {NoJob}, seen : ImportStatus]]
        /\ \A v \in Workers :
             worker'[v] # IdleWorker => worker'[v].job \in Jobs /\ worker'[v].seen # "NONE"
        /\ \A v \in Workers, k \in Jobs :
             Parsing(v, k)' => v # w /\ Parsing(v, k) /\ worker'[v] = worker[v]
    BY <1>5, <2>2
  <2>4. ParseVerdict(j) \in {"PARSED", "PARSE_FAILED"}
    BY DEF ParseVerdict
  <2>5. CASE ~LegalVerdict(w)
    <3>1. ImportType'
      BY <1>0, <2>2, <2>3, <2>5 DEF ImportType
    <3>2. \A k \in Jobs : RouteInv(k)' /\ OneMessage(k)' /\ SeenInv(k)'
      BY <1>1, <2>2, <2>3, <2>5
    <3> QED
      BY <1>0, <2>2, <2>5, <3>1, <3>2 DEF ImportInv, AsFinal
  <2>6. CASE LegalVerdict(w)
    <3>1. worker[w].seen = "PENDING"
      <4>1. worker[w].seen \in {"NONE", "PENDING", "PARSED", "PARSE_FAILED", "ACCEPTED"}
        BY <1>0 DEF ImportType, ImportStatus
      <4>2. worker[w].seen # "NONE"
        BY <1>0, <2>1 DEF ImportType, Parsing
      <4> QED
        BY <2>1, <2>4, <2>6, <4>1, <4>2 DEF LegalVerdict, LegalTransitions
    <3>2. status[j] = "PENDING"
      BY <1>0, <2>1, <3>1 DEF SeenInv
    <3>3. /\ status' \in [Jobs -> ImportStatus] /\ status'[j] \in {"PARSED", "PARSE_FAILED"}
          /\ \A k \in Jobs \ {j} : status'[k] = status[k]
      BY <1>0, <2>2, <2>4, <2>6 DEF ImportType, ImportStatus
    <3>4. ImportType'
      BY <1>0, <2>2, <2>3, <3>3 DEF ImportType
    <3>5. \A k \in Jobs \ {j} : RouteInv(k)' /\ OneMessage(k)' /\ SeenInv(k)'
      BY <1>1, <2>2, <2>3, <3>3
    <3>6. \A v \in Workers : ~Parsing(v, j)'
      BY <1>0, <2>1, <2>3 DEF NoOverlap, OneMessage
    <3>7. RouteInv(j)'
      BY <1>0, <2>1, <2>2 DEF RouteInv
    <3>8. OneMessage(j)' /\ SeenInv(j)'
      BY <1>0, <2>2, <3>6 DEF OneMessage, SeenInv
    <3> QED
      BY <1>0, <2>2, <3>2, <3>3, <3>4, <3>5, <3>7, <3>8 DEF ImportInv, AsFinal
  <2> QED
    BY <2>5, <2>6
<1>8. ASSUME NEW j \in Jobs, Accept(j) PROVE ImportInv' /\ AsFinal
  <2>1. /\ status' = [status EXCEPT ![j] = "ACCEPTED"] /\ UNCHANGED <<upload, queue, redelivered, worker>>
        /\ imported' = [imported EXCEPT ![j] = imported[j] + 1]
        /\ status[j] \in ImportStatus
    BY <1>0, <1>8 DEF Accept, CreateTasks, ImportType
  <2>2. status[j] = "PARSED"
    BY <1>8, <2>1 DEF Accept, MayAccept, LegalTransitions, ImportStatus
  <2>3. ImportType'
    BY <1>0, <2>1 DEF ImportType, ImportStatus
  <2>4. \A k \in Jobs, w \in Workers : (Parsing(w, k)' <=> Parsing(w, k)) /\ worker'[w] = worker[w]
    BY <2>1 DEF Parsing
  <2>5. /\ status'[j] = "ACCEPTED" /\ imported'[j] = 1
        /\ \A k \in Jobs \ {j} : status'[k] = status[k] /\ imported'[k] = imported[k]
    BY <1>0, <2>1, <2>2 DEF ImportType
  <2>6. RouteInv(j)' /\ OneMessage(j)' /\ SeenInv(j)'
    BY <1>0, <2>1, <2>2, <2>4 DEF RouteInv, OneMessage, SeenInv
  <2>7. \A k \in Jobs \ {j} : RouteInv(k)' /\ OneMessage(k)' /\ SeenInv(k)'
    BY <1>1, <2>1, <2>4, <2>5
  <2> QED
    BY <1>0, <2>2, <2>3, <2>5, <2>6, <2>7 DEF ImportInv, AsFinal
<1>9. CASE UNCHANGED importVars
  BY <1>0, <1>1, <1>9 DEF importVars, ImportInv, ImportType, AsFinal, Parsing
<1> QED
  BY <1>2, <1>3, <1>4, <1>6, <1>7, <1>8, <1>9 DEF ImportNext

LEMMA ImportStart == ASSUME ImportInit PROVE ImportInv
<1>1. ImportType
  BY ImportAssumption
     DEF ImportInit, ImportType, UploadState, ImportStatus, NotSent, IdleWorker, ImportAssumption
<1>2. \A j \in Jobs : RouteInv(j) /\ OneMessage(j) /\ SeenInv(j)
  <2> SUFFICES ASSUME NEW j \in Jobs PROVE RouteInv(j) /\ OneMessage(j) /\ SeenInv(j)
    OBVIOUS
  <2>1. upload[j].at = "NOT_SENT" /\ upload[j].done = 0 /\ status[j] = "NONE" /\ queue[j] = 0
    BY DEF ImportInit, NotSent
  <2>2. \A w \in Workers : ~Parsing(w, j)
    BY DEF ImportInit, Parsing
  <2> QED
    BY <2>1, <2>2 DEF RouteInv, OneMessage, SeenInv
<1>3. \A j \in Jobs : imported[j] = IF status[j] = "ACCEPTED" THEN 1 ELSE 0
  BY DEF ImportInit
<1> QED
  BY <1>1, <1>2, <1>3 DEF ImportInv

\* Unless deliveries of one message can overlap, no job leaves a terminal status:
\* judging the copy is enough, as nobody else marks a job while it is parsed.
THEOREM FinalWithoutOverlap ==
  ASSUME NoOverlap PROVE ImportSpec => TerminalIsFinal
<1>1. ImportInv /\ [ImportNext]_importVars => [AsFinal]_importVars
  BY ImportStep
<1>2. ImportInv /\ [ImportNext]_importVars => ImportInv'
  BY ImportStep
<1> QED
  BY <1>1, <1>2, ImportStart, PTL DEF ImportSpec, TerminalIsFinal, AsFinal

\* Nor are the Tasks of a workbook created twice.
THEOREM AcceptedOnceWithoutOverlap ==
  ASSUME NoOverlap PROVE ImportSpec => []AcceptedOnce
<1>1. ImportInv => AcceptedOnce
  <2> SUFFICES ASSUME ImportInv, NEW j \in Jobs PROVE imported[j] <= 1
    BY DEF AcceptedOnce
  <2>1. imported[j] = 0 \/ imported[j] = 1
    BY DEF ImportInv
  <2> QED
    BY <2>1
<1>2. ImportInv /\ [ImportNext]_importVars => ImportInv'
  BY ImportStep
<1> QED
  BY <1>1, <1>2, ImportStart, PTL DEF ImportSpec

================================================================================
