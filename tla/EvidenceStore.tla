----------------------------- MODULE EvidenceStore -----------------------------
(***************************************************************************)
(* An evidence file between the database and the blob store                *)
(* (validation_evidence/commands.py, webhook.py, core/storage.py; ADR-024).*)
(* attach_file uploads the blob and record_scan_result quarantines it      *)
(* inside a transaction that holds the row and commits afterwards, so that *)
(* a crash or a failure leaves the two as far apart as the steps were.     *)
(*                                                                         *)
(* External: the blob store; Defender, which scans an upload and may scan  *)
(* it again with another verdict; Event Grid, which relays a verdict at    *)
(* least once and again after any answer but success.                      *)
(*                                                                         *)
(* Who may attach, file types and sizes are left out; TaskLifecycle has    *)
(* the items a Task counts.                                                *)
(***************************************************************************)
EXTENDS Integers

CONSTANTS
  Items,
  Callers,        \* transactions at a time, uploads and webhook calls
  Planned,        \* the planned:// uri of a handshake row
  MaxUploads,     \* bound: uploads of each item
  MaxFailures     \* bound: crashes and failing calls

Verdict == {"CLEAN", "INFECTED"}
Blob == [item : Items, upload : 1 .. MaxUploads, quarantined : BOOLEAN]

ASSUME StoreAssumption ==
  MaxUploads \in Nat /\ MaxFailures \in Nat /\ Planned \notin Blob

Notice == [blob : Blob, verdict : Verdict]

VARIABLES
  scanner,        \* the adapter in use: mock or defender
  evidence,       \* blob_uri and malware_scan_status as committed
  store,          \* the blobs there are
  uploads,        \* uploads of each item so far
  txn,            \* the transaction of each request
  notices,        \* verdicts Event Grid still relays
  failures

evidenceVars == <<scanner, evidence, store, uploads, txn, notices, failures>>

NoTxn == [pc |-> "IDLE"]
\* A transaction on e that has come to pc, for blob b with the scan status s.
Doing(pc, kind, e, b, s) == [pc |-> pc, kind |-> kind, item |-> e, blob |-> b, scan |-> s]

\* Only a webhook call that has found its item does not hold the row.
ItemLocked(e) == \E r \in Callers : txn[r].pc \notin {"IDLE", "FOUND"} /\ txn[r].item = e

Quarantined(b) == [b EXCEPT !.quarantined = TRUE]

\* _apply_verdict moves what is INFECTED.
NextStep(s) == IF s = "INFECTED" THEN "COPY" ELSE "COMMIT"

Continue(r, pc) == txn' = [txn EXCEPT ![r].pc = pc]
End(r) == txn' = [txn EXCEPT ![r] = NoTxn]

\* A success: Event Grid is done with the verdict, or has not heard.
Answered(b, s) == notices' \in {notices, notices \ {[blob |-> b, verdict |-> s]}}

--------------------------------------------------------------------------------
(* POST /evidence/{id}/file                                                 *)

\* lock_evidence; a file that is attached already is refused.
LockForAttach(r, e) ==
  /\ txn[r] = NoTxn /\ ~ItemLocked(e) /\ evidence[e].uri = Planned
  /\ uploads[e] < MaxUploads
  /\ txn' = [txn EXCEPT ![r] = Doing("UPLOAD", "attach", e, Planned, "PENDING")]
  /\ UNCHANGED <<scanner, evidence, store, uploads, notices, failures>>

\* The mock adapter decides at once, Defender tells the webhook.
Scan(v) == IF scanner = "mock" THEN v ELSE "PENDING"

\* The upload under a new name, the row filled in, and the scan.
UploadBlob(r) ==
  LET e == txn[r].item
      b == [item |-> e, upload |-> uploads[e] + 1, quarantined |-> FALSE] IN
  /\ txn[r].pc = "UPLOAD"
  /\ uploads' = [uploads EXCEPT ![e] = @ + 1]
  /\ store' = store \cup {b}
  /\ \E v \in Verdict :
       /\ txn' = [txn EXCEPT ![r] = Doing(NextStep(Scan(v)), "attach", e, b, Scan(v))]
       /\ notices' = IF scanner = "mock" THEN notices
                     ELSE notices \cup {[blob |-> b, verdict |-> v]}
  /\ UNCHANGED <<scanner, evidence, failures>>

--------------------------------------------------------------------------------
(* POST /internal/malware-result                                            *)

Rescan(n) ==
  /\ n \in notices
  /\ notices' = notices \cup {[n EXCEPT !.verdict = IF @ = "CLEAN" THEN "INFECTED" ELSE "CLEAN"]}
  /\ UNCHANGED <<scanner, evidence, store, uploads, txn, failures>>

AnswerUnknown(n) == notices' = notices \ {n}
\* EvidenceNotFoundError: a 404, after which Event Grid tries again.
RefuseUnknown(n) == UNCHANGED notices

\* find_evidence_by_blob_uri, without a lock.
Receive(r, n) ==
  /\ txn[r] = NoTxn /\ n \in notices
  /\ IF \E e \in Items : evidence[e].uri = n.blob
     THEN /\ txn' = [txn EXCEPT ![r] =
                       Doing("FOUND", "webhook", n.blob.item, n.blob, n.verdict)]
          /\ UNCHANGED notices
     ELSE RefuseUnknown(n) /\ UNCHANGED txn
  /\ UNCHANGED <<scanner, evidence, store, uploads, failures>>

\* Mutant: as if the status were that of the copy found, which was PENDING.
FoundUndecided(r) == txn[r].pc = "FOUND"
Undecided(r) == evidence[txn[r].item].scan = "PENDING"

\* lock_evidence; a final status is left as it is.
LockForVerdict(r) ==
  /\ txn[r].pc = "FOUND" /\ ~ItemLocked(txn[r].item)
  /\ IF Undecided(r)
     THEN Continue(r, NextStep(txn[r].scan)) /\ UNCHANGED notices
     ELSE End(r) /\ Answered(txn[r].blob, txn[r].scan)
  /\ UNCHANGED <<scanner, evidence, store, uploads, failures>>

--------------------------------------------------------------------------------
(* ObjectStore.move, and the commit                                         *)

\* download and upload; a blob that is gone ends the transaction (FailCall).
Copy(r) ==
  /\ txn[r].pc = "COPY" /\ txn[r].blob \in store
  /\ store' = store \cup {Quarantined(txn[r].blob)}
  /\ Continue(r, "DELETE")
  /\ UNCHANGED <<scanner, evidence, uploads, notices, failures>>

Delete(r) ==
  /\ txn[r].pc = "DELETE"
  /\ store' = store \ {txn[r].blob}
  /\ Continue(r, "COMMIT")
  /\ UNCHANGED <<scanner, evidence, uploads, notices, failures>>

OldUri(r) == txn[r].blob
\* What the row names in the end: move returns the new uri.
NewUri(r) == IF txn[r].scan = "INFECTED" THEN Quarantined(txn[r].blob) ELSE txn[r].blob

CommitTxn(r) ==
  LET t == txn[r] IN
  /\ t.pc = "COMMIT"
  /\ evidence' = [evidence EXCEPT ![t.item] = [uri |-> NewUri(r), scan |-> t.scan]]
  /\ End(r)
  /\ IF t.kind = "webhook" THEN Answered(t.blob, t.scan) ELSE UNCHANGED notices
  /\ UNCHANGED <<scanner, store, uploads, failures>>

--------------------------------------------------------------------------------
(* Failures                                                                 *)

\* The process dies, or the commit fails: rolled back, the blobs stay.
Crash(r) ==
  /\ txn[r] # NoTxn /\ failures < MaxFailures
  /\ failures' = failures + 1
  /\ End(r)
  /\ UNCHANGED <<scanner, evidence, store, uploads, notices>>

\* A call raises inside attach_file, which then deletes what it uploaded, or
\* inside record_scan_result, which does not.
FailCall(r) ==
  /\ txn[r] # NoTxn
  /\ IF txn[r].pc = "COPY" /\ txn[r].blob \notin store THEN UNCHANGED failures
     ELSE failures < MaxFailures /\ failures' = failures + 1
  /\ store' = IF txn[r].kind = "attach" THEN store \ {txn[r].blob} ELSE store
  /\ End(r)
  /\ UNCHANGED <<scanner, evidence, uploads, notices>>

--------------------------------------------------------------------------------
EvidenceInit ==
  /\ scanner \in {"mock", "defender"}
  /\ evidence = [e \in Items |-> [uri |-> Planned, scan |-> "PENDING"]]
  /\ store = {}
  /\ uploads = [e \in Items |-> 0]
  /\ txn = [r \in Callers |-> NoTxn]
  /\ notices = {}
  /\ failures = 0

EvidenceNext ==
  \/ \E r \in Callers :
       \/ \E e \in Items : LockForAttach(r, e)
       \/ \E n \in Notice : Receive(r, n)
       \/ UploadBlob(r) \/ LockForVerdict(r) \/ Copy(r) \/ Delete(r) \/ CommitTxn(r)
       \/ Crash(r) \/ FailCall(r)
  \/ \E n \in Notice : Rescan(n)

(* A transaction that can go on does, PostgreSQL serves who waits for a row *)
(* in turn, and Event Grid keeps trying.  Nobody has to attach.             *)
GoOn(r) == UploadBlob(r) \/ Copy(r) \/ Delete(r) \/ CommitTxn(r) \/ FailCall(r)

EvidenceFairness ==
  /\ \A r \in Callers : WF_evidenceVars(GoOn(r)) /\ SF_evidenceVars(LockForVerdict(r))
  /\ \A e \in Items :
       SF_evidenceVars(\E r \in Callers, n \in Notice : n.blob.item = e /\ Receive(r, n))

EvidenceSpec == EvidenceInit /\ [][EvidenceNext]_evidenceVars /\ EvidenceFairness

--------------------------------------------------------------------------------
(* Correctness                                                              *)

Attached(e) == evidence[e].uri # Planned
Decided(e) == evidence[e].scan \in Verdict

\* A verdict that is final is never overwritten, by a repeated or a
\* contradicting one (webhook.py:3-4; commands.py:510-511).
FinalVerdict == [][\A e \in Items : Decided(e) => evidence'[e] = evidence[e]]_evidenceVars

\* A row with a verdict names a quarantined blob if and only if it is
\* INFECTED, and its bytes are there: under that name, or in quarantine when
\* a CLEAN verdict follows a move whose transaction failed (commands.py,
\* _apply_verdict; ADR-024).
VerdictNamesBlob ==
  \A e \in Items : Decided(e) =>
    /\ evidence[e].scan = "INFECTED" <=> evidence[e].uri.quarantined
    /\ evidence[e].uri \in store \/ Quarantined(evidence[e].uri) \in store

\* An attached file gets its verdict, although calls fail, processes die and
\* verdicts come before the upload's commit, unless a move took the blob away
\* and its transaction failed afterwards (webhook.py, record_scan_result).
VerdictLands ==
  \A e \in Items : Attached(e) ~> (Decided(e) \/ evidence[e].uri \notin store)
===============================================================================
