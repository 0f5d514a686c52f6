# SyntrixDR in TLA+

Syntrix DR Command Center is a FastAPI application (`src/apps/api/app`) over PostgreSQL, Redis, a
Celery worker with its beat, and a blob store. It runs disaster-recovery exercises: a DR Event holds
Applications to recover and Tasks to do; Tasks depend on one another, are stopped by Blockers,
checked by Validations, held to Evidence, and add up to Milestones. Every write is a request with an
`Idempotency-Key`, one database transaction under READ COMMITTED that locks rows `FOR UPDATE`,
checks authority, a version and a status, writes its rows, an audit row and an outbox row, and
commits all of it. Next to the requests run two periodic sweeps and one background job.

What is hard in it is not a single command. It is what several of them do to rows they share, in
orders no test has been written for, and what is left when one of them stops half way.

All paths below are relative to `src/apps/api/app` unless they start with `docs/` or `src/`.
`PROJECT.json` holds, in machine-readable form, the components, the runs, the lines each definition
stands for (`map`), the hazards with the properties that cover them, and the mutants.

## 1. Inventory

| Component | State | Operations | Modules |
|---|---|---|---|
| Task lifecycle (`tasks_dependencies/transition_service.py`) | `tasks`: status, version, assignee, requirements | start, block, resume, submit-validation, validate, cancel | `TaskLifecycle` |
| Task metadata, assignment (`tasks_dependencies/commands.py`, `resources_skills/`) | the same rows, the audit rows of versioned changes | PATCH, assign, volunteer, Manager precedence | `TaskLifecycle` |
| Validations, Evidence as a Task counts it (`validation_evidence/`) | `validations`, `evidence_items` | open, approve, reject, withdraw; create, attach, scan result | `TaskLifecycle` |
| Dependency graph (`tasks_dependencies/dependency_service.py`, `queries.py`) | `task_dependencies`, `milestone_dependencies`, an advisory lock | add, remove, gates, import; cycle check, readiness check | `DependencyGraph`, `CycleSearch` |
| Milestones (`milestones/`) | `milestones`, `milestone_tasks` | create, recompute, confirm, MISSED sweep | `MilestoneRules`, `MilestoneDerivation`, `MilestoneProgress`, `TaskLifecycle` |
| Blockers and escalation (`blockers/`) | `blockers`, BLOCKER_ESCALATED `alerts`, participants | create, assign, start, resolve, verify, acknowledge, sweep | `BlockerDesk`, `TaskLifecycle` |
| DR Events and Applications (`dr_events/`) | `dr_events` (a tree), `dr_applications` | create, activate, start-failover, mark-failed-over, start-failback, close, cancel; submit-validation, validate | `DrEventLifecycle` |
| Idempotency (`core/idempotency.py`) | `idempotency_keys` | lookup, insert, reset when expired, complete | `Idempotency`, `CommandOnce` |
| Excel import (`plans_import/`) | `import_jobs`, Celery messages | upload, enqueue, parse, accept | `ImportJob`, `DependencyGraph` |
| Evidence files (`validation_evidence/`, `core/storage.py`) | an `evidence_items` row and blobs | attach, scan, webhook, quarantine | `EvidenceStore` |
| Sessions (`identity_auth/session_store.py`, `dependencies.py`) | a hash in Redis and a row of `sessions` each | the end of a login, touch, logout, expiry | `Sessions` |
| Local accounts (`identity_auth/commands.py`) | `local_credentials`, `password_reset_tokens` | local_login, reauth, reset of the password, enrolment of TOTP | `LocalAccount` |
| Policies (`policies_admin/`) | `policy_values`, the row of `file_policies` | set_policy_value, update_file_policy | `PolicyEdits` |
| Application catalogue (`applications_catalog/`) | `applications`, `recovery_tiers`, owner slots | PATCH, PUT of Tiers, PUT of owners | `RowEdits`, `VersionedRows`, `OwnerEdits` |
| Plans and versions, Issues, comments and notifications, organisation, work streams | their own tables | | not modelled, see section 8 |

### How they interact

- **Calls inside one transaction.** Every Task command ends in `on_task_changed`, which recomputes the
  Milestones the Task contributes to. Verifying the last Blocker calls the Task's
  `resume_after_last_blocker`; `block` creates a Blocker; submit and cancel open and close
  Validations; accepting a workbook creates Tasks and dependencies.
- **Shared rows.** Blocker commands lock the Task before the Blocker (ADR-049). The creation of a
  Milestone inserts foreign keys to Tasks, whose KEY SHARE locks meet a Task command's FOR UPDATE.
  Application commands lock the Application and read the Event without a lock.
- **Reads without a lock.** `start` reads predecessors and gates; both sweeps select candidates and
  lock afterwards; the webhook looks an item up by its uri and locks afterwards; the parse job loads
  the row and locks afterwards; resets, enrolments and the owners' slots are read and written back
  later, and SQLAlchemy leaves a column out that is assigned what the copy says.
- **Two stores.** A session is a hash in Redis and a row in PostgreSQL, an evidence file a row and a
  blob; the calls to Redis and to the blob store are not rolled back with the transaction.
- **Messages.** The import route commits and then enqueues; Celery acknowledges early and redelivers
  what was prefetched. Event Grid relays scan verdicts at least once. Clients repeat requests.

### What makes each part correct

- *Tasks*: a BLOCKED Task has something that blocks it; nothing completes without the evidence, the
  note and the second person it needs; nothing starts ahead of its upstream unless an override names
  what was skipped; a version identifies a row's content over all writers.
- *Dependency graph*: no interleaving commits a cycle; the two cycle checks agree.
- *Milestones*: what they say follows from their Tasks, under concurrent transactions; nothing
  deadlocks.
- *Events*: Applications stay in step with their Event; what has ended stays as it was.
- *Blockers*: escalated exactly once when nobody takes them, and not at all when somebody does.
- *Idempotency*: one effect in 24 hours, and every answer tells it.
- *Files*: a verdict is final, arrives, and the row names bytes that are there.
- *Imports*: a workbook's Tasks are created once; no job is stranded while its message lives.
- *Sessions*: nobody is served in a session that was over; the two stores agree.
- *Accounts*: wrong answers are bounded, a token is spent once, a second factor stays.
- *Policies, catalogue*: one current value for a key; edits take effect on what their author has seen.

## 2. Modules

| Module | Models | Rests on |
|---|---|---|
| `TaskLifecycle` | Task, Blocker, Validation, Evidence, assignment and Milestone commands as atomic steps | `MilestoneRules` |
| `MilestoneRules` | `derive_target` and `recompute` as operators | |
| `MilestoneDerivation` | abstract: a Task and its Milestones change in one step | `MilestoneRules` |
| `MilestoneProgress` | the same as transactions with locks, flushed writes, aborts; implements `MilestoneDerivation` | `MilestoneRules` |
| `GraphRules` | reachability and acyclicity, the reference definitions | |
| `DependencyGraph` | all writers of the graph under the advisory lock | `GraphRules` |
| `CycleSearch` | `cycle_path` and `has_cycle`, one step per loop iteration | `GraphRules` |
| `DrEventLifecycle` | the Event tree and the Applications | |
| `BlockerDesk` | who works on a Blocker, and the escalation sweep | |
| `CommandOnce` | abstract: what an Idempotency-Key promises | |
| `Idempotency` | the lookup, locks, unique index and commit; implements `CommandOnce` | |
| `ImportJob` | upload route, broker, workers, accept | |
| `EvidenceStore` | row, blob store, scanner and webhook | |
| `Sessions` | login, touch, logout and expiry over PostgreSQL and Redis, call by call | |
| `LocalAccount` | one credential: attempts, lockout, reset tokens, second factor | |
| `PolicyEdits` | policy values and the file policy they mirror | |
| `VersionedRows` | abstract: what `expected_version` promises | |
| `RowEdits` | PATCH and batches row by row under locks; implements `VersionedRows` | |
| `OwnerEdits` | the owner slots, read without a lock and replaced | |
| `TaskLifecycleProofs`, `MilestoneProgressProofs`, `DependencyGraphProofs`, `CycleSearchProofs`, `DrEventProofs`, `BlockerDeskProofs` | theorems about the module each is named after | TLAPS |
| `RequestProofs` | theorems about `Idempotency`, `EvidenceStore`, `ImportJob` | TLAPS |
| `AdministrationProofs` | theorems about `Sessions`, `LocalAccount`, `PolicyEdits`, `RowEdits` | TLAPS |
| `MC*` | instances for TLC | |

A refused command (403, 404, 409, 422) changes nothing, so it is a step the action does not have: its
guards are the negations of the code's early returns.

**TaskLifecycle.** `task`, `blocker`, `validation`, `evidence` and `milestone` are the rows;
`overrides` the rows of `event_overrides`. `seen[t]` is a copy of the row some client has read, which
carries the `expected_version` of the next request; `since[t]` is what `task_changes_after` returns
for it. A command is one step because it takes the Task row FOR UPDATE before it reads anything it
decides on. `start` reads other Tasks and Milestones without their locks, but only asks whether they
are COMPLETED or ACHIEVED, which nothing leaves. The Users are participants of the Event and hold
fixed authorities; Tasks are of an Application and of one Work Stream, with `OtherStream` naming
upstream outside it. Blocker and evidence commands drop the actor, whose rights `BlockerDesk` has.
Task rows exist from `Init` on, as `create_draft_task` leaves them.

**MilestoneProgress.** `write` is what a transaction has flushed and not committed, `todo` the
Milestones it has still to lock, in id order. A Task command locks the Task, then each Milestone, and
reads its contributors after the lock; `create_milestone` takes KEY SHARE locks; the sweep selects
first and locks later; any transaction may abort. The refinement maps committed rows to
`MilestoneDerivation`'s, so each commit has to be one of its steps.

**DependencyGraph.** A transaction's uncommitted rows are its own. It takes the
graph lock before it checks, and holds it to its end. Whether a path exists is the operator `Reaches`; `CycleSearch` is the
justification for treating the search as that operator.

**CycleSearch.** Takes an arbitrary graph and a proposed edge and runs both algorithms on them.

**DrEventLifecycle.** Event commands are one step: they hold the Event FOR UPDATE, and every other
writer needs a KEY SHARE on it. An Application command is two, since it reads the Event unlocked, and
so is creating a child, which shares its parent's row. Versions, override rows, roles and the baseline
snapshot are left out. `failback_required` is set before the behaviour starts: no command writes it.

**BlockerDesk.** Each command holds the Blocker and is one step. A sweep is one long transaction
(`BeginSweep`, `Check`, `Lock`, `CommitSweep`) with its candidates, locks and unflushed alerts;
several overlap, since the beat starts one every 30 s whether or not the last has ended. The tier's
minutes are `TimerRunsOut`. Of who sees the Event, what the Blocker commands add and check is there.

**Idempotency.** A request goes through `Arrive` (lookup, waiting for a locked row), insert or reset,
the command, `Commit` or `Fail`. Waiting for the unique index and for the row are both there. The
answer may be lost. `effects` and `answers` record what `CommandOnce` speaks about.

**ImportJob.** The route is a list of steps, commit before enqueue. A worker reads the job without a
lock (`Take`) and writes later (`Mark`), judging the status it saw first: `session.get` with
`with_for_update` waits for the row but does not refresh what the session holds. `accept` has no
earlier copy. `lost` collects jobs whose message went down with the process that held it.

**EvidenceStore.** A transaction is a sequence of calls, some to the database and some to the blob
store; only the former roll back. `notices` are the verdicts Event Grid still relays, each until a
success is heard. Notices Defender would send about quarantined copies are left out: no row without a
verdict names such a copy, so each is ignored. A copy in quarantine may outlive a failed attach, whose
compensation deletes only the original uri.

**Sessions.** A login is its calls in order: the row, HSET, EXPIRE, commit, cookie; a request is
HGETALL, the judgement by the clock, HSET of one field, EXPIRE, the user, and for a logout the DEL and
the commit. Any of them may be the last. `hash` is Redis' side, where a `whole` hash has all the
fields `touch` asks for: HSET of one field on a key that has gone makes one that is not whole and has
no TTL. `used` is history, from which `Live` says what a session should allow. The module does not
bring back a hash that a broken login or touch left without a TTL: it stays in Redis, and `touch`
refuses it.

**LocalAccount.** Logins and re-authentications hold the row from the moment they read it, so each is
one step after `Ask`, which takes the clock; resets and enrolments read first and write in a later
step, through `Written`, which is SQLAlchemy's rule for the columns of an UPDATE. Whether a password
or a code is right is left open.

**PolicyEdits.** A transaction takes its locks in the order of `Todo` (the row of the file policy, or
nothing; then the advisory lock of each key) and commits all its values at the end.

**RowEdits.** `edit` is the batch, the versions its author has seen and how many of its rows are
locked. The refinement maps an edit to the set of (row, version) pairs it still may apply: the batch
is applied as a whole at the commit, or not at all.

**OwnerEdits.** `ReadOwners` is the SELECT, `WriteOwners` the flush and the commit.

## 3. Runs

| Run | Shows | Distinct states |
|---|---|---|
| `task_one` | the rows of one Task stay consistent; stale versions are not acted on; precedence overrules only assignments | 1.02 M |
| `task_chain` | HARD chain, gate and Milestones follow the Tasks | 1.47 M |
| `milestone_transactions` | the transactions implement `MilestoneDerivation`, do not deadlock, end | 128 k |
| `dependency_graph` | no cycle is committed; imports drop only what would close one | 52 k |
| `cycle_search` | both algorithms against reachability, on every graph of four nodes | 551 k |
| `dr_event` | Event tree, Applications and their Validations keep in step | 661 k |
| `dr_event_failback` | **violation**, section 6 | |
| `blocker_desk` | escalated once, eventually, and only while unrouted; resolvers see the Event | 1.07 M |
| `requests` | a file's verdict is final and lands, a stored job is parsed, requests with a key end | 13.7 k |
| `import_overlap` | **violation**, section 6 | |
| `administration` | sessions, accounts, policies, versioned rows and the Idempotency-Key, safety and two refinements | 583 k |
| `owners` | **violation**, section 6 | |

`task_one`, `task_chain`, `blocker_desk` and `administration` are the long ones, one to four minutes with two workers.
Every property of a passing run has a mutant in `PROJECT.json`: a plausible bug in one definition
under which TLC finds the property violated in the same run.

`requests` and `administration` put protocols side by side that share nothing. In their `MC` modules
a protocol moves only while the others are in their initial states, so that each is explored in full
and their states add up: a product would multiply them and find nothing more. `Idempotency` is in
both: with its fairness and two requests in `requests`, for its safety with three in `administration`.

### Bounds

- `task_one`: one Task, since its properties relate the rows of one Task; two Blockers (the second is
  verified after, or together with, the first), two Validations (reject, then submit again), two
  Evidence items for a minimum of up to two, a Coordinator, a Manager and an Executor (the Manager and
  the Executor are in the Team). `MaxVersion = 6` allows block, verify, submit, reject and submit
  again, and precedence over several stale changes.
- `task_chain`: two Tasks, a predecessor that is also behind a gate, an AUTOMATIC Milestone and a timed
  one. `MaxVersion = 4` leads each Task through start, submit and approval, or through a Blocker.
- `milestone_transactions`: two transactions that may abort, over two Tasks and two Milestones with
  overlapping contributors: enough for both lock orders to exist.
- `dependency_graph`: three Tasks, a Milestone, two transactions; the shortest cycle that needs both is
  of length two, the longest here four.
- `cycle_search`: all 4096 graphs over four nodes, cyclic ones included, with every proposed edge, a self
  loop too (a database CHECK keeps self loops out of the table): cycles of every length up to four, two
  shortest paths, components the search never enters.
- `dr_event`: two Events, either of which may become the other's child, an Application each, three
  users (submitter, barred validator, another), two transactions.
- `blocker_desk`: two Blockers (a sweep holds one while it waits for the other), two sweeps, one crash.
- `requests`: of imports two jobs, one worker, two redeliveries; of evidence files one item (items
  share nothing but the store), two transactions, two uploads, two failures: a failing call after a
  crash, at any points; of the Idempotency-Key one key, two bodies, two requests.
- `import_overlap`: two workers, one redelivery.
- `administration`: one session (sessions meet in nothing but the user) and two requests, `IdleTime` 1,
  `FullTime` 2, so that one is shorter than the other and `to` is either of them, a clock of 2 and three
  requests in all, so that a session idles out, is renewed and reaches its end. One account with two
  requests at a time and one token, a lockout at three wrong answers, a window of 2, requests that take up
  to a minute, a lockout of 4 and a clock of 4: wrong answers fall into two windows, a lockout begins in
  one and ends in another, and a request that began before it is judged after it. Two administrators over both
  mirrors and two values. Two editors over three rows, with batches of Tiers in both orders, and
  versions up to 2 (a stale one exists). One key (rows of different keys never meet), two bodies, three
  requests (one works, one waits, one comes late), a clock that reaches the end of the lifetime once.
- `owners`: two requests over the three slots of an owner type.

Symmetry is declared where no liveness property is checked, and only over sets no constant tells apart
(in `administration`, the two requests of each protocol; a third request of `Idempotency` stays).
Deadlock checking is off where the system may really come to rest: every Task ended or at its bound,
every key answered, every file decided.

### Fairness

- *Sweeps* (`BlockerDesk`): weak. The beat starts one every 30 s and a worker runs it
  (`jobs/celery_app.py`). A user is never held to do anything.
- *Idempotency*: strong for each request's steps: a transaction that can go on does, and one that waits
  for a row gets it although others may take it in between, since PostgreSQL queues those who wait.
- *MilestoneProgress*: weak for a transaction's own steps, strong for its locks, for the same reason.
- *CycleSearch*: weak: loops go on.
- *ImportJob*: weak for the steps of a route and of a worker. Nobody has to upload, repeat or accept.
- *EvidenceStore*: weak for a transaction's steps, strong for the webhook's lock, and strong for the
  delivery of each item's verdicts because Event Grid repeats until it hears of success. Nobody has to
  attach.
- *Sessions, accounts, policies, catalogue*: none; their properties are of safety.

## 4. Proofs

For every value of the constants that the assumptions allow, bounds included, TLAPS proves what TLC
checks on the instances above:

| Module | Theorems | Inductive invariant |
|---|---|---|
| `DependencyGraphProofs` | `AlwaysAcyclic`, `GraphInvariant`, `ImportsKeepEdges` | `GraphInv`: besides `TypeOK` and acyclicity of the committed edges, only the holder of the graph lock has inserted edges, with them the graph is acyclic, edges touch only rows that exist, and no two transactions create the same row |
| `TaskLifecycleProofs` | `TypeInvariant` | `Typed`: `TypeOK` and that every Blocker that is not ABSENT stands on a Task |
| | `VersionTheorem`, `PrecedenceTheorem`, `BlockedTheorem`, `SilentResumeTheorem` | `VersionInv`: the audit trail since a copy has exactly the versions between copy and row, equal versions mean equal rows, and while every change since is an assignment, copy and row differ in the assignee only; and `Typed` with `BlockedHasActiveBlocker`, and `OverridesAreOld`: an override was decided on a version the row no longer has, so that one recorded now is a new row |
| | `OneOpenTheorem`, `NoSelfCompletionTheorem`, `CompletionBarTheorem` | `CompletionInv`: adds `ApprovedMeansCompleted`: an approval is found on a COMPLETED Task only, so that a new submission starts from none |
| | `UpstreamTheorem`, `EarnedTheorem`, `UpToDateTheorem` | that COMPLETED and ACHIEVED are final (two lemmas), which is why `start` may read them unlocked |
| `MilestoneProgressProofs` | `ProgressImplementsDerivation` | `ProgressInv`: what a transaction has flushed is what the command would write now; the Task and the Milestones it has flushed are locked, and of a Milestone being created the contributors are under its KEY SHARE, so that nobody else can change what the outcome is computed from |
| | `NoDeadlock` | with it, `OrderInv`: a Milestone a transaction holds comes before those it has still to lock, and only Task commands lock Tasks FOR UPDATE |
| `CycleSearchProofs` | `ShortestCycleFound`, `ReadinessDecides` | `SearchInv`: a node is one deeper than its parent, the successors of what is expanded at most one deeper than it, and the queue is in order of depth, its depths spanning two levels at most; `KahnInv`: a node's count is the number of edges into it from nodes not yet removed, and the edges into removed nodes close no cycle |
| `BlockerDeskProofs` | `EscalatedOnceTheorem`, `AlertTheorem`, `OwnerTheorem`, `HistoryTheorem`, `DeskInvariant` | `DeskInv`: the three invariants, that no two sweeps hold one Blocker, that what a sweep has raised and not committed is of Blockers it holds that are OPEN without an unresolved alert, and that such a Blocker has never had one |
| | `SweepsDoNotDeadlock` | with it, `SweepOrder`: what a sweep holds comes before what it has still to look at |
| `DrEventProofs` | `AppsFollow`, `PendingMatches`, `CompletedValidated`, `EndedRest`, `ParentLast`, `EventInvariant` | `EventInv`: the three invariants with `TypeOK`, and that an Event that is being created does not exist yet and nobody else creates it |
| `AdministrationProofs` | `EditsRefine` | `EditInv`: a transaction holds what it has locked, alone, at the version it expects |
| | `OneValue`, `MirrorsInStep` | `PolicyInv`: both with the types, and that a key a transaction has taken is taken by no other and has the current rows it has read |
| | `TokenSpentOnce`, `FactorRemains` | `TokenInv`: a token somebody holds is unused, and held by one; `FactorInv`: every enrolment under way has read that the factor is not enabled, so that what it assigns is left out of its UPDATE |
| | `FailuresStayBounded` | `FailuresInv`: the wrong answers that may still share a span with a new one are those of the open count and of the count before it, each below the threshold, and each with an answer in its first minute; a lock ends later than the window of every answer so far |
| | `OnlyLiveServed` | `SessionInv`: a whole hash is of a session that has not ended, and its times are within its history; so are the times a request has copied and will write; a request whose session was over when it began is refused at the next place that looks |
| | `TwoStoresAgree` | `AgreeInv`: with `SessionInv`, that a login past its EXPIRE has a hash with a TTL, one that is committed a row, and that a logout that goes on to its commit has ended the session |
| `RequestProofs` | `IdempotencyKept` | `KeyInv`: at most one request is between the insert or reset of a key and its commit, and what it has found of the row is still so; a row tells an effect of its key, with its body, and lasts as long as the latest one forbids another |
| | `VerdictNamed`, `VerdictFinal` | `EvidenceInv`: a row that names a blob names one of its item whose bytes are in the store, in quarantine exactly if the verdict is INFECTED; whoever holds the row found it PENDING, with the blob it works on, and deletes only what it has copied |
| | `FinalWithoutOverlap`, `AcceptedOnceWithoutOverlap` | `ImportInv`: a route commits once and enqueues after that; without a second delivery a job has one message, in the queue or at a worker; what a worker has seen PENDING is PENDING until it marks it |

The cycle argument: an edge is added when there is no path back from its end to its start. `Reaches`
and `AcyclicGraph` are defined without paths (a set closed under successors; every nonempty set of
nodes has one that none of them follows), so that `SafeEdge` and `SafeContributions`, which say what
may be added, need no induction. A part of an acyclic graph is acyclic (`SubgraphAcyclic`), which
takes care of removals. What anybody else would add while a transaction checks, the lock excludes.

The escalation argument: overlapping sweeps are kept apart by the row lock alone, and the alert of a
sweep under way is invisible. What makes the recheck under the lock enough is that a Blocker leaves
OPEN for good and its alert is resolved only then, so that OPEN without an unresolved alert means
never escalated, and the lock keeps it so until the sweep commits.

Each `*Step` lemma has a step per action, and, where one action disturbs several conjuncts, a step per
conjunct below it. The assumptions used are those of the modules (`GraphAssumption`,
`SetsAssumption`, `DeskAssumption`, `EventAssumption`, `NoneAssumption`, `NodesAssumption`,
`ProgressAssumption`, `IdempotencyAssumption`, `StoreAssumption`, `ImportAssumption`,
`SessionAssumption`, `AccountAssumption`, `PolicyAssumption`, `EditAssumption`), which TLC evaluates in
the runs of their modules. They say that ids are numbers, functions have their domains and sentinels
are not members. `AccountAssumption` also says something of the configuration: that a lockout lasts
longer than the window and a request together (30 and 15 minutes by default), without which
`FailuresBounded` has another bound. `FinalWithoutOverlap` and `AcceptedOnceWithoutOverlap` have a
hypothesis of their own, `NoOverlap`: no message is delivered twice, or a single worker takes them all.

The session argument: `Judge` copies nothing of the history but two times, and both are below what the
history allows. Between the copy and the write the key may go away. The write then makes a hash that is
not whole, which no later request takes for a session, so that "whole" implies "not ended" at every
step, whoever writes last. With HSET of the whole mapping (the mutant) it does not.

The refinement of `VersionedRows`: a commit bumps all rows of a batch in one step, and each of them is
still at the version its author has seen, because it was when it was locked and only the holder of the
lock writes it. Two editors may wait for one another; PostgreSQL then ends one, which is `Drop`.

The refinement of `MilestoneDerivation`: until its commit a transaction maps to no step. At the commit
every row it publishes has to be what an indivisible command would give from the committed rows of that
moment, not of the moment it read them. A Task command's Milestones are those that exist and that its
Task contributes to, still, since a Milestone that is created meanwhile needs a KEY SHARE on the Task;
their other contributors may change until the Milestone is locked, and not after, since whoever changes
one has to lock that Milestone before it commits.

The absence of circles: who is waited for is never a `create_milestone` (nobody else names its
Milestone, and its references wait for Task commands, which wait for none of its rows), so all of a
circle but perhaps one would wait for Milestones; of those take the one with the greatest id, and its
holder waits for a greater one. With the order of `target_at` in the sweep (the mutant of
`TransactionsEnd`) there is a circle. The same holds of overlapping escalation sweeps. Both are about
the rows of the model: a foreign key of an alert on its Event is not among them.

The search: a path is a function from an interval, and the distance of a node the least length of one.
No lemma goes by induction over paths: where one is needed, a least counterexample is taken, of a set of
numbers or (by the well-foundedness of strict inclusion) of a finite family of sets. Where
Kahn's algorithm ends early, each node left has an edge into it from those left; in a smallest such set
each also has one out of it, which `AcyclicGraph` excludes.
`Walk`, the reference for the length of a shortest cycle, is defined by paths and not recursively, so
that the module can be proved about.

The bound on wrong answers is 2 * Threshold - 2 in any span of `Window - MaxLag`. It does not hold of a
span of `Window`, which an earlier form of the property said: with three requests and a threshold of
two, one that began before the end of a lock is judged after another has lifted it. Before the proof was
tried the instance was too small to show this.

The Idempotency-Key: a step of `CommandOnce` is taken where an effect commits or an answer is told;
lookups, inserts, resets and waiting are stutters. The window is fresh at a commit because the request
that holds the key has found no row, or one that had expired, and nobody else has written it since.

Not proved, only model-checked: the six liveness properties (`TransactionsEnd`, `SearchesEnd`,
`DueIsEscalated`, `PendingIsParsed`, `VerdictLands`, `RequestsEnd`), since the prover has no rules for
ENABLED and so none for fairness. Every other property of a passing run is stated by a theorem.

## 5. Abstractions a reader should know of

- PostgreSQL is READ COMMITTED with row locks: a statement sees what was committed when it began; FOR
  UPDATE conflicts with itself and with the KEY SHARE of foreign keys.
- One plan: `UpstreamRespected` is stated for dependencies that do not change after a Task has started.
  Adding a HARD dependency behind a running Task is allowed by the code, and says nothing about it.
- `Resume` has the code's two branches, and the one that needs no override is never taken: a BLOCKED
  Task always has an active Blocker (`BlockedTheorem`), since verifying the last one resumes it.
- `HistoryIsNotSelected` is proved (`HistoryTheorem`) and in no run. It speaks of a sweep's selection. A sweep already under way does escalate the
  Blocker of a Task that ends meanwhile; the recheck under the lock looks at the Blocker only.
- Names, reasons, files' bytes, times and wording are left out unless a guard needs one of them.

## 6. Findings

- **`dr_event_failback`** (code and document disagree). `start-failback` moves only Applications that
  are FAILED_OVER at that moment (`dr_events/transition_service.py:405-407`);
  `docs/spec/STATE_MACHINES.md:161` says every Application that requires failback moves in that
  transaction. `mark-failed-over` does not wait for Applications. One approved after failback has
  started is left FAILED_OVER, and nothing moves it on; `close` does not look at it.
- **`import_overlap`** (code). `_load_for_update` of `plans_import/transition_service.py:45` locks the
  row but judges the copy the session holds. Two workers that both read PENDING after a redelivery
  both write; the second turns an ACCEPTED job back to PARSED, against `plans_import/jobs.py:75-76`,
  and a second accept creates the Tasks again. The other locking queries pass `populate_existing`.
  The worker runs with concurrency 2 (`src/docker-compose.yml`), so the overlap needs no second host.
  That the overlap is needed is proved (`FinalWithoutOverlap`).
- **`owners`** (code and document disagree). `set_application_owners` reads the slots without a lock or a
  version (`applications_catalog/commands.py:246`) and checks only those of its request. One request
  removes every owner while another sets slots 1 and 2, of which only slot 1 is set already: slot 2 is
  inserted, slot 1 deleted, and what is left is slot 2 without the Primary, although line 67 says
  "Slot 1 (Primary) is required whenever any other slot for that owner type is set."

Seen on the way and not made a run: routing a Blocker to a Team and to a resolver in two requests can
leave a resolver outside the routed Team, since each request is checked by itself. A child Event may be
created under a parent that is CLOSED already (`dr_events/commands.py:75`). Routing to a Team enrols
nobody (`blockers/transition_service.py:190`). A sweep under way may escalate a Blocker whose Task has
ended since (`blockers/escalation.py:128`). A reset of the password that has read the credential
before the wrong answer that locks it leaves the lock in place, since it assigns what it has read,
against the comment "Update password and reset lockout" (`identity_auth/commands.py:637`). Two enrolments
and a verification can leave an enabled second factor with the secret of the later enrolment
(685-687). PUT of a policy value `file.max_mb` leaves the file policy's row behind
(`policies_admin/commands.py:153-154`), which is why `MirrorInStep` excepts keys set directly. A login or
a touch that breaks between HSET and EXPIRE leaves a key in Redis for good.

## 7. Plan

Done, in this order: `TaskLifecycle` with its proofs, the Milestones at three levels, the dependency
graph with its proof, DR Events, Blockers with their proofs, Idempotency, imports, evidence files; then
sessions, local accounts, policies and the catalogue, and the proofs of these and of DR Events.

Next in modelling:

1. Plan versions: numbering under the Plan's lock, instantiation of Tasks into an Event.
2. Issues and findings; comments need nothing.
3. The evidence of an Application in `DrEventLifecycle`; versions and override rows there.
4. Task creation and membership changes as actions, in place of constants.
5. Provisioning of a user at the first Entra login; re-authentication grants.

Next in proofs:

1. The safety half of the liveness properties: what a fair step needs to be possible (that a stored job
   whose message is not lost has one in the queue, that a file without a verdict has a notice).
2. Circular waits of editors (`RowEdits` has them: which two batches, and that no others do).
3. The abstract promise of the graph: imports and commands as one step each.

## 8. Not modelled

- *Plan versions, issues*: in the plan above.
- *Organisation, work streams*: reference data changed a row at a time; the models take it as constants.
- *Of identity*: provisioning at the first Entra login, the OIDC protocol, re-authentication grants,
  CSRF tokens and cookie attributes; of owners, which user a slot names; of the catalogue,
  `create_application`, which says itself that its check of the name is without a lock.
- *Comments, notifications, outbox, AI suggestions*: rows that are written and that no command reads.
- *Snoozing an alert* hides it from one user.
- *The parser, the column heuristics, file recognition, signed URLs, storage keys*: pure functions of
  data none of the properties distinguishes.
- *Read-only queries, serialisation, migrations, the web front end, infrastructure.*

The row for each part in `PROJECT.json` says which of its operations are covered.
