# A formal model of the Cloud Security Control Plane

The repository is a FastAPI service that scans AWS accounts, evaluates controls on
what it collected, keeps the findings and their governance, and can carry out one
closed remediation: turning on EBS encryption by default, under a separation of
duties. Its interesting state lives in SQL rows that API requests, scan threads
and one-shot remediation workers change concurrently, and in a few fields that
threads of one process share. The modules here model that state and the programs
that change it; TLC checks them on small instances and TLAPS proves the main
properties for every value of the constants. `src/app/` is meant wherever a path
below has no other root.

## 1. The system's parts

| part | state | operations | interacts with |
|---|---|---|---|
| Execution ledger (`services/remediation_execution_service.py`, `services/remediation_worker_service.py`) | executions with their journals, target reservations, worker claims | admit (reaps and displaces), claim, begin_read, no_write, write_intent, acknowledge, quarantine, begin_readback, record_observation | decisions (reads them under its guard), workers (call it) |
| Remediation worker (`remediation/worker_driver.py`, `remediation/worker_aws.py`) | a one-shot process: claim token, attempts, last observation | `run`, `_readback` | ledger transactions, AWS |
| Scan executor and scan service (`services/scan_executor.py`, `services/scan_service.py`) | `_futures`, `_drain_backlog`, `_closed`, a pool of threads; scan rows | start_scan, submit, jobs, done callbacks, resume_pending, shutdown | scan rows, collectors, persistence |
| Scan persistence and findings (`database/persistence.py`, `database/governance.py`) | scans, resources, snapshots, assessments, findings, exceptions, audit events | persist_scan_result, fail_pending_scan, dispositions, exceptions | executor (calls it), operators, verification |
| Proposals and decisions (`services/remediation_service.py`) | proposals, decisions, an idempotency ledger | propose, decide, revoke | findings, ledger |
| Linked verification (`services/remediation_verification_service.py`) | verification requests, receipts sealed with a scan | request_verification, load_link, seal_receipt | executor, persistence, ledger |
| Dashboard (`dashboard/`) | process-local logins, sessions, prepared operations | login, begin, consume, create, prepare, claim, settle, revoke | services, through the API |
| Collectors (`collectors/`) | what one scan has normalized so far, and what went wrong | read listings page by page, or a setting of a resource with a call of its own; normalize, deduplicate | AWS, inventory service |
| Inventory, assessment, rules (`services/inventory_service.py`, `assessment/`, `rules/`) | the snapshot of one scan | resolve references, admit other owners, validate, decide controls | collectors, persistence |
| Readers (posture, inventory, stored evidence graph) | none | integrity checks and views | committed rows |
| Catalogs, migrations, authentication, routes, frontend | configuration | loading, checks, presentation | everything |

What is hard in it:

- *Concurrency on rows.* Remediation transactions serialise on a singleton
  guard; scans and dispositions only on the rows they lock, in a fixed order.
  Between two transactions everything may change: a worker's lease, an approval,
  the capacity of the pool, a finding's status.
- *Failure.* A worker dies between a committed intent and its acknowledgment, and
  AWS may still apply its request; a scan fails and then the failure cannot be saved;
  a process ends with scans queued.
- *Ordering.* Scans commit in another order than they observed; a done callback
  runs before `submit` has registered it, or after its future was replaced.
- *Time.* Executions, leases and readback windows expire; every budget belongs to
  the execution and not to the worker that spends it. Dashboard sessions and prepared
  operations expire while a coroutine awaits the API.
- *Evidence.* AWS may list an item twice, list it as it was before and after a change, fail
  on the third page, or hold resources of other accounts; a bucket may be deleted or created again between
  two of the ten calls that describe it, and a user may take another user's name between the listing and the calls by that name. A control that then says "pass" or "not
  applicable" is wrong without any error.

What makes each part correct:

- ledger: reservation, claim and journal agree; the capacity holds; a cutoff is
  final; a quarantine stays; budgets never grow;
- worker: one write for an execution, one writer on a target, no observation
  the journal would reject, and a target that stays reserved while a write may land;
- executor: one job for a scan, a bounded pool, no leaked slot, no scan left
  RUNNING without a job, terminal rows that stay terminal, a backlog that is not
  forgotten while somebody can still work on it;
- findings: what the committed history says, whatever order it was committed in;
  dispositions that no scan overwrites; no deadlock of scans;
- decisions: one effect for an idempotency key, answers that are the request's own,
  approvals of a finding as it still is, a proposer who does not decide;
- verification: scan and receipt end together, a receipt says "verified" only if the setting
  was read as on after the write, a key answers with its own request;
- dashboard: an operation takes effect once, what it shows is what happened, and data is read
  only by a session that still stands;
- evidence: a graph that validates, a status that says what was lost, relationships
  that exist, verdicts that are true of what AWS holds.

`PROJECT.json` lists the hazards of the code line by line with the properties
that cover them.

## 2. Modules

```
WriteAuthority ........ what the remediation promises about writes
      ^ implemented by
RemediationWorker ..... EXTENDS RemediationLedger: workers, AWS, crashes
RemediationLedger ..... the rows and their transactions

ProposalAuthority ..... what proposing and deciding promises
      ^ implemented by
RemediationAuthority .. proposals, decisions, revocations, their retries

VerificationAttempts .. what a verification promises about its attempts
      ^ implemented by
LinkedVerification .... requests, linked scans, receipts, recovery

OperationPromise ...... what the dashboard promises about an operation
      ^ implemented by
Dashboard ............. logins, sessions, prepared operations

ScanExecutor .......... executor, start_scan, process restarts
FindingLifecycle ...... scan transactions, findings, dispositions

NetworkItems .......... what one item of a listing becomes
      ^ EXTENDS
PagedCollection ....... the collectors of one scan, page by page
      ^ EXTENDS
NetworkInventory ...... the snapshot assembled from them, and the controls

BucketCollection ...... the S3 bundle: discovery, ten calls a bucket, the keys
      ^ EXTENDS
BucketEvidence ........ its sources, subjects, edges, and their validators
      ^ EXTENDS
BucketControls ........ S3-001 to S3-004 and S3-900 over an accepted graph

IdentityCollection .... the IAM graph builder: listings, one call a principal
      ^ EXTENDS
IdentityControls ...... IAM-001 to IAM-006 over the finished graph

TrailCollection ....... the CloudTrail bundle: trails, three calls each, tags
      ^ EXTENDS
TrailEvidence ......... relationships, admission, outcomes, and the validators
      ^ EXTENDS
TrailControls ......... LOG-001 to LOG-003 over the admitted trails

MCInventory ........... a scan of one of the services, for the run scan_evidence
```

`MC*` modules give the constants their values, `*Proofs` modules hold the proofs (those of the ledger, the workers and
WriteAuthority are together in RemediationWorkerProofs, those of the other abstract modules beside the modules that implement them).

### RemediationLedger

One action for each outcome of each transaction of the two services. Every mutating
call locks the admission guard before it reads, so a transaction is one step; a
call that raises rolls back and is no step. `phase` is the last journal event,
`holder` the reservation of each target, `gen`, `lease`, `claimedAt` and `reads` the
claim row, `intent`, `acked` and the `rb` variables what the journal says of
intent, receipt and readback. The claim token is identified with the claim's
generation, since both change together. `Approve` and `Withdraw` stand for what
decisions and governance do to an execution's authority; `Blocking` reads it as
`_blocking` does. `Admit` is the whole of `admit`: reaping, displacement, the
capacity check and the new rows. In `Call`, a worker transaction may present any token ever drawn,
so nothing rests on well-behaved callers.

### RemediationWorker

`run` and `_readback` as steps between which anything else may happen:
one step for each ledger transaction, AWS call and local clock check. `Crash` ends
a process anywhere; only the ledger and requests that AWS received survive
(`outstanding`, which `Settle` applies or drops). Workers are started by an operator for an
execution (`Start`), as often as they like.

### WriteAuthority

An execution holds its target, is granted one write, and gives the target up only without
the grant or after the write landed; a write in doubt keeps the target for ever; what was barred
before its grant is never granted. `WriteAuthoritySpec` states the refinement
with the mapping `StageOf`, `Barred`, `Issued`.

### ScanExecutor

A step is one critical section of `_lock`, one database transaction, or one
stretch of a thread between two of them. `futures` is `_futures`; `job` holds
each future with the thread in which its callback will run, which is the submitter's
if the job ends before `add_done_callback`. `resume` holds every run of
`resume_pending`, at startup and in callbacks, with what it has read so far.
A callback keeps its pool thread busy, as in CPython. A restart keeps the
rows and loses everything else; `Shutdown` sets `_closed`. A failure that cannot be
saved is remembered in `orphans` so that properties can name it. The
collection itself succeeds or fails.

### FindingLifecycle

`persist_scan_result` as a transaction: the scan's results are fixed (`bundle`), its
resources are locked one by one in the order of `NormalizedResource.identity`,
`Reconcile` computes every finding from committed assessments and its own
(`_reconcile_finding`, with its early returns, eligible passes and tie rule),
`CommitScan` publishes, `RollBack` discards. `Dispose` is `set_finding_disposition`,
which needs one lock. The order of observation (`ObservedAt`) and the order of
commits are independent. Dates are kept because the tie rule and the CHECK
constraints of the table are about them; an ACCEPTED_RISK disposition is one
of the members of `Manual`, without its exception.

### RemediationAuthority

`_mutate` with its three `write` functions, cut where other transactions can come
between: `Begin` (the first replay), `Open` (the locking statements), `Write` (the second
replay, the checks, the inserts), `Commit`, and after an IntegrityError `Collide` (rollback) and `Resolve` (the last replay).
`Fail` ends a call anywhere before its commit; `Commit` may lose its answer, so that the client
knows nothing and may send the request again. The locks of resource, finding and proposal are one lock for each
finding, because every path takes them in that order and a proposal belongs to one finding. SQLite's
BEGIN IMMEDIATE, which serialises the calls, is a special case of these interleavings. `Govern`, `Assess` and `Lapse` are the
transactions of others, and the clock, that change what `_blocking` reads: the governance digest is the length of an append-only
history (`gov`), what it says of eligibility is `state`, the newest assessment is a number.
A request is its whole document, so equality of requests is equality of digests; request and decision rows are identified with the
request that made them, and a new proposal draws an identity that no proposal has. Capabilities, malformed
documents and the digest a client must quote are left out: each of them only refuses.

### ProposalAuthority

A key of an actor is spent on one request; a proposal is proposed, then approved or rejected by
somebody else, then perhaps revoked, but only if it was approved. `AuthoritySpec` states the refinement with
`StatusOf` (the derivation of `_view`) and `ProposerOf`.

### LinkedVerification

`request_verification` is cut where other transactions can come between, as the decisions are: first replay, locks
and checks, insert of request and scan, commit, the submission to the executor, and the failure path when the pool refuses. The
executor appears as the part of it that a linked scan meets: a runner picks the row up, the scan's
transaction seals the receipt (`seal_receipt`), a failure seals a failed receipt, a process that ends leaves the row for
recovery. `get_verification` reads request, scan and receipt in one statement snapshot. Whether the retained evidence
proves the setting on (`_proof`) is one bit of the scan that ran.

### VerificationAttempts

An attempt is requested, then sealed exactly once, verified or not; a sealed attempt never changes. `AttemptsSpec` states the refinement.

### Dashboard

One process, several tabs that share one browser's cookies. Each coroutine (`read`, `prepare`, `submit`, login) is split at its awaits, where
the store may purge, revoke or replace what the coroutine read. `SessionStore` is modelled with its clocks, its limits and its purge.
`NoOperation` stands for the answers that tell the browser there is nothing to submit.

`submit` posts through `httpx.ASGITransport` to this program's own API, whose endpoints run in threads that outlive the coroutine
that waits for them. Each request is therefore a process: `Begin` opens its transaction, where `_mutate` looks the key up at once; `Write` waits
for the lock of its row or guard, looks the key up again and inserts its rows; `Record` commits them, and its answer may still be lost. The
writes that a browser can prepare keep this order (`_mutate` with `propose`, `decide` and `revoke`, `admit`, `request_verification`), the last two
without the first look-up, which `Begin` allows too. What else they check is `RefuseRequest`, at any time. `effects` counts how often each
operation's effect was committed, so nothing but the look-ups and the lock makes it one; how conflicts on the unique key end is part of RemediationAuthority.

### OperationPromise

An operation is attempted while it is prepared or without a confirmed outcome, one attempt at a time; it takes effect only after an attempt and is
confirmed only after its effect; what expired or was dropped is never attempted again. `OperationPromiseSpec` states the refinement: what is shown of an
operation is its row (`Shown`), an effect is what the API committed under its key, and tabs, sessions, cookies and the clock disappear.

### NetworkItems, PagedCollection, NetworkInventory

A scan reads eight sources in a fixed order: instances, volumes, the two EBS settings, security groups, VPCs, subnets and
flow logs. What AWS holds (`held`) is chosen at the start and may contain two versions of one item. A listing delivers each
held item at least once, some twice (`MaxRepeats`), and a call may fail at any page (`MaxFaults`), a reservation may be unreadable. `Meet` and
`MeetBlocking` are the two loop bodies of the collectors, which treat an identity that contradicts itself differently.
`Assemble` is the inventory service after collection: references are resolved
(`Resolution`), owners are admitted (`Unadmitted`), what was removed takes its references along, and the
statuses are rolled up. `Assess` decides every control over the targets that `AssessmentTargets` finds; the three `*Proof` operators are the
evidence that `security_group_evidence`, `flow_log_evidence` and `ec2_evidence` demand before a control may pass or fail.
An item is the members that some reference or control reads; `Unread` is a member that does not read.

### BucketCollection, BucketEvidence, BucketControls

`S3CollectionBundle._collect`, one AWS call in a step: `ListBuckets` (whose pages may repeat a bucket in two versions, hold
an unreadable one or end early), `ReadAccountBlock`, `AskBucket` for each call about the first bucket that is not finished, then
`DescribeKey` for each reference to a key. `Calls` is their order; `Applies` says which are made at all, given what the earlier ones answered.
`listing` is what ListBuckets delivered; what the loop over its items computes is read off it by positions (`Summaries`, `Contradictions`, `Blocked`,
`Late`), and what is left to ask follows from the records (`Remaining`, `Pending`).
Between two calls `ChangeBucket` deletes a bucket or gives it other settings, and `ChangeKey` changes a key, so answers that were each true contradict
each other. A record keeps the answers of the calls; what `_collect` makes of contradictions (`Settled`: the Regions, policy and status, ACL
and block, an unusable key reference; `LookupSource`: one key read twice) is derived from them, as it is written once the calls are done.

The same answers serve two collectors. The newer one keeps a state for each source; the older one
would have stopped at its first failure, so its status is replayed over them (`stops`, `FirstStop`, `ItemStop`, `LegacyStatus`), and it delivers all of its
resources or none. BucketEvidence says which resources, subjects and edges the two deliver and what the validators of the evidence
graph demand of them (`Accepted`, one conjunct for each validator); a refusal fails the scan. BucketControls decides
the five controls over an accepted graph: four prove the whole population first (`PopulationProven`), S3-900 trusts the older collector's status.

A setting is what the controls tell apart: a policy is public, grants to one outside account, denies insecure transport, or is one the evaluators do
not support; a grantee is the owner, everyone or a partner; a key reference is an ARN, an alias or unusable. Two of the four flags of a public access
block are kept, those that change what the other calls answer. Sensitive data is always required to use KMS.

### IdentityCollection, IdentityControls

`_IAMGraphBuilder.collect` and the account summary, one AWS call in a step. The calls still to be made are a set (`tasks`), and `Due` takes
them in the order of the code: the account's calls first (the summary, then the listings of users, groups, roles and local policies), then those about
each principal (`Owners`, `Agenda`, `Enrichment`), where the last use of a key is asked for right after the keys of its user and the document of an inline policy right
after the names, and, once all principals are done, what `MaterializePolicies` asks about every policy that was listed or mentioned: metadata, tags
and version. Which of two users comes first is left to a CHOOSE (TLC makes one choice, the proofs hold for each); the code sorts them by identity. `graph` is what the builder holds: resources with the facts the
controls read, one outcome for each source, relationships with the outcome each rests on, and the children (devices, keys) seen under two users, which `Contest`
takes out of the graph with all that was said about them. `Discover`, `ReadChildren` and `ReadLabels` are the three loops over a listing. They treat
an item that contradicts an earlier one, or does not read, differently, and say by positions what the loop holds at its end (TLC compared them with the loops on all
listings of up to five items).

Between two calls `ChangeDirectory` renames, replaces, creates or deletes principals and policies, moves a device or a key from one user to another,
or changes a default version. Principals are recorded by id and asked for by name, and only some answers are checked against the id (`ReadProfile`,
`ReadMembers`, the user name of `ReadKeyUsage`); the others are taken for the principal that had the name. `touched` remembers the names and ARNs
that changed. Documents are "narrow", "admin" or, for syntax that the evaluator refuses, "odd"; times are days. IAM-001 trusts the older collector's
status or each user's own device source, IAM-002 and IAM-003 prove the keys of a user, IAM-004 proves the whole population of policies
(`Covered`) before it concludes about any document.

### TrailCollection, TrailEvidence, TrailControls

`CloudTrailCollectionBundle._collect`, one AWS call in a step: `ListTrails` (whose pages may break off, or spoil, repeat or contradict an item),
`GetTrail` for the settings, the status and the selectors of each trail, and `ListTags` in batches of one Region, where a trail
that vanished sends its batch back to be asked for trail by trail (`alone`). `sources` is what was answered, and what is left to ask follows from it:
the three calls about one trail (`NextKind`), then those about the next (`NextTrail`), then a batch of tags (`IsBatch`). Which trail comes first is left open, and so are
the batches of a Region, which the code takes in the order of ARNs. `TrailsRead` says by positions what the loop over the items computes. Between two calls
`AlterTrail` deletes a trail or rewrites one of its settings, and remembers it in `altered`. Alternative readings are kept
as far as something downstream tells them apart: `SettingsError` and `SelectorsError` say what the normalizers refuse, and as what.

An ARN names the owner of its trail, and the shadow of an organization's trail is seen in an account that does not own it. TrailEvidence follows
what the inventory service makes of it: a complete configuration announces a bucket (by name) and a key (by ARN), `ResolutionOf` resolves them
against what the S3 collectors retained (`storage`), and a foreign trail that is the source of no resolved relationship is taken out with its outcomes
(`TrailRetained`, `RetainedOutcomes`), which no collector may then call SUCCEEDED. `TrailsAreAccepted` has one conjunct for each demand
of the validators, which rebuild the resources and the resolutions from the outcomes alone (`RebuiltFact`, `ReconstructedKey`).

LOG-001 trusts the older collector's status and every trail's own; LOG-002 proves the whole population of trails and then asks `Coverage` what
the selectors of each record; LOG-003 decides each trail by itself, but only once the discovery is whole. The property of the controls
compares with the events themselves: `Records` says whether one event passes the selectors of a trail.

## 3. Runs

| run | question | bounds |
|---|---|---|
| ledger_calls | do claims and journal agree, and does the capacity hold, under every order of calls? | two executions on different targets, capacity 1, so that admission meets the limit, reaps and displaces; clock 0..4; two reads, one readback |
| worker_target | can a late write hit a target another execution holds? do reservations follow the journal? is WriteAuthority implemented? | two rival proposals, one worker, one crash |
| worker_liveness | can two workers of one execution write twice, and is every admitted execution decided? | one execution, two workers, one crash |
| scan_races | jobs, leaked slots, terminal rows; is a backlog remembered while callbacks overlap at recovery? | three rows in the backlog and a request, two workers, two slots, four futures, one restart |
| scan_ends | stranded scans; does every scan the pool took end? | a row in the backlog and two requests, one worker, two slots, one restart, one lost failure, failing queries |
| scan_stranded | is the backlog drained when nothing runs any more? (violated) | five rows in the backlog, two workers, two slots, no request |
| finding_history | do findings say what the history says, what may a scan's commit do to a disposition, and can scans deadlock? | four scans, two with the same time and interchangeable, two resources |
| authority_calls | one effect for a key, own answers, approvals that are current; is ProposalAuthority implemented? | two sessions, eight requests of two actors (two keys each, one reused across requests), two findings and proposals, one governance event, one newer scan, clock 0..1 with a lifetime of 1 |
| verification_calls | do scan and receipt end together, is "verified" true, are reads consistent; is VerificationAttempts implemented? | two callers that are interchangeable, two keys of which one is used for two documents, one execution, two attempts, one runner, one fault, clock 0..1 |
| dashboard_operations | one effect for an operation, calls that settle, no read outside of a session; is OperationPromise implemented? | two tabs, two sessions, one operation submitted at most twice, each time with a request that may outlive its call; clock 0..2 with logins and operations of one tick, tokens of one or two |
| scan_evidence | does the graph of a scan validate, and are its statuses, relationships and verdicts true of what AWS holds? | one service at a time. Network: two or three sources populated with up to two items, one repeated delivery for each source, one failing call. Buckets: one bucket, rich in what one control reads, or two that name one key; one call that fails or a listing that contradicts itself; one bucket or key that changes. Identities: two users with two devices and a key each; one user with every kind of key; a user, a group and a role with four policies; nobody; one mishap, a change or a call that goes wrong. Trails: one with every shape of selectors or settings, an organization's trail alone or beside a trail of the account under seven storages, or three trails in two Regions; two troubles, changes or calls that go wrong |
| bucket_deleted | is a bucket that vanishes during the scan merely a bucket without a verdict? (violated) | the buckets of scan_evidence |

The bounds are small because the rules they exercise are pairwise: one rival is
enough to displace or be displaced, two workers to lose and take over a lease, and a
lease, window and readback time of one or two ticks lets each of them end before,
with and after the others. Two reads make "retry, then exhausted" possible. Two slots and two workers are the least that lets jobs and their
callbacks overlap (the defaults are two workers and 32 slots, `scan_executor.py:137-138`), four futures let two callbacks be at recovery while both slots
are taken, and rows beyond the slots make the extra row of the recovery query and a refused submission happen. For the five rows of scan_stranded see below.
Two sessions meet on a key or a finding, and eight requests hold a retry, a reused key, two
rival decisions, a decision of the proposer and a revocation. Two verification attempts are a retry after a failure; two tabs
and two sessions are a login that replaces a session another tab still uses. Four scans give an old one that commits late, a tie and a newer one. The
limits that a model needs only to be finite are named `Horizon`, `MaxCrashes`, `MaxOrphans`,
`MaxRestarts`, `MaxEvents`, `MaxScans`, `MaxAttempts`, `MaxRepeats`, `MaxFaults`, `MaxRefusals`, `MaxUpheavals`, `MaxMishaps`, `MaxTroubles`; the proofs do not depend on their values.
The network controls and relationships of `scan_evidence` join at most three sources, and what can go wrong with an item goes wrong
by itself or with one other version or owner of it, so `MCHoldings` populates the sources that one control
joins, each with one item or with two that share an identity, and leaves the others empty. The bundle asks for one bucket after the other and
relates two of them only by a key they share, so `MCAccounts` holds the combinations of policy, grants and blocks that S3-001 and S3-002 join, the
encryption settings that S3-004 and S3-900 tell apart, one pair that names a key by ARN and by alias, and an empty account; with them every
result of every S3 control occurs. `MCDirectories` holds two users who exchange names, devices and keys or leave (`PeopleLater`),
every state and age of a key on both sides of the two thresholds, and a team whose group, role and boundary share policies while versions, attachments and ids
change (`TeamLater`). `MCTrailAccounts` holds every shape of selectors that the evaluator or the normalizer tells apart, every combination of
settings that are true, false or unset, and the organization's trail with its bucket and key located, denied, malformed, known by an alias or unknown; three trails
make a batch of two tags and one of another Region. Two troubles let a trail be rewritten or deleted and another call fail. One upheaval is enough for two answers to contradict each other, and one refusal for any call
to be missing beside complete ones. The services share no state but the scan, whose graph is refused as a whole; `MCInventory` therefore
collects one at a time. Futures, sessions, callers and the two scans of one time are
symmetric in the runs that use SYMMETRY, none of which checks liveness.

CHECK_DEADLOCK is FALSE everywhere: these systems come to rest when the clock
has run out or all scans have ended. That they rest only where they should is
what the liveness properties say; scan_stranded shows where the executor does not.

### What scan_stranded shows

`resume_pending` sets `_drain_backlog` under the lock, submits outside it, and sets
`_drain_backlog = True` when a submission finds no capacity, in a later critical section
(`services/scan_executor.py:205-214`). With two workers, as configured by default, two done callbacks can be in it at once, and a
backlog of five rows is enough, without any new request:

1. Recovery submits s1 and s2. The callback of s1 reads the candidates s2 and s3, and pauses before it submits them.
2. s2 ends. Its callback reads only s4 and s5, which fit, sets `_drain_backlog` False and pauses.
3. The first callback submits the stale s2 again (its row has ended, so the job has nothing to do) and s3: both slots are taken.
4. The second callback submits s4 and meets the capacity error.
5. Both jobs end. Their callbacks read False in `_forget` and resume nothing.
6. Only now the second callback sets `_drain_backlog = True`.

The pool is empty and s4 and s5 stay RUNNING until another scan ends or the process restarts.
`docs/operations/known-limitations.md:442-443` promises that recovery "drains the discovered
backlog". A new request that takes the slot in step 3 has the same effect with fewer rows.

What does hold is BacklogIsRemembered: whenever nothing runs any more and a row left over is still RUNNING, the flag is set, so that the callback of
the next scan goes on with it. scan_races checks it where callbacks overlap and a request competes with them, and it is proved (BacklogKeptInMind) for every capacity
and backlog. The code forgets no row for good; what it lacks is somebody to read the flag.

### What bucket_deleted shows

ListBuckets returned a bucket with its Region (or the bucket still answered HeadBucket), and it is deleted before GetBucketLocation. The older
collector then has a resource for it (`collectors/s3.py:792-806`), so the RESOURCE_DISAPPEARED outcome of the location is about that resource
(`collectors/s3.py:1567-1573`). But the bucket's other calls fail too, the replayed status of the older collector is not SUCCEEDED, and it delivers
nothing (`collectors/s3.py:843-845`). The outcome is about a resource that is not in the graph, `_require_resource_subject` raises
(`assessment/evidence_graph.py:4402-4409`), and the scan fails. `docs/controls/s3-002-exposure-aggregation.md:261` and its case
`bucket-deleted-during-scan` (line 290) promise INSUFFICIENT_EVIDENCE for that bucket. `OnlyOrphansRefuse` in scan_evidence shows that this is the
only way in which the S3 evidence is refused.

### Fairness

- Workers: a started worker takes its next step (WF of `Run`) unless it crashes,
  and crashes are bounded; the clock goes on (WF of `Tick`); operators keep starting a worker
  for an execution that is not finished (SF of `Start`). The last is an assumption about
  operations: nothing in the code starts a worker, and without it a claimed execution keeps its
  target, as the hazard list says.
- Executor: threads run on (WF of each of their steps). `StartJob` is strongly fair since
  the pool's queue is first in, first out: while workers become free again and again, each
  queued job gets one. Nothing is assumed of requests, shutdowns or
  process ends.
- FindingLifecycle, RemediationAuthority, LinkedVerification, Dashboard and the collections claim no liveness: a client may
  never come back, and a scan's calls may fail for ever.

## 4. Proofs

All theorems hold for any sets of executions, targets, workers, scans, resources
and keys, and for every capacity, budget and time constant, under the named
assumptions of the modules: the null values are not among the identities, the limits are
numbers, the sets of scans, resources, trails and buckets are finite (targets too, as far as their reservations are counted), a setting of
the EBS evidence has one value, the settings of trails and buckets have the types that the CloudTrail and S3 APIs give them
(TrailsAssumption, AccountsAssumption, BucketsAssumption), an IAM account is finite, an id in it is that of one principal or of one key of a user, its groups have
no permissions boundary and its policies have a default version (DirectoriesAssumption; TurnsAssumption: it only turns into such accounts), and a key that was looked up by its ARN has
that ARN (`_normalize_kms_key` refuses another one: `collectors/s3.py:2772-2781`).

- **RemediationWorkerProofs, the ledger.** The inductive invariant is the conjunction
  `JournalInv` of TypeOK, ReservationMatchesPhase and ClaimMatchesJournal, each of
  which needs the others: the reservation is freed because of the phase, the phase is
  accepted because of the claim. From it follow QuarantineIsSticky, BudgetsOnlyShrink
  and, with the monotonicity of Blocking, CutoffIsFinal; CapacityRespected is shown separately from the
  fact that only `Admit` reserves.
- **RemediationWorkerProofs, the workers.** First, every behaviour of the workers is one of
  the ledger (WorkersUseTheLedger), so the ledger's theorems carry over. The invariant adds
  `Local` (what a worker may rely on), `Fence` (a worker that is
  writing still owns the claim and nobody wrote before it), `TokensDiffer` and `WriteOnce`.
  It gives the safety properties and ImplementsAuthority, the step simulation of WriteAuthority.
  The module ends with what the abstract promise itself implies (OneHolder, PendingIsHeld).
- **ScanExecutorProofs.** The strengthening `Registry`: a job that has not ended is registered
  for its scan, and a registered future works for the scan it is registered under and is
  not forgotten. It is what makes "submit looks into `_futures`" equivalent to "a job exists", although
  callbacks run late and in other threads.
  For BacklogIsRemembered, `BacklogKept` says that while the flag is unset every row nobody works on is in the mind of some run of
  `resume_pending` (`Minds`): it has yet to look, it read the row and will submit it or meet the capacity error, or it will set the flag. A query that leaves rows out read more
  than fits, so its run sets the flag (`DecisionsComplete`). `FirstWithin` and `FirstIsAll` say this of the limited query. The theorem assumes that
  queries do not fail: when the one at startup does, `resume_pending` returns and the backlog waits for the next start, as the code intends.
- **FindingLifecycleProofs.** A scan that reconciled holds every resource it covers,
  two such scans write no key in common, and so what one staged is still what it would compute
  now (`StagedCurrent`); hence a commit extends the history and the findings alike. The absence of deadlock follows
  from `LockOrder`: the scan that holds the greatest locked resource waits for
  free ones only.
- **RemediationAuthorityProofs.** `CallInv` says that a call past its locking statement holds the lock of its finding
  (`LocksHeld`), that what it accepted is therefore still true (`StillReady`), and that a key has one row (`LedgerFits`).
  Every step of a call is summed up once (`CallIsGrounded`: what it leaves alone, and on what grounds it ends), and the four
  theorems follow from that summary: answers and integrity errors, no refusal of an effect, approvals that are current, and the
  step simulation of ProposalAuthority, where only `Commit` is not a stutter.

- **LinkedVerificationProofs.** `Inv` ties the rows of an attempt together: a request has its scan, a scan that ended has its
  receipt, and a caller past its locks still owns them. The receipt is sealed in the scan's own transaction, which is
  why SealedIffEnded is inductive only together with what runners and callers hold.
- **DashboardProofs.** `DashboardInv` ties the calls of the tabs to the operations they attempt: a call past its claim works for an operation of its own session that was
  claimed (`CallFits`), what was sent belongs to an operation that was tried (`SentWasTried`), and an operation in flight has the
  call of its newest attempt (AttemptsHaveACall). ShownIsTrue, AttemptsAreCalls and the action property DataInSession follow from it.
  OneEffect needs `WritersAreFirst`: one request of an operation at most has written, and none has whose operation is already recorded. `WriteKeeps` is where
  the second look-up and the lock are used, `RecordKeeps` where the first effect is counted. The refinement needs
  more: `LifeInv` adds that a dropped operation has an ended session and an expired one a deadline that passed. As sessions never come back and
  the clock goes on, neither is attempted again, which is what maps every claim to an attempt at a prepared or unconfirmed operation.
- **InventoryProofs, the network.** `Fits` is what the bookkeeping of one source may claim after any deliveries: one first delivery for
  each identity, nothing kept but what came from one, and without an error everything delivered is kept. Each loop body
  keeps it (`AdmitFits`, `ClashFits`, `MeetBlockingFits`), so a complete source holds exactly what AWS held, in one version
  (`CompleteKept`). The snapshot and the verdicts are functions of the collection, and their theorems follow from
  that: `ResolvedStays` says that pruning never takes an end of a relationship that justified an admission, and
  `CitedHoldsAll` that a cited discovery shows the resources as they were held.

- **InventoryProofs, the trails.** `TrailInv` adds to the types that only trails of the discovery were asked about (`AskedWereListed`) and that what was listed or answered
  is still so unless its trail was altered (`SteadyAreSeen`). The types carry what the normalizers guarantee: a source has a value exactly if it is PRESENT, a
  foreign trail that was read belongs to an organization, and no selector breaks a rule of the validators (`SourceFits`). TrailGraphIsSound
  follows demand by demand (`ManifestIsWhole`, `LinksAreExpected`, and `KeyResolutionsAgree`: the validators, which see outcomes only, resolve a key as
  the inventory service did). For the verdicts, `SteadyAreSeen` shows that a proven discovery admits every steady trail, and `CoverageIsRight` that
  `Coverage` counts the reads or writes that any selectors record entirely, except where it answers "unknown": exclusions that do not meet leave
  some selector for each event, and a restricted advanced selector only adds to what the free ones cover.
  TrailVerdictsAreSound needs nothing of `storage`: whatever the S3 collectors retained, it only decides which trails are admitted.
- **InventoryProofs, the buckets.** `BucketInv` says of every answer that is kept that AWS gave it, or could give it, about some settings of the bucket, and
  about the present ones if nobody changed the bucket (`AnswerFits`); of a listing without errors that it names every bucket once (`ListingFits`); of a
  lookup that it describes the key it asked for; and of each stage what it left finished (`StagesFit`). It is inductive because what the listing decides (admission,
  the calls that apply) never changes after `ListBuckets` (`ListingStays`), and a record only grows (`RecordsStay`). Once the stage is "done" no call that applies is
  missing (`SeenAreFinished`), which gives the demands of the validators one by one. Only `SubjectsArePresent` needs a hypothesis, that no admitted
  bucket is orphaned, and so OnlyOrphansAreRefused. For the verdicts, `RecordsAreTrue` says that whatever `_collect` still calls usable after it compared the
  answers with each other is what the bucket has; each control then has its lemma.
- **IdentityProofs.** `IdentityInv` says what everything in the graph rests on: a device or key on the listing of its owner (`ThingFits`), an announced
  id on a resource (`OutcomeFits`), a relationship on two resources and a source that was complete or in conflict (`LinkFits`), a conflict on two different users (`ContestFits`). It
  says what a pending call may rely on (`TaskFits`), that the listing of users and every user's devices are answered or still to be asked for (`NothingIsForgotten`), and that no key of another user is read
  between the keys of a user and their last use (`UsageIsNext`). And it says what is true: facts and complete sources about whatever is not in `touched`
  are those of the account as it is now (`ThingIsTrue`, `SourceIsTrue`). `ContestedFits` is the hard step, since the conflict of
  one child rewrites sources that others rest on. IdentityGraphStands follows at every moment (`GraphStandsThen`); for the verdicts each control has its
  lemma (`DevicesAreTrue`, `KeysAreTrue`, `PoliciesAreTrue`, `SummaryResultIsTrue`), and NoIdentityIsOverlooked follows
  from `PrincipalsAreListed` and `DocumentsAreAssessed`. The attempt to prove IdentityGraphStands made the property itself exact: the source that a device or
  key rests on may be a CONFLICT and not only PRESENT, when another child of the same user is contested.

Some theorems state more than the runs check: ReopeningIsJustified (a resolved finding reopens only for a failure observed no earlier than the resolving PASS)
and EffectsAreKept (a request that took effect is never refused, whenever its twin commits), QuarantineStays, BudgetsShrink and CutoffStays of the ledger, WritersExclude (two workers
never write at the same time) and ObservationsFit of the worker, AnswersCorrect of the verifications, PoolBounded of the executor, CollisionsAreUsedKeys of the decisions, ShownIsTrue of the dashboard (an operation
shown as prepared or expired was never sent), and the type invariants of every module
that has proofs. TLC confirmed each of them on the small instances before it was proved.

Checked by TLC alone: EventuallyDecided and ScheduledScanEnds. They are liveness under fairness, outside of what the prover
handles. Every invariant, action property and refinement that a passing run checks is a theorem. To make that possible, what a collector's loop computes over a listing is
written by positions where the code folds (`TrailsRead`, `Summaries`, `Discover`): what a fold computes needs
induction over data, which the prover cannot do. TLC compared these definitions with the loops on small listings.

## 5. What is not modelled

- Exceptions of findings, the audit trail and evidence graph rows. The order
  in which `expire_exceptions` locks resources differs from that of scans and is listed as a hazard.
- Reads that take several statements at READ COMMITTED (`get_execution`).
- In RemediationLedger, the idempotent replay of admissions; Dashboard has it, and that of proposals, decisions and verifications is modelled in their modules too.
- Digests, signatures, documents and validation of contents: pure functions that either accept or raise;
  a call that raises is no step.
- The Access Analyzer collector, the control of log destinations (LOG-004) and that of governance, and the dependencies between
  controls.
- Of CloudTrail: the contents of tags and of data resources, trails that are created during the scan, and how the S3 collectors came by what
  they retained: the trails meet a given `storage`, although BucketCollection could deliver it. Selectors that differ only in their name or in their data
  resources are one selector here, and a call about a trail that was deleted is not also denied; no property tells these apart.
- Of IAM: the contents of tags, trust policies and policy documents (`_statements` beyond admin, narrow and refused), the roll-up of
  the two collectors' statuses except where IAM-001 reads it.
- Of the S3 evidence: keys of other accounts, what versioning says, two of the four flags of a block, a HeadBucket answer
  whose own headers disagree, and the check that a resource repeats the evidence it was made from.
- Profiles are fixed and not empty, so that NET-004's refusal of a profile without ports does not occur.
- The readers over committed rows, catalogs, migrations, authentication, routes and the frontend: they change no state
  that the services share.
- Several API processes at once. The documentation asks for one, and the models follow it.

## 6. Plan

1. Compose RemediationAuthority with RemediationLedger in place of Approve and Withdraw, with the separation of
   proposer, decider and executor as an invariant, and the replay of admissions.
2. FindingLifecycle with exceptions: creation, expiry, revocation, ACCEPTED_RISK, and the lock
   orders of `expire_exceptions` against those of scans.
3. The Access Analyzer collector, as the others are modelled, and LOG-004; then the services together, in the order in which the
   inventory service runs them, with BucketCollection in place of `storage`.
4. Reads of the execution views at READ COMMITTED against worker transactions.
5. Proofs: that FindingLifecycle implements the atomic specification in which a scan reconciles and commits in one step.
