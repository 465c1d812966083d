# A TLA+ model of the school management system

The repository is a Django modular monolith (`src/backend`) on PostgreSQL
(READ COMMITTED, `lock_timeout` 5 s), with Celery workers driven by Beat and a
React client. Business rules live in `apps/*/services.py`; views and Celery
tasks are thin callers. There is no message broker between components: they
share tables, and a transaction's row locks, unique constraints and idempotency
keys are the only synchronisation. This project models that core, checks it
with TLC and proves with TLAPS every safety property that the passing runs check.

## 1. Inventory

All paths below are under `src/backend/`. "Hard" says what a test would hardly reach.

| component | state | operations | interacts with | hard | correct when |
|---|---|---|---|---|---|
| finance ledger (`apps/finance/services.py`, `models.py`, `selectors.py`) | invoices, credit notes, payments, allocations, reversals, student ledger entries, number series | generate, issue, credit, record, allocate, reverse allocation, reverse payment | students, notifications (payment received), activity | concurrent calls on the same rows, multi-row locking, retries with an idempotency key, rollbacks after a number was taken | cash is conserved, no invoice is overpaid, ledger equals documents, numbers have no gaps, no deadlock |
| fee structures (`services.py` 50-319) | structures, lines, assignments | create, add line, approve, assign, bulk assign and bulk invoice | ledger (`generate_invoice`) | approval is checked on an object in memory | an approved structure never changes; one invoice per assignment |
| incoming payments (`services.py` 625-832, `tasks.py`) | IncomingPayment | ingest, auto-match, match, ignore, hourly re-sweep | ledger (record, allocate) | the same receipt from two sources, a bursar against a callback, a sweep outside a transaction | one receipt becomes at most one payment; resolved entries stay resolved |
| M-Pesa (`mpesa_services.py`, `mpesa_client.py`, `mpesa_api.py`) | STK requests, callback inbox, gateway configuration | initiate, log, verify, process, reject, identify, query | provider, incoming payments | external call between two transactions, lost answers, callbacks duplicated, early or late | one prompt per intent; a completed request is backed by its receipt |
| durable work (`apps/activity/durable_work.py`) | status, attempts, backoff, lease of every queued row | claim, mark processed, mark failed, reap | notification, report tasks | killed workers, expiring leases, late marks | exclusive claims, no row lost, settled rows stay settled until an administrator retries a failed one |
| notifications (`apps/notifications`) | events, outbox, delivery attempts, rules, templates, in-app inbox | publish, expand, dispatch, retry, mark read | durable work, providers | at-least-once gateways, manual retry beside the dispatcher | each event expands once per rule and recipient; a sent message is not sent again |
| reporting (`apps/reporting`) | export jobs | request, generate | durable work, documents | re-run after a crash, permission lost meanwhile | at most one job per key; a processed job has a document |
| documents (`apps/documents`) | rows and files | upload, delete, retention purge, orphan purge | storage backend, staff, students, admissions, reporting | a row and a file cannot be written atomically | a committed row has its file; every orphan is collected |
| leave (`apps/leave`) | requests, approval stages, leave ledger | create, edit, submit, decide, withdraw, cancel, grant, adjust, carry forward | staff (employee row lock), tenancy (roles) | opposite lock orders, edits beside submission, repeated carry-forward | no overlapping approved leave; balance equals entitlement less approved days |
| tenancy (`apps/tenancy`) | memberships, roles, invites | invite, accept, activate, deactivate, update, delete role | every permission check | checks on stale rows | a tenant always has an active administrator |
| platform (`apps/platform`) | plans, subscriptions, module overrides, tenants | create, update, delete plan, assign, override, provision | tenancy (effective permissions) | whole-row saves of stale objects | exactly one active default plan |
| assessments (`apps/assessments`) | assessments, results, grading bands | create, record marks, submit, reject, approve, reopen, publish | academics | marks edited beside approval | published results are complete |
| attendance (`apps/attendance`) | sessions, records | open, record, submit, correct | notifications (absence) | corrections after submission | a submitted register is complete |
| admissions, students, academics | applications, students, placements | transition, enrol, place, change status | documents, academics | unlocked transitions beside enrolment | an enrolled application has one student with a placement |
| staff (`apps/staff`) | employees, account links, documents, qualifications | create, edit, move, change status, link, unlink | tenancy (memberships), documents | checks on memberships that are not locked | a linked account reaches its employee's campus; who was dismissed stays so |
| timetable (`apps/timetable`) | periods, lessons | create, update, delete | attendance (calendar), academics | unlocked overlap and reference checks | no class, teacher or room is booked twice at one time |
| guardians (`apps/guardians`) | links of guardians to students | link | notifications (recipients) | shared phone numbers | - |
| activity log | audit rows | append | all | none: nothing reads it to decide | - |
| HTTP API, configuration, frontend, load tests, scripts | - | - | - | no protocol state of their own | - |

`PROJECT.json` lists the same parts with their status and every hazard at the
line where it bites.

## 2. Modules

| module | models |
|---|---|
| `RowSums` | SQL's `SUM` over rows, as a recursive function that can be proved about |
| `FeeLedger` | the ledger calls as atomic steps: what the finance services promise |
| `LedgerTransactions` | the same calls as transactions with row locks, checks, numbers, commit and rollback; implements `FeeLedger` |
| `FeeStructures` | lines and approval of a fee structure, assignments, single and bulk invoicing |
| `DurableWork` | claims, leases, backoff, marks, killed tasks and the reaper |
| `ReceiptBook` | what reconciliation promises: receipts entered and given once, requests decided once |
| `MpesaReconciliation` | collection requests, the callback inbox and incoming payments under concurrent processing; implements `ReceiptBook` |
| `ReceiptResweep` | `MpesaReconciliation` with the hourly sweep task |
| `NotificationPipeline` | from an event through rules, templates and recipients to outbox rows |
| `NotificationDelivery` | from an outbox row through the gateway to attempts, the inbox and manual retries |
| `DocumentStore` | files and rows: uploads, exports, deletions, retention purge, orphan sweep, crashes |
| `LeaveRequests` | drafts, stages, decisions, the leave ledger and the locks of each call |
| `TenantAdministration` | roles, invites and memberships of a tenant, the last-administrator guard |
| `SubscriptionPlans` | plans, the default plan, subscriptions, module overrides |
| `AssessmentLifecycle` | grading bands, marks, submission, approval, publication, amendment |
| `ClassRegister` | an attendance register: opening, marking, corrections, submission, absence notices |
| `Admissions` | an application, the students it becomes, their placements and statuses |
| `BellSchedule` | periods and lessons of a day |
| `StaffPlacement` | employees, their campus, status and linked account, beside changes of memberships |
| `Records` | nine components that share no row a property relates, one running at a time: `ClassRegister`, `BellSchedule`, `StaffPlacement`, `Admissions`, `FeeStructures`, `AssessmentLifecycle`, `DocumentStore`, `NotificationPipeline`, `NotificationDelivery` |
| `Administration` | `TenantAdministration` and `SubscriptionPlans`, their requests interleaved |
| `MC*` | model values, starting states and bounds for TLC |
| `RowSums_proofs`, `FeeLedger_proofs`, `LedgerTransactions_proofs`, `DurableWork_proofs`, `MpesaReconciliation_proofs`, `LeaveRequests_proofs` | theorems about the module of that name |
| `Records_proofs`, `Administration_proofs` | theorems about the components those modules join, alone and joined |

Definitions named `Mutant...` are deliberately wrong variants of the definition
that follows them. No specification uses them; substituted for their original
they make the property named in `PROJECT.json` fail, which shows that the
property depends on that piece of code.

### FeeLedger

One action per service call, with the code's checks as guards. Requests the
code refuses, and replays answered from an existing row, change nothing and are
stutters. Documents are rows of small tables: invoices by the assignment they
bill (`generate_invoice` creates at most one), payments by idempotency key,
allocations by creation order, each with the sum of its reversals; credit notes
appear as sums per invoice and per student, and ledger entries as debit and
credit sums per student. `MatchPayment` is the match of an incoming payment that
finds its one invoice: payment and allocation in one step (a match that finds none is
`RecordPayment`). `LedgerReconciles` is a statement per student, over drafts, issued
invoices and open credits; the load test's `check_aggregate_receivable` compares totals
over the issued invoices it provisioned, with no credit outside them. Left out: names, dates, payment methods, invoice lines
(the total is chosen), permissions, and VOID documents and CANCELLED assignments,
which no service creates. Amounts are integers (the code's decimals have two
fixed places).

### LedgerTransactions

A worker begins a call, acquires the row locks of its `select_for_update`s one
by one in the code's order, checks what is committed then, takes a document
number under the series row's lock, and commits or rolls back (`lock_timeout`,
a killed process). Writes appear at the commit. `match_payment` is `_complete_match`
with `_attempt_auto_allocate`: it holds the incoming payment, takes the key and the
receipt's number and keeps the receipt series locked (`recording`), scans the student's
invoices without a lock (`Scan`), asks for its payment and the one candidate
(`allocating`), and checks again under the invoice's lock; if that refuses, the savepoint
gives the two locks back and the payment stays unapplied (`Settle`). Its simplifications:

- `record_payment`'s unlocked look-up of the key is folded into the check after
  its insert holds the key's index entry: an insert of the same key waits for the
  other transaction, then fails on the constraint and replays, which is where an
  early look-up would have led.
- The sums `reverse_payment` gives back are read when its locks are held
  (`remaining`), and used at the commit, so a missing lock would show.
- Foreign keys take share locks on referenced rows. Only `generate_invoice`
  locks students and structures for update, and it locks nothing after them but
  a series, so they add no cycle; they are left out.
- `reverse_allocation` locks payment, invoice, allocation, and `reverse_payment`
  locks payment, allocations, invoices. The inversion is harmless because both
  take the payment's row first; `NoCircularWait` covers it. A match takes the receipt
  series before a payment and an invoice, which is harmless because whoever else wants
  that series holds nothing but a key; the other series come last.
- Whether an incoming payment is still unmatched is `MpesaReconciliation`'s: here a
  match stands for the calls that passed that check under the incoming payment's lock.

### DurableWork

`rows` is one table of `DurableWorkModel` rows, `tasks` the Celery tasks
draining it, `sent` the attempts whose side effect took place. Time is only what
remains: of a backoff, a lease, a task's hard limit; `Tick` lets one unit pass.
A task claims a batch, works on the rows one after the other and marks each
from the object it claimed. A task may be killed at any point, also between the
side effect and the mark; the answer of a provider may be lost. The soft time
limit raises inside the loop and is one of the `raised` outcomes.
The order in which `claim_due` takes due rows (oldest first) is left out: any
`Limit` due rows may be taken. `mark_processing` is not called by any code.

`retry_notification`, of the outbox alone, is two steps: the view loads a row that is
FAILED (`LoadFailed`), and the service saves PENDING and the time (`RetryNotification`)
without a lock and without looking at the row again. Between the two another
administrator's retry may have put the row back and a task may be at work on it or have
finished it; `overridden` records the rows that were hit when they were FAILED no longer. Only there may
two tasks have one row, under different attempts, and a processed row be sent again.

### MpesaReconciliation

`requests`, `incoming` and `callbacks` are the three tables; `calls` is the process
that committed an intent and is talking to the provider, `prompts` what the payer's
phone received, `txns` the open transaction of every process in
`process_mpesa_callback`. `initiate_stk_push` is four kinds of steps because other
transactions run between its two: the committed intent (`Initiate`), the provider
acting (`Prompt`), and one of the recorded answer, the recorded error and the
process's death (`RecordAnswer`, `RecordError`, `LoseCall`). An error may be
recorded after the prompt went out: a timeout looks the same.

`process_mpesa_callback` locks the callback (`Open`), then for an STK callback the
request (`Replay` and `Decline` commit with it, `Locate` goes on), then looks the receipt
up without a lock (`Look`) and finally inserts or locks it and commits (`Settle`).
Between `Look` and `Settle` the API, a bursar or another callback may create or resolve
the same receipt; `StillAsSeen` is what the unique transaction id and the re-check
of the status under the lock leave. Any check that does not hold, any constraint and
any other exception rolls the savepoint back and marks the callback failed
(`Fail`, enabled throughout); death or a lock timeout outside the savepoint leaves no
trace (`Crash`).

- Look-up and insert of `ingest_incoming_payment` are one step in `Ingest` and
  `Confirm`, which hold no earlier locks: an insert of the same id waits
  and then replays, which is where an earlier look-up would have led.
- The insert or lock of the receipt and the commit are one step of `Settle`: nobody
  else can see or change the row from the one to the other.
- Whether `record_payment` refuses is not decided here: `NewRows` allows both outcomes.
  The payment, its key derived from the receipt's row, and its automatic allocation are
  the ledger's.
- The checkout id the provider gives to request r's prompt is r; merchant ids and
  phone numbers, checked the same way, are folded into it. An operator may
  identify a request with a wrong id.
- A reference names at most one student: references that name several are treated like
  those that name none (`_recognize_student_from_reference`).
- Payloads are those that pass field validation (`_parse_stk`); others only reach `Fail`.
- Left out: gateway configuration, `query_stk_request`, which stores evidence nothing
  reads, and C2B validation callbacks, which change nothing but their own status.

### ReceiptResweep

`sweep` says whether the task is due or how its last run ended. The task opens no
transaction, so the row lock its helper asks for is an exception on PostgreSQL; rows
whose reference is not recognised are passed over before that. `strangers` records the
receipts whose reference named nobody on the roster when they came in: an entry that is
unmatched for another reason (`record_payment` refused it) is a bursar's by design, and
the property is not about it. Staleness of
an hour and the batch limit are left out: they only make fewer rows eligible.

### Modules of calls that hold what they loaded

The remaining modules have one shape. `calls` (`requests`, `edits`, `txns`,
`tasks`, `forms`) says by worker which call it is in and what it has read: a
view loads the object named in the URL (`LoadRole`, `LoadPlan`, `LoadForEdit`,
`LoadForLine`, `LoadForRetry`, `LoadStudent`, ...), a service checks, a
transaction writes. A step boundary stands wherever the code reads something
it later uses without holding a lock on it; reads under the row's lock and the
write that follows are one step. `Abandon`, `Refuse` and `Rollback` end a call
that was refused or killed. A service that locks first and re-reads, such as the
assessment transitions, is therefore one step, and whatever its view had loaded
does not matter to it.

Some states are reachable only because the code decides from outdated copies.
For those a history variable records the cause where it arises (`editedLate`, `resettled`,
`stale`, `overridden`, `raced`, `outdated`, `late`, `overwritten`), and the properties say that
this is the only cause: each promise holds in every interleaving in which no
copy was outdated. That also means that they do not catch the effect of that one
cause: the hazards of this kind are exempted, not excluded. The histories are read by
no action.

- `FeeStructures`: one structure, its lines, the assignments and the invoices of
  its students. `InsertInvoice` is apart from `RequestInvoice` because the
  assignment's lock is held between them; a bulk run visits its students one
  after the other, each in its own transactions, and may fail at any of them.
- `NotificationPipeline`: one event. A rule is identified by its channel, a
  template by which of three texts it has ("broken" names a variable the context
  lacks). `Enqueue` commits row by row and refuses a key that exists with another
  recipient or text, which ends the rule.
- `NotificationDelivery`: one outbox row. `tries` are the attempts by number;
  a gateway may raise before or after the message went out.
- `DocumentStore`: `files` have an age ("unborn", "fresh", "old", "gone"), since the sweep only
  takes old files; `ListRows` and `ListFiles` are its two listings. Storage calls
  take effect at once, rows at the commit. That a file does not get old while
  its upload is between the file and the row, or a sweep between its two listings,
  is the code's assumption behind the
  one-hour minimum age, and a guard of `AgeFile`.
- `LeaveRequests`: one employee. `waits` is a transaction that holds its first
  row lock and wants the second one; `TakesEmployeeFirst` tells which is which. Two
  calls may wait for each other, as in the code; one of them then rolls back.
  `setup` gives the first day of the leave year and the working days, and may
  change at any time. `carry_forward_leave` has no transaction: its read and its insert
  are two steps, and the insert waits for the employee's row only because of the
  foreign key. A cancellation computes the leave year and whether the type is tracked anew:
  `resettled` are the requests for which one of these changed from the moment their
  approval read it, and only of those may the ledger take days from one year and give them
  back to another, or not at all.
- `TenantAdministration`: `update_role` saves the whole loaded row, inserting it
  again if it was deleted; `_ensure_not_removing_last_administrator` counts under
  locks, but whether it is called was decided from the copy.
- `SubscriptionPlans`: `update_plan` saves the whole loaded row. The conditional
  unique index lets at most one row be the default.
- `AssessmentLifecycle`: one assessment. Marks are whole percentages; grading
  bands are copied at its creation.
- `ClassRegister`: one class on one day. `signed` is the register as submitted, `trail` that
  register with the audited corrections applied to it, one by one.
- `Admissions`: `transition_application` and `change_student_status` save the
  status over whatever is stored; `enroll_application` re-reads under a lock.
- `BellSchedule`: one day of one term. `SlotFree` are the three unique
  constraints of `TimetableEntry`. A change of a period is three steps: the view loads it
  (`EditPeriod`), the service checks lessons and overlaps, with the loaded row for the time that is
  not given (`CheckUpdate`), and saves the fields given (`SavePeriod`).
- `StaffPlacement`: changes of an employee hold its row lock; memberships belong
  to tenancy and are read without one.

## 3. Runs

| run | instance | shows |
|---|---|---|
| `ledger` | 2 invoices of one student, 2 payments, 2 students, 3 allocations, amounts 0..2 | conservation, no overpayment, well-formed rows, reconciliation, history |
| `ledger_credit` | 1 invoice, 1 payment, amount 1 | finding: a credit note after an allocation |
| `transactions` | 2 workers, all 9 calls, 2 invoices, 2 payments, 2 allocations, amount 1 | refinement of `FeeLedger`, gapless numbers |
| `transactions_reversals` | 2 workers from a settled state with crosswise allocations, both reversals and matches of incoming payments, up to 5 allocations | no deadlock on row locks; every transaction ends |
| `durable_work` | 2 rows, 2 workers, 2 attempts, lease 1, time limit 1, batches of up to 2, 1 kill, 2 retries | exclusive claims, send before mark, every attempt accounted for, settled until retried, every row settles |
| `durable_work_dead_letter` | the same | finding: attempts beyond `MAX_ATTEMPTS` |
| `mpesa` | 2 requests for one student, 1 receipt, 2 students, amounts 1 and 2, 2 callbacks of 5 bodies, 2 processes; the second request's prompt already answered | types, backing, standing acknowledgements, evidence, one prompt per key, steps of `ReceiptBook` |
| `mpesa_resweep` | 1 receipt, 1 student, amount 1 | finding: the sweep never matches a receipt whose student was admitted after it |
| `administration` | 2 users, 2 roles, 2 permissions, 2 plans, 1 tenant, 2 workers; a behaviour exercises roles or plans, the other resting in its initial state | members have roles; one active default plan; the last administrator and the default are lost to outdated copies only |
| `leave` | 2 requests, 2 days, 2 leave years, 1 type that turns from approved to direct or untracked, 2 stages, 2 workers, balance 1; either one request through changing settings or two competing for dates and balance | stages, ledger and status agree; what an approval took is in its leave year and comes back to it; no overlap, no overdraft |
| `records` | nine components one at a time, 2 workers each, 2 of everything that competes | files and rows agree; everyone is notified once; registers, approved marks, admissions, lessons, links and invoices stand |
| `documents_purge` | 2 documents, 2 workers | finding: an interrupted purge leaves a row without a file |

`Records` joins components that share no row a property relates: `part` selects one at
the start, its variables hold that component's state and all others are null. Each property
speaks of one part. Its bounds: 2 attempts and 2 claims of an event, 3 claims of an
outbox row (one reclaimed, one retried), 4 changes of the notification
settings, marks 0 and 1, bells 0 to 2 (two adjacent periods, or one that covers
both), dates 1 and 2. `Administration` interleaves the requests of its two components;
`MCAdministration` explores each while the other rests in its initial state, and the theorems
of `Administration_proofs` are about all interleavings.

Why the bounds are enough to mean something. With three allocations a payment
can be allocated, reversed and allocated again, and two payments can compete for
an invoice; amounts 1 and 2 make partial allocations and reversals differ from
full ones, and 0 is the boundary the code refuses. Two workers are what a race
needs; deadlock needs two lock chains in opposite order, which is why the
reversal runs start from a state (reachable by the service calls, too deep to
reach within the bounds) in which both payments hold rows on both invoices,
created in opposite order. One receipt that two requests, a confirmation for another
student, the API and a bursar all claim is the contention that matters for M-Pesa;
two callbacks cover a duplicate, a success against a failure, and two requests
reported with one receipt. Its run starts from a state the service calls reach
(one student admitted, one prompt answered), so that the second request adds its
races without its own start. Credit notes and lone allocations
are left out of the reversal run: a credit note locks an invoice and then its own number
series, for which nobody waits while holding an invoice, and a match ends with the very
locks of an allocation, payment first and invoice second, after the receipt series. The
theorem `NoDeadlock` is about all nine calls. For the other components two workers and two
rows suffice for every race of a check with a write, and the bounds on claims and
changes leave room for one failure, one crash and one change between them.
With two attempts the backoff, the dead letter and a
reclaimed last attempt all occur; two retries of one row are two administrators who loaded
it together. A lease and a time limit of one tick and one kill keep the run short; with two of
each and two kills (two million states) the properties hold as well, and the theorems are for
any. The leave run lets either the first day of the leave year change or the working days, not both:
the one decides the year of a posting, the other whether there are days to ask for.
There a retired type stays retired, and two competing requests keep the type they began
with, approved or direct.

The runs say `CHECK_DEADLOCK FALSE` because the systems may stop: the ledger when
its tables are full, transactions when no document is left to make, work when
every row is settled, reconciliation when every request and callback is decided, and the
other components when no row is left to make. Symmetry is used only without liveness
properties; `MCRecords` swaps the students, documents, employees and periods in one
permutation, since each of its components has one of these sets.

Fairness. `LedgerTransactions!Fairness` is strong fairness of each worker's
steps: PostgreSQL queues lock waiters, so a row that is released again and again
is granted in the end. Rollbacks are never required. `DurableWork!FairSpec`
asks weak fairness of the reaper and of time, and of every worker's task steps:
Beat starts the tasks for ever. Kills are bounded (`MaxKills`), since a row whose
worker always dies never settles, and so are the retries of rows (`MaxRetries`). `ReceiptResweep!SweepSpec` asks weak fairness of Beat's
hourly schedule and of the task, which runs whenever it is due. The other modules
state no fairness: nothing in the code obliges a clerk to act, and the progress of
queued rows is `DurableWork`'s.

## 4. Findings

- `ledger_credit`: `issue_credit_note` bounds a credit by the invoice's total less
  earlier credit notes and ignores cash already allocated, although the comment
  above its lock is about the two "together" exceeding the balance. Fully
  paid, then fully credited: outstanding balance below zero. The student ledger
  still reconciles (the run `ledger`): the excess is the student's credit.
- `durable_work_dead_letter`: `reap_stale` has no `MAX_ATTEMPTS` check, so a row whose
  worker dies at the last attempt is attempted again, beyond the "dead-letter"
  that `mark_failed` documents.
- `mpesa_resweep`: `resweep_unmatched_incoming_payments` calls `_attempt_auto_match`, whose
  `select_for_update` needs a transaction, without opening one. On PostgreSQL Django
  raises at the first entry that could be matched, nothing catches it, and the sweep
  dies there every hour; the test of the task passes because `TestCase` has a
  transaction open around it.
- `documents_purge`: `purge_expired_documents` deletes files at once and rows at the
  commit of the whole batch. A worker killed in between, or a file that cannot be
  deleted, leaves rows of this batch without files until a later run: the opposite
  of what its docstring says.

Four further divergences show as exceptions of properties that hold.
`update_role`'s comment says that no concurrent update "can slip in between the
check and the save"; the permissions that decide whether there is a check were loaded
before (`LastAdministratorIsGuarded`). `update_plan`'s docstring promises "always exactly
one active default plan"; a stale whole-row save can clear the only default
(`DefaultLostOnlyByStaleCopy`). `record_attendance_bulk`'s docstring says that corrections
"are always audited"; a record set back to NOT_MARKED counts as not marked, so the next
mark leaves no entry (`RegisterStands`). And a cancellation of leave computes the leave year
anew (`cancel_approved_leave_request`), so a changed first day of the year makes it give the
days back to a year they were not taken from (`RequestsAndLedgerAgree`).

## 5. Proofs

TLAPS checks the following for every value of the constants.

`FeeLedger_proofs` (on `RowSums_proofs`): `TypeCorrect`, `RowsStayWellFormed`,
`CashConserved`, `NotOverpaid`, `Reconciles`, `HistoryKept`, from the named
assumptions of `FeeLedger` (natural bounds, distinct null values, a student for
every assignment, integer amounts). The inductive invariant is the conjunction
of types, well-formed rows, cash conservation, no overpayment and
reconciliation: conservation needs the reversal bound of well-formed rows (a sum
of nets is a natural number), and reconciliation needs the links between
allocations, payments and students, since a reversal debits the payment's
student while the balance is that of the invoice's. What a call does to a sum
over rows is one lemma per call; the sums' own laws (one row changed, one row
bounded by the sum, pointwise equality) are proved in `RowSums_proofs` from the
recursive function's definition.

`LedgerTransactions_proofs`: `TransactionsTyped`, `NumbersGapless`, `NoDeadlock` and
`ConcurrentCallsImplementLedger`. The row locks a worker holds are those its call has
claimed so far, and no row has two holders. From this follow three things. Number
series: whoever holds a series' row took the number after the last committed one, so
numbers commit without gaps. Deadlocks: every call locks rows in one order (incoming payment, key or
assignment, receipt series, payment, invoices in the order of their ids, the other series;
allocations only behind their payment, so nobody waits for one), so whoever
waits holds only rows before the one it waits for, and a circle of waiting workers would have
to descend somewhere. Refinement: what a call checked is about rows it has locked, so it
still holds at its commit, and the commit is the step of `FeeLedger` with those arguments;
every other step is a stutter.

`DurableWork_proofs`: `WorkTypeCorrect`, `ExclusiveClaims`, `AttemptsStayOwed` and
`SettledStaysUntilRetried`. Exclusiveness is not
inductive: a reaper could take a row from a live task. The strengthening says the
lease of every row a task still has to mark exceeds what is left of the task's
time limit; it is where the assumption `TimeLimit <= Lease` is used (settings: 300 s
and 300 s; a deployment that raises `CELERY_TASK_TIME_LIMIT` above the lease leaves
the proof's assumptions, and the code has no other protection). All of that is said of rows
no retry hit late; of the others it says that every task's attempt of a row is one the
row has counted, and no two tasks have the same one, so that even there nothing is sent twice
under one attempt. The bound on attempts is an account: every attempt beyond `MaxAttempts`
has a killed task or a retry that pays for it, and the account is kept while a reaped row waits
to be claimed again and while a late mark still comes.

`MpesaReconciliation_proofs`: `ReconciliationTypes`, `CompletedRequestsAreBacked`,
`StepsAreBookSteps`, `ReconciliationImplementsBook`, `ProcessedStand`, `DecisionsEvidenced`
and `PayerPromptedOnce`, for any sets of requests, receipts,
callbacks, bodies and processes that satisfy `ConstantsAssumption`. Backing is not
inductive: `Settle` uses what `Locate` checked in an earlier step, when others may have
moved since. The inductive invariant `ReconciliationInv` adds that unused rows are
blank, that a process at work holds a callback that is on file with a body, and that
the locks protect what was checked: while a process holds a request, no other holds it,
it stays undecided, the body it is processing reports its amount, and what it saw of the
receipt can only have been overtaken by a resolution. The refinement
takes one lemma per action that moves the book; every other action is a stutter there.
Three smaller invariants over it give the others: a process at work on a callback keeps
it from being processed (`InboxProtects`), a decided or refused request is named by a
verified callback (`DecidedIsNamed`), and a call to the provider belongs to a request
whose one prompt is that call's (`CallsFollowRequests`).

`LeaveRequests_proofs`: `LeaveTypes`, `DecidedOnce`, `SoundRequests` and `BalanceKept`, the
four properties of the run `leave`, from `LeaveAssumption`. The invariant says that no two calls
hold one row's lock and that what a call plans fits the rows it has locked: the status it
read of its request is still the request's, a stage it decides is still the first pending
one, and the employee's overlapping requests and balance are those it looked at. A submitted
request has approved stages before its current one and pending ones from there, which is
why a decision can be neither repeated nor skipped. A second invariant (`LedgerInv`) is about the
ledger: an approved request outside `resettled` has the one consumption that its type and the leave
year now in force ask for, and so has the posting of every call that will commit an approval
or a cancellation. `SoundRequests` needs the exceptions it states:
an edit works on a copy, and may write dates to a request that another call has submitted
meanwhile, and a cancellation reads settings that may have changed since the approval.

`Records_proofs`, about one component after the other, from `NoneAssumption` (the null
value is no key, no status and no row), `BoundAssumption` (bounds are natural numbers) and
`BandAssumption` (the limits of grading bands are integers). Each theorem holds of the
component by itself and of `Records`; `RecordsTyped` gives the types of all nine:

- `RegisterKept`: the types, and that before the register is opened it is empty; the rest
  of `RegisterStands` is inductive with them, since a change that leaves no audit entry is one of a
  record that reads NOT_MARKED, which the trail then says as well.
- `LessonsNeverMeet`: what a call has read of the bell times is still true unless the history
  `raced` says otherwise, periods that were checked against true views are apart, and the unique
  constraints then keep the lessons of one class, teacher and room apart.
- `LinksStayInScope`: an employee's row is locked by at most one call; what a call has checked of
  a membership stands until `outdated` records that tenancy changed it.
- `ApplicantsAdmittedOnce`: while the application was not saved over, a student exists only
  with the application enrolled, and at most one does; a student's last departure is its
  status unless that was overwritten.
- `StudentsBilledAsApproved`: no step takes anything back (approval, assignments, invoices, issued
  invoices), so what a call has learnt stays true until it uses it.
- `SentAgainForACause`: unless a retry came from an outdated row, at most one task works on the
  row, under the number of its last claim, and whatever was sent is marked, or about to be by that
  task, or excused by the attempt that lost its outcome.
- `MarksStandAsApproved`: a band about to be inserted overlaps none of those it was checked
  against; complete marks stay complete until the assessment is a draft again, and an edit of
  published marks that changes none leaves them all.
- `DocumentsKeepTheirFiles`: a file once gone stays gone; a key being uploaded has a fresh file and no
  row, and is uploaded by one call; purges hold disjoint batches of expired rows; a listing
  has seen every row whose file is old, so what a sweep will delete has no row; and a row without
  its file is one whose deletion has deleted the file and not yet the row, or was cut off.
  That the hour of `AgeFile` outlasts an upload and a sweep's listings is used here.
- `EveryoneIsEnqueued`: of a channel whose configuration did not change since the first claim,
  the rows say what the rule says now, the task's plan holds the rule as it is, and while the
  task works, the rule is still to come, or reached everyone, or is being worked off with everyone
  it has not reached still to do. A collision of keys on such a channel then means a shared contact
  or a broken template.

`Administration_proofs`: `AdministrationTyped`, `LastAdministratorGuarded`, `PlansStayConsistent`
and `DefaultLostToStaleCopy`, from `AdministrationAssumption`. Of the tenant, the invariant says
what a request of each kind holds: a checked update of a role has the guard on exactly if the
permission is among those it takes from its copy. When the copy is still the row, either the
guard found another administrator, or the write leaves the permission to everyone who has it; no
other call takes an administrator away. Of the platform, it says that any two
default plans are one (the cardinality follows), a default is active, subscribed plans exist and a request
holds a copy of some plan: a stale save may write a flag back only when no other plan has it, and
an update that clears the flag passes its check only if its copy did not have it.

Model-checked only: all liveness (`TransactionsEnd`
and the other properties under fairness: no prover here handles fairness or `ENABLED`); and
the four runs that show findings.

## 6. Plan

Done: the ledger and its transactions, durable work, M-Pesa, notifications,
documents, leave, tenancy, platform, assessments, attendance, admissions, timetable,
staff and fee structures, and proofs of every safety property the passing runs check.

Theorems worth proving next: that the sweep of receipts keeps what `MpesaReconciliation`
promises, and an abstract specification of leave (a balance and its entries) that
`LeaveRequests` implements.

Modules worth writing next: the retention of leave carried forward, and the
integration switches of the platform beside the M-Pesa configuration they change.

## 7. Not modelled

Permissions and tenant scoping of each call (a uniform guard in front of every
service, except where roles themselves change), serialisation, PDF and CSV rendering,
statistics, statements, listings and report queries, settings validation, sign-in, the
Redis cache (fail-open, holds no truth), rows that are inserted and only referenced (fee
items, academic years, qualifications, assessment types), the frontend, load tests and
scripts.
