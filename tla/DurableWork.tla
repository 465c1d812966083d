---------------------------- MODULE DurableWork ----------------------------
(***************************************************************************)
(* apps/activity/durable_work.py with the Celery tasks that drain it       *)
(* (notification events, notification outbox, report exports): rows are    *)
(* claimed under a lease, worked on one after the other, marked, and       *)
(* reclaimed by a reaper when a worker dies. A row of the outbox that was  *)
(* dead-lettered may be sent back to work by retry_notification; the other *)
(* two tables have no such call (MaxRetries = 0).                          *)
(*                                                                         *)
(* Time is counted in ticks and only as what remains: of a row's backoff,  *)
(* of its lease, of a task's hard time limit.                              *)
(***************************************************************************)
EXTENDS Integers, FiniteSets

CONSTANTS
    Rows,           \* rows of one DurableWorkModel table
    Workers,        \* Celery worker processes
    MaxAttempts,    \* MAX_ATTEMPTS
    Lease,          \* DEFAULT_LEASE_SECONDS, in ticks
    TimeLimit,      \* CELERY_TASK_TIME_LIMIT, in ticks
    Limit,          \* rows one claim or one reap takes at most
    MaxKills,       \* bound: tasks that are killed or time out
    MaxRetries      \* bound: retry_notification calls for failed rows

\* The defaults: the lease outlives the task that holds it (300s and 300s).
ASSUME LimitsAssumption ==
    /\ MaxAttempts \in Nat \ {0} /\ Limit \in Nat \ {0} /\ MaxKills \in Nat /\ MaxRetries \in Nat
    /\ Lease \in Nat /\ TimeLimit \in Nat /\ TimeLimit <= Lease

VARIABLES
    rows,       \* the table; "NONE" is a row not yet published
    sent,       \* by row, the attempts whose side effect took place
    tasks,      \* by worker, the task it runs
    kills,      \* tasks killed so far
    retries,    \* requests that loaded a FAILED row so far
    asked,      \* by row, those that have not saved it
    retried,    \* by row, those that have
    overridden  \* history: rows such a save hit when they were FAILED no longer

retryVars == <<retries, asked, retried, overridden>>
vars == <<rows, sent, tasks, kills, retries, asked, retried, overridden>>

Statuses == {"NONE", "PENDING", "PROCESSING", "PROCESSED", "FAILED"}
Items == [row : Rows, attempt : Nat \ {0}]
NoItem == [row |-> "none", attempt |-> 0]
Row == [status : Statuses, attempts : Nat, wait : Nat, lease : Nat]
Task == [stage : {"idle", "next", "returned", "raised"}, batch : SUBSET Items,
         item : Items \cup {NoItem}, left : 0..TimeLimit]
IdleTask == [stage |-> "idle", batch |-> {}, item |-> NoItem, left |-> 0]

\* Backoff after the failure of attempt n, one tick being BACKOFF_BASE_SECONDS.
Backoff(n) == 2 ^ (n - 1)
\* Stated for the proofs, whose provers know nothing of ^.
ASSUME BackoffAssumption == \A n \in 1..MaxAttempts : Backoff(n) \in Nat

Running(w) == tasks[w].stage # "idle"

\* The rows of w's task it has not marked yet.
Unfinished(w) == tasks[w].batch \cup (IF tasks[w].item = NoItem THEN {} ELSE {tasks[w].item})

Init ==
    /\ rows = [r \in Rows |-> [status |-> "NONE", attempts |-> 0, wait |-> 0, lease |-> 0]]
    /\ sent = [r \in Rows |-> {}]
    /\ tasks = [w \in Workers |-> IdleTask]
    /\ kills = 0
    /\ retries = 0 /\ asked = [r \in Rows |-> 0] /\ retried = [r \in Rows |-> 0] /\ overridden = {}

\* A business transaction commits a new row, due at once.
Publish(r) ==
    /\ rows[r].status = "NONE"
    /\ rows' = [rows EXCEPT ![r].status = "PENDING"]
    /\ UNCHANGED <<sent, tasks, kills, retryVars>>

\* Variants named Mutant... are wrong on purpose, one plausible slip each.
MutantDueAfterFailure == {r \in Rows : rows[r].status \in {"PENDING", "FAILED"} /\ rows[r].wait = 0}

\* claim_due's filter.
Due == {r \in Rows : rows[r].status = "PENDING" /\ rows[r].wait = 0}

\* claim_due: a task takes up to Limit due rows in one committed UPDATE; a
\* row another claim is taking at the same time is skipped.
Claim(w) ==
    /\ ~Running(w)
    /\ \E claimed \in SUBSET Due :
           /\ claimed # {}
           /\ Cardinality(claimed) <= Limit
           /\ claimed = Due \/ Cardinality(claimed) = Limit
           /\ rows' = [r \in Rows |-> IF r \in claimed
                                      THEN [rows[r] EXCEPT !.status = "PROCESSING",
                                                           !.attempts = @ + 1,
                                                           !.lease = Lease + 1]
                                      ELSE rows[r]]
           /\ tasks' = [tasks EXCEPT ![w] =
                  [stage |-> "next", item |-> NoItem, left |-> TimeLimit,
                   batch |-> {[row |-> r, attempt |-> rows[r].attempts + 1] : r \in claimed}]]
    /\ UNCHANGED <<sent, kills, retryVars>>

MutantWorkSwallowsErrors(w) ==
    /\ tasks[w].stage = "next"
    /\ \E i \in tasks[w].batch, effect \in BOOLEAN :
           /\ sent' = IF effect THEN [sent EXCEPT ![i.row] = @ \cup {i.attempt}] ELSE sent
           /\ tasks' = [tasks EXCEPT ![w].stage = "returned", ![w].item = i, ![w].batch = @ \ {i}]
    /\ UNCHANGED <<rows, kills, retryVars>>

\* The loop body's work on the next row returns, or raises before or after
\* its side effect (a provider's answer lost, SoftTimeLimitExceeded).
Work(w) ==
    /\ tasks[w].stage = "next"
    /\ \E i \in tasks[w].batch, outcome \in {"returned", "raised"}, effect \in BOOLEAN :
           /\ outcome = "returned" => effect
           /\ sent' = IF effect THEN [sent EXCEPT ![i.row] = @ \cup {i.attempt}] ELSE sent
           /\ tasks' = [tasks EXCEPT ![w].stage = outcome, ![w].item = i, ![w].batch = @ \ {i}]
    /\ UNCHANGED <<rows, kills, retryVars>>

\* After the last row the task ends.
AfterMark(w) ==
    tasks' = [tasks EXCEPT ![w] = IF @.batch = {} THEN IdleTask
                                  ELSE [@ EXCEPT !.stage = "next", !.item = NoItem]]

\* mark_processed saves the object claimed, whatever the row says by now.
MarkProcessed(w) ==
    /\ tasks[w].stage = "returned"
    /\ rows' = [rows EXCEPT ![tasks[w].item.row].status = "PROCESSED",
                            ![tasks[w].item.row].lease = 0]
    /\ AfterMark(w)
    /\ UNCHANGED <<sent, kills, retryVars>>

\* mark_failed decides from the claimed object's attempts: retry or dead-letter.
MarkFailed(w) ==
    /\ tasks[w].stage = "raised"
    /\ LET i == tasks[w].item
           saved == IF i.attempt >= MaxAttempts
                    THEN [rows[i.row] EXCEPT !.status = "FAILED", !.lease = 0]
                    ELSE [rows[i.row] EXCEPT !.status = "PENDING", !.lease = 0, !.wait = Backoff(i.attempt)]
       IN  rows' = [rows EXCEPT ![i.row] = saved]
    /\ AfterMark(w)
    /\ UNCHANGED <<sent, kills, retryVars>>

\* The process is killed: out of memory, redeployed, or at the time limit.
Kill(w) ==
    /\ Running(w)
    /\ kills < MaxKills
    /\ kills' = kills + 1
    /\ tasks' = [tasks EXCEPT ![w] = IdleTask]
    /\ UNCHANGED <<rows, sent, retryVars>>

MutantExpiredIgnoresLease == {r \in Rows : rows[r].status = "PROCESSING"}
MutantExpiredNeverProcessing == {r \in Rows : rows[r].status = "PENDING" /\ rows[r].lease > 0}

\* reap_stale: up to Limit expired leases go back to PENDING, due at once.
Expired == {r \in Rows : rows[r].status = "PROCESSING" /\ rows[r].lease = 0}
Reap ==
    /\ \E reclaimed \in SUBSET Expired :
           /\ reclaimed # {}
           /\ Cardinality(reclaimed) <= Limit
           /\ reclaimed = Expired \/ Cardinality(reclaimed) = Limit
           /\ rows' = [r \in Rows |-> IF r \in reclaimed
                                      THEN [rows[r] EXCEPT !.status = "PENDING", !.wait = 0]
                                      ELSE rows[r]]
    /\ UNCHANGED <<sent, tasks, kills, retryVars>>

\* retry_notification works on a row the view loaded without a lock and
\* refuses one that was not FAILED then.
LoadFailed(r) ==
    /\ rows[r].status = "FAILED"
    /\ retries < MaxRetries
    /\ retries' = retries + 1
    /\ asked' = [asked EXCEPT ![r] = @ + 1]
    /\ UNCHANGED <<rows, sent, tasks, kills, retried, overridden>>

\* Its save: due at once, whatever the row says by now, its attempts kept.
RetryNotification(r) ==
    /\ asked[r] > 0
    /\ rows' = [rows EXCEPT ![r].status = "PENDING", ![r].wait = 0]
    /\ asked' = [asked EXCEPT ![r] = @ - 1]
    /\ retried' = [retried EXCEPT ![r] = @ + 1]
    /\ overridden' = IF rows[r].status = "FAILED" THEN overridden ELSE overridden \cup {r}
    /\ UNCHANGED <<sent, tasks, kills, retries>>

MutantLessBelowZero(n) == n - 1

\* Time passes; a task at its hard limit is killed or done before it does.
Less(n) == IF n > 0 THEN n - 1 ELSE 0
Tick ==
    /\ \A w \in Workers : Running(w) => tasks[w].left > 0
    /\ \/ \E r \in Rows : rows[r].wait > 0 \/ rows[r].lease > 0
       \/ \E w \in Workers : Running(w)
    /\ rows' = [r \in Rows |-> [rows[r] EXCEPT !.wait = Less(@), !.lease = Less(@)]]
    /\ tasks' = [w \in Workers |-> [tasks[w] EXCEPT !.left = Less(@)]]
    /\ UNCHANGED <<sent, kills, retryVars>>

TaskStep(w) == Claim(w) \/ Work(w) \/ MarkProcessed(w) \/ MarkFailed(w)

Next ==
    \/ \E r \in Rows : Publish(r) \/ LoadFailed(r) \/ RetryNotification(r)
    \/ \E w \in Workers : TaskStep(w) \/ Kill(w)
    \/ Reap
    \/ Tick

Spec == Init /\ [][Next]_vars

\* Beat starts the draining and reaping tasks again and again, a task that
\* is not killed goes on, and time passes.
FairSpec == Spec /\ WF_vars(Reap) /\ WF_vars(Tick) /\ \A w \in Workers : WF_vars(TaskStep(w))

-----------------------------------------------------------------------------
(* Properties.                                                             *)

TypeOK ==
    /\ rows \in [Rows -> Row]
    /\ sent \in [Rows -> SUBSET Nat]
    /\ tasks \in [Workers -> Task]
    /\ kills \in 0..MaxKills /\ retries \in 0..MaxRetries
    /\ asked \in [Rows -> Nat] /\ retried \in [Rows -> Nat] /\ overridden \subseteq Rows

\* Two overlapping runs never both process a row (claim_due's comment), also
\* after leases expired and rows were claimed again: every unfinished row of
\* a live task is PROCESSING, leased, at the attempt the task claimed. After a
\* retry decided on an outdated row two runs may have the row, but never the
\* same attempt of it.
ClaimsAreExclusive ==
    \A w \in Workers : \A i \in Unfinished(w) :
        /\ i.row \notin overridden =>
               /\ rows[i.row].status = "PROCESSING"
               /\ rows[i.row].lease > 0
               /\ rows[i.row].attempts = i.attempt
               /\ \A v \in Workers \ {w} : \A j \in Unfinished(v) : j.row # i.row
        /\ \A v \in Workers \ {w} : i \notin Unfinished(v)

\* The work is done before the row says so, and no attempt does it that was
\* not claimed. mark_failed dead-letters after MAX_ATTEMPTS attempts: every
\* attempt beyond is owed to a task that was killed or to a retry, one each,
\* whatever outdated rows retries were decided on and tasks were marking.
AttemptsAreOwed ==
    \A r \in Rows :
        /\ rows[r].status = "PROCESSED" => sent[r] # {}
        /\ rows[r].status = "PROCESSED" /\ r \notin overridden => rows[r].attempts \in sent[r]
        /\ sent[r] \subseteq 1..rows[r].attempts
        /\ rows[r].attempts <= MaxAttempts + kills + retried[r]

\* PROCESSED is final, FAILED until an administrator retries the row, which
\* is due at once then and counts its attempts on: no side effect follows and
\* nothing else writes the row, unless a retry was decided on an outdated row.
\* The side effect of an attempt is never repeated, outdated row or not.
SettledUntilRetried ==
    [][\A r \in Rows :
          /\ rows[r].status \in {"PROCESSED", "FAILED"} /\ r \notin overridden' =>
                /\ sent'[r] = sent[r]
                /\ \/ rows'[r].status = rows[r].status
                   \/ /\ rows[r].status = "FAILED" /\ rows'[r].status = "PENDING"
                      /\ rows'[r].wait = 0 /\ rows'[r].attempts = rows[r].attempts
                      /\ asked[r] > asked'[r]
          /\ \A w \in Workers : tasks[w].stage = "next" /\ tasks'[w].stage \in {"returned", "raised"}
                 /\ tasks'[w].item.row = r => tasks'[w].item.attempt \notin sent[r]]_vars

\* Every published row is eventually processed or dead-lettered, if only
\* finitely many tasks are killed and finitely many retries made.
RowsSettle == \A r \in Rows : rows[r].status = "PENDING" ~> rows[r].status \in {"PROCESSED", "FAILED"}

\* mark_failed's dead letter: no automatic retry after MAX_ATTEMPTS attempts.
DeadLettersAfterMaxAttempts == \A r \in Rows : rows[r].attempts <= MaxAttempts + retried[r]
=============================================================================
