------------------------ MODULE NotificationDelivery ------------------------
(***************************************************************************)
(* apps/notifications, second half: an outbox row is claimed, an attempt   *)
(* is opened, the gateway of its channel sends it, the attempt and then    *)
(* the row are marked. Administrators retry a failed row from an object    *)
(* they loaded earlier.                                                    *)
(***************************************************************************)
EXTENDS Integers, FiniteSets

CONSTANTS
    Workers, Administrators, None,
    MaxAttempts,    \* MAX_ATTEMPTS
    MaxClaims       \* bound: claims of the row

VARIABLES
    channel,    \* "IN_APP", or "SMS" for the channels with a provider
    supported,  \* the configured provider is one resolve_gateway knows
    row,        \* the NotificationOutbox row
    tries,      \* NotificationDeliveryAttempt, by attempt_number
    tasks,      \* by worker, its step and the attempts its copy of the row has
    forms,      \* by administrator, the status loaded for retry_notification
    inbox,      \* UserNotification rows of this source_notification, by the attempt that wrote it
    sent,       \* history: attempts whose message went out
    excused,    \* history: attempts that ended without the row being marked as sent
    stale       \* history: a retry saved over a row that was no longer as loaded

vars == <<channel, supported, row, tries, tasks, forms, inbox, sent, excused, stale>>

Statuses == {"PENDING", "PROCESSING", "PROCESSED", "FAILED"}
Numbers == 1..MaxClaims
NoTask == [step |-> "none", number |-> 0]
Steps == {"none", "claimed", "opened", "returned", "raised", "recorded", "refused"}

Init ==
    /\ channel \in {"IN_APP", "SMS"}
    /\ supported \in BOOLEAN
    /\ row = [status |-> "PENDING", attempts |-> 0]
    /\ tries = [n \in Numbers |-> "none"]
    /\ tasks = [w \in Workers |-> NoTask]
    /\ forms = [a \in Administrators |-> None]
    /\ inbox = {} /\ sent = {} /\ excused = {} /\ stale = FALSE

Step(w, step) == tasks' = [tasks EXCEPT ![w].step = step]

\* configure_provider takes any provider name.
ConfigureProvider ==
    /\ supported' = ~supported
    /\ UNCHANGED <<channel, row, tries, tasks, forms, inbox, sent, excused, stale>>

Claim(w) ==
    /\ tasks[w] = NoTask
    /\ row.status = "PENDING" /\ row.attempts < MaxClaims
    /\ row' = [status |-> "PROCESSING", attempts |-> row.attempts + 1]
    /\ tasks' = [tasks EXCEPT ![w] = [step |-> "claimed", number |-> row.attempts + 1]]
    /\ UNCHANGED <<channel, supported, tries, forms, inbox, sent, excused, stale>>

\* unique_delivery_attempt_number
OpenAttempt(w) ==
    /\ tasks[w].step = "claimed"
    /\ tries[tasks[w].number] = "none"
    /\ tries' = [tries EXCEPT ![tasks[w].number] = "PROCESSING"]
    /\ Step(w, "opened")
    /\ UNCHANGED <<channel, supported, row, forms, inbox, sent, excused, stale>>

MutantWrites(n) == {n}
\* InAppGateway.send: get_or_create by source_notification.
Writes(n) == IF inbox = {} THEN {n} ELSE {}

\* The gateway returns, or raises before or after the message went out.
Send(w) ==
    LET n == tasks[w].number IN
    /\ tasks[w].step = "opened"
    /\ \E out \in {"returned", "raised"}, effect \in BOOLEAN :
           /\ out = "returned" => effect
           /\ effect => channel = "IN_APP" \/ supported
           /\ Step(w, out)
           /\ IF channel = "IN_APP"
              THEN inbox' = (IF effect THEN inbox \cup Writes(n) ELSE inbox) /\ UNCHANGED sent
              ELSE sent' = (IF effect THEN sent \cup {n} ELSE sent) /\ UNCHANGED inbox
           /\ excused' = IF out = "raised" THEN excused \cup {n} ELSE excused
    /\ UNCHANGED <<channel, supported, row, tries, forms, stale>>

RecordAttempt(w) ==
    LET ok == tasks[w].step = "returned" IN
    /\ tasks[w].step \in {"returned", "raised"}
    /\ tries' = [tries EXCEPT ![tasks[w].number] = IF ok THEN "SENT" ELSE "FAILED"]
    /\ Step(w, IF ok THEN "recorded" ELSE "refused")
    /\ UNCHANGED <<channel, supported, row, forms, inbox, sent, excused, stale>>

MarkProcessed(w) ==
    /\ tasks[w].step = "recorded"
    /\ row' = [row EXCEPT !.status = "PROCESSED"]
    /\ tasks' = [tasks EXCEPT ![w] = NoTask]
    /\ UNCHANGED <<channel, supported, tries, forms, inbox, sent, excused, stale>>

MarkFailed(w) ==
    /\ tasks[w].step = "refused"
    /\ row' = [row EXCEPT !.status = IF tasks[w].number >= MaxAttempts THEN "FAILED" ELSE "PENDING"]
    /\ tasks' = [tasks EXCEPT ![w] = NoTask]
    /\ UNCHANGED <<channel, supported, tries, forms, inbox, sent, excused, stale>>

Crash(w) ==
    /\ tasks[w] # NoTask
    /\ tasks' = [tasks EXCEPT ![w] = NoTask]
    /\ excused' = excused \cup {tasks[w].number}
    /\ UNCHANGED <<channel, supported, row, tries, forms, inbox, sent, stale>>

\* The lease of the last claim outlives the task that took it (DurableWork).
Reap ==
    /\ row.status = "PROCESSING"
    /\ \A w \in Workers : tasks[w].number # row.attempts
    /\ row' = [row EXCEPT !.status = "PENDING"]
    /\ UNCHANGED <<channel, supported, tries, tasks, forms, inbox, sent, excused, stale>>

LoadForRetry(a) ==
    /\ forms[a] = None
    /\ forms' = [forms EXCEPT ![a] = row.status]
    /\ UNCHANGED <<channel, supported, row, tries, tasks, inbox, sent, excused, stale>>

MutantRetryable(status) == status \in {"FAILED", "PROCESSED"}
Retryable(status) == status = "FAILED"

RetryNotification(a) ==
    /\ forms[a] # None
    /\ forms' = [forms EXCEPT ![a] = None]
    /\ row' = IF Retryable(forms[a]) THEN [row EXCEPT !.status = "PENDING"] ELSE row
    /\ stale' = (stale \/ (Retryable(forms[a]) /\ forms[a] # row.status))
    /\ UNCHANGED <<channel, supported, tries, tasks, inbox, sent, excused>>

DispatchTask(w) == Claim(w) \/ OpenAttempt(w) \/ Send(w) \/ RecordAttempt(w) \/ MarkProcessed(w) \/ MarkFailed(w)
RetryRequests(a) == LoadForRetry(a) \/ RetryNotification(a)

Next ==
    \/ ConfigureProvider
    \/ \E w \in Workers : DispatchTask(w) \/ Crash(w)
    \/ Reap
    \/ \E a \in Administrators : RetryRequests(a)

Spec == Init /\ [][Next]_vars

----------------------------------------------------------------------------
(* Properties *)

(* The types of the row, its attempts and the copies of it. *)
TypeOK ==
    /\ channel \in {"IN_APP", "SMS"} /\ supported \in BOOLEAN /\ stale \in BOOLEAN
    /\ row \in [status : Statuses, attempts : 0..MaxClaims]
    /\ tries \in [Numbers -> {"none", "PROCESSING", "SENT", "FAILED"}]
    /\ tasks \in [Workers -> [step : Steps, number : 0..MaxClaims]]
    /\ forms \in [Administrators -> Statuses \cup {None}]
    /\ inbox \subseteq Numbers /\ sent \subseteq Numbers /\ excused \subseteq Numbers

(* Attempts, crashes, reaped leases and retries by several administrators send a
   message again only after an attempt whose outcome did not reach the row, or
   after a retry that was decided from an outdated row; and an in-app message
   appears once however often it is sent ("effectively exactly-once"). *)
SentAgainOnlyWithCause ==
    /\ stale \/ Cardinality(sent \ excused) <= 1
    /\ stale \/ (row.status = "PROCESSED" => \A n \in sent \ excused : n = row.attempts)
    /\ Cardinality(inbox) <= 1
=============================================================================
