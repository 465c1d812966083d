------------------------ MODULE NotificationPipeline ------------------------
(***************************************************************************)
(* apps/notifications, first half: a business event becomes outbox rows    *)
(* under the tenant's rules. A task claims the event, reads the switches   *)
(* and rules, and enqueues one row after the other, each committed on its  *)
(* own, while administrators edit the configuration. There is one rule     *)
(* with one template per channel (unique_rule_per_event_recipient_channel).*)
(***************************************************************************)
EXTENDS Integers, FiniteSets

CONSTANTS
    Channels, Guardians, Contacts, None,
    Primary,        \* the guardian whose link is_primary; the others are emergency contacts
    AddressBooks,   \* bound: the guardians' contacts that are explored
    MaxAttempts,    \* MAX_ATTEMPTS
    MaxClaims,      \* bound: claims of the event
    MaxChanges      \* bound: changes of the configuration

VARIABLES
    enabled,    \* CommunicationSetup.notifications_enabled
    rules,      \* by channel: its switch, its rule, the rule's template
    contacts,   \* by guardian and channel, the phone number or address
    event,      \* the NotificationEvent
    outbox,     \* NotificationOutbox rows: their key and what they say to whom
    task,       \* the expansion of the event, if a worker is in one
    touched,    \* history: channels whose configuration changed since the first claim
    changes     \* changes so far

vars == <<enabled, rules, contacts, event, outbox, task, touched, changes>>

Policies == {"PRIMARY", "PRIMARY_AND_EMERGENCY"}
\* Texts of a template; "broken" names a variable the event does not supply.
Texts == {"first", "second", "broken"}
NoRule == [on |-> FALSE, enabled |-> FALSE, policy |-> None, text |-> "first", active |-> TRUE]
Rule == [on : BOOLEAN, enabled : BOOLEAN, policy : Policies \cup {None}, text : Texts, active : BOOLEAN]
NoTask == [step |-> "none", plan |-> {}, rule |-> None, left |-> {}]

Init ==
    /\ enabled = TRUE
    /\ rules = [c \in Channels |-> NoRule]
    /\ contacts \in AddressBooks
    /\ event = [status |-> "absent", attempts |-> 0]
    /\ outbox = {}
    /\ task = NoTask
    /\ touched = {} /\ changes = 0

----------------------------------------------------------------------------
(* Configuration *)

\* Every change that an expansion under way can see is remembered.
Changes(channels) ==
    /\ changes < MaxChanges
    /\ changes' = changes + 1
    /\ touched' = IF event.attempts > 0 THEN touched \cup channels ELSE touched

ConfigureSetup ==
    /\ Changes(Channels)
    /\ enabled' = ~enabled
    /\ UNCHANGED <<rules, contacts, event, outbox, task>>

SetRule(c, rule) ==
    /\ Changes({c})
    /\ rules' = [rules EXCEPT ![c] = rule]
    /\ UNCHANGED <<enabled, contacts, event, outbox, task>>

SetChannelEnabled(c) == SetRule(c, [rules[c] EXCEPT !.on = ~@])

\* create_notification_rule and update_notification_rule hold a rule's template to the
\* event's contract; a template is edited without asking which rules use it.
CreateRule(c) ==
    /\ rules[c].policy = None
    /\ rules[c].text # "broken"
    /\ \E policy \in Policies : SetRule(c, [rules[c] EXCEPT !.enabled = TRUE, !.policy = policy])

UpdateRule(c) ==
    /\ rules[c].policy # None
    /\ \/ SetRule(c, [rules[c] EXCEPT !.enabled = ~@])
       \/ \E policy \in Policies \ {rules[c].policy} : SetRule(c, [rules[c] EXCEPT !.policy = policy])

UpdateTemplate(c) ==
    \/ \E text \in Texts \ {rules[c].text} : SetRule(c, [rules[c] EXCEPT !.text = text])
    \/ SetRule(c, [rules[c] EXCEPT !.active = ~@])

\* A guardian's record is edited.
ChangeContacts ==
    /\ Changes(Channels)
    /\ contacts' \in AddressBooks \ {contacts}
    /\ UNCHANGED <<enabled, rules, event, outbox, task>>

----------------------------------------------------------------------------
(* Publishing and expanding *)

\* In the business transaction; the same dedupe key again finds this event.
PublishEvent ==
    /\ event.status = "absent"
    /\ event' = [event EXCEPT !.status = "PENDING"]
    /\ UNCHANGED <<enabled, rules, contacts, outbox, task, touched, changes>>

Claim ==
    /\ event.status = "PENDING" /\ task = NoTask
    /\ event.attempts < MaxClaims
    /\ event' = [status |-> "PROCESSING", attempts |-> event.attempts + 1]
    /\ task' = [NoTask EXCEPT !.step = "claimed"]
    /\ UNCHANGED <<enabled, rules, contacts, outbox, touched, changes>>

\* The rules as read at once: enabled, their channel on, their template active.
PlannedRules ==
    IF ~enabled THEN {}
    ELSE {[channel |-> c, policy |-> rules[c].policy, text |-> rules[c].text] :
             c \in {c \in Channels : rules[c].on /\ rules[c].enabled /\ rules[c].active}}

ReadRules ==
    /\ task.step = "claimed"
    /\ task' = [task EXCEPT !.step = "between", !.plan = PlannedRules]
    /\ UNCHANGED <<enabled, rules, contacts, event, outbox, touched, changes>>

\* _resolve_guardian_recipients: the policy's guardians who have a contact on the channel.
Recipients(rule) ==
    {[guardian |-> g, contact |-> contacts[g][rule.channel]] :
        g \in {g \in Guardians : /\ rule.policy = "PRIMARY" => g = Primary
                                 /\ contacts[g][rule.channel] # None}}

BeginRule ==
    /\ task.step = "between"
    /\ \E rule \in task.plan :
           task' = [step |-> "rule", plan |-> task.plan \ {rule}, rule |-> rule, left |-> Recipients(rule)]
    /\ UNCHANGED <<enabled, rules, contacts, event, outbox, touched, changes>>

MutantKey(rule, recipient) == <<rule.channel>>
\* The idempotency key of a row.
Key(rule, recipient) == <<rule.channel, recipient.contact>>

MutantEndRule == task' = [NoTask EXCEPT !.step = "between"]
\* A ValidationError is recorded and the loop goes on with the next rule.
EndRule == task' = [task EXCEPT !.step = "between", !.rule = None, !.left = {}]

\* enqueue_notification: a new row, the same row again, or a key already used for
\* another guardian or another text, which ends the rule.
Enqueue ==
    /\ task.step = "rule"
    /\ \E recipient \in task.left :
           LET row == [key |-> Key(task.rule, recipient), channel |-> task.rule.channel,
                       contact |-> recipient.contact, guardian |-> recipient.guardian, text |-> task.rule.text]
           IN  IF task.rule.text # "broken" /\ \A old \in outbox : old.key = row.key => old = row
               THEN outbox' = outbox \cup {row} /\ task' = [task EXCEPT !.left = @ \ {recipient}]
               ELSE EndRule /\ UNCHANGED outbox
    /\ UNCHANGED <<enabled, rules, contacts, event, touched, changes>>

FinishRule ==
    /\ task.step = "rule" /\ task.left = {}
    /\ EndRule
    /\ UNCHANGED <<enabled, rules, contacts, event, outbox, touched, changes>>

MarkProcessed ==
    /\ task.step = "between" /\ task.plan = {}
    /\ event' = [event EXCEPT !.status = "PROCESSED"]
    /\ task' = NoTask
    /\ UNCHANGED <<enabled, rules, contacts, outbox, touched, changes>>

\* Any other exception ends the attempt: it is tried again or dead-lettered.
MarkFailed ==
    /\ task # NoTask
    /\ event' = [event EXCEPT !.status = IF event.attempts >= MaxAttempts THEN "FAILED" ELSE "PENDING"]
    /\ task' = NoTask
    /\ UNCHANGED <<enabled, rules, contacts, outbox, touched, changes>>

Crash ==
    /\ task # NoTask
    /\ task' = NoTask
    /\ UNCHANGED <<enabled, rules, contacts, event, outbox, touched, changes>>

MutantLeaseExpired == TRUE
\* The lease outlives the task that holds it (DurableWork).
LeaseExpired == task = NoTask

Reap ==
    /\ event.status = "PROCESSING" /\ LeaseExpired
    /\ event' = [event EXCEPT !.status = "PENDING"]
    /\ UNCHANGED <<enabled, rules, contacts, outbox, task, touched, changes>>

SetupRequests == ConfigureSetup \/ \E c \in Channels : SetChannelEnabled(c)
TemplateRequests == \E c \in Channels : UpdateTemplate(c)
RuleRequests == \E c \in Channels : CreateRule(c) \/ UpdateRule(c)
ExpandRules == ReadRules \/ BeginRule \/ Enqueue \/ FinishRule
ExpansionTask == Claim \/ ExpandRules \/ MarkProcessed \/ MarkFailed \/ Crash \/ Reap

Next == SetupRequests \/ TemplateRequests \/ RuleRequests \/ ChangeContacts \/ PublishEvent \/ ExpansionTask
Spec == Init /\ [][Next]_vars

----------------------------------------------------------------------------
(* Properties *)

(* The types of the configuration, the event, the rows and the task. *)
TypeOK ==
    /\ enabled \in BOOLEAN
    /\ rules \in [Channels -> Rule]
    /\ contacts \in AddressBooks
    /\ event \in [status : {"absent", "PENDING", "PROCESSING", "PROCESSED", "FAILED"}, attempts : 0..MaxClaims]
    /\ \A row \in outbox : row.channel \in Channels /\ row.guardian \in Guardians /\ row.text \in Texts
    /\ task.step \in {"none", "claimed", "between", "rule"}
    /\ (task # NoTask) => event.status = "PROCESSING"
    /\ touched \subseteq Channels
    /\ changes \in 0..MaxChanges

\* The guardians the channel's rule is for now; their contacts differ.
Audience(c) == {g \in Guardians : contacts[g][c] # None /\ (rules[c].policy = "PRIMARY" => g = Primary)}
Serves(c) == enabled /\ rules[c].on /\ rules[c].enabled /\ rules[c].active /\ rules[c].text # "broken"
Distinct(c) == \A g, h \in Audience(c) : contacts[g][c] = contacts[h][c] => g = h

(* Once an event is processed, after failures, crashes and repeated attempts,
   every rule whose configuration did not change since the first attempt has
   reached all its recipients, whatever happened to the other rules ("a single
   rule's bad template [...] never aborting a sibling rule's expansion"). The
   exceptions are the code's: two guardians with one phone number collide on the
   key and end the rule, and so does a text edited between two attempts. *)
EveryoneEnqueued ==
    event.status = "PROCESSED" =>
        \A c \in Channels \ touched :
            Serves(c) /\ Distinct(c) =>
                \A g \in Audience(c) :
                    \E row \in outbox : row.channel = c /\ row.contact = contacts[g][c] /\ row.guardian = g
=============================================================================
