---------------------------- MODULE ClassRegister ----------------------------
(***************************************************************************)
(* apps/attendance: the register of one class on one day. Opening it       *)
(* copies the roster, teachers record and correct statuses, one of them    *)
(* submits it. The service calls run in transactions that lock the         *)
(* session; the view loaded the session before.                            *)
(***************************************************************************)
EXTENDS Integers, FiniteSets

CONSTANTS Students, Workers, None

VARIABLES
    enrolled,   \* students with an ACTIVE enrolment in the class
    session,    \* AttendanceSession.status, None before it is opened
    records,    \* AttendanceRecord.status of each student, None without a record
    announced,  \* students with an "attendance.student.absent" event
    calls,      \* by worker, its request: the roster or the records it has read
    roster,     \* history: the students the register was opened with
    signed,     \* history: the records when the session was submitted
    trail       \* history: those records with the "attendance.record.corrected" activities since then applied

vars == <<enrolled, session, records, announced, calls, roster, signed, trail>>

Statuses == {"NOT_MARKED", "PRESENT", "ABSENT"}
Idle == [op |-> "idle", roster |-> {}, seen |-> None]

Init ==
    /\ enrolled \in SUBSET Students
    /\ session = None
    /\ records = [s \in Students |-> None]
    /\ announced = {}
    /\ calls = [w \in Workers |-> Idle]
    /\ roster = {} /\ signed = None /\ trail = None

\* Enrolments change while the register is kept.
ChangeEnrolment(s) ==
    /\ enrolled' = IF s \in enrolled THEN enrolled \ {s} ELSE enrolled \cup {s}
    /\ UNCHANGED <<session, records, announced, calls, roster, signed, trail>>

\* No session yet: the roster is read.
ResolveRoster(w) ==
    /\ calls[w] = Idle
    /\ session = None
    /\ calls' = [calls EXCEPT ![w] = [Idle EXCEPT !.op = "opening", !.roster = enrolled]]
    /\ UNCHANGED <<enrolled, session, records, announced, roster, signed, trail>>

MutantOpenSession(w) ==
    /\ calls[w].op = "opening"
    /\ calls' = [calls EXCEPT ![w] = Idle]
    /\ session' = "OPEN"
    /\ roster' = calls[w].roster
    /\ records' = [s \in Students |-> IF s \in calls[w].roster THEN "NOT_MARKED" ELSE None]
    /\ UNCHANGED <<enrolled, announced, signed, trail>>

\* The session and its records are inserted together, or another request's are returned
\* (unique_attendance_session_per_class_per_day).
OpenSession(w) ==
    /\ calls[w].op = "opening"
    /\ calls' = [calls EXCEPT ![w] = Idle]
    /\ IF session # None THEN UNCHANGED <<session, records, roster>>
       ELSE /\ session' = "OPEN"
            /\ roster' = calls[w].roster
            /\ records' = [s \in Students |-> IF s \in calls[w].roster THEN "NOT_MARKED" ELSE None]
    /\ UNCHANGED <<enrolled, announced, signed, trail>>

\* The view finds the session, with what its page showed of the records.
LoadSession(w) ==
    /\ calls[w] = Idle
    /\ session # None
    /\ calls' = [calls EXCEPT ![w] = [Idle EXCEPT !.op = "loaded", !.seen = records]]
    /\ UNCHANGED <<enrolled, session, records, announced, roster, signed, trail>>

MutantAnnounces(s, status) == records[s] = "PRESENT" /\ status = "ABSENT"
\* A change to ABSENT publishes the event; its dedupe key makes a second one a replay.
Announces(s, status) == records[s] # "ABSENT" /\ status = "ABSENT"

MutantAudited(s, status) == status # "NOT_MARKED" /\ records[s] # status
\* Only the change of a record that was marked counts as a correction.
Audited(s, status) == records[s] # "NOT_MARKED" /\ records[s] # status

\* record_attendance_bulk: the entries of students with a record, all or none.
RecordAttendance(w, entries) ==
    /\ calls[w].op = "loaded"
    /\ calls' = [calls EXCEPT ![w] = Idle]
    /\ \A s \in DOMAIN entries : records[s] # None
    /\ records' = [s \in Students |-> IF s \in DOMAIN entries THEN entries[s] ELSE records[s]]
    /\ announced' = announced \cup {s \in DOMAIN entries : Announces(s, entries[s])}
    /\ trail' = IF session = "SUBMITTED"
                THEN [s \in Students |-> IF s \in DOMAIN entries /\ Audited(s, entries[s]) THEN entries[s] ELSE trail[s]]
                ELSE trail
    /\ UNCHANGED <<enrolled, session, roster, signed>>

MutantComplete(w) == \A s \in Students : calls[w].seen[s] # "NOT_MARKED"
\* The completeness gate, read under the lock.
Complete(w) == \A s \in Students : records[s] # "NOT_MARKED"

SubmitSession(w) ==
    /\ calls[w].op = "loaded"
    /\ session = "OPEN"
    /\ Complete(w)
    /\ session' = "SUBMITTED"
    /\ signed' = records
    /\ trail' = records
    /\ calls' = [calls EXCEPT ![w] = Idle]
    /\ UNCHANGED <<enrolled, records, announced, roster>>

\* The service refused, or the client went away.
Abandon(w) ==
    /\ calls[w] # Idle
    /\ calls' = [calls EXCEPT ![w] = Idle]
    /\ UNCHANGED <<enrolled, session, records, announced, roster, signed, trail>>

OpenRequests(w) == ResolveRoster(w) \/ OpenSession(w)
RecordRequests(w) == LoadSession(w) \/ \E some \in SUBSET Students : \E entries \in [some -> Statuses] : RecordAttendance(w, entries)
SubmitRequests(w) == SubmitSession(w) \/ Abandon(w)

Next ==
    \/ \E s \in Students : ChangeEnrolment(s)
    \/ \E w \in Workers : OpenRequests(w) \/ RecordRequests(w) \/ SubmitRequests(w)

Spec == Init /\ [][Next]_vars

----------------------------------------------------------------------------
(* Properties *)

(* The types of the register and of the requests. *)
TypeOK ==
    /\ enrolled \subseteq Students /\ announced \subseteq Students
    /\ session \in {None, "OPEN", "SUBMITTED"}
    /\ records \in [Students -> Statuses \cup {None}]
    /\ \A w \in Workers : calls[w].op \in {"idle", "opening", "loaded"} /\ calls[w].roster \subseteq Students
    /\ roster \subseteq Students
    /\ signed = None <=> session # "SUBMITTED"
    /\ trail = None <=> session # "SUBMITTED"

(* The register lists the students enrolled when it was opened, whatever becomes
   of their enrolments and however many requests open it; a submitted one was
   complete, and reads as what was submitted with the audited corrections
   applied, except for a student whom the last of them has set back to
   NOT_MARKED (the mark that follows is not audited, although the docstring of
   record_attendance_bulk says that corrections always are); and every absence
   in it has been announced. *)
RegisterStands ==
    /\ \A s \in Students : (records[s] # None) <=> s \in roster
    /\ session = "SUBMITTED" => \A s \in roster : /\ signed[s] # "NOT_MARKED"
                                                  /\ records[s] # trail[s] => trail[s] = "NOT_MARKED"
    /\ \A s \in Students : records[s] = "ABSENT" => s \in announced
=============================================================================
