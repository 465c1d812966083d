----------------------------- MODULE Admissions -----------------------------
(***************************************************************************)
(* apps/admissions, with the parts of apps/students and apps/academics it  *)
(* ends in: an application is moved through its review, an accepted one is *)
(* enrolled as a student with a place in a class, and the student leaves   *)
(* in the end. Enrolment locks the application; every other change is      *)
(* decided from an object loaded earlier.                                  *)
(***************************************************************************)
EXTENDS Integers, FiniteSets

CONSTANTS Students, Years, Workers, None    \* Students: by admission number

VARIABLES
    application,    \* Application.status
    students,       \* Student.status, None before the student exists
    enrollments,    \* StudentEnrollment rows, <<student, year>>
    calls,          \* by worker, the object it has loaded
    admitted,       \* history: the students enroll_application created
    departures,     \* history: the terminal statuses each student was given
    overwritten     \* history: objects saved over a status that was no longer as loaded

vars == <<application, students, enrollments, calls, admitted, departures, overwritten>>

AllowedTransitions ==
    [DRAFT |-> {"SUBMITTED"}, SUBMITTED |-> {"UNDER_REVIEW"}, UNDER_REVIEW |-> {"ACCEPTED", "REJECTED"},
     ACCEPTED |-> {"ENROLLED"}, REJECTED |-> {}, ENROLLED |-> {}]
StudentTransitions ==
    [ACTIVE |-> {"SUSPENDED", "TRANSFERRED", "WITHDRAWN", "GRADUATED"}, SUSPENDED |-> {"ACTIVE", "WITHDRAWN"},
     TRANSFERRED |-> {}, WITHDRAWN |-> {}, GRADUATED |-> {}]
ApplicationStatuses == DOMAIN AllowedTransitions
StudentStatuses == DOMAIN StudentTransitions
Terminal == {"TRANSFERRED", "WITHDRAWN", "GRADUATED"}

Objects == Students \cup {"application"}
Idle == [object |-> None, seen |-> None]

Init ==
    /\ application = "DRAFT"
    /\ students = [s \in Students |-> None]
    /\ enrollments = {}
    /\ calls = [w \in Workers |-> Idle]
    /\ admitted = {}
    /\ departures = [s \in Students |-> {}]
    /\ overwritten = {}

Ends(w) == calls' = [calls EXCEPT ![w] = Idle]
\* The save writes the status whatever the row says by now.
Overwrites(object, seen, status) == overwritten' = IF seen = status THEN overwritten ELSE overwritten \cup {object}

LoadApplication(w) ==
    /\ calls[w] = Idle
    /\ calls' = [calls EXCEPT ![w] = [object |-> "application", seen |-> application]]
    /\ UNCHANGED <<application, students, enrollments, admitted, departures, overwritten>>

TransitionApplication(w, status) ==
    /\ calls[w].object = "application"
    /\ status \in AllowedTransitions[calls[w].seen]
    /\ application' = status
    /\ Overwrites("application", calls[w].seen, application)
    /\ Ends(w)
    /\ UNCHANGED <<students, enrollments, admitted, departures>>

MutantStatusToEnroll(w) == calls[w].seen
\* enroll_application reads the application again under its lock.
StatusToEnroll(w) == application

\* enroll_application: the student, the place and the status in one transaction;
\* unique_admission_number_per_tenant refuses a number in use.
EnrollApplication(w, s, year) ==
    /\ calls[w].object = "application"
    /\ StatusToEnroll(w) = "ACCEPTED"
    /\ students[s] = None
    /\ students' = [students EXCEPT ![s] = "ACTIVE"]
    /\ enrollments' = enrollments \cup {<<s, year>>}
    /\ application' = "ENROLLED"
    /\ admitted' = admitted \cup {s}
    /\ Ends(w)
    /\ UNCHANGED <<departures, overwritten>>

\* academics.enroll_student for a later year (unique_student_enrollment_per_year); the
\* student's status is not asked for.
EnrollStudent(s, year) ==
    /\ students[s] # None
    /\ <<s, year>> \notin enrollments
    /\ enrollments' = enrollments \cup {<<s, year>>}
    /\ UNCHANGED <<application, students, calls, admitted, departures, overwritten>>

LoadStudent(w, s) ==
    /\ calls[w] = Idle
    /\ students[s] # None
    /\ calls' = [calls EXCEPT ![w] = [object |-> s, seen |-> students[s]]]
    /\ UNCHANGED <<application, students, enrollments, admitted, departures, overwritten>>

MutantMayBecome(seen, status) == status \in StudentStatuses \ {seen}
MayBecome(seen, status) == status \in StudentTransitions[seen]

ChangeStudentStatus(w, status) ==
    LET s == calls[w].object IN
    /\ s \in Students
    /\ MayBecome(calls[w].seen, status)
    /\ students' = [students EXCEPT ![s] = status]
    /\ departures' = IF status \in Terminal THEN [departures EXCEPT ![s] = @ \cup {status}] ELSE departures
    /\ Overwrites(s, calls[w].seen, students[s])
    /\ Ends(w)
    /\ UNCHANGED <<application, enrollments, admitted>>

\* The call was refused, or never made.
Abandon(w) ==
    /\ calls[w] # Idle
    /\ Ends(w)
    /\ UNCHANGED <<application, students, enrollments, admitted, departures, overwritten>>

EnrollRequests(w) == LoadApplication(w) \/ \E s \in Students, year \in Years : EnrollApplication(w, s, year)

Next ==
    \/ \E w \in Workers :
           \/ EnrollRequests(w) \/ Abandon(w)
           \/ \E status \in ApplicationStatuses : TransitionApplication(w, status)
           \/ \E s \in Students : LoadStudent(w, s)
           \/ \E status \in StudentStatuses : ChangeStudentStatus(w, status)
    \/ \E s \in Students, year \in Years : EnrollStudent(s, year)

Spec == Init /\ [][Next]_vars

----------------------------------------------------------------------------
(* Properties *)

(* The types of the application, the students and the loaded objects. *)
TypeOK ==
    /\ application \in ApplicationStatuses
    /\ students \in [Students -> StudentStatuses \cup {None}]
    /\ enrollments \subseteq Students \X Years
    /\ calls \in [Workers -> [object : Objects \cup {None}, seen : ApplicationStatuses \cup StudentStatuses \cup {None}]]
    /\ admitted \subseteq Students
    /\ departures \in [Students -> SUBSET Terminal]
    /\ overwritten \subseteq Objects

(* However many clerks act on it, an application becomes at most one student,
   who has a place in a class, and stays ENROLLED; and a student who left for
   good stays so, for one reason. The exception is the code's: an object loaded
   before another's save overwrites it. *)
AdmittedOnce ==
    /\ "application" \notin overwritten =>
           /\ Cardinality(admitted) <= 1
           /\ admitted # {} => application = "ENROLLED"
    /\ \A s \in Students \ overwritten : Cardinality(departures[s]) <= 1 /\ (departures[s] # {} => {students[s]} = departures[s])
    /\ \A s \in admitted : students[s] # None /\ \E year \in Years : <<s, year>> \in enrollments
=============================================================================
