------------------------------ MODULE Records ------------------------------
(* The components that keep the school's records, and those that serve them: *)
(* the document store, the expansion of an event into notifications, and the *)
(* delivery of one of them, which begins with the row as an expansion inserts *)
(* it. None of the nine writes a row another one's property is about, so     *)
(* each is specified by itself: part says which one runs, and what only the  *)
(* others have is None. The requests in progress are calls in those that     *)
(* serve requests.                                                           *)
EXTENDS Integers, FiniteSets

CONSTANTS
    None, Gone, Workers, Students, Documents, Employees,
    Guardians, Contacts, Channels, Primary, Administrators,
    Periods, Rooms, Years, Items, Accounts, Campuses,
    LastBell, LastDay, MaxMarks,
    MaxAttempts,    \* MAX_ATTEMPTS
    MaxClaims, DeliveryClaims, MaxChanges,  \* bounds: claims of the event, of a notification, changes of the setup
    AddressBooks,   \* bound: the guardians' contacts that are explored
    BandChoices,    \* bound: the grading bands that may be added
    Assigned        \* TeacherAssignment rows, <<teacher, class>>

\* None stands for NULL: it is no key and no value of a column.
ASSUME NoneAssumption ==
    /\ None \notin {"NOT_MARKED", "PRESENT", "ABSENT", "OPEN", "DRAFT", "SUBMITTED", "APPROVED", "PUBLISHED",
                    "ACTIVE", "SUSPENDED", "TERMINATED", "TRANSFERRED", "WITHDRAWN", "GRADUATED", "application"}
    /\ None \notin [Students -> {"NOT_MARKED", "PRESENT", "ABSENT", None}]
    /\ None # Gone /\ {None, Gone} \cap [from : 0 .. LastBell, to : 0 .. LastBell, teaching : BOOLEAN] = {}
    /\ None \notin [status : {"ACTIVE", "SUSPENDED", "TERMINATED"}, campus : Campuses \cup {None},
                    account : Accounts \cup {None}, birth : (1 .. LastDay) \cup {None}, hire : 1 .. LastDay]
    /\ None \notin Students \cup Employees \cup Accounts \cup Periods
    /\ "application" \notin Students
    /\ None \notin [status : {"DRAFT", "ISSUED"}, lines : SUBSET Items]

\* The bounds, the highest mark and the limits of the bands are numbers.
ASSUME BoundAssumption ==
    DeliveryClaims \in Nat /\ MaxMarks \in Nat /\ MaxClaims \in Nat /\ MaxChanges \in Nat
ASSUME BandAssumption == BandChoices \subseteq [label : STRING, min : Int, max : Int]

VARIABLES
    part,       \* the component that runs
    calls, raced, enrolled, signed,     \* of more than one component
    session, records, announced, roster, trail,
    periods, entries,
    employees, memberships, outdated, ended,
    application, students, enrollments, admitted, departures, overwritten,
    structure, assigned, invoices, debited, late,
    bands, assessment, results,
    files, rows, references, retention, job, purged, storeCalls, interrupted,
    enabled, rules, contacts, event, outbox, task, touched, changes,
    channel, supported, row, tries, tasks, forms, inbox, sent, excused, stale

Register == INSTANCE ClassRegister
Timetable == INSTANCE BellSchedule
Staff == INSTANCE StaffPlacement
Applications == INSTANCE Admissions
Fees == INSTANCE FeeStructures
Assessments == INSTANCE AssessmentLifecycle
Store == INSTANCE DocumentStore WITH records <- references, calls <- storeCalls
Pipeline == INSTANCE NotificationPipeline
Delivery == INSTANCE NotificationDelivery WITH MaxClaims <- DeliveryClaims

-----------------------------------------------------------------------------
(* What each component has, and its absence *)

sharedRows == <<calls, raced, enrolled, signed>>
registerRows == <<session, records, announced, roster, trail>>
timetableRows == <<periods, entries>>
staffRows == <<employees, memberships, outdated, ended>>
admissionsRows == <<application, students, enrollments, admitted, departures, overwritten>>
feesRows == <<structure, assigned, invoices, debited, late>>
assessmentsRows == <<bands, assessment, results>>
storeRows == <<files, rows, references, retention, job, purged, storeCalls, interrupted>>
pipelineRows == <<enabled, rules, contacts, event, outbox, task, touched, changes>>
deliveryRows == <<channel, supported, row, tries, tasks, forms, inbox, sent, excused, stale>>
serviceRows == <<storeRows, pipelineRows, deliveryRows>>
recordRows == <<sharedRows, registerRows, timetableRows, staffRows, admissionsRows, feesRows, assessmentsRows>>

recordsVars == <<part, recordRows, serviceRows>>

NoRegister == session = None /\ records = None /\ announced = None /\ roster = None /\ trail = None
NoTimetable == periods = None /\ entries = None
NoStaff == employees = None /\ memberships = None /\ outdated = None /\ ended = None
NoAdmissions ==
    /\ application = None /\ students = None /\ enrollments = None
    /\ admitted = None /\ departures = None /\ overwritten = None
NoFees == structure = None /\ assigned = None /\ invoices = None /\ debited = None /\ late = None
NoAssessments == bands = None /\ assessment = None /\ results = None
NoStore ==
    /\ files = None /\ rows = None /\ references = None /\ retention = None
    /\ job = None /\ purged = None /\ storeCalls = None /\ interrupted = None
NoPipeline ==
    /\ enabled = None /\ rules = None /\ contacts = None /\ event = None
    /\ outbox = None /\ task = None /\ touched = None /\ changes = None
NoDelivery ==
    /\ channel = None /\ supported = None /\ row = None /\ tries = None /\ tasks = None
    /\ forms = None /\ inbox = None /\ sent = None /\ excused = None /\ stale = None
NoServices == NoStore /\ NoPipeline /\ NoDelivery
NoRecords ==
    /\ calls = None /\ raced = None /\ enrolled = None /\ signed = None
    /\ NoRegister /\ NoTimetable /\ NoStaff /\ NoAdmissions /\ NoFees /\ NoAssessments

-----------------------------------------------------------------------------
(* One of them runs *)

RecordsInit ==
    \/ /\ part = "attendance" /\ Register!Init /\ raced = None
       /\ NoTimetable /\ NoStaff /\ NoAdmissions /\ NoFees /\ NoAssessments /\ NoServices
    \/ /\ part = "timetable" /\ Timetable!Init /\ enrolled = None /\ signed = None
       /\ NoRegister /\ NoStaff /\ NoAdmissions /\ NoFees /\ NoAssessments /\ NoServices
    \/ /\ part = "staff" /\ Staff!Init /\ raced = None /\ enrolled = None /\ signed = None
       /\ NoRegister /\ NoTimetable /\ NoAdmissions /\ NoFees /\ NoAssessments /\ NoServices
    \/ /\ part = "admissions" /\ Applications!Init /\ raced = None /\ enrolled = None /\ signed = None
       /\ NoRegister /\ NoTimetable /\ NoStaff /\ NoFees /\ NoAssessments /\ NoServices
    \/ /\ part = "fees" /\ Fees!Init /\ raced = None /\ enrolled = None
       /\ NoRegister /\ NoTimetable /\ NoStaff /\ NoAdmissions /\ NoAssessments /\ NoServices
    \/ /\ part = "assessments" /\ Assessments!Init
       /\ NoRegister /\ NoTimetable /\ NoStaff /\ NoAdmissions /\ NoFees /\ NoServices
    \/ part = "documents" /\ Store!Init /\ NoPipeline /\ NoDelivery /\ NoRecords
    \/ part = "notifications" /\ Pipeline!Init /\ NoStore /\ NoDelivery /\ NoRecords
    \/ part = "delivery" /\ Delivery!Init /\ NoStore /\ NoPipeline /\ NoRecords

RecordsNext ==
    /\ UNCHANGED part
    /\ \/ /\ part = "attendance"
          /\ UNCHANGED <<raced, timetableRows, staffRows, admissionsRows, feesRows, assessmentsRows, serviceRows>>
          /\ Register!Next
       \/ /\ part = "timetable"
          /\ UNCHANGED <<enrolled, signed, registerRows, staffRows, admissionsRows, feesRows, assessmentsRows, serviceRows>>
          /\ Timetable!Next
       \/ /\ part = "staff"
          /\ UNCHANGED <<raced, enrolled, signed, registerRows, timetableRows, admissionsRows, feesRows, assessmentsRows>>
          /\ UNCHANGED serviceRows
          /\ Staff!Next
       \/ /\ part = "admissions"
          /\ UNCHANGED <<raced, enrolled, signed, registerRows, timetableRows, staffRows, feesRows, assessmentsRows>>
          /\ UNCHANGED serviceRows
          /\ Applications!Next
       \/ /\ part = "fees"
          /\ UNCHANGED <<raced, enrolled, registerRows, timetableRows, staffRows, admissionsRows, assessmentsRows, serviceRows>>
          /\ Fees!Next
       \/ /\ part = "assessments"
          /\ UNCHANGED <<registerRows, timetableRows, staffRows, admissionsRows, feesRows, serviceRows>>
          /\ Assessments!Next
       \/ part = "documents" /\ UNCHANGED <<recordRows, pipelineRows, deliveryRows>> /\ Store!Next
       \/ part = "notifications" /\ UNCHANGED <<recordRows, storeRows, deliveryRows>> /\ Pipeline!Next
       \/ part = "delivery" /\ UNCHANGED <<recordRows, storeRows, pipelineRows>> /\ Delivery!Next

RecordsSpec == RecordsInit /\ [][RecordsNext]_recordsVars

-----------------------------------------------------------------------------
(* Properties: what each component promises, of the one that runs *)

(* The types of every component's tables, tasks and requests. *)
AllTypesOK ==
    /\ part = "attendance" => Register!TypeOK
    /\ part = "timetable" => Timetable!TypeOK
    /\ part = "staff" => Staff!TypeOK
    /\ part = "admissions" => Applications!TypeOK
    /\ part = "fees" => Fees!TypeOK
    /\ part = "assessments" => Assessments!TypeOK
    /\ part = "documents" => Store!TypeOK
    /\ part = "notifications" => Pipeline!TypeOK
    /\ part = "delivery" => Delivery!TypeOK

(* Attendance: the submitted register stands but for audited corrections. *)
RegisterStands == part = "attendance" => Register!RegisterStands

(* Timetable: lessons that share a class, a teacher or a room do not overlap. *)
NoDoubleBooking == part = "timetable" => Timetable!NoDoubleBooking

(* Staff: a linked account's membership is active and reaches the employee. *)
LinkedWithinScope == part = "staff" => Staff!LinkedWithinScope

(* Admissions: an application becomes one student, a departure is final. *)
AdmittedOnce == part = "admissions" => Applications!AdmittedOnce

(* Fees: invoices bill what was approved, once, and bulk runs serve everyone. *)
BilledAsApproved == part = "fees" => Fees!BilledAsApproved

(* Assessments: approved marks change only in the ways the lifecycle provides. *)
ApprovedMarksStand == part = "assessments" => Assessments!ApprovedMarksStand

(* Documents: a row keeps its file, and a purge happens once. *)
FilesAndRowsAgree == part = "documents" => Store!FilesAndRowsAgree

(* Notifications: an expanded event has reached every recipient of its rules. *)
EveryoneEnqueued == part = "notifications" => Pipeline!EveryoneEnqueued

(* Notifications: no message leaves twice without a cause the code accepts. *)
SentAgainOnlyWithCause == part = "delivery" => Delivery!SentAgainOnlyWithCause
=============================================================================
