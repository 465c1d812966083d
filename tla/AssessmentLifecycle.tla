------------------------- MODULE AssessmentLifecycle -------------------------
(***************************************************************************)
(* apps/assessments: one assessment from its creation with copies of the   *)
(* roster and of the grading bands, over marks entry, submission, approval *)
(* and publication, to amendments. The services lock the assessment's row; *)
(* the view loaded it before, and bands are added without a lock.          *)
(***************************************************************************)
EXTENDS Integers, FiniteSets

CONSTANTS
    Students, Workers, None,
    MaxMarks,       \* Assessment.max_marks
    BandChoices     \* bound: the bands that may be added, [label, min, max] in marks

VARIABLES
    enrolled,   \* students with an ACTIVE enrolment
    bands,      \* GradingBand rows of the level's active scheme
    assessment, \* its status, its AssessmentGradingBand rows, last_amended_at
    results,    \* AssessmentResult of each student: mark and grade
    calls,      \* by worker, its request and what it has read
    signed,     \* history: the results when the assessment was last approved
    raced       \* history: bands inserted after another one was, since they were checked

vars == <<enrolled, bands, assessment, results, calls, signed, raced>>

\* A mark is a score or one of these.
NotMarked == -1
Absent == -2
Marks == (0..MaxMarks) \cup {NotMarked, Absent}
Grades == {b.label : b \in BandChoices} \cup {""}
NoResult == [mark |-> NotMarked, grade |-> "none"]
Idle == [op |-> "idle", roster |-> {}, band |-> None, seen |-> {}, status |-> None]

Init ==
    /\ enrolled \in SUBSET Students
    /\ bands = {}
    /\ assessment = [status |-> None, bands |-> {}, amended |-> FALSE]
    /\ results = [s \in Students |-> NoResult]
    /\ calls = [w \in Workers |-> Idle]
    /\ signed = results
    /\ raced = {}

Becomes(w, call) == calls' = [calls EXCEPT ![w] = call]
Ends(w) == Becomes(w, Idle)

\* An enrolment that changes once the roster is copied touches nothing here.
ChangeEnrolment(s) ==
    /\ assessment.status = None
    /\ enrolled' = IF s \in enrolled THEN enrolled \ {s} ELSE enrolled \cup {s}
    /\ UNCHANGED <<bands, assessment, results, calls, signed, raced>>

----------------------------------------------------------------------------
(* Grading bands *)

Overlap(a, b) == a.min <= b.max /\ a.max >= b.min

\* add_grading_band: the overlap is looked for, and the row inserted later.
CheckBand(w, b) ==
    /\ calls[w] = Idle
    /\ \A other \in bands : ~Overlap(b, other)
    /\ Becomes(w, [Idle EXCEPT !.op = "banding", !.band = b, !.seen = bands])
    /\ UNCHANGED <<enrolled, bands, assessment, results, signed, raced>>

\* unique_grade_label_per_scheme
InsertBand(w) ==
    LET b == calls[w].band IN
    /\ calls[w].op = "banding"
    /\ \A other \in bands : other.label # b.label
    /\ bands' = bands \cup {b}
    /\ raced' = IF bands = calls[w].seen THEN raced ELSE raced \cup {b}
    /\ Ends(w)
    /\ UNCHANGED <<enrolled, assessment, results, signed>>

\* _resolve_grade: the first band around the score, in the order the database returns
\* them; a score in none has no grade.
GradesOf(score, scale) ==
    LET around == {b \in scale : b.min <= score /\ score <= b.max}
    IN  IF around = {} THEN {""} ELSE {b.label : b \in around}

----------------------------------------------------------------------------
(* The assessment *)

ResolveRoster(w) ==
    /\ calls[w] = Idle
    /\ assessment.status = None
    /\ Becomes(w, [Idle EXCEPT !.op = "creating", !.roster = enrolled])
    /\ UNCHANGED <<enrolled, bands, assessment, results, signed, raced>>

\* The assessment with its copies, or the one another request created first.
CreateAssessment(w) ==
    /\ calls[w].op = "creating"
    /\ IF assessment.status # None THEN UNCHANGED <<assessment, results>>
       ELSE /\ assessment' = [status |-> "DRAFT", bands |-> bands, amended |-> FALSE]
            /\ results' = [s \in Students |-> IF s \in calls[w].roster
                                              THEN [mark |-> NotMarked, grade |-> ""] ELSE NoResult]
    /\ Ends(w)
    /\ UNCHANGED <<enrolled, bands, signed, raced>>

LoadAssessment(w) ==
    /\ calls[w] = Idle
    /\ assessment.status # None
    /\ Becomes(w, [Idle EXCEPT !.op = "loaded", !.status = assessment.status])
    /\ UNCHANGED <<enrolled, bands, assessment, results, signed, raced>>

OnRoster(s) == results[s] # NoResult
Marked(s) == OnRoster(s) /\ results[s].mark # NotMarked
\* _require_no_unmarked_results
Complete == \A s \in Students : OnRoster(s) => Marked(s)

MutantEditable(w) == calls[w].status \in {"DRAFT", "PUBLISHED"}
\* The locked row decides whether marks may be edited.
Editable(w) == assessment.status \in {"DRAFT", "PUBLISHED"}

\* What an entry may become: a score gets its grade by the copied bands.
Entries ==
    {[mark |-> m, grade |-> ""] : m \in {NotMarked, Absent}} \cup
    UNION {{[mark |-> m, grade |-> g] : g \in GradesOf(m, assessment.bands)} : m \in 0..MaxMarks}

\* record_assessment_marks: all entries or none; a changed mark that was already there
\* is an audited correction, and an amendment once published.
RecordMarks(w) ==
    /\ calls[w].op = "loaded"
    /\ Editable(w)
    /\ \E some \in SUBSET {s \in Students : OnRoster(s)} : \E entries \in [some -> Entries] :
           /\ results' = [s \in Students |-> IF s \in some THEN entries[s] ELSE results[s]]
           /\ assessment' = [assessment EXCEPT !.amended =
                  @ \/ (assessment.status = "PUBLISHED" /\ \E s \in some : Marked(s) /\ entries[s] # results[s])]
    /\ Ends(w)
    /\ UNCHANGED <<enrolled, bands, signed, raced>>

Transition(w, from, to) ==
    /\ calls[w].op = "loaded"
    /\ assessment.status = from
    /\ assessment' = [assessment EXCEPT !.status = to]
    /\ Ends(w)
    /\ UNCHANGED <<enrolled, bands, results, raced>>

SubmitForApproval(w) == Complete /\ Transition(w, "DRAFT", "SUBMITTED") /\ UNCHANGED signed
RejectSubmission(w) == Transition(w, "SUBMITTED", "DRAFT") /\ UNCHANGED signed
Approve(w) == Complete /\ Transition(w, "SUBMITTED", "APPROVED") /\ signed' = results
ReopenApproved(w) == Transition(w, "APPROVED", "DRAFT") /\ UNCHANGED signed
Publish(w) == Complete /\ Transition(w, "APPROVED", "PUBLISHED") /\ UNCHANGED signed

Abandon(w) ==
    /\ calls[w] # Idle
    /\ Ends(w)
    /\ UNCHANGED <<enrolled, bands, assessment, results, signed, raced>>

BandRequests(w) == InsertBand(w) \/ \E b \in BandChoices : CheckBand(w, b)
OpenRequests(w) == ResolveRoster(w) \/ CreateAssessment(w)
TransitionRequests(w) ==
    \/ LoadAssessment(w) \/ Abandon(w)
    \/ SubmitForApproval(w) \/ RejectSubmission(w) \/ Approve(w) \/ ReopenApproved(w) \/ Publish(w)

Next ==
    \/ \E s \in Students : ChangeEnrolment(s)
    \/ \E w \in Workers : BandRequests(w) \/ OpenRequests(w) \/ RecordMarks(w) \/ TransitionRequests(w)

Spec == Init /\ [][Next]_vars

----------------------------------------------------------------------------
(* Properties *)

(* The types of the scheme, the assessment and the requests. *)
TypeOK ==
    /\ enrolled \subseteq Students
    /\ bands \subseteq BandChoices /\ raced \subseteq bands
    /\ assessment.status \in {None, "DRAFT", "SUBMITTED", "APPROVED", "PUBLISHED"}
    /\ assessment.bands \subseteq BandChoices /\ assessment.amended \in BOOLEAN
    /\ \A s \in Students : OnRoster(s) => results[s] \in [mark : Marks, grade : Grades]
    /\ \A w \in Workers : calls[w].op \in {"idle", "banding", "creating", "loaded"}

(* What was approved is what stands: from the approval on every candidate is
   marked and no mark differs from those approved, unless the assessment was
   reopened, or after publication says that it was amended; grades follow the
   bands copied at creation, however the scheme changes; and bands overlap only
   when two were added at once. *)
ApprovedMarksStand ==
    /\ assessment.status = "APPROVED" => results = signed
    /\ assessment.status = "PUBLISHED" /\ ~assessment.amended => results = signed
    /\ assessment.status \in {"SUBMITTED", "APPROVED"} => \A s \in Students : results[s].mark = NotMarked => ~OnRoster(s)
    /\ \A s \in Students :
           OnRoster(s) /\ results[s].mark \in 0..MaxMarks =>
               \/ \E b \in assessment.bands : b.label = results[s].grade /\ results[s].mark \in b.min..b.max
               \/ results[s].grade = "" /\ \A b \in assessment.bands : results[s].mark \notin b.min..b.max
    /\ \A a, b \in bands : a # b /\ (a.min..a.max) \cap (b.min..b.max) # {} => {a, b} \cap raced # {}
=============================================================================
