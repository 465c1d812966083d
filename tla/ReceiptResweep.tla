-------------------------- MODULE ReceiptResweep --------------------------
(***************************************************************************)
(* apps/finance/tasks.py: the hourly sweep over incoming payments that are *)
(* still unmatched, beside everything MpesaReconciliation describes.       *)
(***************************************************************************)
EXTENDS MpesaReconciliation

VARIABLES
    sweep,      \* the task: due, or how its last run ended
    strangers   \* history: receipts whose reference named no student when they came in

sweepVars == <<vars, sweep, strangers>>

\* Rows _recognize_student_from_reference finds a student for.
Recognisable(x) == incoming[x].status = "UNMATCHED" /\ incoming[x].reference \in roster

SweepInit == Init /\ sweep = "done" /\ strangers = {}

\* Everything else, with a note of the receipts that come in too early.
Other ==
    /\ Next
    /\ strangers' = strangers \cup {x \in Receipts : /\ incoming[x].status = "NONE"
                                                   /\ incoming'[x].status # "NONE"
                                                   /\ incoming'[x].reference \notin roster}
    /\ UNCHANGED sweep

\* Beat, every hour.
Schedule ==
    /\ sweep # "due"
    /\ sweep' = "due"
    /\ UNCHANGED <<vars, strangers>>

\* The rows are visited with no transaction open (the task, unlike
\* ingest_incoming_payment, is not atomic). Rows without a recognisable reference
\* are passed over; at the first recognisable one _attempt_auto_match asks for the
\* row FOR UPDATE, which Django refuses outside a transaction
\* (TransactionManagementError, on PostgreSQL), and nothing catches that.
Resweep ==
    /\ sweep = "due"
    /\ sweep' = IF \E x \in Receipts : Recognisable(x) THEN "raised" ELSE "done"
    /\ UNCHANGED <<vars, strangers>>

SweepNext == Other \/ Schedule \/ Resweep

SweepSpec == SweepInit /\ [][SweepNext]_sweepVars /\ WF_sweepVars(Schedule) /\ WF_sweepVars(Resweep)

(* test_resweep_matches_once_a_new_student_makes_the_reference_unambiguous: a
   receipt that came in before the student its reference names was admitted, and
   is still unmatched, is resolved by a later sweep or by somebody else. *)
RecognisableIsResolved ==
    \A x \in Receipts : x \in strangers /\ Recognisable(x) ~> ~Recognisable(x)
=============================================================================
