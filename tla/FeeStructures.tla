--------------------------- MODULE FeeStructures ---------------------------
(***************************************************************************)
(* apps/finance, before the ledger: one fee structure gets its lines and   *)
(* is approved, is assigned to students, and each assignment is invoiced   *)
(* and issued, one by one or by the two bulk actions, which several users  *)
(* may run at once. Only the assignment is locked while its invoice is     *)
(* made, and the invoice while it is issued.                               *)
(***************************************************************************)
EXTENDS Integers, FiniteSets

CONSTANTS Items, Students, Workers, None

VARIABLES
    structure,  \* FeeStructure: [lines (fee items), approved]
    assigned,   \* students with a StudentFeeAssignment of the structure, ACTIVE
    invoices,   \* by assignment, its Invoice: [status, lines], None without one
    debited,    \* by assignment, the lines its DEBIT StudentLedgerEntry charges, None without one
    calls,      \* by worker, its request or bulk run
    signed,     \* history: the lines when the structure was first approved, None before
    late        \* history: items added to the approved structure from a stale copy

vars == <<structure, assigned, invoices, debited, calls, signed, late>>

\* matched: the students a bulk run has taken up; done: those it counts as served; failures:
\* those it reports. student: the one it is at, or a single request's; had: had_invoice.
Idle == [op |-> "idle", pending |-> {}, matched |-> {}, student |-> None, issue |-> FALSE, draft |-> FALSE,
         had |-> FALSE, done |-> {}, failures |-> {}]

Init ==
    /\ structure = [lines |-> {}, approved |-> FALSE]
    /\ assigned = {}
    /\ invoices = [s \in Students |-> None]
    /\ debited = [s \in Students |-> None]
    /\ calls = [w \in Workers |-> Idle]
    /\ signed = None /\ late = {}

\* The view loads the structure and refuses an approved one; the line is inserted later
\* (unique_fee_item_per_structure).
LoadForLine(w) ==
    /\ calls[w] = Idle
    /\ ~structure.approved
    /\ calls' = [calls EXCEPT ![w] = [Idle EXCEPT !.op = "adding"]]
    /\ UNCHANGED <<structure, assigned, invoices, debited, signed, late>>

AddFeeStructureLine(w, item) ==
    /\ calls[w].op = "adding"
    /\ item \notin structure.lines
    /\ structure' = [structure EXCEPT !.lines = @ \cup {item}]
    /\ late' = IF structure.approved THEN late \cup {item} ELSE late
    /\ calls' = [calls EXCEPT ![w] = Idle]
    /\ UNCHANGED <<assigned, invoices, debited, signed>>

\* Lines are never removed, so what the check saw still holds at the save.
ApproveFeeStructure ==
    /\ structure.lines # {}
    /\ ~structure.approved
    /\ structure' = [structure EXCEPT !.approved = TRUE]
    /\ signed' = structure.lines
    /\ UNCHANGED <<assigned, invoices, debited, calls, late>>

\* get_or_create on unique_student_fee_assignment.
AssignFeeStructure(s) ==
    /\ structure.approved
    /\ assigned' = assigned \cup {s}
    /\ UNCHANGED <<structure, invoices, debited, calls, signed, late>>

Unlocked(s) == \A w \in Workers : ~(calls[w].op = "invoicing" /\ calls[w].student = s)

\* generate_invoice locks the assignment before it looks for its invoice.
MayInvoice(s) == s \in assigned /\ Unlocked(s)

\* InvoiceGenerateView: one assignment, no issue.
RequestInvoice(w, s) ==
    /\ calls[w] = Idle
    /\ MayInvoice(s) /\ invoices[s] = None
    /\ calls' = [calls EXCEPT ![w] = [Idle EXCEPT !.op = "invoicing", !.student = s]]
    /\ UNCHANGED <<structure, assigned, invoices, debited, signed, late>>

\* The invoice, a copy of the lines as they are now, and the commit that ends the lock.
\* A single request ends here, a bulk run goes on to issue what it got.
InsertInvoice(w) ==
    LET s == calls[w].student IN
    /\ calls[w].op = "invoicing"
    /\ invoices[s] = None       \* unique_invoice_idempotency_per_tenant
    /\ invoices' = [invoices EXCEPT ![s] = [status |-> "DRAFT", lines |-> structure.lines]]
    /\ calls' = [calls EXCEPT ![w] = IF calls[w].matched = {} THEN Idle ELSE [calls[w] EXCEPT !.op = "issuing", !.draft = TRUE]]
    /\ UNCHANGED <<structure, assigned, debited, signed, late>>

\* bulk_assign_fee_structure lists the enrolled students, bulk_generate_invoices_for_term
\* the assignments.
StartBulk(w, students, issue) ==
    /\ calls[w] = Idle
    /\ students # {}
    /\ calls' = [calls EXCEPT ![w] = [Idle EXCEPT !.op = "next", !.pending = students, !.issue = issue]]
    /\ UNCHANGED <<structure, assigned, invoices, debited, signed, late>>

\* Its next student: assigned if need be, ...
NextStudent(w, s) ==
    /\ calls[w].op = "next"
    /\ s \in calls[w].pending
    /\ assigned' = assigned \cup {s}
    /\ calls' = [calls EXCEPT ![w] = [calls[w] EXCEPT !.op = "generating", !.pending = @ \ {s},
                                                      !.matched = @ \cup {s}, !.student = s,
                                                      !.had = invoices[s] # None]]
    /\ UNCHANGED <<structure, invoices, debited, signed, late>>

\* ... then generate_invoice: an existing invoice is taken as it is.
Generate(w) ==
    LET s == calls[w].student IN
    /\ calls[w].op = "generating"
    /\ MayInvoice(s)
    /\ calls' = [calls EXCEPT ![w] = IF invoices[s] = None THEN [calls[w] EXCEPT !.op = "invoicing"]
                                     ELSE [calls[w] EXCEPT !.op = "issuing", !.draft = invoices[s].status = "DRAFT"]]
    /\ UNCHANGED <<structure, assigned, invoices, debited, signed, late>>

\* A student's own transaction fails: it is reported and the run goes on.
Fails(w) ==
    /\ calls[w].op \in {"generating", "invoicing", "issuing"}
    /\ calls[w].matched # {}
    /\ calls' = [calls EXCEPT ![w] = [calls[w] EXCEPT !.op = "next", !.failures = @ \cup {calls[w].student}]]
    /\ UNCHANGED <<structure, assigned, invoices, debited, signed, late>>

\* issue_invoice reads the status under the invoice's lock.
Issuable(s) == invoices[s] # None /\ invoices[s].status = "DRAFT"

IssueInvoice(s) ==
    /\ Issuable(s)
    /\ invoices' = [invoices EXCEPT ![s].status = "ISSUED"]
    /\ debited' = [debited EXCEPT ![s] = IF @ = None THEN invoices[s].lines ELSE @]

IssueRequest(s) ==
    /\ IssueInvoice(s)
    /\ UNCHANGED <<structure, assigned, calls, signed, late>>

MutantAttempts(w) == calls[w].issue /\ calls[w].draft /\ ~calls[w].had
\* _issue_if_requested decides from the invoice generate_invoice returned.
Attempts(w) == calls[w].issue /\ calls[w].draft

IssueStep(w) ==
    LET s == calls[w].student IN
    /\ calls[w].op = "issuing"
    /\ IF Attempts(w) THEN IssueInvoice(s) ELSE UNCHANGED <<invoices, debited>>
    /\ calls' = [calls EXCEPT ![w] = [calls[w] EXCEPT !.op = "next", !.done = @ \cup {s}]]
    /\ UNCHANGED <<structure, assigned, signed, late>>

\* The report is returned, the request refused, or the process dies: its transaction,
\* if one was open, leaves nothing.
Ends(w) ==
    /\ calls[w] # Idle
    /\ calls' = [calls EXCEPT ![w] = Idle]
    /\ UNCHANGED <<structure, assigned, invoices, debited, signed, late>>

LineRequests(w) == LoadForLine(w) \/ \E item \in Items : AddFeeStructureLine(w, item)
GenerateRequests(w) == (\E s \in Students : RequestInvoice(w, s)) \/ InsertInvoice(w)
BulkAssign(w) ==
    structure.approved /\ \E enrolled \in SUBSET Students, issue \in BOOLEAN : StartBulk(w, enrolled, issue)
BulkGenerate(w) == \E issue \in BOOLEAN : StartBulk(w, assigned, issue)
BulkStep(w) == (\E s \in Students : NextStudent(w, s)) \/ Generate(w) \/ IssueStep(w) \/ Fails(w)

Next ==
    \/ \E w \in Workers : \/ LineRequests(w) \/ GenerateRequests(w) \/ Ends(w)
                          \/ BulkAssign(w) \/ BulkGenerate(w) \/ BulkStep(w)
    \/ ApproveFeeStructure
    \/ \E s \in Students : AssignFeeStructure(s) \/ IssueRequest(s)

Spec == Init /\ [][Next]_vars

----------------------------------------------------------------------------
(* Properties *)

(* The types of the structure, the invoices and the requests. *)
TypeOK ==
    /\ structure \in [lines : SUBSET Items, approved : BOOLEAN]
    /\ assigned \subseteq Students
    /\ \A s \in Students : /\ invoices[s] \in [status : {"DRAFT", "ISSUED"}, lines : SUBSET Items] \cup {None}
                           /\ debited[s] \in (SUBSET Items) \cup {None}
    /\ calls \in [Workers -> [op : {"idle", "adding", "invoicing", "next", "generating", "issuing"},
                              pending : SUBSET Students, matched : SUBSET Students, student : Students \cup {None},
                              issue : BOOLEAN, draft : BOOLEAN, had : BOOLEAN, done : SUBSET Students, failures : SUBSET Students]]
    /\ signed \in (SUBSET Items) \cup {None} /\ late \subseteq Items

(* However many requests and bulk runs bill at once: only an assigned student
   of an approved structure is invoiced, for the lines that were approved and
   none but those a stale request added since; a student owes exactly what the
   issued invoice says; and every student a bulk run counts as served has an
   invoice, issued when that was asked for. *)
BilledAsApproved ==
    /\ \A s \in Students : invoices[s] # None =>
          /\ s \in assigned /\ structure.approved
          /\ signed \subseteq invoices[s].lines /\ invoices[s].lines \ signed \subseteq late
          /\ debited[s] = IF invoices[s].status = "ISSUED" THEN invoices[s].lines ELSE None
    /\ \A w \in Workers : \A s \in calls[w].done :
          invoices[s] # None /\ (calls[w].issue => invoices[s].status = "ISSUED")
=============================================================================
