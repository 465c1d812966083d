----------------------------- MODULE FeeLedger -----------------------------
(***************************************************************************)
(* The fee ledger of one school (tenant) as apps/finance/services.py       *)
(* promises it: every service call is one atomic step.  Invoices, credit   *)
(* notes, payments, allocations and reversals are rows; every money-moving *)
(* call also posts to the student's ledger.  LedgerTransactions splits     *)
(* the same calls into the row locks, reads and commits PostgreSQL sees    *)
(* and is checked to implement this module.                                *)
(*                                                                         *)
(* Requests the code refuses (a ValidationError) or answers from an        *)
(* existing row (an idempotent replay) change nothing: they are stutters.  *)
(***************************************************************************)
EXTENDS Integers, RowSums

CONSTANTS
    Students,         \* students.Student rows of the tenant
    Nobody,           \* stands for the student of a row that does not exist
    NInvoices,        \* fee assignments; assignment a has at most one invoice
    StudentOf,        \* StudentFeeAssignment.student, by assignment
    Keys,             \* payment idempotency keys
    NoKey,            \* stands for the payment of a row that does not exist
    Amounts,          \* amounts a request may carry, zero included
    MaxAllocations,   \* bound: PaymentAllocation rows ever created
    MaxOpenCredit     \* bound: credit not tied to an invoice, per student

Invoices == 1..NInvoices
Rows == 1..MaxAllocations

ASSUME BoundsAssumption ==
    /\ NInvoices \in Nat
    /\ MaxAllocations \in Nat
    /\ MaxOpenCredit \in Nat
ASSUME NamesAssumption == Nobody \notin Students /\ NoKey \notin Keys
ASSUME StudentOfAssumption == StudentOf \in [Invoices -> Students]
ASSUME AmountsAssumption == Amounts \subseteq Int

VARIABLES
    invoices,      \* Invoice rows, by the assignment they bill
    credited,      \* per invoice, the sum of its ISSUED credit notes
    openCredits,   \* per student, the sum of credit notes without an invoice
    payments,      \* Payment rows, by idempotency key
    allocations,   \* PaymentAllocation rows with the sum of their reversals
    debits,        \* per student, the sum of DEBIT StudentLedgerEntry rows
    credits        \* per student, the sum of CREDIT StudentLedgerEntry rows

vars == <<invoices, credited, openCredits, payments, allocations, debits, credits>>

NoInvoice == [status |-> "NONE", total |-> 0]
NoPayment == [status |-> "NONE", student |-> Nobody, amount |-> 0]
NoAllocation == [payment |-> NoKey, invoice |-> 0, amount |-> 0, reversed |-> 0]

TypeOK ==
    /\ invoices \in [Invoices -> [status : {"NONE", "DRAFT", "ISSUED"}, total : Nat]]
    /\ credited \in [Invoices -> Nat]
    /\ openCredits \in [Students -> Nat]
    /\ payments \in [Keys -> [status : {"NONE", "RECEIVED", "REVERSED"},
                              student : Students \cup {Nobody}, amount : Nat]]
    /\ allocations \in [Rows -> [payment : Keys \cup {NoKey}, invoice : Invoices \cup {0},
                                 amount : Nat, reversed : Nat]]
    /\ debits \in [Students -> Nat]
    /\ credits \in [Students -> Nat]

-----------------------------------------------------------------------------
(* What the code reads before it decides.                                  *)

\* Variants named Mutant... are wrong on purpose: each is a plausible slip in
\* the code its original models, and breaks a property below.
MutantNetForgetsReversals(j) == allocations[j].amount

\* What is left of an allocation: its amount less its AllocationReversals.
Net(j) == allocations[j].amount - allocations[j].reversed

MutantHeldGross(k) ==
    Total([j \in Rows |-> IF allocations[j].payment = k THEN allocations[j].amount ELSE 0], MaxAllocations)
MutantHeldSignsSwapped(k) ==
    Total([j \in Rows |-> IF allocations[j].payment = k THEN 0 - Net(j) ELSE 0], MaxAllocations)

\* Cash of payment k held by invoices: allocated less reversed.
Held(k) == Total([j \in Rows |-> IF allocations[j].payment = k THEN Net(j) ELSE 0],
                 MaxAllocations)

MutantAvailableForgetsAllocations(k) == payments[k].amount

\* What allocate_payment may still take from payment k.
Available(k) == payments[k].amount - Held(k)

\* Cash invoice a holds: allocated less reversed.
Settled(a) == Total([j \in Rows |-> IF allocations[j].invoice = a THEN Net(j) ELSE 0],
                    MaxAllocations)

MutantOutstandingForgetsCash(a) == invoices[a].total - credited[a]

\* _invoice_outstanding_balance.
Outstanding(a) == invoices[a].total - credited[a] - Settled(a)

MutantIsNextRowReused(j) == Net(j) = 0

\* The row the next PaymentAllocation is created in.
IsNextRow(j) == /\ allocations[j] = NoAllocation
                /\ \A i \in 1..(j - 1) : allocations[i] # NoAllocation

\* selectors.student_balance.
StudentBalance(s) == debits[s] - credits[s]

-----------------------------------------------------------------------------
Init ==
    /\ invoices = [a \in Invoices |-> NoInvoice]
    /\ credited = [a \in Invoices |-> 0]
    /\ openCredits = [s \in Students |-> 0]
    /\ payments = [k \in Keys |-> NoPayment]
    /\ allocations = [j \in Rows |-> NoAllocation]
    /\ debits = [s \in Students |-> 0]
    /\ credits = [s \in Students |-> 0]

\* generate_invoice: one DRAFT invoice per assignment, billing x in all.
GenerateInvoice(a, x) ==
    /\ x > 0
    /\ invoices[a] = NoInvoice
    /\ invoices' = [invoices EXCEPT ![a] = [status |-> "DRAFT", total |-> x]]
    /\ UNCHANGED <<credited, openCredits, payments, allocations, debits, credits>>

\* issue_invoice: the DRAFT becomes a receivable and debits the student.
IssueInvoice(a) ==
    /\ invoices[a].status = "DRAFT"
    /\ invoices[a].total > 0
    /\ invoices' = [invoices EXCEPT ![a].status = "ISSUED"]
    /\ debits' = [debits EXCEPT ![StudentOf[a]] = @ + invoices[a].total]
    /\ UNCHANGED <<credited, openCredits, payments, allocations, credits>>

\* issue_credit_note against an invoice.  The bound is the invoice's total
\* less earlier credit notes: neither its status nor the cash it already
\* holds is looked at.
IssueCreditNote(a, x) ==
    /\ x > 0
    /\ invoices[a] # NoInvoice
    /\ x <= invoices[a].total - credited[a]
    /\ credited' = [credited EXCEPT ![a] = @ + x]
    /\ credits' = [credits EXCEPT ![StudentOf[a]] = @ + x]
    /\ UNCHANGED <<invoices, openCredits, payments, allocations, debits>>

\* issue_credit_note without an invoice: no bound but MaxOpenCredit.
IssueOpenCredit(s, x) ==
    /\ x > 0
    /\ openCredits[s] + x <= MaxOpenCredit
    /\ openCredits' = [openCredits EXCEPT ![s] = @ + x]
    /\ credits' = [credits EXCEPT ![s] = @ + x]
    /\ UNCHANGED <<invoices, credited, payments, allocations, debits>>

\* record_payment: the key's first use creates the payment and its receipt.
RecordPayment(k, s, x) ==
    /\ x > 0
    /\ payments[k] = NoPayment
    /\ payments' = [payments EXCEPT ![k] = [status |-> "RECEIVED", student |-> s, amount |-> x]]
    /\ UNCHANGED <<invoices, credited, openCredits, allocations, debits, credits>>

\* allocate_payment.
AllocatePayment(j, k, a, x) ==
    /\ x > 0
    /\ IsNextRow(j)
    /\ payments[k].student = StudentOf[a]
    /\ invoices[a].status = "ISSUED"
    /\ payments[k].status = "RECEIVED"
    /\ x <= Available(k)
    /\ x <= Outstanding(a)
    /\ allocations' = [allocations EXCEPT ![j] =
           [payment |-> k, invoice |-> a, amount |-> x, reversed |-> 0]]
    /\ credits' = [credits EXCEPT ![StudentOf[a]] = @ + x]
    /\ UNCHANGED <<invoices, credited, openCredits, payments, debits>>

\* _complete_match of an incoming payment: record_payment and, when the scan of
\* _attempt_auto_allocate chose invoice a, allocate_payment of all of it, in one
\* transaction.  Which invoice is chosen is left open; without one the match is
\* RecordPayment.
MatchPayment(j, k, a, x) ==
    /\ x > 0
    /\ payments[k] = NoPayment
    /\ IsNextRow(j)
    /\ invoices[a].status = "ISSUED"
    /\ x <= Outstanding(a)
    /\ payments' = [payments EXCEPT ![k] = [status |-> "RECEIVED", student |-> StudentOf[a], amount |-> x]]
    /\ allocations' = [allocations EXCEPT ![j] =
           [payment |-> k, invoice |-> a, amount |-> x, reversed |-> 0]]
    /\ credits' = [credits EXCEPT ![StudentOf[a]] = @ + x]
    /\ UNCHANGED <<invoices, credited, openCredits, debits>>

\* reverse_allocation: gives cash back to the payment.
ReverseAllocation(j, x) ==
    /\ x > 0
    /\ allocations[j] # NoAllocation
    /\ x <= Net(j)
    /\ allocations' = [allocations EXCEPT ![j].reversed = @ + x]
    /\ debits' = [debits EXCEPT ![payments[allocations[j].payment].student] = @ + x]
    /\ UNCHANGED <<invoices, credited, openCredits, payments, credits>>

\* reverse_payment: reverses what is left of every allocation of k, then
\* takes the payment out of use.
ReversePayment(k) ==
    /\ payments[k].status = "RECEIVED"
    /\ allocations' = [j \in Rows |->
           IF allocations[j].payment = k
           THEN [allocations[j] EXCEPT !.reversed = allocations[j].amount]
           ELSE allocations[j]]
    /\ debits' = [debits EXCEPT ![payments[k].student] = @ + Held(k)]
    /\ payments' = [payments EXCEPT ![k].status = "REVERSED"]
    /\ UNCHANGED <<invoices, credited, openCredits, credits>>

Next ==
    \/ \E a \in Invoices, x \in Amounts : GenerateInvoice(a, x)
    \/ \E a \in Invoices : IssueInvoice(a)
    \/ \E a \in Invoices, x \in Amounts : IssueCreditNote(a, x)
    \/ \E s \in Students, x \in Amounts : IssueOpenCredit(s, x)
    \/ \E k \in Keys, s \in Students, x \in Amounts : RecordPayment(k, s, x)
    \/ \E j \in Rows, k \in Keys, a \in Invoices, x \in Amounts : AllocatePayment(j, k, a, x) \/ MatchPayment(j, k, a, x)
    \/ \E j \in Rows, x \in Amounts : ReverseAllocation(j, x)
    \/ \E k \in Keys : ReversePayment(k)

Spec == Init /\ [][Next]_vars

-----------------------------------------------------------------------------
(* Properties.                                                             *)

\* No sequence of allocations and reversals spends more of a payment than
\* was received (allocate_payment's first bound), and a reversed payment
\* funds nothing: its cash is back out of every invoice.
CashIsConserved ==
    \A k \in Keys : /\ Held(k) <= payments[k].amount
                    /\ payments[k].status = "REVERSED" => Held(k) = 0

\* No invoice is ever settled beyond what it bills, whatever was credited,
\* reversed and reallocated meanwhile, and only issued invoices hold cash.
InvoicesNotOverpaid ==
    \A a \in Invoices : /\ Settled(a) <= invoices[a].total
                        /\ Settled(a) > 0 => invoices[a].status = "ISSUED"

\* Rows are linked the way the foreign keys and same-student checks promise:
\* an allocation joins a recorded payment and an ISSUED invoice of one
\* student, and its reversals never exceed it.
RowsWellFormed ==
    /\ \A a \in Invoices : invoices[a].status = "NONE" => invoices[a] = NoInvoice
    /\ \A k \in Keys : IF payments[k].status = "NONE" THEN payments[k] = NoPayment
                       ELSE payments[k].student \in Students
    /\ \A j \in Rows : allocations[j] # NoAllocation =>
        /\ allocations[j].payment \in Keys
        /\ allocations[j].invoice \in Invoices
        /\ payments[allocations[j].payment].student = StudentOf[allocations[j].invoice]
        /\ payments[allocations[j].payment].status # "NONE"
        /\ invoices[allocations[j].invoice].status = "ISSUED"
        /\ allocations[j].reversed <= allocations[j].amount

\* Sum over the student's invoices of what f says of each.
OverInvoicesOf(s, f) ==
    Total([a \in Invoices |-> IF StudentOf[a] = s THEN f[a] ELSE 0], NInvoices)

\* What an invoice adds to its student's debt: an ISSUED one its outstanding
\* balance; a DRAFT one no debit yet, only the credit notes against it.
Due == [a \in Invoices |-> IF invoices[a].status = "ISSUED" THEN Outstanding(a) ELSE 0 - credited[a]]

\* The ledger agrees with the documents: a student's ledger balance
\* (selectors.student_balance) is what her invoices leave due less the
\* credit notes issued to her without an invoice.  The load test's
\* check_aggregate_receivable compares the two sides in total, over the issued
\* invoices it provisioned and with no credit outside them; this is the
\* statement for one student, drafts and open credits included.
LedgerReconciles ==
    \A s \in Students : StudentBalance(s) = OverInvoicesOf(s, Due) - openCredits[s]

\* A step that only appends to what an existing row says.
HistoryStep ==
    /\ \A a \in Invoices : invoices[a] # NoInvoice =>
           /\ invoices'[a].total = invoices[a].total
           /\ invoices[a].status = "ISSUED" => invoices'[a].status = "ISSUED"
    /\ \A k \in Keys : payments[k] # NoPayment =>
           /\ payments'[k] = payments[k] \/ payments'[k] = [payments[k] EXCEPT !.status = "REVERSED"]
           /\ payments[k].status = "REVERSED" => payments'[k] = payments[k]
    /\ \A j \in Rows : allocations[j] # NoAllocation =>
           /\ allocations'[j].reversed >= allocations[j].reversed
           /\ allocations'[j] = [allocations[j] EXCEPT !.reversed = allocations'[j].reversed]

\* Money history is only appended to: no service call changes totals, amounts
\* or links of existing rows, reversals only grow, ISSUED and REVERSED are final.
HistoryIsKept == [][HistoryStep]_vars

\* What issue_credit_note says it enforces: credit notes and allocations
\* never together exceed an invoice (the comment above its row lock).
CreditsAndCashWithinTotal == \A a \in Invoices : Outstanding(a) >= 0
=============================================================================
