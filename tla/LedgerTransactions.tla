------------------------- MODULE LedgerTransactions -------------------------
(***************************************************************************)
(* The service calls of apps/finance/services.py as the database           *)
(* transactions they are: a worker locks rows one SELECT ... FOR UPDATE at *)
(* a time, reads what its checks need, takes a document number, and        *)
(* commits or rolls back.  PostgreSQL runs them READ COMMITTED: a worker   *)
(* sees what others committed, its own writes become visible at its        *)
(* commit, and a row lock is held until the transaction ends.              *)
(*                                                                         *)
(* Ledger is the same calls one at a time; this module implements it.      *)
(***************************************************************************)
EXTENDS Integers, SequencesExt

CONSTANTS
    Students, Nobody, NInvoices, StudentOf, Keys, NoKey, Amounts, MaxAllocations,
    MaxOpenCredit,   \* see FeeLedger
    Workers,         \* request threads and Celery workers
    Operations,      \* the service calls the workers are asked for
    MaxNumber        \* bound: numbers a NumberSeries gives out

\* FeeLedger's assumptions on the constants it shares with this module.
ASSUME LedgerAssumption ==
    /\ NInvoices \in Nat /\ MaxAllocations \in Nat /\ MaxOpenCredit \in Nat
    /\ Nobody \notin Students /\ NoKey \notin Keys
    /\ StudentOf \in [1..NInvoices -> Students]
    /\ Amounts \subseteq Int

VARIABLES
    invoices, credited, openCredits, payments, allocations, debits, credits,  \* committed rows
    nextValue,   \* NumberSeries.next_value, by document type
    numbered,    \* by document type, the numbers of committed documents, in commit order
    txns         \* the transaction each worker is in

Ledger == INSTANCE FeeLedger

ledgerRows == <<invoices, credited, openCredits, payments, allocations, debits, credits>>
vars == <<ledgerRows, nextValue, numbered, txns>>

Invoices == 1..NInvoices
Rows == 1..MaxAllocations
DocumentTypes == {"INVOICE", "CREDIT_NOTE", "RECEIPT", "PAYMENT_REVERSAL"}

-----------------------------------------------------------------------------
(* Requests.                                                               *)

Request(op, k, a, j, s, x) ==
    [op |-> op, key |-> k, invoice |-> a, row |-> j, student |-> s, amount |-> x]
NoRequest == Request("none", NoKey, 0, 0, Nobody, 0)

\* Every call refuses an amount that is not positive before it locks a row.
Positive == {x \in Amounts : x > 0}

Requests ==
    {r \in UNION {{Request("generate_invoice", NoKey, a, 0, Nobody, x) : a \in Invoices, x \in Positive},
                  {Request("issue_invoice", NoKey, a, 0, Nobody, 0) : a \in Invoices},
                  {Request("issue_credit_note", NoKey, a, 0, Nobody, x) : a \in Invoices, x \in Positive},
                  {Request("issue_credit_note", NoKey, 0, 0, s, x) : s \in Students, x \in Positive},
                  {Request("record_payment", k, 0, 0, s, x) : k \in Keys, s \in Students, x \in Positive},
                  {Request("match_payment", k, 0, 0, s, x) : k \in Keys, s \in Students, x \in Positive},
                  {Request("allocate_payment", k, a, 0, Nobody, x) : k \in Keys, a \in Invoices, x \in Positive},
                  {Request("reverse_allocation", NoKey, 0, j, Nobody, x) : j \in Rows, x \in Positive},
                  {Request("reverse_payment", k, 0, 0, Nobody, 0) : k \in Keys}} : r.op \in Operations}

\* Requests under way: a match that has chosen an invoice for its payment names it.
Calls ==
    Requests \cup {r \in {Request("match_payment", k, a, 0, s, x) :
                            k \in Keys, a \in Invoices, s \in Students, x \in Positive} : r.op \in Operations}

\* The view has loaded the objects a request names before the service runs.
Loaded(r) ==
    /\ r.op \in {"issue_invoice", "issue_credit_note", "allocate_payment"} /\ r.invoice # 0
           => invoices[r.invoice].status # "NONE"
    /\ r.op \in {"allocate_payment", "reverse_payment"} => payments[r.key].status # "NONE"
    /\ r.op = "reverse_allocation" => allocations[r.row] # Ledger!NoAllocation

\* Bounds of the model: documents still in the making count as made.
InFlight(op) == Cardinality({w \in Workers : txns[w].request.op = op})
WithinBounds(r) ==
    /\ r.op \in {"allocate_payment", "match_payment"} =>
           InFlight("allocate_payment") + InFlight("match_payment") < Cardinality({j \in Rows : allocations[j] = Ledger!NoAllocation})
    /\ r.op = "issue_credit_note" =>
           /\ Len(numbered["CREDIT_NOTE"]) + InFlight(r.op) < MaxNumber
           /\ r.invoice = 0 => /\ openCredits[r.student] + r.amount <= MaxOpenCredit
                               /\ \A w \in Workers : txns[w].request.student # r.student

-----------------------------------------------------------------------------
(* Row locks.  A row is named by its table and key.                        *)

InvoiceRow(a) == <<"invoice", a>>
PaymentRow(k) == <<"payment", k>>
AllocationRow(j) == <<"allocation", j>>
AssignmentRow(a) == <<"assignment", a>>
SeriesRow(d) == <<"series", d>>
KeyEntry(k) == <<"key", k>>   \* unique_payment_idempotency_per_tenant's index entry
IncomingRow(k) == <<"incoming", k>>   \* the IncomingPayment whose match records under key k
LockRows ==
    {InvoiceRow(a) : a \in Invoices} \cup {PaymentRow(k) : k \in Keys} \cup {AllocationRow(j) : j \in Rows}
    \cup {AssignmentRow(a) : a \in Invoices} \cup {SeriesRow(d) : d \in DocumentTypes} \cup {KeyEntry(k) : k \in Keys}
    \cup {IncomingRow(k) : k \in Keys}

\* The rows each call locks first, in its order.  record_payment's insert
\* waits for another insert of its key to commit or roll back.
FirstLocks(r) ==
    CASE r.op = "generate_invoice"   -> <<AssignmentRow(r.invoice)>>
      [] r.op = "issue_invoice"      -> <<InvoiceRow(r.invoice)>>
      [] r.op = "issue_credit_note"  -> IF r.invoice = 0 THEN <<>> ELSE <<InvoiceRow(r.invoice)>>
      [] r.op = "record_payment"     -> <<KeyEntry(r.key)>>
      [] r.op = "match_payment"      -> <<IncomingRow(r.key), KeyEntry(r.key)>>
      [] r.op = "allocate_payment"   -> <<PaymentRow(r.key), InvoiceRow(r.invoice)>>
      [] r.op = "reverse_allocation" -> <<PaymentRow(allocations[r.row].payment),
                                          InvoiceRow(allocations[r.row].invoice),
                                          AllocationRow(r.row)>>
      [] r.op = "reverse_payment"    -> <<PaymentRow(r.key)>>

\* Variants named Mutant... are wrong on purpose, one plausible slip each.
MutantListingsByRow(k) ==
    {js \in SetToSeqs({j \in Rows : allocations[j].payment = k}) :
         \A i, n \in DOMAIN js : i < n => js[i] < js[n]}

\* reverse_payment's list: the payment's allocations, order_by("invoice_id");
\* those of one invoice come in any order.
Listings(k) ==
    {js \in SetToSeqs({j \in Rows : allocations[j].payment = k}) :
         \A i, n \in DOMAIN js : i < n => allocations[js[i]].invoice <= allocations[js[n]].invoice}

\* Rows a call finds it must lock once it holds row: reverse_payment's
\* allocations, then their invoices in the same order.
LocksFoundAt(r, row) ==
    IF r.op = "reverse_payment" /\ row = PaymentRow(r.key) /\ payments[r.key].status = "RECEIVED"
    THEN {[i \in 1..Len(js) |-> AllocationRow(js[i])]
          \o [i \in 1..Len(js) |-> InvoiceRow(allocations[js[i]].invoice)] : js \in Listings(r.key)}
    ELSE {<<>>}

\* The number a call takes after its checks, if any.
DocumentOf(r) ==
    CASE r.op = "generate_invoice"  -> "INVOICE"
      [] r.op = "issue_credit_note" -> "CREDIT_NOTE"
      [] r.op = "record_payment"    -> "RECEIPT"
      [] r.op = "match_payment"     -> "RECEIPT"
      [] r.op = "reverse_payment"   -> "PAYMENT_REVERSAL"
      [] OTHER                      -> "none"

HoldsRow(w, row) == row \in txns[w].held
MutantSeriesNotLocked(row, w) == row[1] = "series" \/ \A v \in Workers \ {w} : ~HoldsRow(v, row)
MutantInvoicesNotLocked(row, w) == row[1] = "invoice" \/ \A v \in Workers \ {w} : ~HoldsRow(v, row)

\* A row lock excludes every other transaction.
IsFree(row, w) == \A v \in Workers \ {w} : ~HoldsRow(v, row)

-----------------------------------------------------------------------------
(* What the calls check and write.                                         *)

\* Invoices _attempt_auto_allocate would settle with r's payment: those of the
\* student whose balance is its amount (_bulk_outstanding_balances).
Candidates(r) ==
    {a \in Invoices : /\ StudentOf[a] = r.student /\ invoices[a].status = "ISSUED"
                      /\ Ledger!Outstanding(a) = r.amount}

\* allocate_payment's checks on all of the payment a match has just recorded.
MaySettle(r) ==
    /\ StudentOf[r.invoice] = r.student
    /\ invoices[r.invoice].status = "ISSUED"
    /\ r.amount <= Ledger!Outstanding(r.invoice)

\* The checks between the last row lock and the first write.
Accepts(r) ==
    \/ r.op = "generate_invoice" /\ invoices[r.invoice].status = "NONE"
    \/ r.op = "issue_invoice" /\ invoices[r.invoice].status = "DRAFT" /\ invoices[r.invoice].total > 0
    \/ r.op = "issue_credit_note" /\ r.invoice = 0
    \/ /\ r.op = "issue_credit_note" /\ r.invoice # 0
       /\ r.amount <= invoices[r.invoice].total - credited[r.invoice]
    \/ r.op = "record_payment" /\ payments[r.key].status = "NONE"
    \/ /\ r.op = "match_payment" /\ payments[r.key].status = "NONE"
       /\ r.invoice # 0 => MaySettle(r)
    \/ /\ r.op = "allocate_payment"
       /\ payments[r.key].student = StudentOf[r.invoice]
       /\ invoices[r.invoice].status = "ISSUED"
       /\ payments[r.key].status # "REVERSED"
       /\ r.amount <= Ledger!Available(r.key)
       /\ r.amount <= Ledger!Outstanding(r.invoice)
    \/ r.op = "reverse_allocation" /\ r.amount <= Ledger!Net(r.row)
    \/ r.op = "reverse_payment" /\ payments[r.key].status # "REVERSED"

MutantRemainingSignsSwapped(r) ==
    [j \in Rows |-> IF r.op = "reverse_payment" /\ allocations[j].payment = r.key THEN 0 - Ledger!Net(j) ELSE 0]

\* What reverse_payment reads as remaining on each of the payment's rows.
Remaining(r) ==
    [j \in Rows |-> IF r.op = "reverse_payment" /\ allocations[j].payment = r.key THEN Ledger!Net(j) ELSE 0]

\* The rows a call writes, from its request and from what it read.
Writes(r, remaining) ==
    \/ /\ r.op = "generate_invoice"
       /\ invoices' = [invoices EXCEPT ![r.invoice] = [status |-> "DRAFT", total |-> r.amount]]
       /\ UNCHANGED <<credited, openCredits, payments, allocations, debits, credits>>
    \/ /\ r.op = "issue_invoice"
       /\ invoices' = [invoices EXCEPT ![r.invoice].status = "ISSUED"]
       /\ debits' = [debits EXCEPT ![StudentOf[r.invoice]] = @ + invoices[r.invoice].total]
       /\ UNCHANGED <<credited, openCredits, payments, allocations, credits>>
    \/ /\ r.op = "issue_credit_note" /\ r.invoice # 0
       /\ credited' = [credited EXCEPT ![r.invoice] = @ + r.amount]
       /\ credits' = [credits EXCEPT ![StudentOf[r.invoice]] = @ + r.amount]
       /\ UNCHANGED <<invoices, openCredits, payments, allocations, debits>>
    \/ /\ r.op = "issue_credit_note" /\ r.invoice = 0
       /\ openCredits' = [openCredits EXCEPT ![r.student] = @ + r.amount]
       /\ credits' = [credits EXCEPT ![r.student] = @ + r.amount]
       /\ UNCHANGED <<invoices, credited, payments, allocations, debits>>
    \/ /\ r.op \in {"record_payment", "match_payment"} /\ r.invoice = 0
       /\ payments' = [payments EXCEPT ![r.key] =
              [status |-> "RECEIVED", student |-> r.student, amount |-> r.amount]]
       /\ UNCHANGED <<invoices, credited, openCredits, allocations, debits, credits>>
    \/ /\ r.op = "match_payment" /\ r.invoice # 0
       /\ payments' = [payments EXCEPT ![r.key] =
              [status |-> "RECEIVED", student |-> r.student, amount |-> r.amount]]
       /\ \E j \in Rows :
              /\ Ledger!IsNextRow(j)
              /\ allocations' = [allocations EXCEPT ![j] =
                     [payment |-> r.key, invoice |-> r.invoice, amount |-> r.amount, reversed |-> 0]]
       /\ credits' = [credits EXCEPT ![r.student] = @ + r.amount]
       /\ UNCHANGED <<invoices, credited, openCredits, debits>>
    \/ /\ r.op = "allocate_payment"
       /\ \E j \in Rows :
              /\ Ledger!IsNextRow(j)
              /\ allocations' = [allocations EXCEPT ![j] =
                     [payment |-> r.key, invoice |-> r.invoice, amount |-> r.amount, reversed |-> 0]]
       /\ credits' = [credits EXCEPT ![payments[r.key].student] = @ + r.amount]
       /\ UNCHANGED <<invoices, credited, openCredits, payments, debits>>
    \/ /\ r.op = "reverse_allocation"
       /\ allocations' = [allocations EXCEPT ![r.row].reversed = @ + r.amount]
       /\ debits' = [debits EXCEPT ![payments[allocations[r.row].payment].student] = @ + r.amount]
       /\ UNCHANGED <<invoices, credited, openCredits, payments, credits>>
    \/ /\ r.op = "reverse_payment"
       /\ allocations' = [j \in Rows |-> [allocations[j] EXCEPT !.reversed = @ + remaining[j]]]
       /\ debits' = [debits EXCEPT ![payments[r.key].student] = @ + Ledger!Total(remaining, MaxAllocations)]
       /\ payments' = [payments EXCEPT ![r.key].status = "REVERSED"]
       /\ UNCHANGED <<invoices, credited, openCredits, credits>>

-----------------------------------------------------------------------------
(* Transactions.                                                           *)

Nothing == [j \in Rows |-> 0]
Idle == [request |-> NoRequest, phase |-> "idle", todo |-> <<>>, held |-> {},
         remaining |-> Nothing, number |-> 0]

Init ==
    /\ Ledger!Init
    /\ nextValue = [d \in DocumentTypes |-> 1]
    /\ numbered = [d \in DocumentTypes |-> <<>>]
    /\ txns = [w \in Workers |-> Idle]

\* A request enters @transaction.atomic.
Begin(w, r) ==
    /\ txns[w] = Idle
    /\ Loaded(r)
    /\ WithinBounds(r)
    /\ txns' = [txns EXCEPT ![w] = [Idle EXCEPT !.request = r, !.phase = "locking", !.todo = FirstLocks(r)]]
    /\ UNCHANGED <<ledgerRows, nextValue, numbered>>

\* The next select_for_update returns: its row is free.  _next_number reads
\* the series with the lock.
Lock(w) ==
    /\ txns[w].todo # <<>>
    /\ LET t == txns[w]
           row == Head(t.todo)
       IN  /\ IsFree(row, w)
           /\ \E found \in LocksFoundAt(t.request, row) :
                  txns' = [txns EXCEPT ![w] =
                      [t EXCEPT !.todo = Tail(t.todo) \o found,
                                !.held = @ \cup {row},
                                !.number = IF t.phase \in {"recording", "writing"} THEN nextValue[DocumentOf(t.request)]
                                           ELSE t.number]]
    /\ UNCHANGED <<ledgerRows, nextValue, numbered>>

\* The checks pass on what is committed now; the call goes on to write, a match
\* to record_payment first.
Check(w) ==
    /\ txns[w].phase = "locking" /\ txns[w].todo = <<>>
    /\ LET r == txns[w].request
       IN  /\ Accepts(r)
           /\ txns' = [txns EXCEPT ![w].phase = IF r.op = "match_payment" THEN "recording" ELSE "writing",
                                   ![w].remaining = Remaining(r),
                                   ![w].todo = IF DocumentOf(r) = "none" THEN <<>> ELSE <<SeriesRow(DocumentOf(r))>>]
    /\ UNCHANGED <<ledgerRows, nextValue, numbered>>

\* A match has recorded its payment and scans for the one invoice it would settle
\* (_attempt_auto_allocate); it locks the payment, which only it can see, and that.
Scan(w) ==
    /\ txns[w].phase = "recording" /\ txns[w].todo = <<>>
    /\ LET r == txns[w].request
       IN  \/ \E a \in Invoices :
                /\ Candidates(r) = {a}
                /\ txns' = [txns EXCEPT ![w].phase = "allocating", ![w].request = [r EXCEPT !.invoice = a],
                                        ![w].todo = <<PaymentRow(r.key), InvoiceRow(a)>>]
           \/ /\ \A a \in Invoices : Candidates(r) # {a}
              /\ txns' = [txns EXCEPT ![w].phase = "writing"]
    /\ UNCHANGED <<ledgerRows, nextValue, numbered>>

\* allocate_payment's checks under the invoice's lock.  Refused, it rolls back to
\* its savepoint, which gives the two locks back, and leaves unapplied cash.
Settle(w) ==
    /\ txns[w].phase = "allocating" /\ txns[w].todo = <<>>
    /\ LET r == txns[w].request
       IN  \/ MaySettle(r) /\ txns' = [txns EXCEPT ![w].phase = "writing"]
           \/ /\ ~MaySettle(r)
              /\ txns' = [txns EXCEPT ![w].phase = "writing", ![w].request = [r EXCEPT !.invoice = 0],
                                      ![w].held = @ \ {PaymentRow(r.key), InvoiceRow(r.invoice)}]
    /\ UNCHANGED <<ledgerRows, nextValue, numbered>>

\* A check fails (ValidationError) or an existing row answers (replay).
Refuse(w) ==
    /\ txns[w].phase = "locking" /\ txns[w].todo = <<>>
    /\ ~Accepts(txns[w].request)
    /\ txns' = [txns EXCEPT ![w] = Idle]
    /\ UNCHANGED <<ledgerRows, nextValue, numbered>>

\* The commit publishes the writes and releases the locks.
Commit(w) ==
    /\ txns[w].phase = "writing" /\ txns[w].todo = <<>>
    /\ LET t == txns[w]
           d == DocumentOf(t.request)
       IN  /\ Writes(t.request, t.remaining)
           /\ IF d = "none" THEN UNCHANGED <<nextValue, numbered>>
              ELSE /\ nextValue' = [nextValue EXCEPT ![d] = t.number + 1]
                   /\ numbered' = [numbered EXCEPT ![d] = Append(@, t.number)]
    /\ txns' = [txns EXCEPT ![w] = Idle]

\* lock_timeout, a lost connection or a killed worker: all is rolled back,
\* the document number included.
Rollback(w) ==
    /\ txns[w] # Idle
    /\ txns' = [txns EXCEPT ![w] = Idle]
    /\ UNCHANGED <<ledgerRows, nextValue, numbered>>

Step(w) == Lock(w) \/ Check(w) \/ Scan(w) \/ Settle(w) \/ Refuse(w) \/ Commit(w)

Next == \E w \in Workers :
            \/ \E r \in Requests : Begin(w, r)
            \/ Step(w)
            \/ Rollback(w)

Spec == Init /\ [][Next]_vars

\* PostgreSQL grants a released row to its waiters in turn and a request
\* that can go on does: strong fairness of each worker's steps.
Fairness == \A w \in Workers : SF_vars(Step(w))
FairSpec == Spec /\ Fairness

-----------------------------------------------------------------------------
(* Properties.                                                             *)

TypeOK ==
    /\ Ledger!TypeOK
    /\ nextValue \in [DocumentTypes -> Nat \ {0}]
    /\ numbered \in [DocumentTypes -> Seq(Nat)]
    /\ txns \in [Workers -> [request : Calls \cup {NoRequest},
                            phase : {"idle", "locking", "recording", "allocating", "writing"},
                            todo : Seq(LockRows), held : SUBSET LockRows,
                            remaining : [Rows -> Nat], number : Nat]]

\* Whatever the interleaving and the rollbacks, the committed rows change
\* as if the calls ran one at a time: every check the code makes on rows it
\* locked still holds when it commits.
ImplementsLedger == Ledger!Spec

\* Document numbers are gapless and in commit order, rolled back
\* transactions included (NumberSeries, _next_number).
NumbersAreGapless ==
    \A d \in DocumentTypes : numbered[d] = [i \in 1..(nextValue[d] - 1) |-> i]

\* Who w's next lock waits for.
WaitsFor(w, v) == txns[w].todo # <<>> /\ v # w /\ HoldsRow(v, Head(txns[w].todo))

\* No set of transactions ever waits for its own members: the lock order of
\* the calls is deadlock-free (the comment in reverse_payment), the match of an
\* incoming payment included, which holds the receipt series while it asks for
\* its payment and an invoice.
NoCircularWait ==
    \A W \in (SUBSET Workers) \ {{}} : \E w \in W : \A v \in W : ~WaitsFor(w, v)

\* Every transaction ends, however often others take the rows it wants.
TransactionsEnd == \A w \in Workers : txns[w] # Idle ~> txns[w] = Idle
=============================================================================
