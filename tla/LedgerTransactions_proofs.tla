--------------------- MODULE LedgerTransactions_proofs ---------------------
(* The interleaved transactions of LedgerTransactions take gapless document  *)
(* numbers, never wait in a circle, and implement FeeLedger, for any number  *)
(* of workers, invoices, payments and allocations.                           *)
EXTENDS LedgerTransactions, RowSums_proofs, FiniteSetTheorems, SequenceTheorems

USE LedgerAssumption

-----------------------------------------------------------------------------
(* The ledger's types and links, in this module's own words.               *)

NoInvoice == [status |-> "NONE", total |-> 0]
NoPayment == [status |-> "NONE", student |-> Nobody, amount |-> 0]
NoAllocation == [payment |-> NoKey, invoice |-> 0, amount |-> 0, reversed |-> 0]
InvoiceRecords == [status : {"NONE", "DRAFT", "ISSUED"}, total : Nat]
PaymentRecords == [status : {"NONE", "RECEIVED", "REVERSED"}, student : Students \cup {Nobody}, amount : Nat]
AllocationRecords == [payment : Keys \cup {NoKey}, invoice : Invoices \cup {0}, amount : Nat, reversed : Nat]
Typed ==
    /\ invoices \in [Invoices -> InvoiceRecords]
    /\ credited \in [Invoices -> Nat]
    /\ openCredits \in [Students -> Nat]
    /\ payments \in [Keys -> PaymentRecords]
    /\ allocations \in [Rows -> AllocationRecords]
    /\ debits \in [Students -> Nat]
    /\ credits \in [Students -> Nat]
Linked ==
    /\ \A a \in Invoices : invoices[a].status = "NONE" => invoices[a] = NoInvoice
    /\ \A k \in Keys : IF payments[k].status = "NONE" THEN payments[k] = NoPayment
                       ELSE payments[k].student \in Students
    /\ \A j \in Rows : allocations[j] # NoAllocation =>
        /\ allocations[j].payment \in Keys
        /\ allocations[j].invoice \in Invoices
        /\ payments[allocations[j].payment].student = StudentOf[allocations[j].invoice]
        /\ payments[allocations[j].payment].status # "NONE"
        /\ invoices[allocations[j].invoice].status = "ISSUED"
        /\ allocations[j].reversed <= allocations[j].amount

\* They say the same, before a step and after it.
LEMMA OwnWords == (Ledger!TypeOK <=> Typed) /\ (Ledger!RowsWellFormed <=> Linked)
  BY DEF Ledger!TypeOK, Ledger!RowsWellFormed, Typed, Linked, Ledger!Invoices, Ledger!Rows, Invoices, Rows,
         Ledger!NoInvoice, Ledger!NoPayment, Ledger!NoAllocation, NoInvoice, NoPayment, NoAllocation,
         InvoiceRecords, PaymentRecords, AllocationRecords

\* The same after a step.
LEMMA OwnWordsNext == (Ledger!TypeOK' <=> Typed') /\ (Ledger!RowsWellFormed' <=> Linked')
  BY OwnWords, PTL

-----------------------------------------------------------------------------
(* The inductive invariant.                                                *)

TxnRecords == [request : Calls \cup {NoRequest}, phase : {"idle", "locking", "recording", "allocating", "writing"},
               todo : Seq(LockRows), held : SUBSET LockRows, remaining : [Rows -> Nat], number : Nat]
SeriesTyped ==
    nextValue \in [DocumentTypes -> Nat \ {0}] /\ numbered \in [DocumentTypes -> Seq(Nat)]

WaitsIn(t, row) == \E i \in DOMAIN t.todo : t.todo[i] = row

\* The rows a receipt's call locks up to its number.
OpensReceipt(row) == row[1] \in {"incoming", "key"}

\* What a phase says of the rest of a transaction: the series is the last row
\* it locks, a match's payment and invoice excepted, and the number it read
\* there is still the next one.
PhaseShape(t) ==
    LET d == DocumentOf(t.request)
    IN  /\ t.phase = "idle" => t = Idle
        /\ t.phase # "idle" => t.request \in Calls
        /\ t.phase = "locking" => /\ t.request \in Requests
                                  /\ \A row \in t.held : row[1] # "series" /\ (d = "RECEIPT" => OpensReceipt(row))
                                  /\ \A i \in DOMAIN t.todo :
                                         t.todo[i][1] # "series" /\ (d = "RECEIPT" => OpensReceipt(t.todo[i]))
        /\ t.phase \in {"recording", "allocating"} => t.request.op = "match_payment" /\ KeyEntry(t.request.key) \in t.held
        /\ t.phase = "recording" =>
               /\ t.request.invoice = 0
               /\ \A row \in t.held : OpensReceipt(row) \/ row = SeriesRow(d)
               /\ \/ t.todo = <<SeriesRow(d)>> /\ \A row \in t.held : row[1] # "series"
                  \/ t.todo = <<>> /\ SeriesRow(d) \in t.held /\ t.number = nextValue[d]
        /\ t.phase = "allocating" =>
               /\ t.request.invoice \in Invoices
               /\ \A i \in DOMAIN t.todo : t.todo[i][1] # "series"
               /\ SeriesRow(d) \in t.held /\ t.number = nextValue[d]
        /\ t.phase = "writing" =>
               \/ t.todo = <<>> /\ d = "none"
               \/ t.todo = <<SeriesRow(d)>> /\ d # "none" /\ \A row \in t.held : row[1] # "series"
               \/ t.todo = <<>> /\ d # "none" /\ SeriesRow(d) \in t.held /\ t.number = nextValue[d]
        /\ t.request.op = "reverse_payment" /\ WaitsIn(t, PaymentRow(t.request.key)) =>
               t.todo = <<PaymentRow(t.request.key)>> /\ t.held = {}

\* The order rows are locked in: what opens a call, the receipt series, a payment, its
\* invoices in ascending order, the other number series.  Allocations are not part of it.
Rank(row) ==
    CASE row[1] = "incoming"                            -> 0
      [] row[1] \in {"key", "assignment", "allocation"} -> 1
      [] row[1] = "series" /\ row[2] = "RECEIPT"        -> 2
      [] row[1] = "payment"                             -> 3
      [] row[1] = "invoice"                             -> 3 + row[2]
      [] row[1] = "series" /\ row[2] # "RECEIPT"        -> NInvoices + 4
IsAllocation(row) == row[1] = "allocation"
Precedes(x, y) == IsAllocation(x) \/ IsAllocation(y) \/ x = y \/ Rank(x) < Rank(y)
Ordered(t) ==
    /\ \A x \in t.held, i \in DOMAIN t.todo : Precedes(x, t.todo[i])
    /\ \A h, i \in DOMAIN t.todo : h < i => Precedes(t.todo[h], t.todo[i])

\* An allocation is locked only behind its payment.
BehindPayment(t) ==
    \A j \in Rows :
        /\ AllocationRow(j) \in t.held =>
               allocations[j] # NoAllocation /\ PaymentRow(allocations[j].payment) \in t.held
        /\ \A i \in DOMAIN t.todo : t.todo[i] = AllocationRow(j) =>
               /\ allocations[j] # NoAllocation
               /\ \/ PaymentRow(allocations[j].payment) \in t.held
                  \/ \E h \in DOMAIN t.todo : h < i /\ t.todo[h] = PaymentRow(allocations[j].payment)

\* A transaction has, or will ask for, the rows its call locks by name, those of the
\* invoice a match has chosen included, and the rows its request names exist.
Chosen(r) == IF r.op = "match_payment" /\ r.invoice # 0 THEN {PaymentRow(r.key), InvoiceRow(r.invoice)} ELSE {}
Claims(r) == {FirstLocks(r)[i] : i \in DOMAIN FirstLocks(r)} \cup Chosen(r)
Secured(t) ==
    t.phase # "idle" => /\ Loaded(t.request)
                        /\ \A row \in Claims(t.request) : row \in t.held \/ WaitsIn(t, row)

\* What a transaction has checked still holds while it goes on to write.
Promised(t) ==
    /\ t.phase = "writing" => Accepts(t.request) /\ t.remaining = Remaining(t.request)
    /\ t.phase \in {"recording", "allocating"} =>
           payments[t.request.key].status = "NONE" /\ t.remaining = Remaining(t.request)

TxnInv(t) == t \in TxnRecords /\ PhaseShape(t) /\ Ordered(t) /\ BehindPayment(t) /\ Secured(t) /\ Promised(t)
TxnsSound == \A w \in Workers : TxnInv(txns[w])

\* A row is locked by one transaction at a time.
LocksExclude == \A w, v \in Workers : \A row \in LockRows : HoldsRow(w, row) /\ HoldsRow(v, row) => w = v

\* Credit notes without an invoice that are being made stay within their bound.
OpensCredit(t, s) == t.request.op = "issue_credit_note" /\ t.request.invoice = 0 /\ t.request.student = s
CreditsFit ==
    \A w \in Workers, s \in Students : OpensCredit(txns[w], s) =>
        /\ openCredits[s] + txns[w].request.amount <= MaxOpenCredit
        /\ \A v \in Workers : OpensCredit(txns[v], s) => v = w

IInv == /\ Typed /\ Linked /\ SeriesTyped /\ txns \in [Workers -> TxnRecords]
        /\ TxnsSound /\ LocksExclude /\ CreditsFit /\ NumbersAreGapless

-----------------------------------------------------------------------------
(* Requests and tables.                                                    *)

\* What a request of each call carries.
RequestShape(r) ==
    /\ r.op \in {"generate_invoice", "issue_invoice", "issue_credit_note", "record_payment", "match_payment",
                  "allocate_payment", "reverse_allocation", "reverse_payment"}
    /\ r.op \in {"generate_invoice", "issue_invoice", "allocate_payment"} => r.invoice \in Invoices
    /\ r.op = "issue_credit_note" => \/ r.invoice \in Invoices
                                     \/ r.invoice = 0 /\ r.student \in Students
    /\ r.op = "record_payment" => r.invoice = 0
    /\ r.op = "match_payment" => r.invoice \in Invoices \cup {0}
    /\ r.op \in {"record_payment", "match_payment", "allocate_payment", "reverse_payment"} => r.key \in Keys
    /\ r.op \in {"record_payment", "match_payment"} => r.student \in Students
    /\ r.op = "reverse_allocation" => r.row \in Rows
    /\ r.op \notin {"issue_invoice", "reverse_payment"} => r.amount \in Amounts /\ r.amount > 0 /\ r.amount \in Nat

\* Every request has that shape, also once a match has chosen its invoice.
LEMMA RequestShapes ==
    ASSUME NEW r \in Calls
    PROVE  RequestShape(r)
  <1>1. CASE r \in Requests
    BY <1>1 DEF Requests, Request, RequestShape, Positive
  <1>2. CASE r \notin Requests
    <2>1. PICK k \in Keys, a \in Invoices, s \in Students, x \in Positive : r = Request("match_payment", k, a, 0, s, x)
      BY <1>2 DEF Calls
    <2> QED
      BY <2>1 DEF Request, RequestShape, Positive
  <1> QED
    BY <1>1, <1>2

\* A request that enters has chosen no invoice; a match that does is still a call.
LEMMA MatchesChoose ==
    ASSUME NEW r \in Calls, r.op = "match_payment"
    PROVE  /\ r \in Requests => r.invoice = 0
           /\ \A a \in Invoices \cup {0} : [r EXCEPT !.invoice = a] \in Calls
           /\ \A a : LET q == [r EXCEPT !.invoice = a]
                   IN  q.op = "match_payment" /\ q.invoice = a /\ q.key = r.key
  <1>1. ASSUME NEW q \in Requests, q.op = "match_payment" PROVE q.invoice = 0
    BY <1>1 DEF Requests, Request
  <1>2. PICK k \in Keys, s \in Students, x \in Positive :
            (\E b \in Invoices \cup {0} : r = Request("match_payment", k, b, 0, s, x)) /\ "match_payment" \in Operations
    <2>1. CASE r \in Requests
      BY <2>1 DEF Requests, Request
    <2>2. CASE r \notin Requests
      <3>1. PICK k \in Keys, a \in Invoices, s \in Students, x \in Positive :
                r = Request("match_payment", k, a, 0, s, x) /\ r.op \in Operations
        BY <2>2 DEF Calls
      <3> QED
        BY <3>1
    <2> QED
      BY <2>1, <2>2
  <1>3. ASSUME NEW a \in Invoices \cup {0} PROVE [r EXCEPT !.invoice = a] \in Calls
    <2>1. PICK q : q = Request("match_payment", k, a, 0, s, x)
      OBVIOUS
    <2>2. [r EXCEPT !.invoice = a] = q
      BY <1>2, <2>1 DEF Request
    <2>3. q.op \in Operations
      BY <1>2, <2>1 DEF Request
    <2>4. CASE a \in Invoices
      BY <2>1, <2>2, <2>3, <2>4 DEF Calls
    <2>5. CASE a = 0
      BY <2>1, <2>2, <2>3, <2>5 DEF Calls, Requests
    <2> QED
      BY <2>4, <2>5
  <1>4. ASSUME NEW a
        PROVE  LET q == [r EXCEPT !.invoice = a]
               IN  q.op = "match_payment" /\ q.invoice = a /\ q.key = r.key
    <2>1. PICK b : r = Request("match_payment", k, b, 0, s, x)
      BY <1>2
    <2>2. [r EXCEPT !.invoice = a] = Request("match_payment", k, a, 0, s, x)
      BY <2>1 DEF Request
    <2> QED
      BY <2>1, <2>2 DEF Request
  <1> QED
    BY <1>1, <1>3, <1>4

\* The ledger's tables, and the sums the calls read.
LEMMA TableFacts ==
    ASSUME Ledger!TypeOK, Ledger!RowsWellFormed
    PROVE  /\ \A j \in Rows : Ledger!Net(j) \in Nat
           /\ \A k : Ledger!Held(k) \in Nat
           /\ \A a : Ledger!Settled(a) \in Nat
           /\ \A a \in Invoices : Ledger!Outstanding(a) \in Int
           /\ \A k \in Keys : Ledger!Available(k) \in Int
  <1>1. ASSUME NEW j \in Rows PROVE Ledger!Net(j) \in Nat
    <2>1. allocations[j].amount \in Nat /\ allocations[j].reversed \in Nat
      BY DEF Ledger!TypeOK, Ledger!Rows, Rows
    <2>2. CASE allocations[j] = Ledger!NoAllocation
      BY <2>2 DEF Ledger!Net, Ledger!NoAllocation
    <2>3. CASE allocations[j] # Ledger!NoAllocation
      BY <2>1, <2>3 DEF Ledger!Net, Ledger!RowsWellFormed, Ledger!Rows, Rows
    <2> QED
      BY <2>2, <2>3
  <1>2. ASSUME NEW f \in [Rows -> Nat] PROVE Ledger!Total(f, MaxAllocations) \in Nat
    BY TotalNat DEF Ledger!Total, Total, Rows
  <1>3. ASSUME NEW k PROVE Ledger!Held(k) \in Nat
    BY <1>1, <1>2 DEF Ledger!Held, Ledger!Rows, Rows
  <1>4. ASSUME NEW a PROVE Ledger!Settled(a) \in Nat
    BY <1>1, <1>2 DEF Ledger!Settled, Ledger!Rows, Rows
  <1>5. ASSUME NEW a \in Invoices PROVE Ledger!Outstanding(a) \in Int
    BY SMTT(30), <1>4 DEF Ledger!Outstanding, Ledger!TypeOK, Invoices, Ledger!Invoices
  <1>6. ASSUME NEW k \in Keys PROVE Ledger!Available(k) \in Int
    BY <1>3 DEF Ledger!Available, Ledger!TypeOK
  <1> QED
    BY <1>1, <1>3, <1>4, <1>5, <1>6

-----------------------------------------------------------------------------
(* A commit is a call of FeeLedger.                                        *)

\* The atomic call a request asks for.
CallOf(r) ==
    \/ r.op = "generate_invoice" /\ Ledger!GenerateInvoice(r.invoice, r.amount)
    \/ r.op = "issue_invoice" /\ Ledger!IssueInvoice(r.invoice)
    \/ r.op = "issue_credit_note" /\ r.invoice # 0 /\ Ledger!IssueCreditNote(r.invoice, r.amount)
    \/ r.op = "issue_credit_note" /\ r.invoice = 0 /\ Ledger!IssueOpenCredit(r.student, r.amount)
    \/ r.op \in {"record_payment", "match_payment"} /\ r.invoice = 0 /\ Ledger!RecordPayment(r.key, r.student, r.amount)
    \/ /\ r.op = "match_payment" /\ r.invoice # 0
       /\ \E j \in Rows : Ledger!MatchPayment(j, r.key, r.invoice, r.amount)
    \/ r.op = "allocate_payment" /\ \E j \in Rows : Ledger!AllocatePayment(j, r.key, r.invoice, r.amount)
    \/ r.op = "reverse_allocation" /\ Ledger!ReverseAllocation(r.row, r.amount)
    \/ r.op = "reverse_payment" /\ Ledger!ReversePayment(r.key)

\* A call is one of FeeLedger's steps.
LEMMA CallIsStep ==
    ASSUME NEW r, RequestShape(r), CallOf(r)
    PROVE  Ledger!Next
  BY DEF RequestShape, CallOf, Ledger!Next, Ledger!Rows, Ledger!Invoices, Rows, Invoices

\* Writing what was checked, on rows that still are as checked, is the call.
LEMMA WritesAreCall ==
    ASSUME NEW r, RequestShape(r), Ledger!TypeOK, Ledger!RowsWellFormed, Loaded(r), Accepts(r),
           r.op = "issue_credit_note" /\ r.invoice = 0 => openCredits[r.student] + r.amount <= MaxOpenCredit,
           Writes(r, Remaining(r))
    PROVE  CallOf(r)
  <1> USE DEF Ledger!Rows, Ledger!Invoices, Rows, Invoices
  <1>1. CASE r.op = "generate_invoice"
    BY <1>1 DEF RequestShape, Accepts, Writes, CallOf, Ledger!GenerateInvoice, Ledger!RowsWellFormed
  <1>2. CASE r.op = "issue_invoice"
    BY <1>2 DEF Accepts, Writes, CallOf, Ledger!IssueInvoice
  <1>3. CASE r.op = "issue_credit_note" /\ r.invoice # 0
    BY <1>3 DEF RequestShape, Loaded, Accepts, Writes, CallOf, Ledger!IssueCreditNote, Ledger!NoInvoice
  <1>4. CASE r.op = "issue_credit_note" /\ r.invoice = 0
    BY <1>4 DEF RequestShape, Accepts, Writes, CallOf, Ledger!IssueOpenCredit
  <1>5. CASE r.op \in {"record_payment", "match_payment"} /\ r.invoice = 0
    BY <1>5 DEF RequestShape, Accepts, Writes, CallOf, Ledger!RecordPayment, Ledger!RowsWellFormed
  <1>6. CASE r.op = "allocate_payment"
    <2>1. payments[r.key].status = "RECEIVED"
      BY <1>6 DEF RequestShape, Loaded, Accepts, Ledger!TypeOK
    <2>2. PICK j \in Rows : /\ Ledger!IsNextRow(j)
                            /\ allocations' = [allocations EXCEPT ![j] =
                                   [payment |-> r.key, invoice |-> r.invoice, amount |-> r.amount, reversed |-> 0]]
      BY <1>6 DEF Writes
    <2>3. /\ credits' = [credits EXCEPT ![StudentOf[r.invoice]] = @ + r.amount]
          /\ UNCHANGED <<invoices, credited, openCredits, payments, debits>>
      BY <1>6 DEF Writes, Accepts
    <2>4. Ledger!AllocatePayment(j, r.key, r.invoice, r.amount)
      BY <1>6, <2>1, <2>2, <2>3 DEF RequestShape, Accepts, Ledger!AllocatePayment
    <2> QED
      BY <1>6, <2>4 DEF CallOf
  <1>7. CASE r.op = "reverse_allocation"
    BY <1>7 DEF RequestShape, Loaded, Accepts, Writes, CallOf, Ledger!ReverseAllocation
  <1>8. CASE r.op = "reverse_payment"
    <2>1. payments[r.key].status = "RECEIVED"
      BY <1>8 DEF RequestShape, Loaded, Accepts, Ledger!TypeOK
    <2>2. Remaining(r) = [j \in Rows |-> IF allocations[j].payment = r.key THEN Ledger!Net(j) ELSE 0]
      BY <1>8 DEF Remaining
    <2>3. ASSUME NEW j \in Rows
          PROVE  [allocations[j] EXCEPT !.reversed = @ + Remaining(r)[j]]
                 = IF allocations[j].payment = r.key
                   THEN [allocations[j] EXCEPT !.reversed = allocations[j].amount] ELSE allocations[j]
      <3>1. allocations[j] \in [payment : Keys \cup {NoKey}, invoice : Invoices \cup {0}, amount : Nat, reversed : Nat]
        BY DEF Ledger!TypeOK
      <3>2. allocations[j].reversed + (allocations[j].amount - allocations[j].reversed) = allocations[j].amount
            /\ allocations[j].reversed + 0 = allocations[j].reversed
        BY <3>1
      <3>3. Remaining(r)[j] = IF allocations[j].payment = r.key THEN allocations[j].amount - allocations[j].reversed ELSE 0
        BY <2>2 DEF Ledger!Net
      <3> QED
        BY <3>1, <3>2, <3>3
    <2>4. Ledger!Total(Remaining(r), MaxAllocations) = Ledger!Held(r.key)
      BY <2>2 DEF Ledger!Held
    <2>5. allocations' = [j \in Rows |-> IF allocations[j].payment = r.key
                                        THEN [allocations[j] EXCEPT !.reversed = allocations[j].amount]
                                        ELSE allocations[j]]
      BY <1>8, <2>3 DEF Writes
    <2> QED
      BY <1>8, <2>1, <2>4, <2>5 DEF Writes, CallOf, Ledger!ReversePayment
  <1>9. CASE r.op = "match_payment" /\ r.invoice # 0
    <2>1. r.key \in Keys /\ r.invoice \in Invoices /\ payments[r.key].status = "NONE" /\ MaySettle(r)
      BY <1>9 DEF RequestShape, Accepts
    <2>2. payments[r.key] = Ledger!NoPayment
      BY <2>1 DEF Ledger!RowsWellFormed
    <2>3. PICK j \in Rows : /\ Ledger!IsNextRow(j)
                            /\ allocations' = [allocations EXCEPT ![j] =
                                   [payment |-> r.key, invoice |-> r.invoice, amount |-> r.amount, reversed |-> 0]]
      BY <1>9 DEF Writes
    <2>4. /\ payments' = [payments EXCEPT ![r.key] =
                 [status |-> "RECEIVED", student |-> StudentOf[r.invoice], amount |-> r.amount]]
          /\ credits' = [credits EXCEPT ![StudentOf[r.invoice]] = @ + r.amount]
          /\ UNCHANGED <<invoices, credited, openCredits, debits>>
      BY <1>9, <2>1 DEF Writes, MaySettle
    <2>5. Ledger!MatchPayment(j, r.key, r.invoice, r.amount)
      BY <1>9, <2>1, <2>2, <2>3, <2>4 DEF RequestShape, MaySettle, Ledger!MatchPayment
    <2> QED
      BY <1>9, <2>5 DEF CallOf
  <1> QED
    BY <1>1, <1>2, <1>3, <1>4, <1>5, <1>6, <1>7, <1>8, <1>9 DEF RequestShape

\* Every call keeps the ledger typed and its rows linked.
LEMMA CallKeepsRows ==
    ASSUME Typed, Linked, Ledger!Next
    PROVE  Typed' /\ Linked'
  <1> USE DEF Typed, Linked
  <1>0. /\ StudentOf \in [Invoices -> Students]
        /\ Nobody \notin Students /\ NoKey \notin Keys /\ 0 \notin Invoices /\ Amounts \subseteq Int
    BY DEF Invoices
  <1>1. ASSUME NEW a \in Invoices, NEW x \in Amounts, Ledger!GenerateInvoice(a, x)
        PROVE  Typed' /\ Linked'
    <2>1. [status |-> "DRAFT", total |-> x] \in InvoiceRecords
      BY <1>0, <1>1 DEF Ledger!GenerateInvoice, InvoiceRecords
    <2> QED
      BY <2>1, <1>1 DEF Ledger!GenerateInvoice, Ledger!NoInvoice
  <1>2. ASSUME NEW a \in Invoices, Ledger!IssueInvoice(a)
        PROVE  Typed' /\ Linked'
    <2>1. invoices' \in [Invoices -> InvoiceRecords] /\ invoices[a].total \in Nat
      BY <1>2 DEF Ledger!IssueInvoice, InvoiceRecords
    <2>2. \A b \in Invoices : b # a => invoices'[b] = invoices[b]
      BY <1>2 DEF Ledger!IssueInvoice
    <2>3. invoices'[a].status = "ISSUED"
      BY <1>2 DEF Ledger!IssueInvoice, InvoiceRecords
    <2>4. Linked'
      BY <1>2, <2>2, <2>3 DEF Ledger!IssueInvoice
    <2>5. Typed'
      BY SMTT(30), <1>0, <1>2, <2>1 DEF Ledger!IssueInvoice
    <2> QED
      BY <2>4, <2>5
  <1>3. ASSUME NEW a \in Invoices, NEW x \in Amounts, Ledger!IssueCreditNote(a, x)
        PROVE  Typed' /\ Linked'
    <2>1. x \in Nat /\ StudentOf[a] \in Students
      <3>1. x > 0
        BY <1>3 DEF Ledger!IssueCreditNote
      <3> HIDE DEF Typed, Linked
      <3> QED
        BY <1>0, <3>1
    <2>2. credited' \in [Invoices -> Nat] /\ credits' \in [Students -> Nat]
      <3>1. credited \in [Invoices -> Nat] /\ credits \in [Students -> Nat]
        OBVIOUS
      <3> HIDE DEF Typed, Linked
      <3> QED
        BY <1>3, <2>1, <3>1 DEF Ledger!IssueCreditNote
    <2>3. UNCHANGED <<invoices, openCredits, payments, allocations, debits>>
      BY <1>3 DEF Ledger!IssueCreditNote
    <2> QED
      BY <2>2, <2>3
  <1>4. ASSUME NEW s \in Students, NEW x \in Amounts, Ledger!IssueOpenCredit(s, x)
        PROVE  Typed' /\ Linked'
    BY SMTT(30), <1>0, <1>4 DEF Ledger!IssueOpenCredit
  <1>5. ASSUME NEW k \in Keys, NEW s \in Students, NEW x \in Amounts, Ledger!RecordPayment(k, s, x)
        PROVE  Typed' /\ Linked'
    <2>1. [status |-> "RECEIVED", student |-> s, amount |-> x] \in PaymentRecords
      BY <1>0, <1>5 DEF Ledger!RecordPayment, PaymentRecords
    <2>2. payments[k].status = "NONE"
      BY <1>5 DEF Ledger!RecordPayment, Ledger!NoPayment
    <2> QED
      BY <2>1, <2>2, <1>5 DEF Ledger!RecordPayment
  <1>6. ASSUME NEW j \in Rows, NEW k \in Keys, NEW a \in Invoices, NEW x \in Amounts,
               Ledger!AllocatePayment(j, k, a, x)
        PROVE  Typed' /\ Linked'
    <2>1. [payment |-> k, invoice |-> a, amount |-> x, reversed |-> 0] \in AllocationRecords /\ x \in Nat
      BY <1>0, <1>6 DEF Ledger!AllocatePayment, AllocationRecords
    <2>2. Typed'
      <3>1. allocations' \in [Rows -> AllocationRecords]
        BY <1>6, <2>1 DEF Ledger!AllocatePayment
      <3>2. credits' \in [Students -> Nat]
        BY SMTT(30), <1>0, <1>6, <2>1 DEF Ledger!AllocatePayment
      <3>3. UNCHANGED <<invoices, credited, openCredits, payments, debits>>
        BY <1>6 DEF Ledger!AllocatePayment
      <3> QED
        BY <3>1, <3>2, <3>3
    <2>3. Linked'
      BY <1>6, <2>1 DEF Ledger!AllocatePayment
    <2> QED
      BY <2>2, <2>3
  <1>7. ASSUME NEW j \in Rows, NEW x \in Amounts, Ledger!ReverseAllocation(j, x)
        PROVE  Typed' /\ Linked'
    <2>1. /\ x \in Nat /\ allocations[j].amount \in Nat /\ allocations[j].reversed \in Nat
          /\ allocations[j].payment \in Keys /\ allocations[j].invoice \in Invoices
          /\ payments[allocations[j].payment].student \in Students
          /\ allocations[j].reversed + x <= allocations[j].amount
      <3>1. x > 0 /\ x <= allocations[j].amount - allocations[j].reversed
        BY <1>7 DEF Ledger!ReverseAllocation, Ledger!Net
      <3>2. allocations[j] # NoAllocation /\ allocations[j] \in AllocationRecords
        BY <1>7 DEF Ledger!ReverseAllocation, Ledger!NoAllocation, NoAllocation
      <3>3. allocations[j].amount \in Nat /\ allocations[j].reversed \in Nat /\ x \in Nat
        BY <1>0, <3>1, <3>2 DEF AllocationRecords
      <3>4. allocations[j].payment \in Keys /\ allocations[j].invoice \in Invoices
        BY <3>2
      <3>5. payments[allocations[j].payment].student \in Students
        BY <3>2, <3>4
      <3> QED
        BY <3>1, <3>3, <3>4, <3>5
    <2>2. allocations' \in [Rows -> AllocationRecords]
      <3>1. allocations' = [allocations EXCEPT ![j].reversed = @ + x]
        BY <1>7 DEF Ledger!ReverseAllocation
      <3>2. [allocations[j] EXCEPT !.reversed = @ + x] \in AllocationRecords
        <4>1. allocations[j] \in AllocationRecords /\ allocations[j].reversed + x \in Nat
          BY <2>1
        <4> HIDE DEF Typed, Linked
        <4> QED
          BY <4>1 DEF AllocationRecords
      <3> QED
        BY <3>1, <3>2
    <2>3. debits' \in [Students -> Nat]
      BY SMTT(30), <1>7, <2>1 DEF Ledger!ReverseAllocation
    <2>4. /\ \A i \in Rows : i # j => allocations'[i] = allocations[i]
          /\ allocations[j] # NoAllocation
          /\ allocations'[j].payment = allocations[j].payment
          /\ allocations'[j].invoice = allocations[j].invoice
          /\ allocations'[j].amount = allocations[j].amount
          /\ allocations'[j].reversed = allocations[j].reversed + x
      BY <1>7 DEF Ledger!ReverseAllocation, Ledger!NoAllocation, NoAllocation, AllocationRecords
    <2>5. UNCHANGED <<invoices, credited, openCredits, payments, credits>>
      BY <1>7 DEF Ledger!ReverseAllocation
    <2>6. ASSUME NEW i \in Rows, allocations'[i] # NoAllocation
          PROVE  /\ allocations'[i].payment \in Keys
                 /\ allocations'[i].invoice \in Invoices
                 /\ payments'[allocations'[i].payment].student = StudentOf[allocations'[i].invoice]
                 /\ payments'[allocations'[i].payment].status # "NONE"
                 /\ invoices'[allocations'[i].invoice].status = "ISSUED"
                 /\ allocations'[i].reversed <= allocations'[i].amount
      <3>1. CASE i = j
        BY <2>1, <2>4, <2>5, <3>1
      <3>2. CASE i # j
        BY <2>4, <2>5, <2>6, <3>2
      <3> QED
        BY <3>1, <3>2
    <2>7. Linked'
      BY <2>5, <2>6
    <2> QED
      BY <2>2, <2>3, <2>5, <2>7
  <1>8. ASSUME NEW k \in Keys, Ledger!ReversePayment(k)
        PROVE  Typed' /\ Linked'
    <2>1. Ledger!Held(k) \in Nat /\ payments[k].student \in Students
      BY <1>8, OwnWords, TableFacts DEF Ledger!ReversePayment
    <2>2. \A j \in Rows : /\ allocations'[j] \in AllocationRecords
                          /\ allocations'[j].payment = allocations[j].payment
                          /\ allocations'[j].invoice = allocations[j].invoice
                          /\ allocations'[j].amount = allocations[j].amount
                          /\ allocations'[j] # NoAllocation => allocations'[j].reversed <= allocations'[j].amount
      <3> TAKE j \in Rows
      <3>1. allocations'[j] = IF allocations[j].payment = k
                              THEN [allocations[j] EXCEPT !.reversed = allocations[j].amount] ELSE allocations[j]
        BY <1>8 DEF Ledger!ReversePayment, Ledger!Rows, Rows
      <3>2. allocations[j] \in AllocationRecords /\ (allocations[j] # NoAllocation => allocations[j].reversed <= allocations[j].amount)
        OBVIOUS
      <3> HIDE DEF Typed, Linked
      <3>3. allocations[j].amount \in Nat
        BY <3>2 DEF AllocationRecords
      <3> QED
        BY <3>1, <3>2, <3>3 DEF AllocationRecords, NoAllocation
    <2>3. debits' \in [Students -> Nat]
      BY <1>8, <2>1 DEF Ledger!ReversePayment
    <2>4. /\ payments' \in [Keys -> PaymentRecords]
          /\ \A i \in Keys : payments'[i].student = payments[i].student
          /\ payments'[k].status = "REVERSED"
          /\ \A i \in Keys : i # k => payments'[i] = payments[i]
      BY <1>8 DEF Ledger!ReversePayment, PaymentRecords
    <2>5. allocations' \in [Rows -> AllocationRecords] /\ UNCHANGED <<invoices, credited, openCredits, credits>>
      BY <1>8, <2>2 DEF Ledger!ReversePayment, Ledger!Rows, Rows
    <2>6. \A j \in Rows : allocations'[j] # NoAllocation => allocations[j] # NoAllocation
      BY <1>8 DEF Ledger!ReversePayment, Ledger!Rows, Rows, NoAllocation, AllocationRecords
    <2>7. ASSUME NEW j \in Rows, allocations'[j] # NoAllocation
          PROVE  /\ allocations'[j].payment \in Keys
                 /\ allocations'[j].invoice \in Invoices
                 /\ payments'[allocations'[j].payment].student = StudentOf[allocations'[j].invoice]
                 /\ payments'[allocations'[j].payment].status # "NONE"
                 /\ invoices'[allocations'[j].invoice].status = "ISSUED"
                 /\ allocations'[j].reversed <= allocations'[j].amount
      <3>1. allocations[j] # NoAllocation
        BY <2>6, <2>7
      <3>2. /\ allocations[j].payment \in Keys
            /\ allocations[j].invoice \in Invoices
            /\ payments[allocations[j].payment].student = StudentOf[allocations[j].invoice]
            /\ payments[allocations[j].payment].status # "NONE"
            /\ invoices[allocations[j].invoice].status = "ISSUED"
        BY <3>1
      <3> HIDE DEF Typed, Linked
      <3>3. payments'[allocations[j].payment].status # "NONE"
        BY <2>4, <3>2
      <3> QED
        BY <2>2, <2>4, <2>5, <2>7, <3>2, <3>3
    <2>8. \A i \in Keys : IF payments'[i].status = "NONE" THEN payments'[i] = NoPayment
                         ELSE payments'[i].student \in Students
      BY <2>1, <2>4
    <2>9. Linked'
      BY <2>5, <2>7, <2>8
    <2> QED
      BY <2>3, <2>4, <2>5, <2>9
  <1>9. ASSUME NEW j \in Rows, NEW k \in Keys, NEW a \in Invoices, NEW x \in Amounts,
               Ledger!MatchPayment(j, k, a, x)
        PROVE  Typed' /\ Linked'
    <2>1. /\ [payment |-> k, invoice |-> a, amount |-> x, reversed |-> 0] \in AllocationRecords /\ x \in Nat
          /\ [status |-> "RECEIVED", student |-> StudentOf[a], amount |-> x] \in PaymentRecords
          /\ StudentOf[a] \in Students
      BY <1>0, <1>9 DEF Ledger!MatchPayment, AllocationRecords, PaymentRecords
    <2>2. Typed'
      <3>1. allocations' \in [Rows -> AllocationRecords] /\ payments' \in [Keys -> PaymentRecords]
        BY <1>9, <2>1 DEF Ledger!MatchPayment
      <3>2. credits' \in [Students -> Nat]
        BY SMTT(30), <1>0, <1>9, <2>1 DEF Ledger!MatchPayment
      <3>3. UNCHANGED <<invoices, credited, openCredits, debits>>
        BY <1>9 DEF Ledger!MatchPayment
      <3> QED
        BY <3>1, <3>2, <3>3
    <2>3. /\ payments[k].status = "NONE"
          /\ payments'[k] = [status |-> "RECEIVED", student |-> StudentOf[a], amount |-> x]
          /\ \A i \in Keys : i # k => payments'[i] = payments[i]
          /\ allocations'[j] = [payment |-> k, invoice |-> a, amount |-> x, reversed |-> 0]
          /\ \A i \in Rows : i # j => allocations'[i] = allocations[i]
          /\ invoices' = invoices /\ invoices[a].status = "ISSUED"
      BY <1>9 DEF Ledger!MatchPayment, Ledger!NoPayment
    <2>4. ASSUME NEW i \in Keys
          PROVE  IF payments'[i].status = "NONE" THEN payments'[i] = NoPayment ELSE payments'[i].student \in Students
      <3>1. CASE i = k
        <4>1. payments'[i].status = "RECEIVED" /\ payments'[i].student \in Students
          BY <2>1, <2>3, <3>1
        <4> QED
          BY <4>1
      <3>2. CASE i # k
        <4>1. payments'[i] = payments[i]
          BY <2>3, <3>2
        <4>2. IF payments[i].status = "NONE" THEN payments[i] = NoPayment ELSE payments[i].student \in Students
          OBVIOUS
        <4> QED
          BY <4>1, <4>2
      <3> QED
        BY <3>1, <3>2
    <2>5. ASSUME NEW i \in Rows, allocations'[i] # NoAllocation
          PROVE  /\ allocations'[i].payment \in Keys
                 /\ allocations'[i].invoice \in Invoices
                 /\ payments'[allocations'[i].payment].student = StudentOf[allocations'[i].invoice]
                 /\ payments'[allocations'[i].payment].status # "NONE"
                 /\ invoices'[allocations'[i].invoice].status = "ISSUED"
                 /\ allocations'[i].reversed <= allocations'[i].amount
      <3>1. CASE i = j
        BY <2>1, <2>3, <3>1
      <3>2. CASE i # j
        <4>1. allocations'[i] = allocations[i]
          BY <2>3, <3>2
        <4>2. payments'[allocations[i].payment] = payments[allocations[i].payment]
          BY <2>3, <2>5, <4>1
        <4> QED
          BY <2>3, <2>5, <4>1, <4>2
      <3> QED
        BY <3>1, <3>2
    <2>6. Linked'
      BY <2>3, <2>4, <2>5
    <2> QED
      BY <2>2, <2>6
  <1> HIDE DEF Typed, Linked
  <1> QED
    BY <1>1, <1>2, <1>3, <1>4, <1>5, <1>6, <1>7, <1>8, <1>9
       DEF Ledger!Next, Ledger!Rows, Ledger!Invoices, Rows, Invoices

-----------------------------------------------------------------------------
(* What a call changes: only rows it claims.                               *)

\* The rows a request claims, call by call; the number series is not among them.
LEMMA ClaimsOfCalls ==
    ASSUME NEW r, RequestShape(r)
    PROVE  /\ r.op = "generate_invoice" => Claims(r) = {AssignmentRow(r.invoice)}
           /\ r.op = "issue_invoice" => Claims(r) = {InvoiceRow(r.invoice)}
           /\ r.op = "issue_credit_note" /\ r.invoice # 0 => Claims(r) = {InvoiceRow(r.invoice)}
           /\ r.op = "issue_credit_note" /\ r.invoice = 0 => Claims(r) = {}
           /\ r.op = "record_payment" => Claims(r) = {KeyEntry(r.key)}
           /\ r.op = "match_payment" /\ r.invoice = 0 => Claims(r) = {IncomingRow(r.key), KeyEntry(r.key)}
           /\ r.op = "match_payment" /\ r.invoice # 0 => Claims(r) = {IncomingRow(r.key), KeyEntry(r.key),
                                                                  PaymentRow(r.key), InvoiceRow(r.invoice)}
           /\ r.op = "allocate_payment" => Claims(r) = {PaymentRow(r.key), InvoiceRow(r.invoice)}
           /\ r.op = "reverse_allocation" => Claims(r) = {PaymentRow(allocations[r.row].payment),
                                                        InvoiceRow(allocations[r.row].invoice), AllocationRow(r.row)}
           /\ r.op = "reverse_payment" => Claims(r) = {PaymentRow(r.key)}
  <1> DEFINE Of(s) == {s[i] : i \in DOMAIN s}
  <1>1. Of(<<>>) = {}
    OBVIOUS
  <1>2. ASSUME NEW x PROVE Of(<<x>>) = {x}
    OBVIOUS
  <1>3. ASSUME NEW x, NEW y PROVE Of(<<x, y>>) = {x, y}
    OBVIOUS
  <1>4. ASSUME NEW x, NEW y, NEW z PROVE Of(<<x, y, z>>) = {x, y, z}
    OBVIOUS
  <1>5. Claims(r) = Of(FirstLocks(r)) \cup Chosen(r)
    BY DEF Claims
  <1>6. /\ r.op # "match_payment" \/ r.invoice = 0 => Chosen(r) = {}
        /\ r.op = "match_payment" /\ r.invoice # 0 => Chosen(r) = {PaymentRow(r.key), InvoiceRow(r.invoice)}
    BY DEF Chosen
  <1> HIDE DEF Of
  <1> QED
    BY <1>1, <1>2, <1>3, <1>4, <1>5, <1>6 DEF FirstLocks, RequestShape

\* What exists goes on to exist, and an allocation keeps its payment and invoice.
Kept ==
    /\ \A a \in Invoices : invoices[a].status # "NONE" => invoices'[a].status # "NONE"
    /\ \A k \in Keys : payments[k].status # "NONE" => payments'[k].status # "NONE"
    /\ \A j \in Rows : allocations[j] # NoAllocation =>
           /\ allocations'[j] # NoAllocation
           /\ allocations'[j].payment = allocations[j].payment
           /\ allocations'[j].invoice = allocations[j].invoice

\* What a call leaves alone, by the rows it does not claim.
InvoiceLeft(a) ==
    /\ invoices[a].status # "NONE" => invoices'[a] = invoices[a] /\ credited'[a] = credited[a]
    /\ \A j \in Rows : allocations'[j].invoice = a =>
           /\ allocations[j].invoice = a
           /\ allocations'[j].amount = allocations[j].amount
           /\ allocations'[j].reversed >= allocations[j].reversed
PaymentLeft(k) ==
    /\ payments[k].status # "NONE" => payments'[k] = payments[k]
    /\ \A j \in Rows : allocations[j].payment = k \/ allocations'[j].payment = k => allocations'[j] = allocations[j]
Local(r) ==
    /\ \A a \in Invoices : InvoiceRow(a) \notin Claims(r) => InvoiceLeft(a)
    /\ \A a \in Invoices : AssignmentRow(a) \notin Claims(r) /\ invoices[a].status = "NONE" => invoices'[a] = invoices[a]
    /\ \A k \in Keys : PaymentRow(k) \notin Claims(r) => PaymentLeft(k)
    /\ \A k \in Keys : KeyEntry(k) \notin Claims(r) /\ payments[k].status = "NONE" => payments'[k] = payments[k]

\* A call changes only what it claims, and undoes nothing.
LEMMA CallIsLocal ==
    ASSUME NEW r, RequestShape(r), Typed, Linked, CallOf(r)
    PROVE  Kept /\ Local(r)
  <1>0. \A j \in Rows : allocations[j].reversed \in Nat /\ allocations[j].amount \in Nat
    BY DEF Typed, AllocationRecords
  <1>1. allocations' = allocations =>
            /\ \A j \in Rows : allocations'[j] = allocations[j] /\ allocations'[j].reversed >= allocations[j].reversed
    BY <1>0
  <1>2. CASE r.op = "generate_invoice"
    <2>1. /\ invoices[r.invoice].status = "NONE" /\ invoices'[r.invoice].status = "DRAFT"
          /\ \A a \in Invoices : a # r.invoice => invoices'[a] = invoices[a]
          /\ UNCHANGED <<credited, payments, allocations>>
      BY <1>2 DEF RequestShape, CallOf, Ledger!GenerateInvoice, Ledger!NoInvoice, Typed
    <2> QED
      BY <1>1, <1>2, <2>1, ClaimsOfCalls DEF Kept, Local, InvoiceLeft, PaymentLeft, AssignmentRow
  <1>3. CASE r.op = "issue_invoice"
    <2>1. /\ invoices[r.invoice].status = "DRAFT" /\ invoices'[r.invoice].status = "ISSUED"
          /\ \A a \in Invoices : a # r.invoice => invoices'[a] = invoices[a]
          /\ UNCHANGED <<credited, payments, allocations>>
      BY <1>3 DEF RequestShape, CallOf, Ledger!IssueInvoice, Typed, InvoiceRecords
    <2> QED
      BY <1>1, <1>3, <2>1, ClaimsOfCalls DEF Kept, Local, InvoiceLeft, PaymentLeft, InvoiceRow
  <1>4. CASE r.op = "issue_credit_note" /\ r.invoice # 0
    <2>1. /\ \A a \in Invoices : a # r.invoice => credited'[a] = credited[a]
          /\ UNCHANGED <<invoices, payments, allocations>>
      BY <1>4 DEF RequestShape, CallOf, Ledger!IssueCreditNote, Typed
    <2> QED
      BY <1>1, <1>4, <2>1, ClaimsOfCalls DEF Kept, Local, InvoiceLeft, PaymentLeft, InvoiceRow
  <1>5. CASE r.op = "issue_credit_note" /\ r.invoice = 0
    <2>1. UNCHANGED <<invoices, credited, payments, allocations>>
      BY <1>5 DEF CallOf, Ledger!IssueOpenCredit
    <2> QED
      BY <1>1, <2>1 DEF Kept, Local, InvoiceLeft, PaymentLeft
  <1>6. CASE r.op \in {"record_payment", "match_payment"} /\ r.invoice = 0
    <2>1. /\ payments[r.key].status = "NONE" /\ payments'[r.key].status = "RECEIVED"
          /\ \A k \in Keys : k # r.key => payments'[k] = payments[k]
          /\ UNCHANGED <<invoices, credited, allocations>>
      BY <1>6 DEF RequestShape, CallOf, Ledger!RecordPayment, Ledger!NoPayment, Typed
    <2> QED
      BY <1>1, <1>6, <2>1, ClaimsOfCalls DEF Kept, Local, InvoiceLeft, PaymentLeft, KeyEntry
  <1>7. CASE r.op = "allocate_payment"
    <2>0. PICK j \in Rows : Ledger!AllocatePayment(j, r.key, r.invoice, r.amount)
      BY <1>7 DEF CallOf
    <2>1. /\ allocations[j] = NoAllocation
          /\ allocations'[j].payment = r.key /\ allocations'[j].invoice = r.invoice
          /\ \A i \in Rows : i # j => allocations'[i] = allocations[i]
          /\ UNCHANGED <<invoices, credited, payments>>
      BY <2>0 DEF Ledger!AllocatePayment, Ledger!IsNextRow, Ledger!NoAllocation, NoAllocation, Typed
    <2>2. \A k \in Keys : k # NoKey
      OBVIOUS
    <2>3. \A i \in Rows : i # j => allocations'[i].reversed >= allocations[i].reversed
      BY <1>0, <2>1
    <2>4. Kept
      BY <2>1 DEF Kept
    <2>5. \A a \in Invoices : a # r.invoice => InvoiceLeft(a)
      BY <2>1, <2>3 DEF InvoiceLeft
    <2>6. \A k \in Keys : k # r.key => PaymentLeft(k)
      BY <2>1, <2>2 DEF PaymentLeft, NoAllocation
    <2> QED
      BY <1>7, <2>1, <2>4, <2>5, <2>6, ClaimsOfCalls DEF Local, PaymentRow, InvoiceRow
  <1>8. CASE r.op = "reverse_allocation"
    <2> DEFINE j == r.row
    <2>1. /\ allocations[j] # NoAllocation
          /\ allocations'[j] = [allocations[j] EXCEPT !.reversed = allocations[j].reversed + r.amount]
          /\ \A i \in Rows : i # j => allocations'[i] = allocations[i]
          /\ UNCHANGED <<invoices, credited, payments>>
      BY <1>8 DEF RequestShape, CallOf, Ledger!ReverseAllocation, Ledger!NoAllocation, NoAllocation, Typed
    <2>2. j \in Rows /\ r.amount \in Nat /\ r.amount > 0
      BY <1>8 DEF RequestShape
    <2>3. /\ allocations'[j].payment = allocations[j].payment /\ allocations'[j].invoice = allocations[j].invoice
          /\ allocations'[j].amount = allocations[j].amount
          /\ allocations'[j].reversed = allocations[j].reversed + r.amount
      BY <2>1, <2>2 DEF Typed, AllocationRecords
    <2> HIDE DEF j
    <2>4. allocations'[j].reversed >= allocations[j].reversed /\ allocations'[j].reversed # 0
      <3>1. allocations[j].reversed \in Nat
        BY <1>0, <2>2
      <3> QED
        BY <2>2, <2>3, <3>1
    <2>5. ASSUME NEW i \in Rows PROVE allocations'[i].reversed >= allocations[i].reversed
      <3>1. CASE i = j
        BY <2>4, <3>1
      <3>2. CASE i # j
        <4>1. allocations'[i].reversed = allocations[i].reversed /\ allocations[i].reversed \in Nat
          BY <1>0, <2>1, <3>2
        <4> QED
          BY <4>1
      <3> QED
        BY <3>1, <3>2
    <2>6. allocations'[j] # NoAllocation
      BY <2>4 DEF NoAllocation
    <2>7. Kept
      BY <2>1, <2>3, <2>6 DEF Kept
    <2>8. \A a \in Invoices : a # allocations[j].invoice => InvoiceLeft(a)
      BY <2>1, <2>3, <2>5 DEF InvoiceLeft
    <2>9. \A k \in Keys : k # allocations[j].payment => PaymentLeft(k)
      BY <2>1, <2>3 DEF PaymentLeft
    <2> QED
      BY <1>8, <2>1, <2>7, <2>8, <2>9, ClaimsOfCalls DEF Local, PaymentRow, InvoiceRow, j
  <1>9. CASE r.op = "reverse_payment"
    <2>1. /\ \A j \in Rows : allocations'[j] = IF allocations[j].payment = r.key
                                              THEN [allocations[j] EXCEPT !.reversed = allocations[j].amount]
                                              ELSE allocations[j]
          /\ r.key \in Keys
          /\ payments' = [payments EXCEPT ![r.key].status = "REVERSED"]
          /\ UNCHANGED <<invoices, credited>>
      BY <1>9 DEF RequestShape, CallOf, Ledger!ReversePayment, Ledger!Rows, Rows
    <2>2. /\ \A k \in Keys : k # r.key => payments'[k] = payments[k]
          /\ payments'[r.key].status = "REVERSED"
      BY <2>1 DEF Typed, PaymentRecords
    <2>3. ASSUME NEW j \in Rows
          PROVE  /\ allocations'[j].payment = allocations[j].payment
                 /\ allocations'[j].invoice = allocations[j].invoice
                 /\ allocations'[j].amount = allocations[j].amount
                 /\ allocations'[j].reversed >= allocations[j].reversed
                 /\ allocations[j].payment # r.key => allocations'[j] = allocations[j]
                 /\ allocations[j] # NoAllocation => allocations'[j] # NoAllocation
      <3>1. allocations[j] \in AllocationRecords
        BY DEF Typed
      <3>2. CASE allocations[j].payment = r.key
        <4>1. allocations[j] # NoAllocation /\ allocations[j].reversed <= allocations[j].amount
          BY <2>1, <3>2 DEF Linked, NoAllocation
        <4>2. allocations'[j] = [allocations[j] EXCEPT !.reversed = allocations[j].amount]
          BY <2>1, <3>2
        <4>3. /\ allocations'[j].payment = allocations[j].payment /\ allocations'[j].invoice = allocations[j].invoice
              /\ allocations'[j].amount = allocations[j].amount /\ allocations'[j].reversed = allocations[j].amount
          BY <3>1, <4>2 DEF AllocationRecords
        <4>4. allocations'[j] # NoAllocation
          BY <2>1, <3>2, <4>3 DEF NoAllocation
        <4>5. allocations'[j].reversed >= allocations[j].reversed
          <5>1. allocations[j].amount \in Nat /\ allocations[j].reversed \in Nat
            BY <1>0
          <5> QED
            BY <4>1, <4>3, <5>1
        <4> QED
          BY <3>2, <4>1, <4>3, <4>4, <4>5
      <3>3. CASE allocations[j].payment # r.key
        <4>1. allocations'[j] = allocations[j]
          BY <2>1, <3>3
        <4>2. allocations'[j].reversed = allocations[j].reversed /\ allocations[j].reversed \in Nat
          BY <1>0, <4>1
        <4> QED
          BY <3>3, <4>1, <4>2
      <3> QED
        BY <3>2, <3>3
    <2>4. Kept
      BY <2>1, <2>2, <2>3 DEF Kept
    <2>5. \A a \in Invoices : InvoiceLeft(a)
      BY <2>1, <2>3 DEF InvoiceLeft
    <2>6. \A k \in Keys : k # r.key => PaymentLeft(k)
      BY <2>2, <2>3 DEF PaymentLeft
    <2>7. \A k \in Keys : payments[k].status = "NONE" => k # r.key
      BY <1>9 DEF CallOf, Ledger!ReversePayment
    <2> QED
      BY <1>9, <2>1, <2>2, <2>4, <2>5, <2>6, <2>7, ClaimsOfCalls DEF Local, PaymentRow
  <1>10. CASE r.op = "match_payment" /\ r.invoice # 0
    <2>0. PICK j \in Rows : Ledger!MatchPayment(j, r.key, r.invoice, r.amount)
      BY <1>10 DEF CallOf
    <2>1. /\ allocations[j] = NoAllocation
          /\ allocations'[j].payment = r.key /\ allocations'[j].invoice = r.invoice
          /\ \A i \in Rows : i # j => allocations'[i] = allocations[i]
          /\ UNCHANGED <<invoices, credited>>
          /\ payments[r.key].status = "NONE" /\ payments'[r.key].status = "RECEIVED"
          /\ \A k \in Keys : k # r.key => payments'[k] = payments[k]
      BY <1>10, <2>0 DEF RequestShape, Ledger!MatchPayment, Ledger!IsNextRow, Ledger!NoAllocation, Ledger!NoPayment,
         NoAllocation, Typed
    <2>2. \A k \in Keys : k # NoKey
      OBVIOUS
    <2>3. \A i \in Rows : i # j => allocations'[i].reversed >= allocations[i].reversed
      BY <1>0, <2>1
    <2>4. Kept
      BY <2>1 DEF Kept
    <2>5. \A a \in Invoices : a # r.invoice => InvoiceLeft(a)
      BY <2>1, <2>3 DEF InvoiceLeft
    <2>6. \A k \in Keys : k # r.key => PaymentLeft(k)
      BY <2>1, <2>2 DEF PaymentLeft, NoAllocation
    <2> QED
      BY <1>10, <2>1, <2>4, <2>5, <2>6, ClaimsOfCalls DEF Local, PaymentRow, InvoiceRow, KeyEntry
  <1> QED
    BY <1>2, <1>3, <1>4, <1>5, <1>6, <1>7, <1>8, <1>9, <1>10 DEF RequestShape

-----------------------------------------------------------------------------
(* What a call leaves of another transaction's checks.                     *)

Cash(al, j) == al[j].amount - al[j].reversed
OfPayment(al, k) == [j \in Rows |-> IF al[j].payment = k THEN Cash(al, j) ELSE 0]
OfInvoice(al, a) == [j \in Rows |-> IF al[j].invoice = a THEN Cash(al, j) ELSE 0]
OwnSums ==
    /\ \A j : Ledger!Net(j) = Cash(allocations, j)
    /\ \A k : Ledger!Held(k) = Total(OfPayment(allocations, k), MaxAllocations)
    /\ \A a : Ledger!Settled(a) = Total(OfInvoice(allocations, a), MaxAllocations)

\* FeeLedger's sums over the allocation table, in this module's own words.
LEMMA SumsInOwnWords == OwnSums
  BY DEF OwnSums, Ledger!Net, Ledger!Held, Ledger!Settled, Ledger!Total, Ledger!Rows, Cash, OfPayment, OfInvoice,
         Total, Rows

\* The same after a step.
LEMMA SumsInOwnWordsNext == OwnSums'
  BY SumsInOwnWords, PTL

\* Rows a call does not claim keep what is left of a payment, and free cash of an
\* invoice at most.
LEMMA SumsLeft ==
    ASSUME Typed, Linked, Typed', Linked'
    PROVE  /\ \A k \in Keys : PaymentLeft(k) =>
                  /\ Ledger!Held(k)' = Ledger!Held(k)
                  /\ \A j \in Rows : allocations[j].payment = k => Ledger!Net(j)' = Ledger!Net(j)
           /\ \A a \in Invoices : InvoiceLeft(a) => Ledger!Settled(a)' <= Ledger!Settled(a)
  <1>1. ASSUME NEW k \in Keys, PaymentLeft(k)
        PROVE  /\ Ledger!Held(k)' = Ledger!Held(k)
               /\ \A j \in Rows : allocations[j].payment = k => Ledger!Net(j)' = Ledger!Net(j)
    <2>1. \A j \in Rows : allocations[j].payment = k => Cash(allocations', j) = Cash(allocations, j)
      BY <1>1 DEF PaymentLeft, Cash
    <2>2. OfPayment(allocations', k) = OfPayment(allocations, k)
      BY <1>1 DEF OfPayment, PaymentLeft, Cash
    <2> QED
      BY <2>1, <2>2, SumsInOwnWords, SumsInOwnWordsNext DEF OwnSums
  <1>2. ASSUME NEW a \in Invoices, InvoiceLeft(a)
        PROVE  Ledger!Settled(a)' <= Ledger!Settled(a)
    <2>1. ASSUME NEW j \in Rows
          PROVE  /\ OfInvoice(allocations, a)[j] \in Int /\ OfInvoice(allocations', a)[j] \in Int
                 /\ OfInvoice(allocations', a)[j] <= OfInvoice(allocations, a)[j]
      <3>1. /\ allocations[j].amount \in Nat /\ allocations[j].reversed \in Nat
            /\ allocations'[j].amount \in Nat /\ allocations'[j].reversed \in Nat
        BY DEF Typed, AllocationRecords
      <3>2. allocations[j].invoice = a => allocations[j].reversed <= allocations[j].amount
        BY DEF Linked, NoAllocation, Invoices
      <3>3. /\ OfInvoice(allocations, a)[j] = IF allocations[j].invoice = a THEN allocations[j].amount - allocations[j].reversed ELSE 0
            /\ OfInvoice(allocations', a)[j] = IF allocations'[j].invoice = a THEN allocations'[j].amount - allocations'[j].reversed ELSE 0
        BY DEF OfInvoice, Cash
      <3>4. allocations'[j].invoice = a => /\ allocations[j].invoice = a
                                           /\ allocations'[j].amount = allocations[j].amount
                                           /\ allocations'[j].reversed >= allocations[j].reversed
        BY <1>2 DEF InvoiceLeft
      <3> QED
        BY <3>1, <3>2, <3>3, <3>4
    <2>2. OfInvoice(allocations, a) \in [1..MaxAllocations -> Int] /\ OfInvoice(allocations', a) \in [1..MaxAllocations -> Int]
      BY <2>1 DEF OfInvoice, Rows
    <2>3. \A j \in 1..MaxAllocations : OfInvoice(allocations', a)[j] <= OfInvoice(allocations, a)[j]
      BY <2>1 DEF Rows
    <2>4. Total(OfInvoice(allocations', a), MaxAllocations) <= Total(OfInvoice(allocations, a), MaxAllocations)
      BY <2>2, <2>3, TotalMonotone
    <2> QED
      BY <2>4, SumsInOwnWords, SumsInOwnWordsNext DEF OwnSums
  <1> QED
    BY <1>1, <1>2

\* A request's rows stay named by the same locks, and stay there.
LEMMA ClaimsLast ==
    ASSUME NEW r, RequestShape(r), Loaded(r), Kept
    PROVE  Loaded(r)' /\ FirstLocks(r)' = FirstLocks(r)
  <1>1. Loaded(r)'
    BY DEF Loaded, Kept, RequestShape, Ledger!NoAllocation, NoAllocation
  <1>2. FirstLocks(r)' = FirstLocks(r)
    BY DEF FirstLocks, Loaded, Kept, RequestShape, Ledger!NoAllocation, NoAllocation
  <1> QED
    BY <1>1, <1>2

SettledNat == \A a : Ledger!Settled(a) \in Nat

\* What an invoice is settled with is a natural number, also after a step.
LEMMA SettledNatNext == Ledger!TypeOK' /\ Ledger!RowsWellFormed' => SettledNat'
  <1>1. Ledger!TypeOK /\ Ledger!RowsWellFormed => SettledNat
    BY TableFacts DEF SettledNat
  <1> QED
    BY <1>1, PTL

\* A call that shares no claim with r leaves every check of r as it was.
LEMMA PromiseStands ==
    ASSUME Typed, Linked, Typed', Linked', Kept, NEW r, RequestShape(r), Loaded(r), Accepts(r),
           NEW q, Local(q), Claims(r) \cap Claims(q) = {}
    PROVE  Accepts(r)' /\ Remaining(r)' = Remaining(r)
  <1>1. /\ \A a \in Invoices : InvoiceRow(a) \in Claims(r) => InvoiceLeft(a) /\ Ledger!Settled(a)' <= Ledger!Settled(a)
        /\ \A a \in Invoices : AssignmentRow(a) \in Claims(r) /\ invoices[a].status = "NONE" => invoices'[a] = invoices[a]
        /\ \A k \in Keys : PaymentRow(k) \in Claims(r) =>
               /\ PaymentLeft(k) /\ Ledger!Held(k)' = Ledger!Held(k)
               /\ \A j \in Rows : allocations[j].payment = k => Ledger!Net(j)' = Ledger!Net(j)
        /\ \A k \in Keys : KeyEntry(k) \in Claims(r) /\ payments[k].status = "NONE" => payments'[k] = payments[k]
    BY SumsLeft DEF Local
  <1>2. CASE r.op = "generate_invoice"
    <2>1. r.invoice \in Invoices /\ AssignmentRow(r.invoice) \in Claims(r) /\ invoices[r.invoice].status = "NONE"
      BY <1>2, ClaimsOfCalls DEF RequestShape, Accepts
    <2>2. invoices'[r.invoice].status = "NONE"
      BY <1>1, <2>1
    <2> QED
      BY <1>2, <2>2 DEF Accepts, Remaining
  <1>3. CASE r.op = "issue_invoice"
    <2>1. r.invoice \in Invoices /\ InvoiceRow(r.invoice) \in Claims(r)
      BY <1>3, ClaimsOfCalls DEF RequestShape
    <2>2. invoices[r.invoice].status = "DRAFT" /\ invoices[r.invoice].total > 0
      BY <1>3 DEF Accepts
    <2>3. invoices'[r.invoice] = invoices[r.invoice]
      BY <1>1, <2>1, <2>2 DEF InvoiceLeft
    <2> QED
      BY <1>3, <2>2, <2>3 DEF Accepts, Remaining
  <1>4. CASE r.op = "issue_credit_note" /\ r.invoice # 0
    <2>1. r.invoice \in Invoices /\ InvoiceRow(r.invoice) \in Claims(r)
      BY <1>4, ClaimsOfCalls DEF RequestShape
    <2>2. invoices[r.invoice].status # "NONE" /\ r.amount <= invoices[r.invoice].total - credited[r.invoice]
      BY <1>4 DEF Accepts, Loaded
    <2>3. invoices'[r.invoice] = invoices[r.invoice] /\ credited'[r.invoice] = credited[r.invoice]
      BY <1>1, <2>1, <2>2 DEF InvoiceLeft
    <2> QED
      BY <1>4, <2>2, <2>3 DEF Accepts, Remaining
  <1>5. CASE r.op = "issue_credit_note" /\ r.invoice = 0
    BY <1>5 DEF Accepts, Remaining
  <1>6. CASE r.op \in {"record_payment", "match_payment"} /\ r.invoice = 0
    <2>1. r.key \in Keys /\ KeyEntry(r.key) \in Claims(r) /\ payments[r.key].status = "NONE"
      BY <1>6, ClaimsOfCalls DEF RequestShape, Accepts
    <2>2. payments'[r.key].status = "NONE"
      BY <1>1, <2>1
    <2> QED
      BY <1>6, <2>2 DEF Accepts, Remaining
  <1>7. CASE r.op = "allocate_payment"
    <2>1. /\ r.key \in Keys /\ PaymentRow(r.key) \in Claims(r)
          /\ r.invoice \in Invoices /\ InvoiceRow(r.invoice) \in Claims(r)
          /\ r.amount \in Nat
      BY <1>7, ClaimsOfCalls DEF RequestShape
    <2>2. /\ payments[r.key].student = StudentOf[r.invoice]
          /\ invoices[r.invoice].status = "ISSUED"
          /\ payments[r.key].status \notin {"NONE", "REVERSED"}
          /\ r.amount <= Ledger!Available(r.key)
          /\ r.amount <= Ledger!Outstanding(r.invoice)
      BY <1>7 DEF Accepts, Loaded
    <2>3. payments'[r.key] = payments[r.key] /\ Ledger!Held(r.key)' = Ledger!Held(r.key)
      BY <1>1, <2>1, <2>2 DEF PaymentLeft
    <2>4. invoices'[r.invoice] = invoices[r.invoice] /\ credited'[r.invoice] = credited[r.invoice]
      BY <1>1, <2>1, <2>2 DEF InvoiceLeft
    <2>5. Ledger!Available(r.key)' = Ledger!Available(r.key)
      BY <2>3 DEF Ledger!Available
    <2>6. /\ Ledger!Outstanding(r.invoice) = invoices[r.invoice].total - credited[r.invoice] - Ledger!Settled(r.invoice)
          /\ Ledger!Outstanding(r.invoice)'
             = invoices'[r.invoice].total - credited'[r.invoice] - Ledger!Settled(r.invoice)'
      BY DEF Ledger!Outstanding
    <2>7. Ledger!Settled(r.invoice)' <= Ledger!Settled(r.invoice)
      BY <1>1, <2>1
    <2>8. /\ Ledger!Settled(r.invoice) \in Nat /\ Ledger!Settled(r.invoice)' \in Nat
          /\ invoices[r.invoice].total \in Nat /\ credited[r.invoice] \in Nat
      <3>1. Ledger!Settled(r.invoice) \in Nat
        BY TableFacts, OwnWords
      <3>2. Ledger!Settled(r.invoice)' \in Nat
        BY OwnWordsNext, SettledNatNext DEF SettledNat
      <3> QED
        BY <2>1, <3>1, <3>2 DEF Typed, InvoiceRecords
    <2>9. r.amount <= Ledger!Outstanding(r.invoice)'
      BY <2>1, <2>2, <2>4, <2>6, <2>7, <2>8
    <2> QED
      BY <1>7, <2>2, <2>3, <2>4, <2>5, <2>9 DEF Accepts, Remaining
  <1>8. CASE r.op = "reverse_allocation"
    <2>1. /\ r.row \in Rows /\ allocations[r.row] # NoAllocation
          /\ PaymentRow(allocations[r.row].payment) \in Claims(r)
      BY <1>8, ClaimsOfCalls DEF RequestShape, Loaded, Ledger!NoAllocation, NoAllocation
    <2>2. allocations[r.row].payment \in Keys
      BY <2>1 DEF Linked
    <2>3. Ledger!Net(r.row)' = Ledger!Net(r.row)
      BY <1>1, <2>1, <2>2
    <2> QED
      BY <1>8, <2>3 DEF Accepts, Remaining
  <1>9. CASE r.op = "reverse_payment"
    <2>1. r.key \in Keys /\ PaymentRow(r.key) \in Claims(r) /\ payments[r.key].status \notin {"NONE", "REVERSED"}
      BY <1>9, ClaimsOfCalls DEF RequestShape, Loaded, Accepts
    <2>2. payments'[r.key] = payments[r.key]
      BY <1>1, <2>1 DEF PaymentLeft
    <2>3. ASSUME NEW j \in Rows
          PROVE  /\ allocations'[j].payment = r.key <=> allocations[j].payment = r.key
                 /\ allocations[j].payment = r.key => Ledger!Net(j)' = Ledger!Net(j)
      BY <1>1, <2>1 DEF PaymentLeft
    <2>4. Remaining(r)' = Remaining(r)
      BY <2>3 DEF Remaining
    <2> QED
      BY <1>9, <2>1, <2>2, <2>4 DEF Accepts
  <1>10. CASE r.op = "match_payment" /\ r.invoice # 0
    <2>1. /\ r.key \in Keys /\ KeyEntry(r.key) \in Claims(r)
          /\ r.invoice \in Invoices /\ InvoiceRow(r.invoice) \in Claims(r)
          /\ r.amount \in Nat
      BY <1>10, ClaimsOfCalls DEF RequestShape
    <2>2. /\ payments[r.key].status = "NONE"
          /\ StudentOf[r.invoice] = r.student
          /\ invoices[r.invoice].status = "ISSUED"
          /\ r.amount <= Ledger!Outstanding(r.invoice)
      BY <1>10 DEF Accepts, MaySettle
    <2>3. payments'[r.key] = payments[r.key]
      BY <1>1, <2>1, <2>2
    <2>4. invoices'[r.invoice] = invoices[r.invoice] /\ credited'[r.invoice] = credited[r.invoice]
      BY <1>1, <2>1, <2>2 DEF InvoiceLeft
    <2>5. /\ Ledger!Outstanding(r.invoice) = invoices[r.invoice].total - credited[r.invoice] - Ledger!Settled(r.invoice)
          /\ Ledger!Outstanding(r.invoice)'
             = invoices'[r.invoice].total - credited'[r.invoice] - Ledger!Settled(r.invoice)'
      BY DEF Ledger!Outstanding
    <2>6. Ledger!Settled(r.invoice)' <= Ledger!Settled(r.invoice)
      BY <1>1, <2>1
    <2>7. /\ Ledger!Settled(r.invoice) \in Nat /\ Ledger!Settled(r.invoice)' \in Nat
          /\ invoices[r.invoice].total \in Nat /\ credited[r.invoice] \in Nat
      <3>1. Ledger!Settled(r.invoice) \in Nat
        BY TableFacts, OwnWords
      <3>2. Ledger!Settled(r.invoice)' \in Nat
        BY OwnWordsNext, SettledNatNext DEF SettledNat
      <3> QED
        BY <2>1, <3>1, <3>2 DEF Typed, InvoiceRecords
    <2>8. r.amount <= Ledger!Outstanding(r.invoice)'
      BY <2>1, <2>2, <2>4, <2>5, <2>6, <2>7
    <2> QED
      BY <1>10, <2>2, <2>3, <2>4, <2>8 DEF Accepts, MaySettle, Remaining
  <1> QED
    BY <1>2, <1>3, <1>4, <1>5, <1>6, <1>7, <1>8, <1>9, <1>10 DEF RequestShape

-----------------------------------------------------------------------------
(* The rows transactions lock.                                             *)

\* Rows are told apart by their table and key.
LEMMA RowNames ==
    /\ \A a \in Invoices : InvoiceRow(a) \in LockRows /\ AssignmentRow(a) \in LockRows
    /\ \A k \in Keys : PaymentRow(k) \in LockRows /\ KeyEntry(k) \in LockRows
    /\ \A j \in Rows : AllocationRow(j) \in LockRows
    /\ \A d \in DocumentTypes : SeriesRow(d) \in LockRows
    /\ \A k \in Keys : IncomingRow(k) \in LockRows
    /\ \A row \in LockRows : Rank(row) \in 0..(NInvoices + 4) /\ (row[1] # "series" => Rank(row) < NInvoices + 4)
    /\ \A row \in LockRows : OpensReceipt(row) => Rank(row) < 2 /\ row[1] # "series"
    /\ \A row \in LockRows : IsAllocation(row) => \E j \in Rows : row = AllocationRow(j)
    /\ \A d : Rank(SeriesRow(d)) = (IF d = "RECEIPT" THEN 2 ELSE NInvoices + 4) /\ SeriesRow(d)[1] = "series"
    /\ \A d, e : SeriesRow(d) = SeriesRow(e) => d = e
    /\ \A a : Rank(InvoiceRow(a)) = 3 + a /\ InvoiceRow(a)[1] = "invoice"
    /\ \A k : Rank(PaymentRow(k)) = 3 /\ PaymentRow(k)[1] = "payment"
    /\ \A j : AllocationRow(j)[1] = "allocation"
    /\ \A k : Rank(KeyEntry(k)) = 1 /\ KeyEntry(k)[1] = "key"
    /\ \A k : Rank(IncomingRow(k)) = 0 /\ IncomingRow(k)[1] = "incoming"
    /\ \A a : AssignmentRow(a)[1] = "assignment"
  BY DEF LockRows, InvoiceRow, PaymentRow, AllocationRow, AssignmentRow, SeriesRow, KeyEntry, IncomingRow,
         Rank, IsAllocation, OpensReceipt, Invoices, DocumentTypes

\* The parts of a concatenation, and of a sequence without its head.
LEMMA ConcatParts ==
    ASSUME NEW T, NEW a \in Seq(T), NEW b \in Seq(T)
    PROVE  /\ a \o b \in Seq(T) /\ DOMAIN (a \o b) = 1..(Len(a) + Len(b))
           /\ \A i \in 1..(Len(a) + Len(b)) : (a \o b)[i] = IF i <= Len(a) THEN a[i] ELSE b[i - Len(a)]
  BY ConcatProperties

\* The parts of a non-empty sequence, as SequenceTheorems gives them.
LEMMA TailParts ==
    ASSUME NEW T, NEW s \in Seq(T), s # <<>>
    PROVE  /\ Tail(s) \in Seq(T) /\ Head(s) \in T /\ Head(s) = s[1] /\ 1 \in DOMAIN s
           /\ DOMAIN s = 1..Len(s) /\ Len(s) \in Nat \ {0} /\ DOMAIN Tail(s) = 1..(Len(s) - 1)
           /\ \A i \in 1..(Len(s) - 1) : Tail(s)[i] = s[i + 1]
  BY HeadTailProperties

\* A call takes the number of at most one kind of document.
LEMMA DocumentTypesOfCalls ==
    ASSUME NEW r, DocumentOf(r) # "none"
    PROVE  DocumentOf(r) \in DocumentTypes
  BY DEF DocumentOf, DocumentTypes

\* What a call locks first: rows that exist, in order, no number series among them.
LEMMA FirstLocksInOrder ==
    ASSUME Linked, NEW r, RequestShape(r), Loaded(r)
    PROVE  /\ FirstLocks(r) \in Seq(LockRows)
           /\ \A i \in DOMAIN FirstLocks(r) : FirstLocks(r)[i][1] # "series"
           /\ \A i \in DOMAIN FirstLocks(r) : DocumentOf(r) = "RECEIPT" => OpensReceipt(FirstLocks(r)[i])
           /\ \A h, i \in DOMAIN FirstLocks(r) : h < i => Precedes(FirstLocks(r)[h], FirstLocks(r)[i])
           /\ \A i \in DOMAIN FirstLocks(r), j \in Rows : FirstLocks(r)[i] = AllocationRow(j) =>
                  /\ allocations[j] # NoAllocation
                  /\ \E h \in DOMAIN FirstLocks(r) : h < i /\ FirstLocks(r)[h] = PaymentRow(allocations[j].payment)
  <1> DEFINE Good(s) ==
                 /\ s \in Seq(LockRows)
                 /\ \A i \in DOMAIN s : s[i][1] # "series"
                 /\ \A h, i \in DOMAIN s : h < i => Precedes(s[h], s[i])
                 /\ \A i \in DOMAIN s, j \in Rows : s[i] = AllocationRow(j) =>
                        /\ allocations[j] # NoAllocation
                        /\ \E h \in DOMAIN s : h < i /\ s[h] = PaymentRow(allocations[j].payment)
  <1>1. Good(<<>>)
    OBVIOUS
  <1>2. ASSUME NEW x \in LockRows, x[1] # "series", \A j : x # AllocationRow(j) PROVE Good(<<x>>)
    BY <1>2
  <1>3. ASSUME NEW k \in Keys, NEW a \in Invoices PROVE Good(<<PaymentRow(k), InvoiceRow(a)>>)
    <2> DEFINE s == <<PaymentRow(k), InvoiceRow(a)>>
    <2>1. s \in Seq(LockRows) /\ DOMAIN s = {1, 2} /\ s[1] = PaymentRow(k) /\ s[2] = InvoiceRow(a)
      BY RowNames
    <2>2. Precedes(s[1], s[2]) /\ s[1][1] # "series" /\ s[2][1] # "series"
      BY <2>1, RowNames DEF Precedes, Invoices
    <2>3. \A j : s[1] # AllocationRow(j) /\ s[2] # AllocationRow(j)
      BY <2>1 DEF AllocationRow, PaymentRow, InvoiceRow
    <2> HIDE DEF s
    <2>4. Good(s)
      BY <2>1, <2>2, <2>3
    <2> QED
      BY <2>4 DEF s
  <1>4. ASSUME NEW j \in Rows, allocations[j] # NoAllocation
        PROVE  Good(<<PaymentRow(allocations[j].payment), InvoiceRow(allocations[j].invoice), AllocationRow(j)>>)
    <2> DEFINE s == <<PaymentRow(allocations[j].payment), InvoiceRow(allocations[j].invoice), AllocationRow(j)>>
    <2>1. allocations[j].payment \in Keys /\ allocations[j].invoice \in Invoices
      BY <1>4 DEF Linked
    <2>2. /\ s \in Seq(LockRows) /\ DOMAIN s = {1, 2, 3} /\ s[1] = PaymentRow(allocations[j].payment)
          /\ s[2] = InvoiceRow(allocations[j].invoice) /\ s[3] = AllocationRow(j)
      BY <2>1, RowNames
    <2>3. /\ Precedes(s[1], s[2]) /\ Precedes(s[1], s[3]) /\ Precedes(s[2], s[3])
          /\ s[1][1] # "series" /\ s[2][1] # "series" /\ s[3][1] # "series"
      BY <2>1, <2>2, RowNames DEF Precedes, Invoices, IsAllocation
    <2>4. \A i : s[1] # AllocationRow(i) /\ s[2] # AllocationRow(i) /\ (s[3] = AllocationRow(i) => i = j)
      BY <2>2 DEF AllocationRow, PaymentRow, InvoiceRow
    <2> HIDE DEF s
    <2>5. Good(s)
      BY <1>4, <2>2, <2>3, <2>4
    <2> QED
      BY <2>5 DEF s
  <1>5. \A a \in Invoices : Good(<<AssignmentRow(a)>>) /\ Good(<<InvoiceRow(a)>>)
    BY <1>2, RowNames DEF AssignmentRow, InvoiceRow, AllocationRow
  <1>6. \A k \in Keys : Good(<<PaymentRow(k)>>) /\ Good(<<KeyEntry(k)>>)
    BY <1>2, RowNames DEF PaymentRow, KeyEntry, AllocationRow
  <1>7. r.op = "reverse_allocation" => r.row \in Rows /\ allocations[r.row] # NoAllocation
    BY DEF RequestShape, Loaded, Ledger!NoAllocation, NoAllocation
  <1>8. ASSUME NEW k \in Keys PROVE Good(<<IncomingRow(k), KeyEntry(k)>>)
    <2> DEFINE s == <<IncomingRow(k), KeyEntry(k)>>
    <2>1. s \in Seq(LockRows) /\ DOMAIN s = {1, 2} /\ s[1] = IncomingRow(k) /\ s[2] = KeyEntry(k)
      BY RowNames
    <2>2. Precedes(s[1], s[2]) /\ s[1][1] # "series" /\ s[2][1] # "series"
      BY <2>1, RowNames DEF Precedes
    <2>3. \A j : s[1] # AllocationRow(j) /\ s[2] # AllocationRow(j)
      BY <2>1 DEF AllocationRow, IncomingRow, KeyEntry
    <2> HIDE DEF s
    <2>4. Good(s)
      BY <2>1, <2>2, <2>3
    <2> QED
      BY <2>4 DEF s
  <1> HIDE DEF Good
  <1>9. Good(FirstLocks(r))
    BY <1>1, <1>3, <1>4, <1>5, <1>6, <1>7, <1>8 DEF RequestShape, FirstLocks
  <1>10. ASSUME NEW i \in DOMAIN FirstLocks(r), DocumentOf(r) = "RECEIPT" PROVE OpensReceipt(FirstLocks(r)[i])
    <2>1. r.op \in {"record_payment", "match_payment"}
      BY <1>10 DEF DocumentOf, RequestShape
    <2>2. CASE r.op = "record_payment"
      <3>1. FirstLocks(r) = <<KeyEntry(r.key)>>
        BY <2>2 DEF FirstLocks
      <3>2. i = 1
        BY <1>10, <3>1
      <3> QED
        BY <3>1, <3>2 DEF OpensReceipt, KeyEntry
    <2>3. CASE r.op = "match_payment"
      <3>1. FirstLocks(r) = <<IncomingRow(r.key), KeyEntry(r.key)>>
        BY <2>3 DEF FirstLocks
      <3>2. i = 1 \/ i = 2
        BY <1>10, <3>1
      <3> QED
        BY <3>1, <3>2 DEF OpensReceipt, KeyEntry, IncomingRow
    <2> QED
      BY <2>1, <2>2, <2>3
  <1> QED
    BY <1>9, <1>10 DEF Good

\* What reverse_payment finds to lock: its payment's allocations, then their invoices
\* in ascending order.
LEMMA FoundInOrder ==
    ASSUME Linked, NEW r, NEW row, NEW found \in LocksFoundAt(r, row), found # <<>>, r.key \in Keys
    PROVE  /\ r.op = "reverse_payment" /\ row = PaymentRow(r.key)
           /\ found \in Seq(LockRows)
           /\ \A i \in DOMAIN found :
                 \/ \E j \in Rows : found[i] = AllocationRow(j) /\ allocations[j] # NoAllocation /\ allocations[j].payment = r.key
                 \/ \E a \in Invoices : found[i] = InvoiceRow(a)
           /\ \A h, i \in DOMAIN found : h < i => Precedes(found[h], found[i])
  <1>1. PICK js \in Listings(r.key) :
            found = [i \in 1..Len(js) |-> AllocationRow(js[i])]
                    \o [i \in 1..Len(js) |-> InvoiceRow(allocations[js[i]].invoice)]
    BY DEF LocksFoundAt
  <1>2. r.op = "reverse_payment" /\ row = PaymentRow(r.key)
    BY DEF LocksFoundAt
  <1> DEFINE S == {j \in Rows : allocations[j].payment = r.key}
  <1>3. js \in Seq(S) /\ \A i, m \in DOMAIN js : i < m => allocations[js[i]].invoice <= allocations[js[m]].invoice
    <2>1. Cardinality(S) \in Nat
      <3>1. IsFiniteSet(Rows)
        BY FS_Interval DEF Rows
      <3>2. IsFiniteSet(S)
        BY <3>1, FS_Subset
      <3> HIDE DEF S
      <3> QED
        BY <3>2, FS_CardinalityType
    <2>2. js \in SetToSeqs(S) /\ \A i, m \in DOMAIN js : i < m => allocations[js[i]].invoice <= allocations[js[m]].invoice
      BY <1>1 DEF Listings
    <2> HIDE DEF S
    <2>3. js \in [1..Cardinality(S) -> S]
      BY <2>2 DEF SetToSeqs
    <2> QED
      BY <2>1, <2>2, <2>3
  <1>4. \A j \in S : j \in Rows /\ allocations[j] # NoAllocation /\ allocations[j].payment = r.key /\ allocations[j].invoice \in Invoices
    BY DEF Linked, NoAllocation
  <1> HIDE DEF S
  <1>5. PICK n \in Nat : n = Len(js) /\ \A i \in 1..n : js[i] \in S
    BY <1>3
  <1>6. \A i \in 1..n : AllocationRow(js[i]) \in LockRows /\ InvoiceRow(allocations[js[i]].invoice) \in LockRows
    BY <1>4, <1>5, RowNames
  <1>7. \E A \in Seq(LockRows), B \in Seq(LockRows) :
            /\ found = A \o B /\ Len(A) = n /\ Len(B) = n
            /\ \A i \in 1..n : A[i] = AllocationRow(js[i]) /\ B[i] = InvoiceRow(allocations[js[i]].invoice)
    <2>1. [i \in 1..n |-> AllocationRow(js[i])] \in Seq(LockRows)
      BY <1>6
    <2>2. [i \in 1..n |-> InvoiceRow(allocations[js[i]].invoice)] \in Seq(LockRows)
      BY <1>6
    <2>3. \A f : f = [i \in 1..n |-> AllocationRow(js[i])] =>
              Len(f) = n /\ \A i \in 1..n : f[i] = AllocationRow(js[i])
      BY <1>5
    <2>4. \A g : g = [i \in 1..n |-> InvoiceRow(allocations[js[i]].invoice)] =>
              Len(g) = n /\ \A i \in 1..n : g[i] = InvoiceRow(allocations[js[i]].invoice)
      BY <1>5
    <2>5. \E A \in Seq(LockRows) : A = [i \in 1..n |-> AllocationRow(js[i])]
      BY <2>1
    <2>6. \E B \in Seq(LockRows) : B = [i \in 1..n |-> InvoiceRow(allocations[js[i]].invoice)]
      BY <2>2
    <2>7. PICK A \in Seq(LockRows) : A = [i \in 1..n |-> AllocationRow(js[i])]
      BY <2>5
    <2>8. PICK B \in Seq(LockRows) : B = [i \in 1..n |-> InvoiceRow(allocations[js[i]].invoice)]
      BY <2>6
    <2>9. found = A \o B
      BY <1>1, <1>5, <2>7, <2>8
    <2>10. Len(A) = n /\ Len(B) = n /\ \A i \in 1..n : A[i] = AllocationRow(js[i]) /\ B[i] = InvoiceRow(allocations[js[i]].invoice)
      BY <2>3, <2>4, <2>7, <2>8
    <2> QED
      BY <2>9, <2>10
  <1>8. /\ found \in Seq(LockRows) /\ DOMAIN found = 1..(n + n)
        /\ \A i \in 1..(n + n) : found[i] = IF i <= n THEN AllocationRow(js[i]) ELSE InvoiceRow(allocations[js[i - n]].invoice)
    <2>1. PICK A \in Seq(LockRows), B \in Seq(LockRows) :
              /\ found = A \o B /\ Len(A) = n /\ Len(B) = n
              /\ \A i \in 1..n : A[i] = AllocationRow(js[i]) /\ B[i] = InvoiceRow(allocations[js[i]].invoice)
      BY <1>7
    <2>2. /\ found \in Seq(LockRows) /\ DOMAIN found = 1..(n + n)
          /\ \A i \in 1..(n + n) : found[i] = IF i <= n THEN A[i] ELSE B[i - n]
      <3>1. /\ A \o B \in Seq(LockRows) /\ DOMAIN (A \o B) = 1..(Len(A) + Len(B))
            /\ \A i \in 1..(Len(A) + Len(B)) : (A \o B)[i] = IF i <= Len(A) THEN A[i] ELSE B[i - Len(A)]
        BY ConcatParts
      <3>2. found = A \o B /\ Len(A) = n /\ Len(B) = n
        BY <2>1
      <3> QED
        BY <3>1, <3>2, Zenon
    <2>3. ASSUME NEW i \in 1..(n + n), ~(i <= n)
          PROVE  found[i] = InvoiceRow(allocations[js[i - n]].invoice)
      <3>1. i - n \in 1..n
        BY <2>3
      <3> QED
        BY <2>1, <2>2, <2>3, <3>1
    <2>4. ASSUME NEW i \in 1..(n + n), i <= n PROVE found[i] = AllocationRow(js[i])
      <3>1. i \in 1..n
        BY <2>4
      <3> QED
        BY <2>1, <2>2, <2>4, <3>1
    <2> QED
      BY <2>2, <2>3, <2>4
  <1>9. ASSUME NEW i \in DOMAIN found
        PROVE  \/ \E j \in Rows : found[i] = AllocationRow(j) /\ allocations[j] # NoAllocation /\ allocations[j].payment = r.key
               \/ \E a \in Invoices : found[i] = InvoiceRow(a)
    <2>1. CASE i <= n
      <3>1. js[i] \in S /\ found[i] = AllocationRow(js[i])
        BY <1>5, <1>8, <2>1
      <3> QED
        BY <1>4, <3>1
    <2>2. CASE ~(i <= n)
      <3>1. i - n \in 1..n
        BY <1>5, <1>8, <2>2
      <3>2. js[i - n] \in S /\ found[i] = InvoiceRow(allocations[js[i - n]].invoice)
        BY <1>5, <1>8, <2>2, <3>1
      <3> QED
        BY <1>4, <3>2
    <2> QED
      BY <2>1, <2>2
  <1>10. ASSUME NEW h \in DOMAIN found, NEW i \in DOMAIN found, h < i
         PROVE  Precedes(found[h], found[i])
    <2>1. CASE h <= n
      <3>1. found[h] = AllocationRow(js[h])
        BY <1>8, <2>1
      <3> QED
        BY <3>1, RowNames DEF Precedes, IsAllocation
    <2>2. CASE ~(h <= n)
      <3>1. h - n \in 1..n /\ i - n \in 1..n /\ h - n < i - n /\ ~(i <= n)
        BY <1>5, <1>8, <1>10, <2>2
      <3>2. /\ found[h] = InvoiceRow(allocations[js[h - n]].invoice)
            /\ found[i] = InvoiceRow(allocations[js[i - n]].invoice)
        BY <1>8, <2>2, <3>1
      <3>3. allocations[js[h - n]].invoice <= allocations[js[i - n]].invoice
        BY <1>3, <1>5, <3>1
      <3>4. allocations[js[h - n]].invoice \in Nat /\ allocations[js[i - n]].invoice \in Nat
        BY <1>4, <1>5, <3>1 DEF Invoices
      <3> QED
        BY <3>2, <3>3, <3>4, RowNames DEF Precedes
    <2> QED
      BY <2>1, <2>2
  <1> QED
    BY <1>2, <1>8, <1>9, <1>10

-----------------------------------------------------------------------------
(* Transactions keep their invariant, step by step.                        *)

\* An idle worker owes nothing.
LEMMA IdleTxn ==
    ASSUME NEW w \in Workers, txns'[w] = Idle
    PROVE  TxnInv(txns[w])'
  <1>1. /\ Idle.request = NoRequest /\ Idle.phase = "idle" /\ Idle.todo = <<>> /\ Idle.held = {}
        /\ Idle.remaining = Nothing /\ Idle.number = 0 /\ NoRequest.op = "none"
    BY DEF Idle, NoRequest, Request
  <1>2. Idle \in TxnRecords
    BY DEF Idle, TxnRecords, Nothing
  <1>3. PhaseShape(txns[w])'
    BY <1>1 DEF PhaseShape
  <1>4. Ordered(txns[w])' /\ BehindPayment(txns[w])' /\ Secured(txns[w])' /\ Promised(txns[w])'
    BY <1>1 DEF Ordered, BehindPayment, Secured, Promised
  <1> QED
    BY <1>2, <1>3, <1>4 DEF TxnInv

\* A transaction another one's step leaves alone, with the rows it read.
LEMMA FrameTxn ==
    ASSUME NEW w \in Workers, TxnInv(txns[w]), txns'[w] = txns[w], UNCHANGED <<ledgerRows, nextValue>>
    PROVE  TxnInv(txns[w])'
  <1>1. PhaseShape(txns[w])' /\ Ordered(txns[w])' /\ BehindPayment(txns[w])' /\ txns'[w] \in TxnRecords
    BY DEF TxnInv, PhaseShape, WaitsIn, Ordered, BehindPayment, ledgerRows
  <1>2. Loaded(txns[w].request)' <=> Loaded(txns[w].request)
    BY DEF Loaded, ledgerRows, Ledger!NoAllocation
  <1>3. Claims(txns[w].request)' = Claims(txns[w].request)
    BY DEF Claims, FirstLocks, ledgerRows
  <1>4. Secured(txns[w])'
    BY <1>2, <1>3 DEF TxnInv, Secured, WaitsIn
  <1>5. /\ \A j : Ledger!Net(j)' = Ledger!Net(j)
        /\ \A k : Ledger!Held(k)' = Ledger!Held(k)
        /\ \A a : Ledger!Settled(a)' = Ledger!Settled(a)
    BY SMTT(30), SumsInOwnWords, SumsInOwnWordsNext DEF OwnSums, ledgerRows
  <1>6. Promised(txns[w])'
    BY <1>5 DEF TxnInv, Promised, Accepts, MaySettle, Remaining, ledgerRows, Ledger!Available, Ledger!Outstanding
  <1> QED
    BY <1>1, <1>4, <1>6 DEF TxnInv

\* A step that leaves the ledger's rows alone leaves what a request claims.
LEMMA ClaimsStay ==
    ASSUME NEW r, Loaded(r), UNCHANGED ledgerRows
    PROVE  Loaded(r)' /\ Claims(r)' = Claims(r)
  <1>1. Loaded(r)'
    BY DEF Loaded, ledgerRows, Ledger!NoAllocation
  <1>2. FirstLocks(r)' = FirstLocks(r)
    BY DEF FirstLocks, ledgerRows
  <1>3. Chosen(r)' = Chosen(r)
    BY DEF Chosen
  <1> QED
    BY <1>1, <1>2, <1>3 DEF Claims

\* Begin: the call asks for its first locks.
LEMMA BeginTxn ==
    ASSUME Linked, txns \in [Workers -> TxnRecords], NEW w \in Workers, NEW r \in Requests, Begin(w, r)
    PROVE  TxnInv(txns[w])'
  <1>1. RequestShape(r) /\ r \in Calls
    BY RequestShapes DEF Calls
  <1>2. Loaded(r) /\ UNCHANGED ledgerRows
    BY DEF Begin
  <1>3. /\ txns'[w] \in TxnRecords
        /\ txns'[w].request = r /\ txns'[w].phase = "locking" /\ txns'[w].todo = FirstLocks(r) /\ txns'[w].held = {}
    <2>1. txns'[w] = [Idle EXCEPT !.request = r, !.phase = "locking", !.todo = FirstLocks(r)]
      BY DEF Begin
    <2>2. FirstLocks(r) \in Seq(LockRows)
      BY <1>1, <1>2, FirstLocksInOrder
    <2>3. Idle \in TxnRecords /\ Idle.held = {}
      BY DEF Idle, TxnRecords, Nothing
    <2> QED
      BY <1>1, <2>1, <2>2, <2>3 DEF TxnRecords
  <1>4. PhaseShape(txns[w])'
    <2>1. r.op = "reverse_payment" => FirstLocks(r) = <<PaymentRow(r.key)>>
      BY DEF FirstLocks
    <2>2. \A i \in DOMAIN FirstLocks(r) :
              FirstLocks(r)[i][1] # "series" /\ (DocumentOf(r) = "RECEIPT" => OpensReceipt(FirstLocks(r)[i]))
      BY <1>1, <1>2, FirstLocksInOrder
    <2> QED
      BY <1>1, <1>3, <2>1, <2>2 DEF PhaseShape
  <1>5. Ordered(txns[w])'
    BY <1>1, <1>2, <1>3, FirstLocksInOrder DEF Ordered
  <1>6. BehindPayment(txns[w])'
    BY <1>1, <1>2, <1>3, FirstLocksInOrder DEF BehindPayment, ledgerRows
  <1>7. Loaded(r)' /\ Claims(r)' = Claims(r)
    BY <1>1, <1>2, ClaimsStay
  <1>8. Secured(txns[w])'
    <2>1. Chosen(r) = {}
      BY <1>1, MatchesChoose DEF Chosen
    <2>2. \A x \in Claims(r) : \E i \in DOMAIN FirstLocks(r) : FirstLocks(r)[i] = x
      BY <2>1 DEF Claims
    <2> QED
      BY <1>3, <1>7, <2>2 DEF Secured, WaitsIn
  <1>9. Promised(txns[w])'
    BY <1>3 DEF Promised
  <1> QED
    BY <1>3, <1>4, <1>5, <1>6, <1>8, <1>9 DEF TxnInv

\* Lock, when no rows are found behind the row it takes.
LEMMA LockTxnPlain ==
    ASSUME NEW w \in Workers, TxnInv(txns[w]), txns[w].todo # <<>>, UNCHANGED <<ledgerRows, nextValue>>,
           txns'[w] = [txns[w] EXCEPT !.todo = Tail(txns[w].todo), !.held = @ \cup {Head(txns[w].todo)},
                                      !.number = IF txns[w].phase \in {"recording", "writing"}
                                                 THEN nextValue[DocumentOf(txns[w].request)] ELSE txns[w].number],
           nextValue \in [DocumentTypes -> Nat \ {0}]
    PROVE  TxnInv(txns[w])'
  <1>1. PICK t, u : t = txns[w] /\ u = txns'[w]
    OBVIOUS
  <1>2. t \in TxnRecords /\ PhaseShape(t) /\ Ordered(t) /\ BehindPayment(t) /\ Secured(t) /\ Promised(t)
    BY <1>1 DEF TxnInv
  <1>3. PICK n \in Nat : n = IF t.phase \in {"recording", "writing"} THEN nextValue[DocumentOf(t.request)] ELSE t.number
    <2>1. t.phase = "writing" => DocumentOf(t.request) # "none"
      BY <1>1, <1>2 DEF PhaseShape
    <2>2. t.phase = "recording" => DocumentOf(t.request) # "none"
      BY <1>1, <1>2 DEF PhaseShape, DocumentOf
    <2>3. t.phase \in {"recording", "writing"} => nextValue[DocumentOf(t.request)] \in Nat
      BY <2>1, <2>2, DocumentTypesOfCalls
    <2>4. t.number \in Nat
      BY <1>2 DEF TxnRecords
    <2> QED
      BY <2>3, <2>4
  <1>4. /\ t.todo \in Seq(LockRows) /\ t.held \in SUBSET LockRows
        /\ Tail(t.todo) \in Seq(LockRows) /\ Head(t.todo) \in LockRows /\ Head(t.todo) = t.todo[1] /\ 1 \in DOMAIN t.todo
        /\ DOMAIN t.todo = 1..Len(t.todo) /\ Len(t.todo) \in Nat \ {0} /\ DOMAIN Tail(t.todo) = 1..(Len(t.todo) - 1)
        /\ \A i \in 1..(Len(t.todo) - 1) : Tail(t.todo)[i] = t.todo[i + 1]
    BY <1>1, <1>2, TailParts DEF TxnRecords
  <1>5. u = [t EXCEPT !.todo = Tail(t.todo), !.held = t.held \cup {Head(t.todo)}, !.number = n]
    BY <1>1, <1>3
  <1>6. /\ u \in TxnRecords /\ u.request = t.request /\ u.phase = t.phase /\ u.remaining = t.remaining
        /\ u.todo = Tail(t.todo) /\ u.held = t.held \cup {Head(t.todo)} /\ u.number = n
    BY <1>2, <1>4, <1>5 DEF TxnRecords
  <1>7. ASSUME NEW x PROVE WaitsIn(t, x) => x \in u.held \/ WaitsIn(u, x)
    <2>1. ASSUME NEW i \in DOMAIN t.todo, t.todo[i] = x PROVE x \in u.held \/ WaitsIn(u, x)
      <3>1. CASE i = 1
        BY <1>4, <1>6, <2>1, <3>1
      <3>2. CASE i # 1
        <4>1. i - 1 \in DOMAIN Tail(t.todo) /\ Tail(t.todo)[i - 1] = x
          BY SMTT(30), <1>4, <2>1, <3>2
        <4> QED
          BY <1>6, <4>1 DEF WaitsIn
      <3> QED
        BY <3>1, <3>2
    <2> QED
      BY <2>1 DEF WaitsIn
  <1>8. ASSUME NEW i \in DOMAIN u.todo PROVE i + 1 \in DOMAIN t.todo /\ u.todo[i] = t.todo[i + 1]
    BY <1>4, <1>6
  <1>9. t.phase # "idle"
    BY <1>1, <1>2 DEF PhaseShape, Idle
  <1>10. PhaseShape(u)'
    <2> DEFINE d == DocumentOf(t.request)
    <2>0. nextValue' = nextValue /\ (t.phase = "recording" => d # "none")
      BY <1>2 DEF PhaseShape, DocumentOf
    <2>1. ASSUME t.phase \in {"recording", "writing"}
          PROVE  /\ d # "none" /\ t.todo = <<SeriesRow(d)>> /\ u.todo = <<>> /\ SeriesRow(d) \in u.held
                 /\ u.held = t.held \cup {SeriesRow(d)} /\ n = nextValue'[d]
      <3>1. t.todo = <<SeriesRow(d)>> /\ d # "none"
        BY <1>1, <1>2, <2>0, <2>1 DEF PhaseShape
      <3>2. Len(t.todo) = 1 /\ t.todo[1] = SeriesRow(d)
        BY <3>1
      <3>3. DOMAIN Tail(t.todo) = 1..0
        BY <1>4, <3>2
      <3>4. Tail(t.todo) = <<>>
        BY <1>4, <3>3
      <3>5. n = nextValue'[d]
        BY <1>3, <2>0, <2>1
      <3> QED
        BY <1>4, <1>6, <3>1, <3>2, <3>4, <3>5
    <2>2. ASSUME t.phase = "locking"
          PROVE  /\ \A row \in u.held : row[1] # "series" /\ (d = "RECEIPT" => OpensReceipt(row))
                 /\ \A i \in DOMAIN u.todo : u.todo[i][1] # "series" /\ (d = "RECEIPT" => OpensReceipt(u.todo[i]))
      <3>1. \A row \in t.held : row[1] # "series" /\ (d = "RECEIPT" => OpensReceipt(row))
        BY <1>2, <2>2 DEF PhaseShape
      <3>2. \A i \in DOMAIN t.todo : t.todo[i][1] # "series" /\ (d = "RECEIPT" => OpensReceipt(t.todo[i]))
        BY <1>2, <2>2 DEF PhaseShape
      <3> QED
        BY <1>4, <1>6, <1>8, <3>1, <3>2
    <2>3. t.request.op = "reverse_payment" /\ WaitsIn(u, PaymentRow(t.request.key)) =>
              u.todo = <<PaymentRow(t.request.key)>> /\ u.held = {}
      <3>1. ASSUME t.request.op = "reverse_payment", WaitsIn(u, PaymentRow(t.request.key)) PROVE FALSE
        <4>1. PICK i \in DOMAIN u.todo : u.todo[i] = PaymentRow(t.request.key)
          BY <3>1 DEF WaitsIn
        <4>2. WaitsIn(t, PaymentRow(t.request.key))
          BY <1>8, <4>1 DEF WaitsIn
        <4>3. t.todo = <<PaymentRow(t.request.key)>>
          BY <1>2, <3>1, <4>2 DEF PhaseShape
        <4>4. \A x, k : k \in DOMAIN <<x>> => k = 1
          OBVIOUS
        <4>5. i + 1 = 1 /\ i \in DOMAIN u.todo
          BY <1>8, <4>1, <4>3, <4>4
        <4> QED
          BY <1>4, <1>6, <4>5
      <3> QED
        BY <3>1
    <2>4. ASSUME t.phase \in {"recording", "allocating"}
          PROVE  t.request.op = "match_payment" /\ KeyEntry(t.request.key) \in u.held
      BY <1>2, <1>6, <2>4 DEF PhaseShape
    <2>5. ASSUME t.phase = "recording"
          PROVE  t.request.invoice = 0 /\ \A row \in u.held : OpensReceipt(row) \/ row = SeriesRow(d)
      BY <1>2, <2>1, <2>5 DEF PhaseShape
    <2>6. ASSUME t.phase = "allocating"
          PROVE  /\ t.request.invoice \in Invoices
                 /\ \A i \in DOMAIN u.todo : u.todo[i][1] # "series"
                 /\ SeriesRow(d) \in u.held /\ n = nextValue'[d]
      <3>1. /\ t.request.invoice \in Invoices /\ \A i \in DOMAIN t.todo : t.todo[i][1] # "series"
            /\ SeriesRow(d) \in t.held /\ t.number = nextValue[d]
        BY <1>2, <2>6 DEF PhaseShape
      <3>2. n = t.number
        BY <1>3, <2>6
      <3> QED
        BY <1>6, <1>8, <2>0, <3>1, <3>2
    <2>7. t.request \in Calls /\ (t.phase = "locking" => t.request \in Requests)
      BY <1>2, <1>9 DEF PhaseShape
    <2>8. u.phase # "idle" /\ u.request = t.request /\ u.phase = t.phase /\ u.number = n
      BY <1>6, <1>9
    <2> HIDE DEF d
    <2>9. u.phase = "locking" => /\ u.request \in Requests
                                 /\ \A row \in u.held : row[1] # "series" /\ (d = "RECEIPT" => OpensReceipt(row))
                                 /\ \A i \in DOMAIN u.todo :
                                        u.todo[i][1] # "series" /\ (d = "RECEIPT" => OpensReceipt(u.todo[i]))
      BY <2>2, <2>7, <2>8
    <2>10. u.phase \in {"recording", "allocating"} => u.request.op = "match_payment" /\ KeyEntry(u.request.key) \in u.held
      BY <2>4, <2>8
    <2>11. u.phase = "recording" =>
               /\ u.request.invoice = 0
               /\ \A row \in u.held : OpensReceipt(row) \/ row = SeriesRow(d)
               /\ u.todo = <<>> /\ SeriesRow(d) \in u.held /\ u.number = nextValue'[d]
      BY <2>1, <2>5, <2>8
    <2>12. u.phase = "allocating" =>
               /\ u.request.invoice \in Invoices
               /\ \A i \in DOMAIN u.todo : u.todo[i][1] # "series"
               /\ SeriesRow(d) \in u.held /\ u.number = nextValue'[d]
      BY <2>6, <2>8
    <2>13. u.phase = "writing" => u.todo = <<>> /\ d # "none" /\ SeriesRow(d) \in u.held /\ u.number = nextValue'[d]
      BY <2>1, <2>8
    <2>14. u.request.op = "reverse_payment" /\ WaitsIn(u, PaymentRow(u.request.key)) =>
              u.todo = <<PaymentRow(u.request.key)>> /\ u.held = {}
      BY <2>3, <2>8
    <2>15. d = DocumentOf(u.request)
      BY <2>8 DEF d
    <2> QED
      BY <2>7, <2>8, <2>9, <2>10, <2>11, <2>12, <2>13, <2>14, <2>15 DEF PhaseShape, WaitsIn
  <1>11. Ordered(u)
    <2>1. ASSUME NEW x \in u.held, NEW i \in DOMAIN u.todo PROVE Precedes(x, u.todo[i])
      <3>1. CASE x \in t.held
        BY <1>2, <1>8, <3>1 DEF Ordered
      <3>2. CASE x = t.todo[1]
        <4>1. i + 1 \in DOMAIN t.todo /\ 1 < i + 1 /\ u.todo[i] = t.todo[i + 1] /\ 1 \in DOMAIN t.todo
          BY <1>4, <1>6, <1>8
        <4> QED
          BY <1>2, <3>2, <4>1 DEF Ordered
      <3> QED
        BY <1>4, <1>6, <3>1, <3>2
    <2>2. ASSUME NEW h \in DOMAIN u.todo, NEW i \in DOMAIN u.todo, h < i PROVE Precedes(u.todo[h], u.todo[i])
      BY SMTT(30), <1>2, <1>4, <1>6, <1>8, <2>2 DEF Ordered
    <2> QED
      BY <2>1, <2>2 DEF Ordered
  <1>12. BehindPayment(u)'
    <2>1. ASSUME NEW j \in Rows, AllocationRow(j) \in u.held
          PROVE  allocations[j] # NoAllocation /\ PaymentRow(allocations[j].payment) \in u.held
      <3>1. CASE AllocationRow(j) \in t.held
        BY <1>2, <1>6, <3>1 DEF BehindPayment
      <3>2. CASE AllocationRow(j) = t.todo[1]
        <4>1. \A h \in DOMAIN t.todo : ~(h < 1)
          BY <1>4
        <4> QED
          BY <1>2, <1>4, <1>6, <3>2, <4>1 DEF BehindPayment
      <3> QED
        BY <1>4, <1>6, <2>1, <3>1, <3>2
    <2>2. ASSUME NEW j \in Rows, NEW i \in DOMAIN u.todo, u.todo[i] = AllocationRow(j)
          PROVE  /\ allocations[j] # NoAllocation
                 /\ \/ PaymentRow(allocations[j].payment) \in u.held
                    \/ \E h \in DOMAIN u.todo : h < i /\ u.todo[h] = PaymentRow(allocations[j].payment)
      <3>1. i + 1 \in DOMAIN t.todo /\ t.todo[i + 1] = AllocationRow(j)
        BY <1>8, <2>2
      <3>2. /\ allocations[j] # NoAllocation
            /\ \/ PaymentRow(allocations[j].payment) \in t.held
               \/ \E h \in DOMAIN t.todo : h < i + 1 /\ t.todo[h] = PaymentRow(allocations[j].payment)
        BY <1>2, <3>1 DEF BehindPayment
      <3>3. ASSUME NEW h \in DOMAIN t.todo, h < i + 1, t.todo[h] = PaymentRow(allocations[j].payment)
            PROVE  \/ PaymentRow(allocations[j].payment) \in u.held
                   \/ \E m \in DOMAIN u.todo : m < i /\ u.todo[m] = PaymentRow(allocations[j].payment)
        <4>1. CASE h = 1
          BY <1>4, <1>6, <3>3, <4>1
        <4>2. CASE h # 1
          <5>1. h - 1 \in DOMAIN u.todo /\ u.todo[h - 1] = t.todo[h] /\ h - 1 < i
            <6>1. i \in 1..(Len(t.todo) - 1) /\ h \in 1..Len(t.todo)
              BY <1>4, <1>6
            <6>2. h - 1 \in 1..(Len(t.todo) - 1) /\ h - 1 < i
              BY SMTT(30), <1>4, <3>3, <4>2, <6>1
            <6> QED
              BY SMTT(30), <1>4, <1>6, <6>2
          <5> QED
            BY <3>3, <5>1
        <4> QED
          BY <4>1, <4>2
      <3> QED
        BY <1>6, <3>2, <3>3
    <2> QED
      BY <2>1, <2>2 DEF BehindPayment, ledgerRows
  <1>13. Secured(u)'
    <2>1. Loaded(t.request) /\ \A x \in Claims(t.request) : x \in t.held \/ WaitsIn(t, x)
      BY <1>2, <1>9 DEF Secured
    <2>2. Loaded(t.request)' /\ Claims(t.request)' = Claims(t.request)
      BY <2>1, ClaimsStay
    <2>3. \A x \in Claims(t.request) : x \in u.held \/ WaitsIn(u, x)
      BY <1>6, <1>7, <2>1
    <2> QED
      BY <1>6, <2>2, <2>3 DEF Secured, WaitsIn
  <1>14. Promised(u)'
    <2>1. /\ \A j : Ledger!Net(j)' = Ledger!Net(j)
          /\ \A k : Ledger!Held(k)' = Ledger!Held(k)
          /\ \A a : Ledger!Settled(a)' = Ledger!Settled(a)
      BY SumsInOwnWords, SumsInOwnWordsNext DEF OwnSums, ledgerRows
    <2> QED
      BY <1>2, <1>6, <2>1 DEF Promised, Accepts, MaySettle, Remaining, ledgerRows, Ledger!Available, Ledger!Outstanding
  <1>15. TxnInv(u)'
    BY <1>6, <1>10, <1>11, <1>12, <1>13, <1>14 DEF TxnInv, Ordered
  <1>16. PhaseShape(txns[w])' /\ Ordered(txns[w])'
    BY <1>1, <1>15 DEF TxnInv, PhaseShape, WaitsIn, Ordered
  <1>17. BehindPayment(txns[w])' /\ Secured(txns[w])'
    BY <1>1, <1>15 DEF TxnInv, BehindPayment, Secured, WaitsIn
  <1>18. Promised(txns[w])'
    BY <1>1, <1>15 DEF TxnInv, Promised
  <1> QED
    BY <1>1, <1>6, <1>16, <1>17, <1>18 DEF TxnInv

\* Lock, when reverse_payment finds its allocations behind its payment's row.
LEMMA LockTxnFound ==
    ASSUME NEW w \in Workers, Linked, TxnInv(txns[w]), txns[w].todo # <<>>, UNCHANGED <<ledgerRows, nextValue>>,
           NEW found \in LocksFoundAt(txns[w].request, Head(txns[w].todo)), found # <<>>,
           txns'[w] = [txns[w] EXCEPT !.todo = Tail(txns[w].todo) \o found, !.held = @ \cup {Head(txns[w].todo)},
                                      !.number = IF txns[w].phase \in {"recording", "writing"}
                                                 THEN nextValue[DocumentOf(txns[w].request)] ELSE txns[w].number]
    PROVE  TxnInv(txns[w])'
  <1>1. PICK t, u : t = txns[w] /\ u = txns'[w]
    OBVIOUS
  <1>2. t \in TxnRecords /\ PhaseShape(t) /\ Secured(t)
    BY <1>1 DEF TxnInv
  <1>3. /\ t.todo \in Seq(LockRows) /\ t.held \in SUBSET LockRows
        /\ Tail(t.todo) \in Seq(LockRows) /\ Head(t.todo) \in LockRows /\ Head(t.todo) = t.todo[1] /\ 1 \in DOMAIN t.todo
        /\ DOMAIN t.todo = 1..Len(t.todo) /\ Len(t.todo) \in Nat \ {0} /\ DOMAIN Tail(t.todo) = 1..(Len(t.todo) - 1)
    BY <1>1, <1>2, TailParts DEF TxnRecords
  <1>4. t.phase # "idle" /\ RequestShape(t.request)
    BY <1>1, <1>2, RequestShapes DEF PhaseShape, Idle
  <1> DEFINE r == t.request
             first == PaymentRow(r.key)
  <1>5. r.op = "reverse_payment" /\ Head(t.todo) = first
    BY <1>1 DEF LocksFoundAt
  <1>6. r.key \in Keys /\ DocumentOf(r) = "PAYMENT_REVERSAL" /\ Claims(r) = {first}
    BY <1>4, <1>5, ClaimsOfCalls DEF RequestShape, DocumentOf
  <1>7. t.todo = <<first>> /\ t.held = {}
    BY <1>2, <1>3, <1>5 DEF PhaseShape, WaitsIn
  <1>8. t.phase = "locking"
    <2>0. t.phase \notin {"recording", "allocating"}
      BY <1>2, <1>5 DEF PhaseShape
    <2>1. t.phase # "writing"
      <3>1. ASSUME t.phase = "writing" PROVE FALSE
        <4>1. t.todo = <<>> \/ t.todo = <<SeriesRow(DocumentOf(r))>>
          BY <1>2, <3>1 DEF PhaseShape
        <4>2. t.todo[1] = first /\ Len(t.todo) = 1
          BY <1>7
        <4>3. first = SeriesRow(DocumentOf(r))
          BY <4>1, <4>2
        <4> QED
          BY <4>3 DEF PaymentRow, SeriesRow
      <3> QED
        BY <3>1
    <2> QED
      BY <1>2, <1>4, <2>0, <2>1 DEF TxnRecords
  <1>9. /\ found \in Seq(LockRows)
        /\ \A i \in DOMAIN found :
              \/ \E j \in Rows : found[i] = AllocationRow(j) /\ allocations[j] # NoAllocation /\ allocations[j].payment = r.key
              \/ \E a \in Invoices : found[i] = InvoiceRow(a)
        /\ \A h, i \in DOMAIN found : h < i => Precedes(found[h], found[i])
    BY <1>1, <1>6, FoundInOrder
  <1>10. Tail(t.todo) \o found = found
    <2>1. Len(t.todo) = 1
      BY <1>7
    <2>2. Tail(t.todo) = <<>>
      BY <1>3, <2>1
    <2> QED
      BY <1>9, <2>2, ConcatEmptySeq
  <1> HIDE DEF r, first
  <1>11. u = [t EXCEPT !.todo = found, !.held = {first}, !.number = t.number]
    BY <1>1, <1>5, <1>7, <1>8, <1>10
  <1>12. /\ u \in TxnRecords /\ u.request = r /\ u.phase = "locking" /\ u.todo = found /\ u.held = {first}
    <2>1. first \in LockRows
      BY <1>6, RowNames DEF first
    <2> QED
      BY <1>2, <1>8, <1>9, <1>11, <2>1 DEF TxnRecords, r
  <1>13. \A i \in DOMAIN found : found[i] # first /\ found[i][1] # "series" /\ Precedes(first, found[i])
    <2>1. ASSUME NEW j \in Rows
          PROVE  AllocationRow(j) # first /\ AllocationRow(j)[1] # "series" /\ Precedes(first, AllocationRow(j))
      BY DEF first, AllocationRow, PaymentRow, Precedes, IsAllocation
    <2>2. ASSUME NEW a \in Invoices
          PROVE  InvoiceRow(a) # first /\ InvoiceRow(a)[1] # "series" /\ Precedes(first, InvoiceRow(a))
      BY DEF first, InvoiceRow, PaymentRow, Precedes, Rank, Invoices
    <2> QED
      BY <1>9, <2>1, <2>2
  <1>14. PhaseShape(u)'
    <2>1. ~WaitsIn(u, first)
      BY <1>12, <1>13 DEF WaitsIn
    <2>2. first[1] # "series"
      BY DEF first, PaymentRow
    <2>3. r \in Requests /\ r \in Calls /\ DocumentOf(r) # "RECEIPT"
      BY <1>2, <1>4, <1>6, <1>8 DEF PhaseShape, r
    <2> QED
      BY <1>12, <1>13, <2>1, <2>2, <2>3 DEF PhaseShape, WaitsIn, first
  <1>15. Ordered(u)
    BY <1>9, <1>12, <1>13 DEF Ordered
  <1>16. BehindPayment(u)'
    <2>1. ASSUME NEW j \in Rows PROVE AllocationRow(j) \notin u.held
      BY <1>12 DEF first, AllocationRow, PaymentRow
    <2>2. ASSUME NEW j \in Rows, NEW i \in DOMAIN u.todo, u.todo[i] = AllocationRow(j)
          PROVE  allocations[j] # NoAllocation /\ PaymentRow(allocations[j].payment) \in u.held
      <3>1. PICK m \in Rows : found[i] = AllocationRow(m) /\ allocations[m] # NoAllocation /\ allocations[m].payment = r.key
        <4>1. \A a \in Invoices : InvoiceRow(a) # AllocationRow(j)
          BY DEF InvoiceRow, AllocationRow
        <4> QED
          BY <1>9, <1>12, <2>2, <4>1
      <3>2. m = j
        BY <1>12, <2>2, <3>1 DEF AllocationRow
      <3> QED
        BY <1>12, <3>1, <3>2 DEF first
    <2> QED
      BY <2>1, <2>2 DEF BehindPayment, ledgerRows
  <1>17. Secured(u)'
    <2>1. Loaded(r)
      BY <1>2, <1>4 DEF Secured, r
    <2>2. Loaded(r)' /\ Claims(r)' = Claims(r)
      BY <2>1, ClaimsStay
    <2>3. Claims(r) = {first}
      BY <1>6 DEF r
    <2> QED
      BY <1>12, <2>2, <2>3 DEF Secured
  <1>18. Promised(u)'
    BY SMTT(30), <1>12 DEF Promised
  <1>19. PhaseShape(txns[w])' /\ Ordered(txns[w])'
    BY <1>1, <1>14, <1>15 DEF PhaseShape, WaitsIn, Ordered
  <1>20. BehindPayment(txns[w])'
    BY <1>1, <1>16 DEF BehindPayment
  <1>21. Secured(txns[w])' /\ Promised(txns[w])'
    BY <1>1, <1>17, <1>18 DEF Secured, Promised, WaitsIn
  <1> QED
    BY <1>1, <1>12, <1>19, <1>20, <1>21 DEF TxnInv

\* Lock: the transaction takes the row and asks for those it found.
LEMMA LockTxn ==
    ASSUME NEW w \in Workers, Linked, SeriesTyped, txns \in [Workers -> TxnRecords], TxnInv(txns[w]), Lock(w)
    PROVE  TxnInv(txns[w])'
  <1>1. txns[w].todo # <<>> /\ UNCHANGED <<ledgerRows, nextValue>>
    BY DEF Lock
  <1>2. PICK found \in LocksFoundAt(txns[w].request, Head(txns[w].todo)) :
            txns'[w] = [txns[w] EXCEPT !.todo = Tail(txns[w].todo) \o found, !.held = @ \cup {Head(txns[w].todo)},
                                      !.number = IF txns[w].phase \in {"recording", "writing"}
                                                 THEN nextValue[DocumentOf(txns[w].request)] ELSE txns[w].number]
    BY DEF Lock
  <1>3. CASE found = <<>>
    <2>1. Tail(txns[w].todo) \o <<>> = Tail(txns[w].todo)
      BY <1>1, TailParts, ConcatEmptySeq DEF TxnRecords
    <2> QED
      BY <1>1, <1>2, <1>3, <2>1, LockTxnPlain DEF SeriesTyped
  <1>4. CASE found # <<>>
    BY <1>1, <1>2, <1>4, LockTxnFound
  <1> QED
    BY <1>3, <1>4

\* Check: what the transaction checked is promised, and it asks for its number.
LEMMA CheckTxn ==
    ASSUME NEW w \in Workers, Typed, Linked, txns \in [Workers -> TxnRecords], TxnInv(txns[w]), Check(w)
    PROVE  TxnInv(txns[w])'
  <1>1. PICK t, u : t = txns[w] /\ u = txns'[w]
    OBVIOUS
  <1>2. t \in TxnRecords /\ PhaseShape(t) /\ BehindPayment(t) /\ Secured(t)
    BY <1>1 DEF TxnInv
  <1>3. t.phase = "locking" /\ t.todo = <<>> /\ Accepts(t.request) /\ UNCHANGED <<ledgerRows, nextValue>>
    BY <1>1 DEF Check
  <1>4. t.request \in Requests /\ t.request \in Calls /\ RequestShape(t.request)
    BY <1>2, <1>3, RequestShapes DEF PhaseShape
  <1>5. PICK r, d, rem, next : /\ r = t.request /\ d = DocumentOf(r) /\ rem = Remaining(r)
                              /\ next = IF d = "none" THEN <<>> ELSE <<SeriesRow(d)>>
    OBVIOUS
  <1>6. PICK ph : ph = IF r.op = "match_payment" THEN "recording" ELSE "writing"
    OBVIOUS
  <1>7. u = [t EXCEPT !.phase = ph, !.remaining = rem, !.todo = next]
    BY <1>1, <1>5, <1>6 DEF Check
  <1>8. rem \in [Rows -> Nat]
    <2>1. \A j \in Rows : Ledger!Net(j) \in Nat
      BY OwnWords, TableFacts
    <2> QED
      BY <1>5, <2>1 DEF Remaining
  <1>9. /\ d # "none" => SeriesRow(d) \in LockRows /\ next = <<SeriesRow(d)>>
        /\ d = "none" => next = <<>>
        /\ next \in Seq(LockRows)
        /\ \A i \in DOMAIN next : d # "none" /\ next[i] = SeriesRow(d) /\ i = 1
    BY <1>5, DocumentTypesOfCalls, RowNames
  <1>10. /\ u \in TxnRecords /\ u.request = r /\ u.phase = ph /\ u.todo = next /\ u.held = t.held /\ u.remaining = rem
    BY <1>2, <1>5, <1>7, <1>8, <1>9, <1>6 DEF TxnRecords
  <1>11. \A row \in t.held : row[1] # "series" /\ row \in LockRows /\ (d = "RECEIPT" => OpensReceipt(row))
    BY <1>2, <1>3, <1>5 DEF PhaseShape, TxnRecords
  <1>12. Loaded(r) /\ \A x \in Claims(r) : x \in t.held
    BY <1>2, <1>3, <1>5 DEF Secured, WaitsIn
  <1>13. PhaseShape(txns[w])'
    <2>1. \A k : SeriesRow(d) # PaymentRow(k)
      BY DEF SeriesRow, PaymentRow
    <2>2. \A k : ~WaitsIn(u, PaymentRow(k))
      BY <1>9, <1>10, <2>1 DEF WaitsIn
    <2>3. ASSUME ph = "recording"
          PROVE  r.op = "match_payment" /\ r.invoice = 0 /\ KeyEntry(r.key) \in t.held /\ d = "RECEIPT"
      <3>1. r.op = "match_payment" /\ r.invoice = 0
        BY <1>4, <1>5, <1>6, <2>3, MatchesChoose
      <3>2. KeyEntry(r.key) \in Claims(r)
        BY <1>4, <1>5, <3>1, ClaimsOfCalls
      <3> QED
        BY <1>5, <1>12, <3>1, <3>2 DEF DocumentOf
    <2>4. ph \in {"recording", "writing"}
      BY <1>6
    <2>5. ph = "recording" =>
               /\ r.op = "match_payment" /\ KeyEntry(r.key) \in t.held /\ r.invoice = 0
               /\ \A row \in t.held : OpensReceipt(row) \/ row = SeriesRow(d)
               /\ next = <<SeriesRow(d)>> /\ \A row \in t.held : row[1] # "series"
      BY <1>9, <1>11, <2>3
    <2>6. ph = "writing" =>
               \/ next = <<>> /\ d = "none"
               \/ next = <<SeriesRow(d)>> /\ d # "none" /\ \A row \in t.held : row[1] # "series"
      BY <1>9, <1>11
    <2> QED
      BY <1>1, <1>4, <1>5, <1>10, <2>2, <2>4, <2>5, <2>6 DEF PhaseShape, WaitsIn
  <1>14. Ordered(txns[w])'
    <2>1. ASSUME NEW x \in t.held, NEW i \in DOMAIN next PROVE Precedes(x, next[i])
      BY <1>9, <1>11, RowNames DEF Precedes
    <2>2. ASSUME NEW h \in DOMAIN next, NEW i \in DOMAIN next PROVE ~(h < i)
      BY <1>9
    <2> QED
      BY <1>1, <1>10, <2>1, <2>2 DEF Ordered
  <1>15. BehindPayment(txns[w])'
    <2>1. \A j : SeriesRow(d) # AllocationRow(j)
      BY DEF SeriesRow, AllocationRow
    <2> QED
      BY <1>1, <1>2, <1>3, <1>9, <1>10, <2>1 DEF BehindPayment, ledgerRows
  <1>16. Secured(txns[w])'
    <2>1. Loaded(r) /\ \A x \in Claims(r) : x \in t.held
      BY <1>12
    <2>2. Loaded(r)' /\ Claims(r)' = Claims(r)
      BY <1>3, <2>1, ClaimsStay
    <2> QED
      BY <1>1, <1>10, <2>1, <2>2 DEF Secured
  <1>17. Promised(txns[w])'
    <2>1. /\ \A j : Ledger!Net(j)' = Ledger!Net(j)
          /\ \A k : Ledger!Held(k)' = Ledger!Held(k)
          /\ \A a : Ledger!Settled(a)' = Ledger!Settled(a)
      BY <1>3, SumsInOwnWords, SumsInOwnWordsNext DEF OwnSums, ledgerRows
    <2>2. Accepts(r)' /\ Remaining(r)' = rem
      BY <1>3, <1>5, <2>1 DEF Accepts, MaySettle, Remaining, ledgerRows, Ledger!Available, Ledger!Outstanding
    <2>3. ph = "recording" => payments'[r.key].status = "NONE"
      BY <1>3, <1>5, <1>6 DEF Accepts, ledgerRows
    <2>4. ph \in {"recording", "writing"}
      BY <1>6
    <2> QED
      BY <1>1, <1>10, <2>2, <2>3, <2>4 DEF Promised
  <1> QED
    BY <1>1, <1>10, <1>13, <1>14, <1>15, <1>16, <1>17 DEF TxnInv

\* Scan: a match that found the one invoice asks for its payment and the invoice.
LEMMA ScanTxn ==
    ASSUME NEW w \in Workers, Typed, Linked, txns \in [Workers -> TxnRecords], TxnInv(txns[w]), Scan(w)
    PROVE  TxnInv(txns[w])'
  <1>1. PICK t, u : t = txns[w] /\ u = txns'[w]
    OBVIOUS
  <1>2. t \in TxnRecords /\ PhaseShape(t) /\ BehindPayment(t) /\ Secured(t) /\ Promised(t)
    BY <1>1 DEF TxnInv
  <1>3. t.phase = "recording" /\ t.todo = <<>> /\ UNCHANGED <<ledgerRows, nextValue>>
    BY <1>1 DEF Scan
  <1>4. PICK r : r = t.request
    OBVIOUS
  <1>5. /\ r \in Calls /\ r.op = "match_payment" /\ r.invoice = 0 /\ DocumentOf(r) = "RECEIPT"
        /\ KeyEntry(r.key) \in t.held /\ SeriesRow("RECEIPT") \in t.held /\ t.number = nextValue["RECEIPT"]
        /\ \A row \in t.held : OpensReceipt(row) \/ row = SeriesRow("RECEIPT")
    <2>1. r.op = "match_payment" /\ DocumentOf(r) = "RECEIPT"
      BY <1>2, <1>3, <1>4 DEF PhaseShape, DocumentOf
    <2>2. t.todo # <<SeriesRow("RECEIPT")>>
      BY <1>3
    <2> QED
      BY <1>2, <1>3, <1>4, <2>1, <2>2 DEF PhaseShape
  <1>6. RequestShape(r) /\ r.key \in Keys
    BY <1>5, RequestShapes DEF RequestShape
  <1>7. /\ payments[r.key].status = "NONE" /\ t.remaining = Remaining(r)
        /\ \A q : q.op = "match_payment" => Remaining(q)' = Remaining(r)
    BY <1>2, <1>3, <1>4, <1>5 DEF Promised, Remaining
  <1>8. Claims(r) = {IncomingRow(r.key), KeyEntry(r.key)} /\ \A x \in Claims(r) : x \in t.held
    BY <1>2, <1>3, <1>4, <1>5, <1>6, ClaimsOfCalls DEF Secured, WaitsIn
  <1>9. ASSUME NEW a \in Invoices,
               txns'[w] = [t EXCEPT !.phase = "allocating", !.request = [r EXCEPT !.invoice = a],
                                    !.todo = <<PaymentRow(r.key), InvoiceRow(a)>>]
        PROVE  TxnInv(txns[w])'
    <2>1. PICK q, next : q = [r EXCEPT !.invoice = a] /\ next = <<PaymentRow(r.key), InvoiceRow(a)>>
      OBVIOUS
    <2>2. q \in Calls
      BY <1>5, <2>1, MatchesChoose
    <2>3. q.op = "match_payment" /\ q.invoice = a /\ q.key = r.key /\ a # 0
      BY <1>5, <2>1, MatchesChoose DEF Invoices
    <2>4. RequestShape(q) /\ DocumentOf(q) = "RECEIPT"
      BY <2>2, <2>3, RequestShapes DEF DocumentOf
    <2>5. /\ next \in Seq(LockRows) /\ DOMAIN next = {1, 2} /\ next[1] = PaymentRow(r.key) /\ next[2] = InvoiceRow(a)
      BY <1>6, <2>1, RowNames
    <2>6. /\ u \in TxnRecords /\ u.request = q /\ u.phase = "allocating" /\ u.todo = next /\ u.held = t.held
          /\ u.remaining = t.remaining /\ u.number = t.number
      BY <1>1, <1>2, <1>9, <2>1, <2>2, <2>5 DEF TxnRecords
    <2>7. PhaseShape(txns[w])'
      <3>1. \A i \in DOMAIN next : next[i][1] # "series"
        BY <2>5 DEF PaymentRow, InvoiceRow
      <3> QED
        BY <1>1, <1>3, <1>5, <2>2, <2>3, <2>4, <2>6, <3>1 DEF PhaseShape, TxnRecords
    <2>8. Ordered(txns[w])'
      <3>1. ASSUME NEW x \in t.held PROVE x \in LockRows /\ Rank(x) < 3
        <4>1. x \in LockRows
          BY <1>2 DEF TxnRecords
        <4>2. CASE OpensReceipt(x)
          BY <4>1, <4>2, RowNames
        <4>3. CASE x = SeriesRow("RECEIPT")
          <5>1. Rank(x) = 2
            BY <4>3 DEF Rank, SeriesRow
          <5> QED
            BY <4>1, <5>1
        <4> QED
          BY <1>5, <4>2, <4>3
      <3>2. Rank(next[1]) = 3 /\ Rank(next[2]) = 3 + a /\ a \in Nat /\ a > 0
        BY <2>5, RowNames DEF Invoices
      <3>3. ASSUME NEW x \in t.held, NEW i \in DOMAIN next PROVE Precedes(x, next[i])
        <4>1. Rank(x) \in Nat /\ Rank(x) < 3 /\ (i = 1 \/ i = 2)
          BY <2>5, <3>1, RowNames
        <4> QED
          BY <3>2, <4>1 DEF Precedes
      <3>4. ASSUME NEW h \in DOMAIN next, NEW i \in DOMAIN next, h < i PROVE Precedes(next[h], next[i])
        <4>1. h = 1 /\ i = 2
          BY <2>5, <3>4
        <4> QED
          BY <3>2, <4>1 DEF Precedes
      <3> QED
        BY <1>1, <2>6, <3>3, <3>4 DEF Ordered
    <2>9. BehindPayment(txns[w])'
      <3>1. \A j : PaymentRow(r.key) # AllocationRow(j) /\ InvoiceRow(a) # AllocationRow(j)
        BY DEF PaymentRow, InvoiceRow, AllocationRow
      <3>2. \A i \in DOMAIN next, j \in Rows : next[i] # AllocationRow(j)
        BY <2>5, <3>1
      <3> QED
        BY <1>1, <1>2, <1>3, <2>6, <3>2 DEF BehindPayment, ledgerRows
    <2>10. Secured(txns[w])'
      <3>1. Loaded(q)'
        BY <2>3 DEF Loaded
      <3>2. Claims(q)' = Claims(q)
        BY <2>3 DEF Claims, Chosen, FirstLocks
      <3>3. Claims(q) = {IncomingRow(r.key), KeyEntry(r.key), PaymentRow(r.key), InvoiceRow(a)}
        BY <2>3, <2>4, ClaimsOfCalls
      <3>4. WaitsIn(u, PaymentRow(r.key)) /\ WaitsIn(u, InvoiceRow(a))
        BY <2>5, <2>6 DEF WaitsIn
      <3>5. \A x \in Claims(q) : x \in u.held \/ WaitsIn(u, x)
        BY <1>8, <2>6, <3>3, <3>4
      <3> QED
        BY <1>1, <2>6, <3>1, <3>2, <3>5 DEF Secured, WaitsIn
    <2>11. Promised(txns[w])'
      BY <1>1, <1>3, <1>7, <2>3, <2>6 DEF Promised, ledgerRows
    <2> QED
      BY <1>1, <2>6, <2>7, <2>8, <2>9, <2>10, <2>11 DEF TxnInv
  <1>10. ASSUME txns'[w] = [t EXCEPT !.phase = "writing"]
         PROVE  TxnInv(txns[w])'
    <2>1. /\ u \in TxnRecords /\ u.request = r /\ u.phase = "writing" /\ u.todo = <<>> /\ u.held = t.held
          /\ u.remaining = t.remaining /\ u.number = t.number
      BY <1>1, <1>2, <1>3, <1>4, <1>10 DEF TxnRecords
    <2>2. PhaseShape(txns[w])'
      BY <1>1, <1>3, <1>5, <2>1 DEF PhaseShape
    <2>3. Ordered(txns[w])'
      BY <1>1, <2>1 DEF Ordered
    <2>4. BehindPayment(txns[w])'
      BY <1>1, <1>2, <1>3, <2>1 DEF BehindPayment, ledgerRows
    <2>5. Secured(txns[w])'
      <3>1. Loaded(r)' /\ Claims(r)' = Claims(r)
        BY <1>5 DEF Loaded, Claims, Chosen, FirstLocks
      <3> QED
        BY <1>1, <1>8, <2>1, <3>1 DEF Secured
    <2>6. Promised(txns[w])'
      <3>1. Accepts(r)'
        BY <1>3, <1>5, <1>7 DEF Accepts, ledgerRows
      <3> QED
        BY <1>1, <1>5, <1>7, <2>1, <3>1 DEF Promised
    <2> QED
      BY <1>1, <2>1, <2>2, <2>3, <2>4, <2>5, <2>6 DEF TxnInv
  <1> QED
    BY <1>1, <1>4, <1>9, <1>10 DEF Scan

\* Settle: the chosen invoice is checked under its lock, or the match gives it back.
LEMMA SettleTxn ==
    ASSUME NEW w \in Workers, Typed, Linked, txns \in [Workers -> TxnRecords], TxnInv(txns[w]), Settle(w)
    PROVE  TxnInv(txns[w])'
  <1>1. PICK t, u : t = txns[w] /\ u = txns'[w]
    OBVIOUS
  <1>2. t \in TxnRecords /\ PhaseShape(t) /\ BehindPayment(t) /\ Secured(t) /\ Promised(t)
    BY <1>1 DEF TxnInv
  <1>3. t.phase = "allocating" /\ t.todo = <<>> /\ UNCHANGED <<ledgerRows, nextValue>>
    BY <1>1 DEF Settle
  <1>4. PICK r : r = t.request
    OBVIOUS
  <1>5. /\ r \in Calls /\ r.op = "match_payment" /\ r.invoice \in Invoices /\ r.invoice # 0 /\ DocumentOf(r) = "RECEIPT"
        /\ KeyEntry(r.key) \in t.held /\ SeriesRow("RECEIPT") \in t.held /\ t.number = nextValue["RECEIPT"]
    <2>1. r.op = "match_payment" /\ DocumentOf(r) = "RECEIPT"
      BY <1>2, <1>3, <1>4 DEF PhaseShape, DocumentOf
    <2> QED
      BY <1>2, <1>3, <1>4, <2>1 DEF PhaseShape, Invoices
  <1>6. RequestShape(r) /\ r.key \in Keys
    BY <1>5, RequestShapes DEF RequestShape
  <1>7. /\ payments[r.key].status = "NONE" /\ t.remaining = Remaining(r)
        /\ \A q : q.op = "match_payment" => Remaining(q)' = Remaining(r)
    BY <1>2, <1>3, <1>4, <1>5 DEF Promised, Remaining
  <1>8. /\ Claims(r) = {IncomingRow(r.key), KeyEntry(r.key), PaymentRow(r.key), InvoiceRow(r.invoice)}
        /\ \A x \in Claims(r) : x \in t.held
    BY <1>2, <1>3, <1>4, <1>5, <1>6, ClaimsOfCalls DEF Secured, WaitsIn
  <1>9. ASSUME MaySettle(r), txns'[w] = [t EXCEPT !.phase = "writing"]
        PROVE  TxnInv(txns[w])'
    <2>1. /\ u \in TxnRecords /\ u.request = r /\ u.phase = "writing" /\ u.todo = <<>> /\ u.held = t.held
          /\ u.remaining = t.remaining /\ u.number = t.number
      BY <1>1, <1>2, <1>3, <1>4, <1>9 DEF TxnRecords
    <2>2. PhaseShape(txns[w])'
      BY <1>1, <1>3, <1>5, <2>1 DEF PhaseShape
    <2>3. Ordered(txns[w])'
      BY <1>1, <2>1 DEF Ordered
    <2>4. BehindPayment(txns[w])'
      BY <1>1, <1>2, <1>3, <2>1 DEF BehindPayment, ledgerRows
    <2>5. Secured(txns[w])'
      <3>1. Loaded(r)' /\ Claims(r)' = Claims(r)
        BY <1>5 DEF Loaded, Claims, Chosen, FirstLocks
      <3> QED
        BY <1>1, <1>8, <2>1, <3>1 DEF Secured
    <2>6. Promised(txns[w])'
      <3>1. \A a : Ledger!Settled(a)' = Ledger!Settled(a)
        BY <1>3, SumsInOwnWords, SumsInOwnWordsNext DEF OwnSums, ledgerRows
      <3>2. MaySettle(r)'
        BY <1>3, <1>9, <3>1 DEF MaySettle, ledgerRows, Ledger!Outstanding
      <3>3. Accepts(r)'
        BY <1>3, <1>5, <1>7, <3>2 DEF Accepts, ledgerRows
      <3> QED
        BY <1>1, <1>5, <1>7, <2>1, <3>3 DEF Promised
    <2> QED
      BY <1>1, <2>1, <2>2, <2>3, <2>4, <2>5, <2>6 DEF TxnInv
  <1>10. ASSUME txns'[w] = [t EXCEPT !.phase = "writing", !.request = [r EXCEPT !.invoice = 0],
                                     !.held = t.held \ {PaymentRow(r.key), InvoiceRow(r.invoice)}]
         PROVE  TxnInv(txns[w])'
    <2>1. PICK q, rest : q = [r EXCEPT !.invoice = 0] /\ rest = t.held \ {PaymentRow(r.key), InvoiceRow(r.invoice)}
      OBVIOUS
    <2>2. q \in Calls
      BY <1>5, <2>1, MatchesChoose
    <2>3. q.op = "match_payment" /\ q.invoice = 0 /\ q.key = r.key
      BY <1>5, <2>1, MatchesChoose
    <2>4. RequestShape(q) /\ DocumentOf(q) = "RECEIPT"
      BY <2>2, <2>3, RequestShapes DEF DocumentOf
    <2>5. /\ u \in TxnRecords /\ u.request = q /\ u.phase = "writing" /\ u.todo = <<>> /\ u.held = rest
          /\ u.remaining = t.remaining /\ u.number = t.number
      <3>1. u = [t EXCEPT !.phase = "writing", !.request = q, !.held = rest]
        BY <1>1, <1>10, <2>1
      <3>2. rest \in SUBSET LockRows
        BY <1>2, <2>1 DEF TxnRecords
      <3> QED
        BY <1>2, <1>3, <2>2, <3>1, <3>2 DEF TxnRecords
    <2>6. \A row \in t.held : row[1] \notin {"payment", "invoice"} => row \in rest
      BY <2>1 DEF PaymentRow, InvoiceRow
    <2>7. IncomingRow(r.key) \in rest /\ KeyEntry(r.key) \in rest /\ SeriesRow("RECEIPT") \in rest
      BY <1>5, <1>8, <2>6 DEF IncomingRow, KeyEntry, SeriesRow
    <2>8. PhaseShape(txns[w])'
      BY <1>1, <1>3, <1>5, <2>2, <2>3, <2>4, <2>5, <2>7 DEF PhaseShape
    <2>9. Ordered(txns[w])'
      BY <1>1, <2>5 DEF Ordered
    \* It gave back no payment that an allocation it holds would belong to: its own has none.
    <2>10. BehindPayment(txns[w])'
      <3>1. ASSUME NEW j \in Rows, AllocationRow(j) \in rest
            PROVE  allocations[j] # NoAllocation /\ PaymentRow(allocations[j].payment) \in rest
        <4>1. allocations[j] # NoAllocation /\ PaymentRow(allocations[j].payment) \in t.held
          BY <1>2, <2>1, <3>1 DEF BehindPayment
        <4>2. payments[allocations[j].payment].status # "NONE"
          BY <4>1 DEF Linked
        <4>3. allocations[j].payment # r.key
          BY <1>7, <4>2
        <4>4. /\ PaymentRow(allocations[j].payment) # PaymentRow(r.key)
              /\ PaymentRow(allocations[j].payment) # InvoiceRow(r.invoice)
          BY <4>3 DEF PaymentRow, InvoiceRow
        <4> QED
          BY <2>1, <4>1, <4>4
      <3> QED
        BY <1>1, <1>3, <2>5, <3>1 DEF BehindPayment, ledgerRows
    <2>11. Secured(txns[w])'
      <3>1. Loaded(q)' /\ Claims(q)' = Claims(q)
        BY <2>3 DEF Loaded, Claims, Chosen, FirstLocks
      <3>2. Claims(q) = {IncomingRow(r.key), KeyEntry(r.key)}
        BY <2>3, <2>4, ClaimsOfCalls
      <3> QED
        BY <1>1, <2>5, <2>7, <3>1, <3>2 DEF Secured
    <2>12. Promised(txns[w])'
      <3>1. Accepts(q)'
        BY <1>3, <1>7, <2>3 DEF Accepts, ledgerRows
      <3> QED
        BY <1>1, <1>7, <2>3, <2>5, <3>1 DEF Promised
    <2> QED
      BY <1>1, <2>5, <2>8, <2>9, <2>10, <2>11, <2>12 DEF TxnInv
  <1> QED
    BY <1>1, <1>4, <1>9, <1>10 DEF Settle

\* A transaction that writes holds every row it claims.
LEMMA WritersHoldClaims ==
    ASSUME Linked, NEW w \in Workers, TxnInv(txns[w]), txns[w].phase = "writing"
    PROVE  /\ RequestShape(txns[w].request) /\ Loaded(txns[w].request)
           /\ \A row \in Claims(txns[w].request) : HoldsRow(w, row) /\ row \in LockRows
  <1>1. PICK t : t = txns[w]
    OBVIOUS
  <1>2. t \in TxnRecords /\ PhaseShape(t) /\ Secured(t) /\ t.phase = "writing"
    BY <1>1 DEF TxnInv
  <1>3. RequestShape(t.request) /\ Loaded(t.request)
    BY <1>2, RequestShapes DEF PhaseShape, Secured
  <1>4. ASSUME NEW row \in Claims(t.request) PROVE row \in t.held
    <2>1. row[1] # "series"
      <3>1. \A i \in DOMAIN FirstLocks(t.request) : FirstLocks(t.request)[i][1] # "series"
        BY <1>3, FirstLocksInOrder
      <3>2. row \in Chosen(t.request) => row[1] # "series"
        BY DEF Chosen, PaymentRow, InvoiceRow
      <3> QED
        BY <3>1, <3>2 DEF Claims
    <2>2. t.todo = <<>> \/ t.todo = <<SeriesRow(DocumentOf(t.request))>>
      BY <1>2 DEF PhaseShape
    <2>3. \A i \in DOMAIN t.todo : t.todo[i][1] = "series"
      BY <2>2, RowNames
    <2> QED
      BY <1>2, <2>1, <2>3 DEF Secured, WaitsIn
  <1> QED
    BY <1>1, <1>2, <1>3, <1>4 DEF HoldsRow, TxnRecords

\* What a commit does to the ledger is the call the request asks for.
LEMMA CommitIsCall ==
    ASSUME Typed, Linked, CreditsFit, NEW w \in Workers, TxnInv(txns[w]), Commit(w)
    PROVE  /\ CallOf(txns[w].request) /\ Ledger!Next /\ Typed' /\ Linked'
           /\ Kept /\ Local(txns[w].request)
  <1>1. PICK r : r = txns[w].request
    OBVIOUS
  <1>2. RequestShape(r) /\ Loaded(r)
    BY <1>1, WritersHoldClaims DEF Commit
  <1>3. Accepts(r) /\ txns[w].remaining = Remaining(r)
    BY <1>1 DEF TxnInv, Promised, Commit
  <1>4. Writes(r, Remaining(r))
    BY <1>1, <1>3 DEF Commit
  <1>5. r.op = "issue_credit_note" /\ r.invoice = 0 => openCredits[r.student] + r.amount <= MaxOpenCredit
    BY <1>1, <1>2 DEF CreditsFit, OpensCredit, RequestShape, Invoices
  <1>6. CallOf(r)
    BY <1>2, <1>3, <1>4, <1>5, OwnWords, WritesAreCall
  <1>7. Ledger!Next
    BY <1>2, <1>6, CallIsStep
  <1>8. Typed' /\ Linked'
    BY <1>7, CallKeepsRows
  <1>9. Kept /\ Local(r)
    BY <1>2, <1>6, CallIsLocal
  <1> QED
    BY <1>1, <1>6, <1>7, <1>8, <1>9

\* Another transaction's commit leaves a transaction what it claims and checked.
LEMMA CommitOtherTxn ==
    ASSUME Typed, Linked, CreditsFit, LocksExclude, SeriesTyped,
           NEW w \in Workers, TxnInv(txns[w]), Commit(w),
           NEW v \in Workers, v # w, TxnInv(txns[v]), txns'[v] = txns[v]
    PROVE  TxnInv(txns[v])'
  <1>1. PICK t, q : t = txns[v] /\ q = txns[w].request
    OBVIOUS
  <1>2. t \in TxnRecords /\ PhaseShape(t) /\ Ordered(t) /\ BehindPayment(t) /\ Secured(t) /\ Promised(t) /\ txns'[v] = t
    BY <1>1 DEF TxnInv
  <1>3. Typed' /\ Linked' /\ Kept /\ Local(q)
    BY <1>1, CommitIsCall
  <1>4. txns[w].phase = "writing" /\ txns[w].todo = <<>>
    BY DEF Commit
  <1>5. \A row \in LockRows : ~(row \in t.held /\ HoldsRow(w, row))
    BY <1>1 DEF LocksExclude, HoldsRow
  <1>6. \A d \in DocumentTypes : SeriesRow(d) \in t.held => nextValue'[d] = nextValue[d]
    <2>1. ASSUME NEW d \in DocumentTypes, nextValue'[d] # nextValue[d] PROVE HoldsRow(w, SeriesRow(d))
      <3>1. d = DocumentOf(q) /\ d # "none"
        BY <1>1, <2>1 DEF Commit, SeriesTyped
      <3>2. SeriesRow(d) \in txns[w].held
        <4>1. PhaseShape(txns[w])
          BY DEF TxnInv
        <4>2. txns[w].todo # <<SeriesRow(d)>>
          BY <1>4
        <4> QED
          BY <1>1, <1>4, <3>1, <4>1, <4>2 DEF PhaseShape
      <3> QED
        BY <3>2 DEF HoldsRow
    <2> QED
      BY <1>5, <2>1, RowNames
  <1>7. PhaseShape(txns[v])'
    <2>1. t.phase \in {"recording", "allocating"} => DocumentOf(t.request) = "RECEIPT"
      BY <1>2 DEF PhaseShape, DocumentOf
    <2>2. t.phase # "idle" /\ DocumentOf(t.request) # "none" /\ SeriesRow(DocumentOf(t.request)) \in t.held =>
              nextValue'[DocumentOf(t.request)] = nextValue[DocumentOf(t.request)]
      BY <1>6, DocumentTypesOfCalls
    <2>3. PhaseShape(t)
      BY <1>2
    <2> QED
      BY <1>2, <2>1, <2>2, <2>3 DEF PhaseShape, WaitsIn
  <1>8. Ordered(txns[v])'
    BY <1>2 DEF Ordered
  <1>9. BehindPayment(txns[v])'
    BY <1>2, <1>3 DEF BehindPayment, Kept
  <1>10. t.phase # "idle" => RequestShape(t.request) /\ Loaded(t.request)
    BY <1>2, RequestShapes DEF PhaseShape, Secured
  <1>11. Secured(txns[v])'
    BY <1>2, <1>3, <1>10, ClaimsLast DEF Secured, Claims, WaitsIn
  <1>12. Promised(txns[v])'
    <2>1. ASSUME t.phase = "writing" PROVE Accepts(t.request)' /\ Remaining(t.request)' = t.remaining
      <3>1. RequestShape(t.request) /\ Loaded(t.request) /\ Accepts(t.request) /\ t.remaining = Remaining(t.request)
        BY <1>2, <1>10, <2>1 DEF Promised
      <3>2. \A row \in Claims(t.request) : row \in t.held /\ row \in LockRows
        BY <1>1, <2>1, WritersHoldClaims DEF HoldsRow
      <3>3. \A row \in Claims(q) : HoldsRow(w, row)
        BY <1>1, <1>4, WritersHoldClaims
      <3>4. Claims(t.request) \cap Claims(q) = {}
        BY <1>5, <3>2, <3>3
      <3> QED
        BY <1>3, <3>1, <3>4, PromiseStands
    <2>2. ASSUME t.phase \in {"recording", "allocating"}
          PROVE  payments'[t.request.key].status = "NONE" /\ Remaining(t.request)' = t.remaining
      <3>1. /\ t.request.op = "match_payment" /\ KeyEntry(t.request.key) \in t.held
            /\ payments[t.request.key].status = "NONE" /\ t.remaining = Remaining(t.request)
        BY <1>2, <2>2 DEF PhaseShape, Promised
      <3>2. t.request.key \in Keys
        BY <1>10, <2>2, <3>1 DEF RequestShape
      <3>3. KeyEntry(t.request.key) \notin Claims(q)
        BY <1>1, <1>4, <1>5, <3>1, <3>2, WritersHoldClaims
      <3>4. payments'[t.request.key] = payments[t.request.key]
        BY <1>3, <3>1, <3>2, <3>3 DEF Local
      <3> QED
        BY <3>1, <3>4 DEF Remaining
    <2> QED
      BY <1>2, <2>1, <2>2 DEF Promised
  <1> QED
    BY <1>2, <1>7, <1>8, <1>9, <1>11, <1>12 DEF TxnInv

-----------------------------------------------------------------------------
(* The invariant is inductive.                                             *)

\* The first state satisfies it.
LEMMA InitIInv == Init => IInv
  <1> SUFFICES ASSUME Init PROVE IInv
    OBVIOUS
  <1>1. Typed /\ Linked
    <2>1. Ledger!Init
      BY DEF Init
    <2> QED
      BY <2>1 DEF Ledger!Init, Typed, Linked, Ledger!NoInvoice, Ledger!NoPayment, Ledger!NoAllocation, NoInvoice, NoPayment,
         NoAllocation, InvoiceRecords, PaymentRecords, AllocationRecords, Ledger!Invoices, Ledger!Rows, Invoices, Rows
  <1>2. SeriesTyped /\ NumbersAreGapless
    BY DEF Init, SeriesTyped, NumbersAreGapless
  <1>3. Idle \in TxnRecords /\ Idle.held = {} /\ Idle.request.op = "none"
    BY DEF Idle, TxnRecords, Nothing, NoRequest, Request
  <1>4. txns \in [Workers -> TxnRecords] /\ \A w \in Workers : txns[w] = Idle
    BY <1>3 DEF Init
  <1>5. TxnsSound
    <2>1. /\ Idle.request = NoRequest /\ Idle.phase = "idle" /\ Idle.todo = <<>> /\ Idle.held = {}
      BY DEF Idle
    <2>2. PhaseShape(Idle) /\ Ordered(Idle) /\ BehindPayment(Idle) /\ Secured(Idle) /\ Promised(Idle)
      BY <1>3, <2>1 DEF PhaseShape, Ordered, BehindPayment, Secured, Promised, WaitsIn
    <2> QED
      BY <1>3, <1>4, <2>2 DEF TxnsSound, TxnInv
  <1>6. LocksExclude
    BY <1>3, <1>4 DEF LocksExclude, HoldsRow
  <1>7. CreditsFit
    BY <1>3, <1>4 DEF CreditsFit, OpensCredit
  <1> QED
    BY <1>1, <1>2, <1>4, <1>5, <1>6, <1>7 DEF IInv

\* Each worker's state after a step that changes the transaction of w only.
OnlyTxnOf(w) == \A v \in Workers : v # w => txns'[v] = txns[v]

\* Steps other than a commit leave rows, series and documents alone.
LEMMA QuietStep ==
    ASSUME IInv, NEW w \in Workers, OnlyTxnOf(w), UNCHANGED <<ledgerRows, nextValue, numbered>>,
           TxnInv(txns[w])', DOMAIN txns' = Workers, txns' \in [Workers -> TxnRecords],
           \A row \in LockRows : row \in txns'[w].held => \A v \in Workers \ {w} : ~HoldsRow(v, row),
           \A s \in Students : OpensCredit(txns'[w], s) =>
                /\ openCredits[s] + txns'[w].request.amount <= MaxOpenCredit
                /\ \A v \in Workers \ {w} : ~OpensCredit(txns[v], s)
    PROVE  IInv'
  <1>1. Typed' /\ Linked'
    BY DEF IInv, Typed, Linked, ledgerRows
  <1>2. SeriesTyped' /\ NumbersAreGapless'
    BY DEF IInv, SeriesTyped, NumbersAreGapless
  <1>3. TxnsSound'
    <2>1. ASSUME NEW v \in Workers, v # w PROVE TxnInv(txns[v])'
      BY <2>1, FrameTxn DEF IInv, TxnsSound, OnlyTxnOf
    <2> QED
      BY <2>1 DEF TxnsSound
  <1>4. LocksExclude'
    BY DEF IInv, LocksExclude, HoldsRow, OnlyTxnOf
  <1>5. CreditsFit'
    <2>1. openCredits' = openCredits
      BY DEF ledgerRows
    <2>2. ASSUME NEW v \in Workers, NEW s \in Students, OpensCredit(txns'[v], s)
          PROVE  /\ openCredits[s] + txns'[v].request.amount <= MaxOpenCredit
                 /\ \A u \in Workers : OpensCredit(txns'[u], s) => u = v
      <3>1. CASE v = w
        <4>1. \A u \in Workers : u # w => ~OpensCredit(txns'[u], s)
          BY <2>2, <3>1 DEF OnlyTxnOf
        <4> QED
          BY <2>2, <3>1, <4>1
      <3>2. CASE v # w
        <4>1. txns'[v] = txns[v] /\ ~OpensCredit(txns'[w], s)
          BY <2>2, <3>2 DEF OnlyTxnOf
        <4> QED
          BY <2>2, <3>2, <4>1 DEF IInv, CreditsFit, OnlyTxnOf
      <3> QED
        BY <3>1, <3>2
    <2> QED
      BY <2>1, <2>2 DEF CreditsFit, OpensCredit
  <1> QED
    BY <1>1, <1>2, <1>3, <1>4, <1>5 DEF IInv

\* Every step keeps it.
LEMMA StepIInv == IInv /\ [Next]_vars => IInv'
  <1> SUFFICES ASSUME IInv, [Next]_vars PROVE IInv'
    OBVIOUS
  <1>0. /\ Typed /\ Linked /\ SeriesTyped /\ txns \in [Workers -> TxnRecords] /\ LocksExclude /\ CreditsFit
        /\ \A w \in Workers : TxnInv(txns[w])
    BY DEF IInv, TxnsSound
  <1>1. ASSUME NEW w \in Workers, NEW t, txns' = [txns EXCEPT ![w] = t], t \in TxnRecords
        PROVE  txns'[w] = t /\ OnlyTxnOf(w) /\ DOMAIN txns' = Workers /\ txns' \in [Workers -> TxnRecords]
    BY <1>0, <1>1 DEF OnlyTxnOf
  <1>2. ASSUME NEW w \in Workers, TxnInv(txns[w])' PROVE txns'[w] \in TxnRecords
    BY <1>2 DEF TxnInv
  <1>3. ASSUME NEW w \in Workers, NEW r \in Requests, Begin(w, r) PROVE IInv'
    <2>1. TxnInv(txns[w])'
      BY <1>0, <1>3, BeginTxn
    <2>2. /\ txns'[w].request = r /\ txns'[w].held = {} /\ OnlyTxnOf(w) /\ DOMAIN txns' = Workers
          /\ txns' \in [Workers -> TxnRecords]
      <3>1. PICK t : t = [Idle EXCEPT !.request = r, !.phase = "locking", !.todo = FirstLocks(r)]
        OBVIOUS
      <3>2. txns' = [txns EXCEPT ![w] = t]
        BY <1>3, <3>1 DEF Begin
      <3>3. txns'[w] = t
        BY <1>0, <3>2
      <3>4. t \in TxnRecords
        BY <1>2, <2>1, <3>3
      <3>5. t.request = r /\ t.held = {}
        BY <3>1 DEF Idle
      <3> QED
        BY <1>1, <3>2, <3>4, <3>5
    <2>3. ASSUME NEW s \in Students, OpensCredit(txns'[w], s)
          PROVE  /\ openCredits[s] + txns'[w].request.amount <= MaxOpenCredit
                 /\ \A v \in Workers \ {w} : ~OpensCredit(txns[v], s)
      BY <1>3, <2>2, <2>3 DEF Begin, WithinBounds, OpensCredit
    <2>4. UNCHANGED <<ledgerRows, nextValue, numbered>>
      BY <1>3 DEF Begin
    <2> QED
      BY <2>1, <2>2, <2>3, <2>4, QuietStep
  <1>4. ASSUME NEW w \in Workers, Lock(w) PROVE IInv'
    <2>1. TxnInv(txns[w])'
      BY <1>0, <1>4, LockTxn
    <2>2. /\ txns'[w].request = txns[w].request
          /\ txns'[w].held = txns[w].held \cup {Head(txns[w].todo)}
          /\ OnlyTxnOf(w) /\ DOMAIN txns' = Workers /\ txns' \in [Workers -> TxnRecords]
      <3>1. PICK t, found : /\ t = [txns[w] EXCEPT !.todo = Tail(txns[w].todo) \o found,
                                                  !.held = @ \cup {Head(txns[w].todo)},
                                                  !.number = IF txns[w].phase \in {"recording", "writing"}
                                                             THEN nextValue[DocumentOf(txns[w].request)] ELSE txns[w].number]
                           /\ txns' = [txns EXCEPT ![w] = t]
        BY <1>4 DEF Lock
      <3>2. txns'[w] = t
        BY <1>0, <3>1
      <3>3. t \in TxnRecords
        BY <1>2, <2>1, <3>2
      <3>4. t.request = txns[w].request /\ t.held = txns[w].held \cup {Head(txns[w].todo)}
        BY <1>0, <3>1 DEF TxnRecords
      <3> QED
        BY <1>1, <3>1, <3>3, <3>4
    <2>3. \A row \in LockRows : row \in txns'[w].held => \A v \in Workers \ {w} : ~HoldsRow(v, row)
      BY <1>0, <1>4, <2>2 DEF Lock, IsFree, LocksExclude, HoldsRow
    <2>4. ASSUME NEW s \in Students, OpensCredit(txns'[w], s)
          PROVE  /\ openCredits[s] + txns'[w].request.amount <= MaxOpenCredit
                 /\ \A v \in Workers \ {w} : ~OpensCredit(txns[v], s)
      BY <1>0, <2>2, <2>4 DEF CreditsFit, OpensCredit
    <2>5. UNCHANGED <<ledgerRows, nextValue, numbered>>
      BY <1>4 DEF Lock
    <2> QED
      BY <2>1, <2>2, <2>3, <2>4, <2>5, QuietStep
  <1>5. ASSUME NEW w \in Workers, Check(w) PROVE IInv'
    <2>1. TxnInv(txns[w])'
      BY <1>0, <1>5, CheckTxn
    <2>2. /\ txns'[w].request = txns[w].request /\ txns'[w].held = txns[w].held
          /\ OnlyTxnOf(w) /\ DOMAIN txns' = Workers /\ txns' \in [Workers -> TxnRecords]
      <3>1. PICK t, ph, rem, next : /\ t = [txns[w] EXCEPT !.phase = ph, !.remaining = rem, !.todo = next]
                               /\ txns' = [txns EXCEPT ![w] = t]
        BY <1>0, <1>5 DEF Check
      <3>2. txns'[w] = t
        BY <1>0, <3>1
      <3>3. t \in TxnRecords
        BY <1>2, <2>1, <3>2
      <3>4. t.request = txns[w].request /\ t.held = txns[w].held
        BY <1>0, <3>1 DEF TxnRecords
      <3> QED
        BY <1>1, <3>1, <3>3, <3>4
    <2>3. \A row \in LockRows : row \in txns'[w].held => \A v \in Workers \ {w} : ~HoldsRow(v, row)
      BY <1>0, <2>2 DEF LocksExclude, HoldsRow
    <2>4. ASSUME NEW s \in Students, OpensCredit(txns'[w], s)
          PROVE  /\ openCredits[s] + txns'[w].request.amount <= MaxOpenCredit
                 /\ \A v \in Workers \ {w} : ~OpensCredit(txns[v], s)
      BY <1>0, <2>2, <2>4 DEF CreditsFit, OpensCredit
    <2>5. UNCHANGED <<ledgerRows, nextValue, numbered>>
      BY <1>5 DEF Check
    <2> QED
      BY <2>1, <2>2, <2>3, <2>4, <2>5, QuietStep
  <1>6. ASSUME NEW w \in Workers, Scan(w) \/ Settle(w) PROVE IInv'
    <2>1. TxnInv(txns[w])'
      BY <1>0, <1>6, ScanTxn, SettleTxn
    <2>2. PICK t : t = txns[w] /\ t \in TxnRecords /\ t.request \in Calls /\ t.request.op = "match_payment"
      BY <1>0, <1>6 DEF Scan, Settle, TxnInv, PhaseShape
    <2>3. /\ txns'[w].request.op # "issue_credit_note" /\ txns'[w].held \subseteq txns[w].held
          /\ OnlyTxnOf(w) /\ DOMAIN txns' = Workers /\ txns' \in [Workers -> TxnRecords]
      <3>1. PICK u, ph, a, gone, next :
                /\ \/ u = [t EXCEPT !.phase = ph]
                   \/ u = [t EXCEPT !.phase = ph, !.request = [t.request EXCEPT !.invoice = a], !.todo = next]
                   \/ u = [t EXCEPT !.phase = ph, !.request = [t.request EXCEPT !.invoice = a], !.held = t.held \ gone]
                /\ txns' = [txns EXCEPT ![w] = u]
        BY <1>0, <1>6, <2>2 DEF Scan, Settle
      <3>2. txns'[w] = u
        BY <1>0, <3>1
      <3>3. u \in TxnRecords
        BY <1>2, <2>1, <3>2
      <3>4. [t.request EXCEPT !.invoice = a].op = "match_payment"
        BY <2>2, MatchesChoose
      <3>5. PICK q : q = [t.request EXCEPT !.invoice = a] /\ q.op = "match_payment"
        BY <3>4
      <3>6. ASSUME u = [t EXCEPT !.phase = ph]
            PROVE  u.request.op = "match_payment" /\ u.held \subseteq t.held
        BY <2>2, <3>6 DEF TxnRecords
      <3>7. ASSUME u = [t EXCEPT !.phase = ph, !.request = q, !.todo = next]
            PROVE  u.request.op = "match_payment" /\ u.held \subseteq t.held
        BY <2>2, <3>5, <3>7 DEF TxnRecords
      <3>8. ASSUME u = [t EXCEPT !.phase = ph, !.request = q, !.held = t.held \ gone]
            PROVE  u.request.op = "match_payment" /\ u.held \subseteq t.held
        BY <2>2, <3>5, <3>8 DEF TxnRecords
      <3>9. u.request.op = "match_payment" /\ u.held \subseteq t.held
        BY <2>2, <3>1, <3>5, <3>6, <3>7, <3>8
      <3> QED
        BY <1>1, <2>2, <3>1, <3>2, <3>3, <3>9
    <2>4. \A row \in LockRows : row \in txns'[w].held => \A v \in Workers \ {w} : ~HoldsRow(v, row)
      BY <1>0, <2>3 DEF LocksExclude, HoldsRow
    <2>5. \A s \in Students : ~OpensCredit(txns'[w], s)
      BY <2>3 DEF OpensCredit
    <2>6. UNCHANGED <<ledgerRows, nextValue, numbered>>
      BY <1>6 DEF Scan, Settle
    <2> QED
      BY <2>1, <2>3, <2>4, <2>5, <2>6, QuietStep
  <1>7. Idle \in TxnRecords /\ Idle.held = {} /\ Idle.request.op = "none"
    BY DEF Idle, TxnRecords, Nothing, NoRequest, Request
  <1>8. ASSUME NEW w \in Workers, Refuse(w) \/ Rollback(w) PROVE IInv'
    <2>1. txns' = [txns EXCEPT ![w] = Idle] /\ UNCHANGED <<ledgerRows, nextValue, numbered>>
      BY <1>8 DEF Refuse, Rollback
    <2>2. txns'[w] = Idle /\ OnlyTxnOf(w) /\ DOMAIN txns' = Workers /\ txns' \in [Workers -> TxnRecords]
      BY <1>1, <1>7, <2>1
    <2>3. TxnInv(txns[w])'
      BY <2>2, IdleTxn
    <2>4. \A s \in Students : ~OpensCredit(txns'[w], s)
      BY <1>7, <2>2 DEF OpensCredit
    <2> QED
      BY <1>7, <2>1, <2>2, <2>3, <2>4, QuietStep
  <1>9. ASSUME NEW w \in Workers, Commit(w) PROVE IInv'
    <2>1. Typed' /\ Linked' /\ CallOf(txns[w].request)
      BY <1>0, <1>9, CommitIsCall
    <2>2. txns' = [txns EXCEPT ![w] = Idle]
      BY <1>9 DEF Commit
    <2>3. txns'[w] = Idle /\ OnlyTxnOf(w) /\ txns' \in [Workers -> TxnRecords]
      BY <1>1, <1>7, <2>2
    <2>4. TxnsSound'
      <3>1. TxnInv(txns[w])'
        BY <2>3, IdleTxn
      <3>2. ASSUME NEW v \in Workers, v # w PROVE TxnInv(txns[v])'
        BY <1>0, <1>9, <2>3, <3>2, CommitOtherTxn DEF OnlyTxnOf
      <3> QED
        BY <3>1, <3>2 DEF TxnsSound
    <2>5. LocksExclude'
      BY <1>0, <1>7, <2>3 DEF LocksExclude, HoldsRow, OnlyTxnOf
    <2>6. CreditsFit'
      <3>1. ASSUME NEW v \in Workers, NEW s \in Students, OpensCredit(txns'[v], s)
            PROVE  /\ openCredits'[s] + txns'[v].request.amount <= MaxOpenCredit
                   /\ \A u \in Workers : OpensCredit(txns'[u], s) => u = v
        <4>1. v # w /\ txns'[v] = txns[v] /\ OpensCredit(txns[v], s)
          BY <1>7, <2>3, <3>1 DEF OnlyTxnOf, OpensCredit
        <4>2. ~OpensCredit(txns[w], s)
          BY <1>0, <4>1 DEF CreditsFit
        <4>3. openCredits'[s] = openCredits[s]
          <5>1. ASSUME txns[w].request.op # "issue_credit_note" \/ txns[w].request.invoice # 0
                PROVE  openCredits' = openCredits
            BY <1>9, <5>1 DEF Commit, Writes
          <5>2. ASSUME txns[w].request.op = "issue_credit_note", txns[w].request.invoice = 0
                PROVE  openCredits' = [openCredits EXCEPT ![txns[w].request.student] = @ + txns[w].request.amount]
            BY <1>9, <5>2 DEF Commit, Writes
          <5> QED
            BY SMTT(30), <1>0, <4>2, <5>1, <5>2 DEF OpensCredit, Typed
        <4>4. \A u \in Workers : OpensCredit(txns'[u], s) => u # w /\ OpensCredit(txns[u], s)
          BY <1>7, <2>3 DEF OnlyTxnOf, OpensCredit
        <4> QED
          BY <1>0, <4>1, <4>3, <4>4 DEF CreditsFit
      <3> QED
        BY <3>1 DEF CreditsFit, OpensCredit
    <2>7. SeriesTyped' /\ NumbersAreGapless'
      <3>1. PICK d, n : d = DocumentOf(txns[w].request) /\ n = txns[w].number
        OBVIOUS
      <3>2. CASE d = "none"
        <4>1. UNCHANGED <<nextValue, numbered>>
          BY <1>9, <3>1, <3>2 DEF Commit
        <4> QED
          BY <1>0, <4>1 DEF IInv, SeriesTyped, NumbersAreGapless
      <3>3. CASE d # "none"
        <4>1. d \in DocumentTypes
          BY <3>1, <3>3, DocumentTypesOfCalls
        <4>2. /\ nextValue' = [nextValue EXCEPT ![d] = n + 1]
              /\ numbered' = [numbered EXCEPT ![d] = Append(@, n)]
          BY <1>9, <3>1, <3>3 DEF Commit
        <4>3. n = nextValue[d] /\ n \in Nat \ {0}
          <5>1. PhaseShape(txns[w]) /\ txns[w].phase = "writing" /\ txns[w].todo = <<>>
            BY <1>0, <1>9 DEF TxnInv, Commit
          <5>2. txns[w].todo # <<SeriesRow(d)>>
            BY <5>1
          <5> QED
            BY <1>0, <3>1, <3>3, <4>1, <5>1, <5>2 DEF PhaseShape, SeriesTyped
        <4>4. numbered[d] = [i \in 1..(n - 1) |-> i] /\ numbered[d] \in Seq(Nat)
          BY <1>0, <4>1, <4>3 DEF IInv, NumbersAreGapless, SeriesTyped
        <4>5. Append(numbered[d], n) = [i \in 1..n |-> i]
          <5>1. Len(numbered[d]) = n - 1
            BY <4>3, <4>4
          <5> QED
            BY <4>3, <4>4, <5>1
        <4>6. SeriesTyped'
          BY <1>0, <4>1, <4>2, <4>3, <4>4 DEF SeriesTyped
        <4>7. ASSUME NEW e \in DocumentTypes PROVE numbered'[e] = [i \in 1..(nextValue'[e] - 1) |-> i]
          <5>1. CASE e = d
            <6>1. nextValue'[e] - 1 = n
              BY <1>0, <4>1, <4>2, <4>3, <5>1 DEF SeriesTyped
            <6>2. numbered'[e] = Append(numbered[d], n)
              BY <1>0, <4>1, <4>2, <5>1 DEF SeriesTyped
            <6> QED
              BY <4>5, <6>1, <6>2
          <5>2. CASE e # d
            <6>1. nextValue'[e] = nextValue[e] /\ numbered'[e] = numbered[e]
              BY <1>0, <4>1, <4>2, <5>2 DEF SeriesTyped
            <6> QED
              BY <6>1 DEF IInv, NumbersAreGapless
          <5> QED
            BY <5>1, <5>2
        <4> QED
          BY <4>6, <4>7 DEF NumbersAreGapless
      <3> QED
        BY <3>2, <3>3
    <2> QED
      BY <2>1, <2>3, <2>4, <2>5, <2>6, <2>7 DEF IInv
  <1>10. CASE UNCHANGED vars
    <2>1. UNCHANGED ledgerRows /\ nextValue' = nextValue /\ numbered' = numbered /\ txns' = txns
      BY <1>10 DEF vars
    <2>2. TxnsSound'
      BY <1>0, <2>1, FrameTxn DEF TxnsSound
    <2>3. Typed' /\ Linked'
      BY <1>0, <2>1 DEF Typed, Linked, ledgerRows
    <2>4. CreditsFit' /\ LocksExclude' /\ SeriesTyped' /\ NumbersAreGapless'
      BY <2>1 DEF IInv, CreditsFit, OpensCredit, LocksExclude, HoldsRow, SeriesTyped, NumbersAreGapless, ledgerRows
    <2> QED
      BY <1>0, <2>1, <2>2, <2>3, <2>4 DEF IInv
  <1> QED
    BY <1>3, <1>4, <1>5, <1>8, <1>9, <1>10, <1>6 DEF Next, Step

-----------------------------------------------------------------------------
(* What follows from the invariant.                                        *)

\* Of transactions that wait for one another in a set, one waits for a row no
\* later than which none of them waits; its holder can only wait for a later one.
LEMMA NobodyWaitsInCircles == IInv => NoCircularWait
  <1> SUFFICES ASSUME IInv, NEW W \in SUBSET Workers, W # {}, \A w \in W : \E v \in W : WaitsFor(w, v)
               PROVE  FALSE
    BY DEF NoCircularWait
  <1> DEFINE Next1(w) == Head(txns[w].todo)
  <1>1. ASSUME NEW w \in W
        PROVE  /\ txns[w] \in TxnRecords /\ TxnInv(txns[w]) /\ txns[w].todo # <<>>
               /\ Next1(w) \in LockRows /\ 1 \in DOMAIN txns[w].todo /\ txns[w].todo[1] = Next1(w)
               /\ \A i \in DOMAIN txns[w].todo : ~(i < 1)
    <2>1. txns[w] \in TxnRecords /\ TxnInv(txns[w]) /\ txns[w].todo # <<>>
      BY <1>1 DEF IInv, TxnsSound, WaitsFor
    <2>2. txns[w].todo \in Seq(LockRows)
      BY <2>1 DEF TxnRecords
    <2> QED
      BY <2>1, <2>2, TailParts
  <1>2. ASSUME NEW w \in W, NEW v \in W, \E row \in LockRows : HoldsRow(w, row) /\ HoldsRow(v, row)
        PROVE  w = v
    BY <1>2 DEF IInv, LocksExclude
  <1>3. ASSUME NEW w \in W, NEW v \in W, HoldsRow(v, Next1(w))
        PROVE  Precedes(Next1(w), Next1(v))
    BY <1>1, <1>3 DEF TxnInv, Ordered, HoldsRow
  \* A wait for an allocation would be one for a row of its payment's holder.
  <1>4. ASSUME NEW w \in W PROVE ~IsAllocation(Next1(w))
    <2> SUFFICES ASSUME IsAllocation(Next1(w)) PROVE FALSE
      OBVIOUS
    <2>1. PICK j \in Rows : Next1(w) = AllocationRow(j)
      BY <1>1, RowNames
    <2>2. PICK v \in W : v # w /\ HoldsRow(v, Next1(w))
      BY DEF WaitsFor
    <2>3. allocations[j] # NoAllocation /\ PaymentRow(allocations[j].payment) \in txns[v].held
      BY <1>1, <2>1, <2>2 DEF TxnInv, BehindPayment, HoldsRow
    <2>4. PaymentRow(allocations[j].payment) \in txns[w].held
      BY <1>1, <2>1 DEF TxnInv, BehindPayment
    <2>5. PaymentRow(allocations[j].payment) \in LockRows
      BY <2>3, RowNames DEF IInv, Linked
    <2> QED
      BY <1>2, <2>2, <2>3, <2>4, <2>5 DEF HoldsRow
  <1> DEFINE Left(w) == (NInvoices + 4) - Rank(Next1(w))
             T == {Left(w) : w \in W}
  <1>5. \A w \in W : Rank(Next1(w)) \in 0..(NInvoices + 4) /\ Left(w) \in Nat
    BY <1>1, RowNames
  <1>6. T \in SUBSET Nat /\ T # {}
    BY <1>5
  <1>7. PICK m \in T : \A k \in T : m <= k
    <2> HIDE DEF T
    <2> QED
      BY <1>6, LeastNatural
  <1>8. PICK w \in W : \A v \in W : Left(w) <= Left(v)
    BY <1>7
  <1>9. PICK v \in W : v # w /\ HoldsRow(v, Next1(w))
    BY DEF WaitsFor
  <1>10. Next1(w) = Next1(v) \/ Rank(Next1(w)) < Rank(Next1(v))
    BY <1>3, <1>4, <1>9 DEF Precedes
  <1>11. ~(Rank(Next1(w)) < Rank(Next1(v)))
    <2>1. Left(w) <= Left(v)
      BY <1>8
    <2>2. /\ Rank(Next1(w)) \in 0..(NInvoices + 4) /\ Rank(Next1(v)) \in 0..(NInvoices + 4)
      BY <1>5
    <2> QED
      BY <2>1, <2>2
  <1>12. PICK u \in W : u # v /\ HoldsRow(u, Next1(v))
    BY DEF WaitsFor
  <1>13. HoldsRow(v, Next1(v)) /\ Next1(v) \in LockRows
    BY <1>1, <1>9, <1>10, <1>11
  <1> QED
    BY <1>2, <1>12, <1>13

\* A step of a transaction is a call of FeeLedger when it commits, else a stutter.
LEMMA StepIsCall == IInv /\ [Next]_vars => [Ledger!Next]_(Ledger!vars)
  <1> SUFFICES ASSUME IInv, [Next]_vars PROVE [Ledger!Next]_(Ledger!vars)
    OBVIOUS
  <1>1. ASSUME NEW w \in Workers, Commit(w) PROVE Ledger!Next
    BY <1>1, CommitIsCall DEF IInv, TxnsSound
  <1>2. ASSUME UNCHANGED ledgerRows PROVE UNCHANGED Ledger!vars
    BY SMTT(30), <1>2 DEF ledgerRows, Ledger!vars
  <1>3. ASSUME NEW w \in Workers, (\E r \in Requests : Begin(w, r)) \/ Lock(w) \/ Check(w) \/ Scan(w) \/ Settle(w) \/ Refuse(w) \/ Rollback(w)
        PROVE  UNCHANGED ledgerRows
    BY <1>3 DEF Begin, Lock, Check, Scan, Settle, Refuse, Rollback
  <1>4. UNCHANGED vars => UNCHANGED ledgerRows
    BY DEF vars
  <1> QED
    BY <1>1, <1>2, <1>3, <1>4 DEF Next, Step

-----------------------------------------------------------------------------
(* The theorems.                                                           *)

\* The invariant holds in every reachable state.
LEMMA IInvHolds == Spec => []IInv
  BY InitIInv, StepIInv, PTL DEF Spec

\* Rows, transactions, locks and numbers stay within their types, whatever the
\* interleaving of the service calls (apps/finance/services.py).
THEOREM TransactionsTyped == Spec => []TypeOK
  <1>1. IInv => TypeOK
    <2> SUFFICES ASSUME IInv PROVE TypeOK
      OBVIOUS
    <2>1. Ledger!TypeOK
      BY OwnWords DEF IInv
    <2> QED
      BY <2>1 DEF IInv, TypeOK, SeriesTyped, TxnRecords
  <1> QED
    BY <1>1, IInvHolds, PTL

\* The document numbers of committed invoices, credit notes, receipts and reversals
\* are 1, 2, 3... in commit order, whoever rolls back meanwhile (_next_number).
THEOREM NumbersGapless == Spec => []NumbersAreGapless
  <1>1. IInv => NumbersAreGapless
    BY DEF IInv
  <1> QED
    BY <1>1, IInvHolds, PTL

\* The row locks of any number of concurrent service calls never deadlock: no set of
\* transactions waits only for its own members (reverse_payment's lock order).
THEOREM NoDeadlock == Spec => []NoCircularWait
  BY NobodyWaitsInCircles, IInvHolds, PTL

\* The interleaved transactions implement the ledger of one call at a time, so every
\* safety theorem of FeeLedger holds of what they commit.
THEOREM ConcurrentCallsImplementLedger == Spec => ImplementsLedger
  <1>1. Init => Ledger!Init
    BY DEF Init
  <1>2. Spec => [][Ledger!Next]_(Ledger!vars)
    BY IInvHolds, StepIsCall, PTL DEF Spec
  <1> QED
    BY <1>1, <1>2, PTL DEF Spec, ImplementsLedger, Ledger!Spec
=============================================================================
