-------------------------- MODULE FeeLedger_proofs --------------------------
(* The invariants of FeeLedger hold for any number of students, invoices,  *)
(* payments and allocations and any integer amounts.  The tables are       *)
(* sequences of rows, so what a payment or an invoice holds is a sum over  *)
(* rows; the facts about such sums come from RowSums_proofs.               *)
EXTENDS FeeLedger, RowSums_proofs

USE BoundsAssumption, NamesAssumption, StudentOfAssumption, AmountsAssumption

-----------------------------------------------------------------------------
(* Sums over allocation tables, stated of arbitrary tables.                *)

Table == [Rows -> [payment : Keys \cup {NoKey}, invoice : Invoices \cup {0},
                   amount : Nat, reversed : Nat]]
Cash(r) == r.amount - r.reversed
Sound(t) == t \in Table /\ \A j \in Rows : t[j].reversed <= t[j].amount
ByPayment(t, k) == [j \in Rows |-> IF t[j].payment = k THEN Cash(t[j]) ELSE 0]
ByInvoice(t, a) == [j \in Rows |-> IF t[j].invoice = a THEN Cash(t[j]) ELSE 0]
Sum(f) == Total(f, MaxAllocations)

\* What is left of a sound row is a natural number.
LEMMA CashNat ==
    ASSUME NEW t, Sound(t), NEW j \in Rows
    PROVE  Cash(t[j]) \in Nat
  BY DEF Sound, Table, Cash

\* The sums over a sound table, by payment and by invoice, are natural numbers.
LEMMA SumTypes ==
    ASSUME NEW t, Sound(t)
    PROVE  /\ \A k : ByPayment(t, k) \in [Rows -> Nat] /\ Sum(ByPayment(t, k)) \in Nat
           /\ \A a : ByInvoice(t, a) \in [Rows -> Nat] /\ Sum(ByInvoice(t, a)) \in Nat
  <1>1. ASSUME NEW f \in [Rows -> Nat] PROVE Sum(f) \in Nat
    BY TotalNat DEF Sum, Rows
  <1>2. ASSUME NEW k PROVE ByPayment(t, k) \in [Rows -> Nat]
    BY CashNat DEF ByPayment
  <1>3. ASSUME NEW a PROVE ByInvoice(t, a) \in [Rows -> Nat]
    BY CashNat DEF ByInvoice
  <1> QED
    BY <1>1, <1>2, <1>3

\* Changing one row moves each sum by what that row contributes.
LEMMA OneRowChanges ==
    ASSUME NEW t, Sound(t), NEW u, Sound(u), NEW x \in Rows,
           \A j \in Rows : j # x => u[j] = t[j]
    PROVE  /\ \A k : Sum(ByPayment(u, k)) = Sum(ByPayment(t, k)) + (ByPayment(u, k)[x] - ByPayment(t, k)[x])
           /\ \A a : Sum(ByInvoice(u, a)) = Sum(ByInvoice(t, a)) + (ByInvoice(u, a)[x] - ByInvoice(t, a)[x])
  <1>1. ASSUME NEW f \in [Rows -> Nat], NEW g \in [Rows -> Nat], \A j \in Rows : j # x => g[j] = f[j]
        PROVE  Sum(g) = Sum(f) + (g[x] - f[x])
    <2>1. f \in [1..MaxAllocations -> Int] /\ g \in [1..MaxAllocations -> Int] /\ x \in 1..MaxAllocations
      BY DEF Rows
    <2>2. \A j \in 1..MaxAllocations : j # x => g[j] = f[j]
      BY <1>1 DEF Rows
    <2> QED
      BY <2>1, <2>2, TotalUpdate DEF Sum
  <1>2. ASSUME NEW k PROVE \A j \in Rows : j # x => ByPayment(u, k)[j] = ByPayment(t, k)[j]
    BY DEF ByPayment
  <1>3. ASSUME NEW a PROVE \A j \in Rows : j # x => ByInvoice(u, a)[j] = ByInvoice(t, a)[j]
    BY DEF ByInvoice
  <1>4. ASSUME NEW k PROVE Sum(ByPayment(u, k)) = Sum(ByPayment(t, k)) + (ByPayment(u, k)[x] - ByPayment(t, k)[x])
    BY <1>1, <1>2, SumTypes
  <1>5. ASSUME NEW a PROVE Sum(ByInvoice(u, a)) = Sum(ByInvoice(t, a)) + (ByInvoice(u, a)[x] - ByInvoice(t, a)[x])
    BY <1>1, <1>3, SumTypes
  <1> QED
    BY <1>4, <1>5

\* The table after reverse_payment(k), and what it takes out of invoice a.
Emptied(t, k) == [j \in Rows |-> IF t[j].payment = k THEN [t[j] EXCEPT !.reversed = t[j].amount] ELSE t[j]]
Freed(t, k, a) == [j \in Rows |-> IF t[j].invoice = a THEN ByPayment(t, k)[j] ELSE 0]
FreedTotals(t, k) == [a \in Invoices |-> Sum(Freed(t, k, a))]

\* Emptying a payment's allocations moves their net amounts out of the
\* invoices' sums, and touches no other payment's.
LEMMA EmptiedSums ==
    ASSUME NEW t, Sound(t), NEW k \in Keys
    PROVE  /\ Sound(Emptied(t, k))
           /\ Sum(ByPayment(Emptied(t, k), k)) = 0
           /\ \A i : i # k => ByPayment(Emptied(t, k), i) = ByPayment(t, i)
           /\ \A a : /\ Freed(t, k, a) \in [Rows -> Nat]
                     /\ Sum(Freed(t, k, a)) \in Nat
                     /\ Sum(ByInvoice(t, a)) = Sum(ByInvoice(Emptied(t, k), a)) + Sum(Freed(t, k, a))
  <1> DEFINE u == Emptied(t, k)
  <1>1. Sound(u)
    BY DEF Sound, Table, Emptied
  <1>2. \A j \in Rows : /\ t[j].payment = k => Cash(u[j]) = 0
                        /\ t[j].payment # k => u[j] = t[j]
                        /\ u[j].payment = t[j].payment /\ u[j].invoice = t[j].invoice
    BY DEF Sound, Table, Emptied, Cash
  <1> HIDE DEF u
  <1>3. \A j \in Rows : ByPayment(u, k)[j] = 0
    BY <1>2 DEF ByPayment
  <1>4. Sum(ByPayment(u, k)) = 0
    BY <1>1, <1>3, SumTypes, TotalZero DEF Sum, Rows
  <1>5. ASSUME NEW i, i # k PROVE ByPayment(u, i) = ByPayment(t, i)
    BY <1>2, <1>5 DEF ByPayment
  <1>6. ASSUME NEW a
        PROVE  /\ Freed(t, k, a) \in [Rows -> Nat]
               /\ Sum(Freed(t, k, a)) \in Nat
               /\ Sum(ByInvoice(t, a)) = Sum(ByInvoice(u, a)) + Sum(Freed(t, k, a))
    <2>1. Freed(t, k, a) \in [Rows -> Nat]
      BY SumTypes DEF Freed
    <2>2. ASSUME NEW j \in Rows PROVE ByInvoice(t, a)[j] = ByInvoice(u, a)[j] + Freed(t, k, a)[j]
      BY <1>1, <1>2, CashNat DEF ByInvoice, ByPayment, Freed
    <2>3. ByInvoice(t, a) \in [Rows -> Int] /\ ByInvoice(u, a) \in [Rows -> Int] /\ Freed(t, k, a) \in [Rows -> Int]
      BY <1>1, <2>1, SumTypes
    <2>4. Sum(ByInvoice(t, a)) = Sum(ByInvoice(u, a)) + Sum(Freed(t, k, a))
      BY <2>2, <2>3, TotalAdd DEF Sum, Rows
    <2>5. Sum(Freed(t, k, a)) \in Nat
      BY <2>1, TotalNat DEF Sum, Rows
    <2> QED
      BY <2>1, <2>4, <2>5
  <1> QED
    BY <1>1, <1>4, <1>5, <1>6 DEF u

\* The cash reverse_payment frees, invoice by invoice, is what the payment held.
LEMMA FreedIsHeld ==
    ASSUME NEW t, Sound(t), NEW k \in Keys,
           \A j \in Rows : t[j].invoice = 0 => Cash(t[j]) = 0
    PROVE  /\ FreedTotals(t, k) \in [Invoices -> Int]
           /\ Total(FreedTotals(t, k), NInvoices) = Sum(ByPayment(t, k))
  <1> DEFINE g == [j \in Rows |-> t[j].invoice]
  <1> DEFINE h == ByPayment(t, k)
  <1>1. g \in [1..MaxAllocations -> 0..NInvoices]
    BY DEF Sound, Table, Rows, Invoices
  <1>2. h \in [1..MaxAllocations -> Int]
    BY SumTypes DEF Rows
  <1>3. \A j \in 1..MaxAllocations : g[j] = 0 => h[j] = 0
    BY DEF ByPayment, Rows
  <1>4. ASSUME NEW a \in Invoices PROVE InGroup(g, h, a, MaxAllocations) = Freed(t, k, a)
    BY DEF InGroup, Freed, Rows
  <1>5. GroupTotals(g, h, NInvoices, MaxAllocations) = FreedTotals(t, k)
    BY <1>4 DEF GroupTotals, FreedTotals, Sum, Invoices
  <1>6. Total(FreedTotals(t, k), NInvoices) = Total(h, MaxAllocations)
    <2> HIDE DEF g, h
    <2>1. Total(GroupTotals(g, h, NInvoices, MaxAllocations), NInvoices) = Total(h, MaxAllocations)
      BY <1>1, <1>2, <1>3, TotalByGroup
    <2> QED
      BY <2>1, <1>5
  <1>7. FreedTotals(t, k) \in [Invoices -> Int]
    BY EmptiedSums DEF FreedTotals
  <1> QED
    BY <1>6, <1>7 DEF Sum
-----------------------------------------------------------------------------
(* Type correctness and row linkage, one step per action.                  *)

RowsInv == TypeOK /\ RowsWellFormed

RowsFacts ==
    /\ Sound(allocations)
    /\ \A j \in Rows : Net(j) = Cash(allocations[j]) /\ Net(j) \in Nat
    /\ \A j \in Rows : allocations[j].invoice = 0 => allocations[j] = NoAllocation /\ Cash(allocations[j]) = 0
    /\ \A k : Held(k) = Sum(ByPayment(allocations, k)) /\ Held(k) \in Nat
    /\ \A a : Settled(a) = Sum(ByInvoice(allocations, a)) /\ Settled(a) \in Nat
    /\ \A a \in Invoices : Outstanding(a) \in Int

\* What RowsInv says in the vocabulary of the table lemmas above.
LEMMA RowsInvFacts == RowsInv => RowsFacts
  <1> SUFFICES ASSUME RowsInv PROVE RowsFacts
    OBVIOUS
  <1>1. Sound(allocations)
    BY DEF RowsInv, TypeOK, RowsWellFormed, Sound, Table, NoAllocation
  <1>2. \A j \in Rows : Net(j) = Cash(allocations[j]) /\ Net(j) \in Nat
    BY <1>1, CashNat DEF Net, Cash
  <1>3. \A j \in Rows : allocations[j].invoice = 0 => allocations[j] = NoAllocation /\ Cash(allocations[j]) = 0
    BY DEF RowsInv, RowsWellFormed, NoAllocation, Cash, Invoices
  <1>4. \A k : Held(k) = Sum(ByPayment(allocations, k))
    BY DEF Held, Sum, ByPayment, Net, Cash
  <1>5. \A a : Settled(a) = Sum(ByInvoice(allocations, a))
    BY DEF Settled, Sum, ByInvoice, Net, Cash
  <1>6. (\A k : Held(k) \in Nat) /\ (\A a : Settled(a) \in Nat)
    BY <1>1, <1>4, <1>5, SumTypes
  <1>7. \A a \in Invoices : Outstanding(a) \in Int
    BY <1>6 DEF Outstanding, RowsInv, TypeOK
  <1> QED
    BY <1>1, <1>2, <1>3, <1>4, <1>5, <1>6, <1>7 DEF RowsFacts

\* The same facts of the state after a step.
LEMMA RowsInvFactsNext == RowsInv' => RowsFacts'
  BY RowsInvFacts, PTL

\* The empty ledger is typed and its rows linked.
LEMMA InitRows == Init => RowsInv
  BY DEF Init, RowsInv, TypeOK, RowsWellFormed, NoInvoice, NoPayment, NoAllocation

\* Every service call keeps the ledger typed and its rows linked.
LEMMA RowsStep == RowsInv /\ [Next]_vars => RowsInv'
  <1> SUFFICES ASSUME RowsInv, [Next]_vars PROVE RowsInv'
    OBVIOUS
  <1> USE DEF RowsInv, TypeOK, RowsWellFormed
  <1>1. ASSUME NEW a \in Invoices, NEW x \in Amounts, GenerateInvoice(a, x) PROVE RowsInv'
    BY <1>1 DEF GenerateInvoice, NoInvoice
  <1>2. ASSUME NEW a \in Invoices, IssueInvoice(a) PROVE RowsInv'
    BY <1>2 DEF IssueInvoice
  <1>3. ASSUME NEW a \in Invoices, NEW x \in Amounts, IssueCreditNote(a, x) PROVE RowsInv'
    BY <1>3 DEF IssueCreditNote
  <1>4. ASSUME NEW s \in Students, NEW x \in Amounts, IssueOpenCredit(s, x) PROVE RowsInv'
    BY <1>4 DEF IssueOpenCredit
  <1>5. ASSUME NEW k \in Keys, NEW s \in Students, NEW x \in Amounts, RecordPayment(k, s, x) PROVE RowsInv'
    BY <1>5 DEF RecordPayment, NoPayment
  <1>6. ASSUME NEW j \in Rows, NEW k \in Keys, NEW a \in Invoices, NEW x \in Amounts, AllocatePayment(j, k, a, x)
        PROVE RowsInv'
    BY <1>6 DEF AllocatePayment, NoAllocation
  <1>7. ASSUME NEW j \in Rows, NEW x \in Amounts, ReverseAllocation(j, x) PROVE RowsInv'
    BY <1>7 DEF ReverseAllocation, NoAllocation, Net
  <1>8. ASSUME NEW k \in Keys, ReversePayment(k) PROVE RowsInv'
    <2>1. Held(k) \in Nat
      BY RowsInvFacts DEF RowsFacts
    <2>2. TypeOK'
      <3>1. allocations' = Emptied(allocations, k)
        BY <1>8 DEF ReversePayment, Emptied
      <3>2. allocations' \in Table
        BY <3>1, RowsInvFacts, EmptiedSums DEF RowsFacts, Sound
      <3>3. debits' \in [Students -> Nat]
        BY <1>8, <2>1 DEF ReversePayment
      <3>4. payments' \in [Keys -> [status : {"NONE", "RECEIVED", "REVERSED"},
                                    student : Students \cup {Nobody}, amount : Nat]]
        BY <1>8 DEF ReversePayment
      <3> QED
        BY <1>8, <3>2, <3>3, <3>4 DEF ReversePayment, Table
    <2>3. RowsWellFormed'
      BY <1>8 DEF ReversePayment, NoAllocation, NoPayment
    <2> QED
      BY <2>2, <2>3
  <1>9. ASSUME NEW j \in Rows, NEW k \in Keys, NEW a \in Invoices, NEW x \in Amounts, MatchPayment(j, k, a, x)
        PROVE RowsInv'
    <2>1. x \in Nat /\ StudentOf[a] \in Students /\ StudentOf[a] # Nobody
      BY <1>9 DEF MatchPayment
    <2>2. TypeOK'
      BY <1>9, <2>1 DEF MatchPayment
    <2>3. allocations[j] = NoAllocation /\ payments[k].status = "NONE"
      BY <1>9 DEF MatchPayment, IsNextRow, NoPayment
    <2>4. RowsWellFormed'
      BY <1>9, <2>1, <2>3 DEF MatchPayment, NoAllocation, NoPayment
    <2> QED
      BY <2>2, <2>4
  <1>10. CASE UNCHANGED vars
    BY <1>10 DEF vars
  <1> QED
    BY <1>1, <1>2, <1>3, <1>4, <1>5, <1>6, <1>7, <1>8, <1>9, <1>10 DEF Next
-----------------------------------------------------------------------------
(* How each action moves what payments and invoices hold.                  *)

\* allocate_payment, on its own or within a match, moves x from payment k to
\* invoice a and nothing else.
LEMMA AllocateMoves ==
    ASSUME RowsInv, RowsInv', NEW j \in Rows, NEW k \in Keys, NEW a \in Invoices, NEW x \in Amounts,
           AllocatePayment(j, k, a, x) \/ MatchPayment(j, k, a, x)
    PROVE  /\ \A i \in Keys : Held(i)' = IF i = k THEN Held(i) + x ELSE Held(i)
           /\ \A b \in Invoices : Settled(b)' = IF b = a THEN Settled(b) + x ELSE Settled(b)
  <1>1. allocations[j] = NoAllocation /\ x > 0 /\ x \in Int
    BY DEF AllocatePayment, MatchPayment, IsNextRow
  <1>2. allocations'[j] = [payment |-> k, invoice |-> a, amount |-> x, reversed |-> 0]
    BY DEF AllocatePayment, MatchPayment, RowsInv, TypeOK
  <1>3. \A i \in Rows : i # j => allocations'[i] = allocations[i]
    BY DEF AllocatePayment, MatchPayment, RowsInv, TypeOK
  <1>4. ASSUME NEW i \in Keys PROVE Held(i)' = IF i = k THEN Held(i) + x ELSE Held(i)
    <2>1. ByPayment(allocations, i)[j] = 0 /\ ByPayment(allocations', i)[j] = IF i = k THEN x ELSE 0
      BY <1>1, <1>2 DEF ByPayment, Cash, NoAllocation
    <2>2. Sum(ByPayment(allocations', i)) = Sum(ByPayment(allocations, i)) + (ByPayment(allocations', i)[j] - ByPayment(allocations, i)[j])
      BY <1>3, RowsInvFacts, RowsInvFactsNext, OneRowChanges DEF RowsFacts
    <2>3. Held(i)' = Sum(ByPayment(allocations', i)) /\ Held(i) = Sum(ByPayment(allocations, i)) /\ Held(i) \in Nat
      BY RowsInvFacts, RowsInvFactsNext DEF RowsFacts
    <2> QED
      BY <1>1, <2>1, <2>2, <2>3
  <1>5. ASSUME NEW b \in Invoices PROVE Settled(b)' = IF b = a THEN Settled(b) + x ELSE Settled(b)
    <2>1. ByInvoice(allocations, b)[j] = 0 /\ ByInvoice(allocations', b)[j] = IF b = a THEN x ELSE 0
      BY <1>1, <1>2 DEF ByInvoice, Cash, NoAllocation, Invoices
    <2>2. Sum(ByInvoice(allocations', b)) = Sum(ByInvoice(allocations, b)) + (ByInvoice(allocations', b)[j] - ByInvoice(allocations, b)[j])
      BY <1>3, RowsInvFacts, RowsInvFactsNext, OneRowChanges DEF RowsFacts
    <2>3. Settled(b)' = Sum(ByInvoice(allocations', b)) /\ Settled(b) = Sum(ByInvoice(allocations, b)) /\ Settled(b) \in Nat
      BY RowsInvFacts, RowsInvFactsNext DEF RowsFacts
    <2> QED
      BY <1>1, <2>1, <2>2, <2>3
  <1> QED
    BY <1>4, <1>5

\* reverse_allocation moves x back from the row's invoice to its payment.
LEMMA ReverseMoves ==
    ASSUME RowsInv, RowsInv', NEW j \in Rows, NEW x \in Amounts, ReverseAllocation(j, x)
    PROVE  /\ \A i \in Keys : Held(i)' = IF i = allocations[j].payment THEN Held(i) - x ELSE Held(i)
           /\ \A b \in Invoices : Settled(b)' = IF b = allocations[j].invoice THEN Settled(b) - x ELSE Settled(b)
  <1>1. x > 0 /\ x \in Int /\ allocations[j].amount \in Nat /\ allocations[j].reversed \in Nat
    BY DEF ReverseAllocation, RowsInv, TypeOK
  <1>2. allocations'[j] = [allocations[j] EXCEPT !.reversed = allocations[j].reversed + x]
    BY DEF ReverseAllocation, RowsInv, TypeOK
  <1>3. \A i \in Rows : i # j => allocations'[i] = allocations[i]
    BY DEF ReverseAllocation, RowsInv, TypeOK
  <1>4. /\ allocations'[j].payment = allocations[j].payment
        /\ allocations'[j].invoice = allocations[j].invoice
        /\ Cash(allocations'[j]) = Cash(allocations[j]) - x
        /\ Cash(allocations[j]) \in Int
    BY <1>1, <1>2 DEF Cash, RowsInv, TypeOK
  <1>5. ASSUME NEW i \in Keys PROVE Held(i)' = IF i = allocations[j].payment THEN Held(i) - x ELSE Held(i)
    <2>1. ByPayment(allocations', i)[j] - ByPayment(allocations, i)[j] = IF i = allocations[j].payment THEN 0 - x ELSE 0
      BY <1>1, <1>4 DEF ByPayment
    <2>2. Sum(ByPayment(allocations', i)) = Sum(ByPayment(allocations, i)) + (ByPayment(allocations', i)[j] - ByPayment(allocations, i)[j])
      BY <1>3, RowsInvFacts, RowsInvFactsNext, OneRowChanges DEF RowsFacts
    <2>3. Held(i)' = Sum(ByPayment(allocations', i)) /\ Held(i) = Sum(ByPayment(allocations, i)) /\ Held(i) \in Nat
      BY RowsInvFacts, RowsInvFactsNext DEF RowsFacts
    <2> QED
      BY <1>1, <2>1, <2>2, <2>3
  <1>6. ASSUME NEW b \in Invoices PROVE Settled(b)' = IF b = allocations[j].invoice THEN Settled(b) - x ELSE Settled(b)
    <2>1. ByInvoice(allocations', b)[j] - ByInvoice(allocations, b)[j] = IF b = allocations[j].invoice THEN 0 - x ELSE 0
      BY <1>1, <1>4 DEF ByInvoice
    <2>2. Sum(ByInvoice(allocations', b)) = Sum(ByInvoice(allocations, b)) + (ByInvoice(allocations', b)[j] - ByInvoice(allocations, b)[j])
      BY <1>3, RowsInvFacts, RowsInvFactsNext, OneRowChanges DEF RowsFacts
    <2>3. Settled(b)' = Sum(ByInvoice(allocations', b)) /\ Settled(b) = Sum(ByInvoice(allocations, b)) /\ Settled(b) \in Nat
      BY RowsInvFacts, RowsInvFactsNext DEF RowsFacts
    <2> QED
      BY <1>1, <2>1, <2>2, <2>3
  <1> QED
    BY <1>5, <1>6

\* reverse_payment empties the payment and frees that much cash of invoices.
LEMMA PaymentReversalMoves ==
    ASSUME RowsInv, RowsInv', NEW k \in Keys, ReversePayment(k)
    PROVE  /\ \A i \in Keys : Held(i)' = IF i = k THEN 0 ELSE Held(i)
           /\ \A b \in Invoices : /\ Settled(b) = Settled(b)' + FreedTotals(allocations, k)[b]
                                  /\ FreedTotals(allocations, k)[b] \in Nat
                                  /\ StudentOf[b] # payments[k].student => FreedTotals(allocations, k)[b] = 0
           /\ Total(FreedTotals(allocations, k), NInvoices) = Held(k)
           /\ FreedTotals(allocations, k) \in [Invoices -> Int]
  <1>1. allocations' = Emptied(allocations, k)
    BY DEF ReversePayment, Emptied
  <1>2. ASSUME NEW i \in Keys PROVE Held(i)' = IF i = k THEN 0 ELSE Held(i)
    BY <1>1, RowsInvFacts, RowsInvFactsNext, EmptiedSums DEF RowsFacts
  <1>3. ASSUME NEW b \in Invoices
        PROVE  /\ Settled(b) = Settled(b)' + FreedTotals(allocations, k)[b]
               /\ FreedTotals(allocations, k)[b] \in Nat
    BY <1>1, RowsInvFacts, RowsInvFactsNext, EmptiedSums DEF RowsFacts, FreedTotals
  <1>4. ASSUME NEW b \in Invoices, StudentOf[b] # payments[k].student
        PROVE  FreedTotals(allocations, k)[b] = 0
    <2>1. ASSUME NEW j \in Rows PROVE Freed(allocations, k, b)[j] = 0
      BY <1>4 DEF Freed, ByPayment, RowsInv, RowsWellFormed, NoAllocation
    <2>2. Freed(allocations, k, b) \in [Rows -> Int]
      BY RowsInvFacts, RowsInvFactsNext, EmptiedSums DEF RowsFacts
    <2>3. Sum(Freed(allocations, k, b)) = 0
      BY <2>1, <2>2, TotalZero DEF Sum, Rows
    <2> QED
      BY <2>3 DEF FreedTotals
  <1>5. /\ Total(FreedTotals(allocations, k), NInvoices) = Held(k)
        /\ FreedTotals(allocations, k) \in [Invoices -> Int]
    BY RowsInvFacts, RowsInvFactsNext, FreedIsHeld DEF RowsFacts
  <1> QED
    BY <1>2, <1>3, <1>4, <1>5

\* Actions that leave the allocation table alone move no cash.
LEMMA NothingMoves ==
    ASSUME allocations' = allocations
    PROVE  /\ \A i : Held(i)' = Held(i)
           /\ \A b : Settled(b)' = Settled(b)
  BY DEF Held, Settled, Net

-----------------------------------------------------------------------------
(* The three money invariants, each preserved given the ones before it.    *)

\* No service call overspends a payment; only AllocatePayment adds to what
\* a payment holds, and its first bound is the room left.
LEMMA CashStep ==
    ASSUME RowsInv, RowsInv', CashIsConserved, [Next]_vars
    PROVE  CashIsConserved'
  <1>0. /\ \A i \in Keys : payments[i].amount \in Nat /\ payments'[i].amount \in Nat
        /\ \A i \in Keys : Held(i) \in Nat /\ Held(i)' \in Nat
    BY RowsInvFacts, RowsInvFactsNext DEF RowsFacts, RowsInv, TypeOK
  <1>1. CASE payments' = payments /\ allocations' = allocations
    BY <1>1, NothingMoves DEF CashIsConserved
  <1>2. ASSUME NEW k \in Keys, NEW s \in Students, NEW x \in Amounts, RecordPayment(k, s, x)
        PROVE  CashIsConserved'
    <2>1. \A i \in Keys : Held(i)' = Held(i)
      BY <1>2, NothingMoves DEF RecordPayment
    <2>2. \A i \in Keys : i # k => payments'[i] = payments[i]
      BY <1>2 DEF RecordPayment, RowsInv, TypeOK
    <2>3. payments'[k].status = "RECEIVED" /\ payments[k].amount = 0
      BY <1>2 DEF RecordPayment, RowsInv, TypeOK, NoPayment
    <2>4. Held(k)' <= payments'[k].amount
      BY <1>0, <2>1, <2>3 DEF CashIsConserved
    <2> QED
      BY <2>1, <2>2, <2>3, <2>4 DEF CashIsConserved
  <1>3. ASSUME NEW j \in Rows, NEW k \in Keys, NEW a \in Invoices, NEW x \in Amounts,
               AllocatePayment(j, k, a, x)
        PROVE  CashIsConserved'
    <2>1. \A i \in Keys : Held(i)' = IF i = k THEN Held(i) + x ELSE Held(i)
      BY <1>3, AllocateMoves
    <2>2. payments' = payments /\ payments[k].status = "RECEIVED" /\ x <= payments[k].amount - Held(k) /\ x \in Int
      BY <1>3 DEF AllocatePayment, Available
    <2> QED
      BY <1>0, <2>1, <2>2 DEF CashIsConserved
  <1>4. ASSUME NEW j \in Rows, NEW x \in Amounts, ReverseAllocation(j, x)
        PROVE  CashIsConserved'
    <2>1. \A i \in Keys : Held(i)' = IF i = allocations[j].payment THEN Held(i) - x ELSE Held(i)
      BY <1>4, ReverseMoves
    <2>2. payments' = payments /\ x > 0 /\ x \in Int
      BY <1>4 DEF ReverseAllocation
    <2> QED
      BY <1>0, <2>1, <2>2 DEF CashIsConserved
  <1>5. ASSUME NEW k \in Keys, ReversePayment(k)
        PROVE  CashIsConserved'
    <2>1. \A i \in Keys : Held(i)' = IF i = k THEN 0 ELSE Held(i)
      BY <1>5, PaymentReversalMoves
    <2>2. \A i \in Keys : i # k => payments'[i] = payments[i]
      BY <1>5 DEF ReversePayment, RowsInv, TypeOK
    <2> QED
      BY <1>0, <2>1, <2>2 DEF CashIsConserved
  <1>6. ASSUME NEW j \in Rows, NEW k \in Keys, NEW a \in Invoices, NEW x \in Amounts,
               MatchPayment(j, k, a, x)
        PROVE  CashIsConserved'
    <2>1. \A i \in Keys : Held(i)' = IF i = k THEN Held(i) + x ELSE Held(i)
      BY <1>6, AllocateMoves
    <2>2. \A i \in Keys : i # k => payments'[i] = payments[i]
      BY <1>6 DEF MatchPayment, RowsInv, TypeOK
    <2>3. payments'[k].status = "RECEIVED" /\ payments'[k].amount = x /\ payments[k].amount = 0 /\ x \in Int
      BY <1>6 DEF MatchPayment, RowsInv, TypeOK, NoPayment
    <2>4. Held(k)' <= payments'[k].amount
      BY <1>0, <2>1, <2>3 DEF CashIsConserved
    <2> QED
      BY <2>1, <2>2, <2>3, <2>4 DEF CashIsConserved
  <1> QED
    BY <1>1, <1>2, <1>3, <1>4, <1>5, <1>6
       DEF Next, vars, GenerateInvoice, IssueInvoice, IssueCreditNote, IssueOpenCredit

\* No service call settles an invoice beyond its total; credit notes only
\* lower the bound AllocatePayment uses.
LEMMA SettledStep ==
    ASSUME RowsInv, RowsInv', InvoicesNotOverpaid, [Next]_vars
    PROVE  InvoicesNotOverpaid'
  <1>0. /\ \A b \in Invoices : invoices[b].total \in Nat /\ invoices'[b].total \in Nat
        /\ \A b \in Invoices : Settled(b) \in Nat /\ Settled(b)' \in Nat /\ credited[b] \in Nat
    BY RowsInvFacts, RowsInvFactsNext DEF RowsFacts, RowsInv, TypeOK
  <1>1. CASE invoices' = invoices /\ allocations' = allocations
    BY <1>1, NothingMoves DEF InvoicesNotOverpaid
  <1>2. ASSUME NEW a \in Invoices, NEW x \in Amounts, GenerateInvoice(a, x)
        PROVE  InvoicesNotOverpaid'
    <2>1. \A b \in Invoices : Settled(b)' = Settled(b)
      BY <1>2, NothingMoves DEF GenerateInvoice
    <2>2. \A b \in Invoices : b # a => invoices'[b] = invoices[b]
      BY <1>2 DEF GenerateInvoice, RowsInv, TypeOK
    <2>3. Settled(a) = 0
      BY <1>0, <1>2 DEF GenerateInvoice, NoInvoice, InvoicesNotOverpaid
    <2> QED
      BY <1>0, <2>1, <2>2, <2>3 DEF InvoicesNotOverpaid
  <1>3. ASSUME NEW a \in Invoices, IssueInvoice(a)
        PROVE  InvoicesNotOverpaid'
    <2>1. \A b \in Invoices : Settled(b)' = Settled(b)
      BY <1>3, NothingMoves DEF IssueInvoice
    <2>2. \A b \in Invoices : invoices'[b].total = invoices[b].total /\ (invoices[b].status = "ISSUED" => invoices'[b].status = "ISSUED")
      BY <1>3 DEF IssueInvoice, RowsInv, TypeOK
    <2> QED
      BY <2>1, <2>2 DEF InvoicesNotOverpaid
  <1>4. ASSUME NEW j \in Rows, NEW k \in Keys, NEW a \in Invoices, NEW x \in Amounts,
               AllocatePayment(j, k, a, x) \/ MatchPayment(j, k, a, x)
        PROVE  InvoicesNotOverpaid'
    <2>1. \A b \in Invoices : Settled(b)' = IF b = a THEN Settled(b) + x ELSE Settled(b)
      BY <1>4, AllocateMoves
    <2>2. invoices' = invoices /\ invoices[a].status = "ISSUED" /\ x \in Int
      BY <1>4 DEF AllocatePayment, MatchPayment
    <2>3. x <= invoices[a].total - credited[a] - Settled(a)
      BY <1>4 DEF AllocatePayment, MatchPayment, Outstanding
    <2>4. Settled(a) + x <= invoices[a].total
      BY <1>0, <2>2, <2>3
    <2> QED
      BY <2>1, <2>2, <2>4 DEF InvoicesNotOverpaid
  <1>5. ASSUME NEW j \in Rows, NEW x \in Amounts, ReverseAllocation(j, x)
        PROVE  InvoicesNotOverpaid'
    <2>1. \A b \in Invoices : Settled(b)' = IF b = allocations[j].invoice THEN Settled(b) - x ELSE Settled(b)
      BY <1>5, ReverseMoves
    <2>2. invoices' = invoices /\ x > 0 /\ x \in Int
      BY <1>5 DEF ReverseAllocation
    <2> QED
      BY <1>0, <2>1, <2>2 DEF InvoicesNotOverpaid
  <1>6. ASSUME NEW k \in Keys, ReversePayment(k)
        PROVE  InvoicesNotOverpaid'
    <2>1. \A b \in Invoices : Settled(b)' <= Settled(b)
      <3>1. ASSUME NEW b \in Invoices PROVE Settled(b)' <= Settled(b)
        <4>1. Settled(b) = Settled(b)' + FreedTotals(allocations, k)[b] /\ FreedTotals(allocations, k)[b] \in Nat
          BY <1>6, PaymentReversalMoves
        <4> QED
          BY <1>0, <4>1
      <3> QED
        BY <3>1
    <2>2. invoices' = invoices
      BY <1>6 DEF ReversePayment
    <2> QED
      BY <1>0, <2>1, <2>2 DEF InvoicesNotOverpaid
  <1> QED
    BY <1>1, <1>2, <1>3, <1>4, <1>5, <1>6
       DEF Next, vars, IssueCreditNote, IssueOpenCredit, RecordPayment

-----------------------------------------------------------------------------
(* Reconciliation.  MoneyInv is what it is preserved under.                *)

MoneyInv == RowsInv /\ CashIsConserved /\ InvoicesNotOverpaid

OfStudent(s, f) == [a \in Invoices |-> IF StudentOf[a] = s THEN f[a] ELSE 0]

DueTyped == Due \in [Invoices -> Int]

\* What an invoice adds to the debt is an integer.
LEMMA DueInt == RowsInv => DueTyped
  BY RowsInvFacts DEF RowsFacts, Due, RowsInv, TypeOK, DueTyped

\* The same of the state after a step.
LEMMA DueIntNext == RowsInv' => DueTyped'
  BY DueInt, PTL

\* The sum over a student's invoices is an integer.
LEMMA OverInvoicesInt ==
    ASSUME NEW f \in [Invoices -> Int], NEW s
    PROVE  OverInvoicesOf(s, f) \in Int
  <1>1. OfStudent(s, f) \in [1..NInvoices -> Int]
    BY DEF OfStudent, Invoices
  <1> QED
    BY <1>1, TotalType DEF OverInvoicesOf, OfStudent

\* Changing what one invoice adds moves its student's sum by the difference.
LEMMA OneInvoiceChanges ==
    ASSUME NEW f \in [Invoices -> Int], NEW g \in [Invoices -> Int], NEW a \in Invoices,
           \A b \in Invoices : b # a => g[b] = f[b], NEW s
    PROVE  OverInvoicesOf(s, g) = OverInvoicesOf(s, f) + (IF StudentOf[a] = s THEN g[a] - f[a] ELSE 0)
  <1>1. /\ OfStudent(s, f) \in [1..NInvoices -> Int]
        /\ OfStudent(s, g) \in [1..NInvoices -> Int]
        /\ a \in 1..NInvoices
    BY DEF OfStudent, Invoices
  <1>2. \A b \in 1..NInvoices : b # a => OfStudent(s, g)[b] = OfStudent(s, f)[b]
    BY DEF OfStudent, Invoices
  <1>3. Total(OfStudent(s, g), NInvoices)
        = Total(OfStudent(s, f), NInvoices) + (OfStudent(s, g)[a] - OfStudent(s, f)[a])
    BY <1>1, <1>2, TotalUpdate
  <1>4. OfStudent(s, g)[a] - OfStudent(s, f)[a] = IF StudentOf[a] = s THEN g[a] - f[a] ELSE 0
    BY DEF OfStudent
  <1> QED
    BY <1>3, <1>4 DEF OverInvoicesOf, OfStudent

\* Adding cash of one student's invoices moves her sum by all of it.
LEMMA ManyInvoicesChange ==
    ASSUME NEW f \in [Invoices -> Int], NEW g \in [Invoices -> Int], NEW e \in [Invoices -> Int],
           \A b \in Invoices : g[b] = f[b] + e[b],
           NEW t \in Students, \A b \in Invoices : StudentOf[b] # t => e[b] = 0, NEW s
    PROVE  OverInvoicesOf(s, g) = OverInvoicesOf(s, f) + (IF s = t THEN Total(e, NInvoices) ELSE 0)
  <1>1. /\ OfStudent(s, f) \in [1..NInvoices -> Int]
        /\ OfStudent(s, g) \in [1..NInvoices -> Int]
        /\ OfStudent(s, e) \in [1..NInvoices -> Int]
    BY DEF OfStudent, Invoices
  <1>2. \A b \in 1..NInvoices : OfStudent(s, g)[b] = OfStudent(s, f)[b] + OfStudent(s, e)[b]
    BY DEF OfStudent, Invoices
  <1>3. Total(OfStudent(s, g), NInvoices) = Total(OfStudent(s, f), NInvoices) + Total(OfStudent(s, e), NInvoices)
    BY <1>1, <1>2, TotalAdd
  <1>4. Total(OfStudent(s, e), NInvoices) = IF s = t THEN Total(e, NInvoices) ELSE 0
    <2>1. CASE s = t
      <3>1. OfStudent(s, e) = e
        BY <2>1 DEF OfStudent
      <3> QED
        BY <2>1, <3>1
    <2>2. CASE s # t
      <3>1. \A b \in 1..NInvoices : OfStudent(s, e)[b] = 0
        BY <2>2 DEF OfStudent, Invoices
      <3> QED
        BY <1>1, <2>2, <3>1, TotalZero
    <2> QED
      BY <2>1, <2>2
  <1> QED
    BY <1>3, <1>4 DEF OverInvoicesOf, OfStudent

\* Every service call posts to the ledger exactly what it changes in the
\* documents.
LEMMA ReconcileStep ==
    ASSUME MoneyInv, RowsInv', LedgerReconciles, [Next]_vars
    PROVE  LedgerReconciles'
  <1>0. /\ RowsInv
        /\ Due \in [Invoices -> Int] /\ Due' \in [Invoices -> Int]
        /\ \A s \in Students : OverInvoicesOf(s, Due) \in Int
        /\ \A s \in Students : debits[s] \in Int /\ credits[s] \in Int /\ openCredits[s] \in Int
        /\ \A b \in Invoices : /\ invoices[b].total \in Int /\ credited[b] \in Int
                               /\ Settled(b) \in Nat /\ Settled(b)' \in Nat /\ StudentOf[b] \in Students
    <2>1. RowsInv
      BY DEF MoneyInv
    <2>2. Due \in [Invoices -> Int] /\ Due' \in [Invoices -> Int]
      BY <2>1, DueInt, DueIntNext DEF DueTyped
    <2>3. \A s \in Students : OverInvoicesOf(s, Due) \in Int
      BY <2>2, OverInvoicesInt
    <2> QED
      BY <2>1, <2>2, <2>3, RowsInvFacts, RowsInvFactsNext DEF RowsFacts, RowsInv, TypeOK
  <1>1. ASSUME UNCHANGED <<debits, credits, openCredits>>, Due' = Due PROVE LedgerReconciles'
    BY <1>1 DEF LedgerReconciles, StudentBalance
  <1>2. ASSUME NEW a \in Invoices, NEW x \in Int, \A b \in Invoices : b # a => Due'[b] = Due[b],
               Due'[a] = Due[a] + x, openCredits' = openCredits,
               \A s \in Students : debits'[s] - credits'[s]
                                   = debits[s] - credits[s] + (IF s = StudentOf[a] THEN x ELSE 0)
        PROVE  LedgerReconciles'
    <2>1. ASSUME NEW s \in Students PROVE StudentBalance(s)' = OverInvoicesOf(s, Due)' - openCredits'[s]
      <3>1. OverInvoicesOf(s, Due') = OverInvoicesOf(s, Due) + (IF StudentOf[a] = s THEN Due'[a] - Due[a] ELSE 0)
        BY <1>0, <1>2, OneInvoiceChanges
      <3>2. Due'[a] - Due[a] = x
        BY <1>0, <1>2
      <3>3. debits[s] - credits[s] = OverInvoicesOf(s, Due) - openCredits[s]
        BY DEF LedgerReconciles, StudentBalance
      <3>4. debits'[s] - credits'[s] = OverInvoicesOf(s, Due') - openCredits[s]
        BY <1>0, <1>2, <3>1, <3>2, <3>3
      <3> QED
        BY <1>2, <3>4 DEF StudentBalance, OverInvoicesOf
    <2> QED
      BY <2>1 DEF LedgerReconciles
  <1>3. ASSUME NEW a \in Invoices, NEW x \in Amounts, GenerateInvoice(a, x) PROVE LedgerReconciles'
    <2>1. \A b \in Invoices : Settled(b)' = Settled(b)
      BY <1>3, NothingMoves DEF GenerateInvoice
    <2>2. ASSUME NEW b \in Invoices PROVE Due'[b] = Due[b]
      BY <1>0, <1>3, <2>1 DEF GenerateInvoice, NoInvoice, Due, Outstanding, RowsInv, TypeOK
    <2>3. Due' = Due
      BY <2>2 DEF Due
    <2> QED
      BY <1>1, <1>3, <2>3 DEF GenerateInvoice
  <1>4. ASSUME NEW a \in Invoices, IssueInvoice(a) PROVE LedgerReconciles'
    <2>1. \A b \in Invoices : Settled(b)' = Settled(b)
      BY <1>4, NothingMoves DEF IssueInvoice
    <2>2. Settled(a) = 0
      BY <1>0, <1>4 DEF IssueInvoice, MoneyInv, InvoicesNotOverpaid
    <2>3. Due'[a] = Due[a] + invoices[a].total
      <3>1. Due[a] = 0 - credited[a]
        BY <1>4 DEF IssueInvoice, Due
      <3>2. invoices'[a].status = "ISSUED" /\ invoices'[a].total = invoices[a].total /\ credited' = credited
        BY <1>4 DEF IssueInvoice, RowsInv, TypeOK, MoneyInv
      <3>3. Due'[a] = invoices[a].total - credited[a] - Settled(a)'
        BY <3>2 DEF Due, Outstanding
      <3> QED
        BY <1>0, <2>1, <2>2, <3>1, <3>3
    <2>4. ASSUME NEW b \in Invoices, b # a PROVE Due'[b] = Due[b]
      <3>1. invoices'[b] = invoices[b] /\ credited' = credited
        BY <1>4, <2>4 DEF IssueInvoice, RowsInv, TypeOK, MoneyInv
      <3> QED
        BY <2>1, <3>1 DEF Due, Outstanding
    <2>5. \A s \in Students : debits'[s] - credits'[s]
               = debits[s] - credits[s] + (IF s = StudentOf[a] THEN invoices[a].total ELSE 0)
      BY <1>0, <1>4 DEF IssueInvoice, RowsInv, TypeOK
    <2> QED
      BY <1>0, <1>2, <1>4, <2>3, <2>4, <2>5 DEF IssueInvoice
  <1>5. ASSUME NEW a \in Invoices, NEW x \in Amounts, IssueCreditNote(a, x) PROVE LedgerReconciles'
    <2>1. \A b \in Invoices : Settled(b)' = Settled(b)
      BY <1>5, NothingMoves DEF IssueCreditNote
    <2>2. invoices' = invoices /\ credited'[a] = credited[a] + x /\ x \in Int /\ 0 - x \in Int
          /\ \A b \in Invoices : b # a => credited'[b] = credited[b]
      BY <1>5 DEF IssueCreditNote, RowsInv, TypeOK, MoneyInv
    <2>3. Due'[a] = Due[a] + (0 - x)
      BY <1>0, <2>1, <2>2 DEF Due, Outstanding
    <2>4. \A b \in Invoices : b # a => Due'[b] = Due[b]
      BY <2>1, <2>2 DEF Due, Outstanding
    <2>5. \A s \in Students : debits'[s] - credits'[s]
               = debits[s] - credits[s] + (IF s = StudentOf[a] THEN 0 - x ELSE 0)
      BY <1>0, <1>5 DEF IssueCreditNote, RowsInv, TypeOK
    <2> QED
      BY <1>2, <1>5, <2>2, <2>3, <2>4, <2>5 DEF IssueCreditNote
  <1>6. ASSUME NEW t \in Students, NEW x \in Amounts, IssueOpenCredit(t, x) PROVE LedgerReconciles'
    <2>1. \A b \in Invoices : Settled(b)' = Settled(b)
      BY <1>6, NothingMoves DEF IssueOpenCredit
    <2>2. Due' = Due
      BY <1>6, <2>1 DEF IssueOpenCredit, Due, Outstanding
    <2>3. ASSUME NEW s \in Students
          PROVE  debits'[s] - credits'[s] = OverInvoicesOf(s, Due) - openCredits'[s]
      <3>1. debits[s] - credits[s] = OverInvoicesOf(s, Due) - openCredits[s]
        BY DEF LedgerReconciles, StudentBalance
      <3>2. /\ debits' = debits /\ x \in Int
            /\ credits'[s] = IF s = t THEN credits[s] + x ELSE credits[s]
            /\ openCredits'[s] = IF s = t THEN openCredits[s] + x ELSE openCredits[s]
        BY <1>0, <1>6 DEF IssueOpenCredit, RowsInv, TypeOK
      <3> QED
        BY <1>0, <3>1, <3>2
    <2> QED
      BY <2>2, <2>3 DEF LedgerReconciles, StudentBalance, OverInvoicesOf
  <1>7. ASSUME NEW k \in Keys, NEW s \in Students, NEW x \in Amounts, RecordPayment(k, s, x)
        PROVE  LedgerReconciles'
    <2>1. \A b \in Invoices : Settled(b)' = Settled(b)
      BY <1>7, NothingMoves DEF RecordPayment
    <2>2. Due' = Due
      BY <1>7, <2>1 DEF RecordPayment, Due, Outstanding
    <2> QED
      BY <1>1, <1>7, <2>2 DEF RecordPayment
  <1>8. ASSUME NEW j \in Rows, NEW k \in Keys, NEW a \in Invoices, NEW x \in Amounts,
               AllocatePayment(j, k, a, x) \/ MatchPayment(j, k, a, x)
        PROVE  LedgerReconciles'
    <2>1. \A b \in Invoices : Settled(b)' = IF b = a THEN Settled(b) + x ELSE Settled(b)
      BY <1>0, <1>8, AllocateMoves
    <2>2. /\ invoices' = invoices /\ credited' = credited /\ invoices[a].status = "ISSUED"
          /\ x \in Int /\ 0 - x \in Int
      <3>1. x \in Int /\ 0 - x \in Int
        OBVIOUS
      <3> QED
        BY <1>8, <3>1 DEF AllocatePayment, MatchPayment
    <2>3. Due'[a] = Due[a] + (0 - x)
      BY <1>0, <2>1, <2>2 DEF Due, Outstanding
    <2>4. \A b \in Invoices : b # a => Due'[b] = Due[b]
      BY <2>1, <2>2 DEF Due, Outstanding
    <2>5. \A s \in Students : debits'[s] - credits'[s]
               = debits[s] - credits[s] + (IF s = StudentOf[a] THEN 0 - x ELSE 0)
      <3>1. /\ debits' = debits /\ credits \in [Students -> Nat]
            /\ credits' = [credits EXCEPT ![StudentOf[a]] = credits[StudentOf[a]] + x]
        BY <1>0, <1>8 DEF AllocatePayment, MatchPayment, RowsInv, TypeOK
      <3> QED
        BY <1>0, <2>2, <3>1
    <2> QED
      BY <1>2, <1>8, <2>2, <2>3, <2>4, <2>5 DEF AllocatePayment, MatchPayment
  <1>9. ASSUME NEW j \in Rows, NEW x \in Amounts, ReverseAllocation(j, x) PROVE LedgerReconciles'
    <2> DEFINE a == allocations[j].invoice
    <2>0. /\ a \in Invoices /\ invoices[a].status = "ISSUED"
          /\ payments[allocations[j].payment].student = StudentOf[a]
      BY <1>0, <1>9 DEF ReverseAllocation, RowsInv, RowsWellFormed
    <2>1. \A b \in Invoices : Settled(b)' = IF b = a THEN Settled(b) - x ELSE Settled(b)
      BY <1>0, <1>9, ReverseMoves
    <2>2. invoices' = invoices /\ credited' = credited /\ x \in Int
      BY <1>9 DEF ReverseAllocation
    <2>5. \A s \in Students : debits'[s] - credits'[s]
               = debits[s] - credits[s] + (IF s = StudentOf[a] THEN x ELSE 0)
      BY <1>0, <1>9, <2>0, <2>2 DEF ReverseAllocation, RowsInv, TypeOK
    <2> HIDE DEF a
    <2>3. Due'[a] = Due[a] + x
      BY <1>0, <2>0, <2>1, <2>2 DEF Due, Outstanding
    <2>4. \A b \in Invoices : b # a => Due'[b] = Due[b]
      BY <2>1, <2>2 DEF Due, Outstanding
    <2> QED
      BY <1>2, <1>9, <2>0, <2>2, <2>3, <2>4, <2>5 DEF ReverseAllocation
  <1>10. ASSUME NEW k \in Keys, ReversePayment(k) PROVE LedgerReconciles'
    <2> DEFINE t == payments[k].student
    <2> DEFINE e == FreedTotals(allocations, k)
    <2>1. /\ \A b \in Invoices : Settled(b) = Settled(b)' + e[b] /\ e[b] \in Nat /\ (StudentOf[b] # t => e[b] = 0)
          /\ Total(e, NInvoices) = Held(k)
          /\ e \in [Invoices -> Int]
      BY <1>0, <1>10, PaymentReversalMoves
    <2>2. invoices' = invoices /\ credited' = credited /\ openCredits' = openCredits /\ credits' = credits
      BY <1>10 DEF ReversePayment
    <2>3. t \in Students
      BY <1>0, <1>10 DEF ReversePayment, RowsInv, RowsWellFormed
    <2>4. \A s \in Students : debits'[s] = IF s = t THEN debits[s] + Held(k) ELSE debits[s]
      BY <1>0, <1>10 DEF ReversePayment, RowsInv, TypeOK
    <2>5. Held(k) \in Int
      BY <1>0, RowsInvFacts DEF RowsFacts
    <2> HIDE DEF t, e
    <2>6. ASSUME NEW b \in Invoices PROVE Due'[b] = Due[b] + e[b]
      <3>1. CASE invoices[b].status = "ISSUED"
        BY <1>0, <2>1, <2>2, <3>1 DEF Due, Outstanding
      <3>2. CASE invoices[b].status # "ISSUED"
        <4>1. Settled(b) = 0
          BY <1>0, <3>2 DEF MoneyInv, InvoicesNotOverpaid
        <4>2. e[b] = 0
          BY <1>0, <2>1, <4>1
        <4>3. Due'[b] = Due[b] /\ Due[b] \in Int
          BY <1>0, <2>2, <3>2 DEF Due
        <4> QED
          BY <4>2, <4>3
      <3> QED
        BY <3>1, <3>2
    <2>7. ASSUME NEW s \in Students
          PROVE  debits'[s] - credits'[s] = OverInvoicesOf(s, Due') - openCredits'[s]
      <3>1. debits[s] - credits[s] = OverInvoicesOf(s, Due) - openCredits[s]
        BY DEF LedgerReconciles, StudentBalance
      <3>2. OverInvoicesOf(s, Due') = OverInvoicesOf(s, Due) + (IF s = t THEN Held(k) ELSE 0)
        <4>1. e \in [Invoices -> Int] /\ \A b \in Invoices : Due'[b] = Due[b] + e[b]
          BY <2>1, <2>6
        <4>2. \A b \in Invoices : StudentOf[b] # t => e[b] = 0
          BY <2>1
        <4>3. OverInvoicesOf(s, Due') = OverInvoicesOf(s, Due) + (IF s = t THEN Total(e, NInvoices) ELSE 0)
          BY <1>0, <2>3, <4>1, <4>2, ManyInvoicesChange
        <4> QED
          BY <2>1, <4>3
      <3>3. debits'[s] = IF s = t THEN debits[s] + Held(k) ELSE debits[s]
        BY <2>4
      <3> QED
        BY <1>0, <2>2, <2>5, <3>1, <3>2, <3>3
    <2> QED
      BY <2>7 DEF LedgerReconciles, StudentBalance, OverInvoicesOf
  <1>11. CASE UNCHANGED vars
    <2>1. \A b \in Invoices : Settled(b)' = Settled(b)
      BY <1>11, NothingMoves DEF vars
    <2>2. Due' = Due
      BY <1>11, <2>1 DEF vars, Due, Outstanding
    <2> QED
      BY <1>1, <1>11, <2>2 DEF vars
  <1> QED
    BY <1>3, <1>4, <1>5, <1>6, <1>7, <1>8, <1>9, <1>10, <1>11 DEF Next

-----------------------------------------------------------------------------
(* History.                                                                *)

\* No service call rewrites an existing row.
LEMMA HistoryOfStep ==
    ASSUME RowsInv, [Next]_vars
    PROVE  HistoryStep
  <1> DEFINE I == \A a \in Invoices : invoices[a] # NoInvoice =>
                      /\ invoices'[a].total = invoices[a].total
                      /\ invoices[a].status = "ISSUED" => invoices'[a].status = "ISSUED"
             P == \A k \in Keys : payments[k] # NoPayment =>
                      /\ payments'[k] = payments[k] \/ payments'[k] = [payments[k] EXCEPT !.status = "REVERSED"]
                      /\ payments[k].status = "REVERSED" => payments'[k] = payments[k]
             L == \A j \in Rows : allocations[j] # NoAllocation =>
                      /\ allocations'[j].reversed >= allocations[j].reversed
                      /\ allocations'[j] = [allocations[j] EXCEPT !.reversed = allocations'[j].reversed]
  <1> USE DEF RowsInv, TypeOK
  <1>1. invoices' = invoices => I
    OBVIOUS
  <1>2. payments' = payments => P
    OBVIOUS
  <1>3. allocations' = allocations => L
    OBVIOUS
  <1>4. ASSUME NEW a \in Invoices, NEW x \in Amounts, GenerateInvoice(a, x) PROVE I
    BY <1>4 DEF GenerateInvoice
  <1>5. ASSUME NEW a \in Invoices, IssueInvoice(a) PROVE I
    BY <1>5 DEF IssueInvoice
  <1>6. ASSUME NEW k \in Keys, \/ \E s \in Students, x \in Amounts : RecordPayment(k, s, x)
                                \/ \E j \in Rows, a \in Invoices, y \in Amounts : MatchPayment(j, k, a, y)
        PROVE  P
    BY <1>6 DEF RecordPayment, MatchPayment
  <1>7. ASSUME NEW k \in Keys, ReversePayment(k) PROVE P
    BY <1>7 DEF ReversePayment
  <1>8. ASSUME NEW j \in Rows, NEW k \in Keys, NEW a \in Invoices, NEW x \in Amounts,
               AllocatePayment(j, k, a, x) \/ MatchPayment(j, k, a, x)
        PROVE  L
    <2>1. allocations[j] = NoAllocation /\ \A i \in Rows : i # j => allocations'[i] = allocations[i]
      BY <1>8 DEF AllocatePayment, MatchPayment, IsNextRow
    <2> QED
      BY <2>1
  <1>9. ASSUME NEW j \in Rows, NEW x \in Amounts, ReverseAllocation(j, x) PROVE L
    <2>1. /\ allocations'[j] = [allocations[j] EXCEPT !.reversed = allocations[j].reversed + x]
          /\ \A i \in Rows : i # j => allocations'[i] = allocations[i]
          /\ x > 0 /\ x \in Int
      BY <1>9 DEF ReverseAllocation
    <2>2. /\ \A i \in Rows : allocations[i] = [allocations[i] EXCEPT !.reversed = allocations[i].reversed]
          /\ \A i \in Rows : allocations[i].reversed \in Nat
      OBVIOUS
    <2>3. allocations'[j].reversed = allocations[j].reversed + x
      BY <2>1
    <2>4. allocations'[j].reversed >= allocations[j].reversed
      BY <2>1, <2>2, <2>3
    <2>5. allocations'[j] = [allocations[j] EXCEPT !.reversed = allocations'[j].reversed]
      BY <2>1, <2>3
    <2>6. ASSUME NEW i \in Rows, i # j
          PROVE  /\ allocations'[i].reversed >= allocations[i].reversed
                 /\ allocations'[i] = [allocations[i] EXCEPT !.reversed = allocations'[i].reversed]
      <3>1. allocations'[i] = allocations[i]
        BY <2>1, <2>6
      <3>2. allocations'[i].reversed >= allocations[i].reversed
        BY <2>2, <3>1
      <3>3. allocations'[i] = [allocations[i] EXCEPT !.reversed = allocations'[i].reversed]
        BY <2>2, <3>1, Zenon
      <3> QED
        BY <3>2, <3>3
    <2> QED
      BY <2>4, <2>5, <2>6
  <1>10. ASSUME NEW k \in Keys, ReversePayment(k) PROVE L
    <2>1. \A i \in Rows : allocations[i].reversed <= allocations[i].amount
      BY DEF RowsWellFormed, NoAllocation
    <2>2. \A i \in Rows : allocations'[i] = IF allocations[i].payment = k
                                            THEN [allocations[i] EXCEPT !.reversed = allocations[i].amount]
                                            ELSE allocations[i]
      BY <1>10 DEF ReversePayment
    <2>3. ASSUME NEW i \in Rows
          PROVE  /\ allocations'[i].reversed >= allocations[i].reversed
                 /\ allocations'[i] = [allocations[i] EXCEPT !.reversed = allocations'[i].reversed]
      <3>1. /\ allocations[i] = [allocations[i] EXCEPT !.reversed = allocations[i].reversed]
            /\ allocations[i].reversed \in Nat /\ allocations[i].amount \in Nat
        OBVIOUS
      <3>2. CASE allocations[i].payment = k
        <4>1. allocations'[i] = [allocations[i] EXCEPT !.reversed = allocations[i].amount]
          BY <2>2, <3>2
        <4>2. allocations'[i].reversed = allocations[i].amount
          BY <4>1
        <4> QED
          BY <2>1, <4>1, <4>2
      <3>3. CASE allocations[i].payment # k
        <4>1. allocations'[i] = allocations[i]
          BY <2>2, <3>3
        <4>2. allocations'[i].reversed >= allocations[i].reversed
          BY <3>1, <4>1
        <4>3. allocations'[i] = [allocations[i] EXCEPT !.reversed = allocations'[i].reversed]
          BY <3>1, <4>1, Zenon
        <4> QED
          BY <4>2, <4>3
      <3> QED
        BY <3>2, <3>3
    <2> QED
      BY <2>3
  <1> HIDE DEF I, P, L, RowsInv, TypeOK
  <1>11. I
    BY <1>1, <1>4, <1>5
       DEF Next, vars, IssueCreditNote, IssueOpenCredit, RecordPayment, AllocatePayment, MatchPayment,
           ReverseAllocation, ReversePayment
  <1>12. P
    BY <1>2, <1>6, <1>7
       DEF Next, vars, GenerateInvoice, IssueInvoice, IssueCreditNote, IssueOpenCredit, AllocatePayment,
           ReverseAllocation
  <1>13. L
    BY <1>3, <1>8, <1>9, <1>10
       DEF Next, vars, GenerateInvoice, IssueInvoice, IssueCreditNote, IssueOpenCredit, RecordPayment
  <1> QED
    BY <1>11, <1>12, <1>13 DEF HistoryStep, I, P, L

-----------------------------------------------------------------------------
(* The theorems.  Inv is the inductive invariant: no part but RowsInv is   *)
(* inductive by itself, each needs the ones before it.                     *)

Inv == MoneyInv /\ LedgerReconciles

\* The empty ledger satisfies the inductive invariant.
LEMMA InitInv == Init => Inv
  <1> SUFFICES ASSUME Init PROVE Inv
    OBVIOUS
  <1>1. RowsInv
    BY InitRows
  <1>2. /\ \A j \in Rows : Cash(allocations[j]) = 0
        /\ \A i : ByPayment(allocations, i) \in [1..MaxAllocations -> Int]
        /\ \A b : ByInvoice(allocations, b) \in [1..MaxAllocations -> Int]
    <2>1. Sound(allocations)
      BY <1>1, RowsInvFacts DEF RowsFacts
    <2>2. \A j \in Rows : Cash(allocations[j]) = 0
      BY DEF Init, NoAllocation, Cash
    <2>3. ASSUME NEW i PROVE /\ ByPayment(allocations, i) \in [1..MaxAllocations -> Int]
                             /\ ByInvoice(allocations, i) \in [1..MaxAllocations -> Int]
      BY <2>1, SumTypes DEF Rows
    <2> QED
      BY <2>2, <2>3
  <1>3. ASSUME NEW i PROVE Held(i) = 0
    <2>1. \A j \in 1..MaxAllocations : ByPayment(allocations, i)[j] = 0
      BY <1>2 DEF ByPayment, Rows
    <2>2. Sum(ByPayment(allocations, i)) = 0
      BY <1>2, <2>1, TotalZero DEF Sum
    <2> QED
      BY <1>1, <2>2, RowsInvFacts DEF RowsFacts
  <1>4. ASSUME NEW b PROVE Settled(b) = 0
    <2>1. \A j \in 1..MaxAllocations : ByInvoice(allocations, b)[j] = 0
      BY <1>2 DEF ByInvoice, Rows
    <2>2. Sum(ByInvoice(allocations, b)) = 0
      BY <1>2, <2>1, TotalZero DEF Sum
    <2> QED
      BY <1>1, <2>2, RowsInvFacts DEF RowsFacts
  <1>5. CashIsConserved
    BY <1>3 DEF CashIsConserved, Init, NoPayment
  <1>6. InvoicesNotOverpaid
    BY <1>4 DEF InvoicesNotOverpaid, Init, NoInvoice
  <1>7. ASSUME NEW s \in Students PROVE StudentBalance(s) = OverInvoicesOf(s, Due) - openCredits[s]
    <2>1. \A b \in Invoices : Due[b] = 0
      BY DEF Init, Due, NoInvoice
    <2>2. /\ OfStudent(s, Due) \in [1..NInvoices -> Int]
          /\ \A b \in 1..NInvoices : OfStudent(s, Due)[b] = 0
      BY <2>1 DEF OfStudent, Invoices
    <2>3. OverInvoicesOf(s, Due) = 0
      BY <2>2, TotalZero DEF OverInvoicesOf, OfStudent
    <2> QED
      BY <2>3 DEF Init, StudentBalance
  <1> QED
    BY <1>1, <1>5, <1>6, <1>7 DEF Inv, MoneyInv, LedgerReconciles

\* The inductive invariant is preserved by every step.
LEMMA StepInv == Inv /\ [Next]_vars => Inv'
  <1> SUFFICES ASSUME Inv, [Next]_vars PROVE Inv'
    OBVIOUS
  <1>1. RowsInv /\ CashIsConserved /\ InvoicesNotOverpaid /\ MoneyInv /\ LedgerReconciles
    BY DEF Inv, MoneyInv
  <1>2. RowsInv'
    BY <1>1, RowsStep
  <1>3. CashIsConserved'
    BY <1>1, <1>2, CashStep
  <1>4. InvoicesNotOverpaid'
    BY <1>1, <1>2, SettledStep
  <1>5. LedgerReconciles'
    BY <1>1, <1>2, ReconcileStep
  <1> QED
    BY <1>2, <1>3, <1>4, <1>5 DEF Inv, MoneyInv

\* The inductive invariant holds in every reachable state.
LEMMA InvHolds == Spec => []Inv
  BY InitInv, StepInv, PTL DEF Spec

\* Every reachable ledger has the rows the models of apps/finance declare:
\* statuses, non-negative totals and references of the right kind.
THEOREM TypeCorrect == Spec => []TypeOK
  <1>1. Inv => TypeOK
    BY DEF Inv, MoneyInv, RowsInv
  <1> QED
    BY <1>1, InvHolds, PTL

\* Allocations always join a recorded payment and an ISSUED invoice of the
\* same student, and are never reversed beyond their amount.
THEOREM RowsStayWellFormed == Spec => []RowsWellFormed
  <1>1. Inv => RowsWellFormed
    BY DEF Inv, MoneyInv, RowsInv
  <1> QED
    BY <1>1, InvHolds, PTL

\* allocate_payment and the two reversals never make a payment fund more
\* than was received, and a reversed payment funds nothing.
THEOREM CashConserved == Spec => []CashIsConserved
  <1>1. Inv => CashIsConserved
    BY DEF Inv, MoneyInv
  <1> QED
    BY <1>1, InvHolds, PTL

\* No invoice ever holds more cash than it bills.
THEOREM NotOverpaid == Spec => []InvoicesNotOverpaid
  <1>1. Inv => InvoicesNotOverpaid
    BY DEF Inv, MoneyInv
  <1> QED
    BY <1>1, InvHolds, PTL

\* A student's ledger balance always equals what her documents leave due.
THEOREM Reconciles == Spec => []LedgerReconciles
  <1>1. Inv => LedgerReconciles
    BY DEF Inv
  <1> QED
    BY <1>1, InvHolds, PTL

\* No service call rewrites the money history of an existing row.
THEOREM HistoryKept == Spec => HistoryIsKept
  <1>1. Inv /\ [Next]_vars => [HistoryStep]_vars
    BY HistoryOfStep DEF Inv, MoneyInv
  <1> QED
    BY <1>1, InvHolds, PTL DEF Spec, HistoryIsKept, HistoryStep
=============================================================================
