------------------------ MODULE MCLedgerTransactions ------------------------
(* Model values, bounds and starting states for TLC's runs of              *)
(* LedgerTransactions.                                                     *)
EXTENDS LedgerTransactions

CONSTANTS s1, k1, k2, k3, w1, w2

MCStudentOf == [a \in Invoices |-> s1]
\* A reachable state: two ISSUED invoices of 2 that two payments of 2 each
\* settle half of, crosswise, so that reversals of both payments meet on both
\* invoices in opposite order of their rows.  A key k3 is unused.
SettledInit ==
    /\ invoices = [a \in Invoices |-> [status |-> "ISSUED", total |-> 2]]
    /\ credited = [a \in Invoices |-> 0]
    /\ openCredits = [s \in Students |-> 0]
    /\ payments = [k \in Keys |-> IF k = k3 THEN Ledger!NoPayment
                                  ELSE [status |-> "RECEIVED", student |-> s1, amount |-> 2]]
    /\ allocations = [j \in Rows |->
           IF j > 4 THEN Ledger!NoAllocation
           ELSE [payment |-> IF j <= 2 THEN k1 ELSE k2, invoice |-> IF j \in {1, 4} THEN 1 ELSE 2,
                 amount |-> 1, reversed |-> 0]]
    /\ debits = [s \in Students |-> 4]
    /\ credits = [s \in Students |-> 4]
    /\ nextValue = [d \in DocumentTypes |-> IF d \in {"INVOICE", "RECEIPT"} THEN 3 ELSE 1]
    /\ numbered = [d \in DocumentTypes |-> IF d \in {"INVOICE", "RECEIPT"} THEN <<1, 2>> ELSE <<>>]
    /\ txns = [w \in Workers |-> Idle]

SettledFairSpec == SettledInit /\ [][Next]_vars /\ Fairness

MCSymmetry == Permutations({k1, k2}) \cup Permutations({w1, w2})
=============================================================================
