----------------------- MODULE MCMpesaReconciliation -----------------------
(* Model values, bounds and callback bodies for TLC's runs of              *)
(* MpesaReconciliation.                                                    *)
EXTENDS MpesaReconciliation, TLC

CONSTANTS r1, r2, x1, s1, s2, c1, c2, w1, w2

MCStudentOf == [r \in Requests |-> s1]
MCAmountOf == [r \in Requests |-> 1]

Paid(r, x, a) == [kind |-> "stk", request |-> r, checkout |-> r, code |-> 0,
                  receipt |-> x, amount |-> a, reference |-> None]
\* Two prompts report the same receipt; one report has another amount; a failure;
\* an older URL that only names the checkout; a confirmation of the same receipt
\* with a reference to another student.
MCPayloads ==
    {Paid(r1, x1, 1), Paid(r2, x1, 1), [Paid(r1, x1, 1) EXCEPT !.request = None],
     [Paid(r1, x1, 1) EXCEPT !.code = 1, !.receipt = None],
     [NoPayload EXCEPT !.kind = "c2b", !.receipt = x1, !.amount = 1, !.reference = s2]}

\* A reachable state: s1 is admitted, r2's prompt was answered, and nothing else
\* has happened.
StartedSpec ==
    /\ roster = {s1}
    /\ incoming = [x \in Receipts |-> NoRow]
    /\ requests = [r \in Requests |-> IF r = r1 THEN NoRequest
                                      ELSE [NoRequest EXCEPT !.status = "PENDING", !.checkout = r]]
    /\ calls = [r \in Requests |-> IF r = r1 THEN "none" ELSE "over"]
    /\ prompts = [r \in Requests |-> IF r = r1 THEN 0 ELSE 1]
    /\ callbacks = [c \in Callbacks |-> NoCallback]
    /\ txns = [w \in Workers |-> Idle]
    /\ [][Next]_vars

MCSymmetry == Permutations({c1, c2}) \cup Permutations({w1, w2})
=============================================================================
