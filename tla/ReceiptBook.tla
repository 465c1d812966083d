---------------------------- MODULE ReceiptBook ----------------------------
(***************************************************************************)
(* What reconciliation promises, however callbacks, bursars and crashes    *)
(* interleave: a receipt is entered once with its amount and given to at   *)
(* most one student, for good; a collection request is decided once, and   *)
(* only by a receipt of its amount that is given to its student and        *)
(* completes no other request.                                             *)
(***************************************************************************)
EXTENDS Integers

CONSTANTS Receipts, Requests, Students, Amounts, None, StudentOf, AmountOf

VARIABLES
    receipts,   \* by receipt: its status, amount and the student credited
    outcomes    \* by request: whether it is open or decided, and by what

bookVars == <<receipts, outcomes>>

NoEntry == [status |-> "NONE", amount |-> 0, student |-> None]
Outcome(status, x) == [status |-> status, receipt |-> x]

BookInit ==
    /\ receipts = [x \in Receipts |-> NoEntry]
    /\ outcomes = [r \in Requests |-> Outcome("NONE", None)]

\* A receipt arrives, and may be given to a student at once.
Enter(x) ==
    /\ receipts[x] = NoEntry
    /\ \E a \in Amounts :
           \/ receipts' = [receipts EXCEPT ![x] = [status |-> "UNMATCHED", amount |-> a, student |-> None]]
           \/ \E s \in Students :
                  receipts' = [receipts EXCEPT ![x] = [status |-> "MATCHED", amount |-> a, student |-> s]]
    /\ UNCHANGED outcomes

Give(x, s) ==
    /\ receipts[x].status = "UNMATCHED"
    /\ receipts' = [receipts EXCEPT ![x] = [status |-> "MATCHED", amount |-> @.amount, student |-> s]]
    /\ UNCHANGED outcomes

SetAside(x) ==
    /\ receipts[x].status = "UNMATCHED"
    /\ receipts' = [receipts EXCEPT ![x].status = "IGNORED"]
    /\ UNCHANGED outcomes

Ask(r) ==
    /\ outcomes[r].status = "NONE"
    /\ outcomes' = [outcomes EXCEPT ![r] = Outcome("OPEN", None)]
    /\ UNCHANGED receipts

Refuse(r) ==
    /\ outcomes[r].status = "OPEN"
    /\ outcomes' = [outcomes EXCEPT ![r] = Outcome("FAILED", None)]
    /\ UNCHANGED receipts

\* The receipt is entered and given in the same step if it has not been.
Complete(r, x) ==
    LET entry == [status |-> "MATCHED", amount |-> AmountOf[r], student |-> StudentOf[r]] IN
    /\ outcomes[r].status = "OPEN"
    /\ \A q \in Requests : outcomes[q].receipt # x
    /\ receipts[x] \in {NoEntry, entry, [status |-> "UNMATCHED", amount |-> AmountOf[r], student |-> None]}
    /\ receipts' = [receipts EXCEPT ![x] = entry]
    /\ outcomes' = [outcomes EXCEPT ![r] = Outcome("COMPLETED", x)]

BookNext ==
    \/ \E x \in Receipts : Enter(x) \/ SetAside(x) \/ \E s \in Students : Give(x, s)
    \/ \E r \in Requests : Ask(r) \/ Refuse(r) \/ \E x \in Receipts : Complete(r, x)

BookSpec == BookInit /\ [][BookNext]_bookVars
=============================================================================
