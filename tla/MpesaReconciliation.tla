------------------------ MODULE MpesaReconciliation ------------------------
(***************************************************************************)
(* apps/finance/mpesa_services.py with the incoming payments of            *)
(* apps/finance/services.py: collection (STK push) requests sent to the    *)
(* provider between two transactions, the inbox of callbacks, and the      *)
(* receipts that callbacks, the API and bursars resolve at the same time.  *)
(***************************************************************************)
EXTENDS Integers, FiniteSets

CONSTANTS
    Requests,     \* STK requests, one per idempotency key
    Receipts,     \* external transaction ids
    Students,
    Amounts,      \* positive amounts
    Codes,        \* result codes of failures
    Callbacks,    \* rows of the callback inbox
    Workers,      \* processes that process callbacks
    Payloads,     \* bodies the callback URLs may be sent
    StudentOf,    \* the student a request collects for
    AmountOf,     \* the amount it collects
    None

\* A body names a request through its URL or, on the older URL, only through the
\* checkout id; the provider's checkout id for request r's prompt is r itself.
Payload == [kind : {"stk", "c2b"}, request : Requests \cup {None}, checkout : Requests \cup {None},
            code : Codes \cup {0}, receipt : Receipts \cup {None}, amount : Amounts,
            reference : Students \cup {None}]
Success(p) == p.kind = "stk" /\ p.code = 0

ASSUME ConstantsAssumption ==
    /\ None \notin Requests \cup Receipts \cup Students
    /\ Amounts \subseteq Nat \ {0} /\ Codes \subseteq Int \ {0}
    /\ StudentOf \in [Requests -> Students] /\ AmountOf \in [Requests -> Amounts]
    /\ Payloads \subseteq Payload
    /\ \A p \in Payloads : /\ p.kind = "stk" => p.checkout # None
                           /\ p.kind = "c2b" \/ p.code = 0 => p.receipt # None

VARIABLES
    roster,      \* admitted students
    incoming,    \* by external transaction id, the IncomingPayment row
    requests,    \* MpesaStkPushRequest rows
    calls,       \* by request, the process that created and sends it
    prompts,     \* by request, prompts the payer's phone was sent
    callbacks,   \* MpesaCallbackLog rows
    txns         \* by worker, its open process_mpesa_callback

vars == <<roster, incoming, requests, calls, prompts, callbacks, txns>>

Statuses == {"NONE", "INITIATING", "UNKNOWN", "PENDING", "COMPLETED", "FAILED"}
Unresolved == {"INITIATING", "UNKNOWN"}
Undecided == Unresolved \cup {"PENDING"}
RowStatuses == {"NONE", "UNMATCHED", "MATCHED", "IGNORED"}
CallbackStatuses == {"NONE", "RECEIVED", "PROCESSED", "FAILED", "REJECTED"}

NoRow == [status |-> "NONE", amount |-> 0, reference |-> None, student |-> None]
NoRequest == [status |-> "NONE", checkout |-> None, receipt |-> None, code |-> 0]
NoPayload == [kind |-> "none", request |-> None, checkout |-> None, code |-> 0,
              receipt |-> None, amount |-> 0, reference |-> None]
NoCallback == [status |-> "NONE", verified |-> FALSE, payload |-> NoPayload]
Idle == [stage |-> "idle", callback |-> None, request |-> None, seen |-> "NONE"]

IncomingRow == [status : RowStatuses, amount : Amounts \cup {0},
                reference : Students \cup {None}, student : Students \cup {None}]
RequestRow == [status : Statuses, checkout : Requests \cup {None},
               receipt : Receipts \cup {None}, code : Codes \cup {0}]
CallbackRow == [status : CallbackStatuses, verified : BOOLEAN, payload : Payloads \cup {NoPayload}]
Txn == [stage : {"idle", "opened", "located", "looked"}, callback : Callbacks \cup {None},
        request : Requests \cup {None}, seen : RowStatuses]

Init ==
    /\ roster \in SUBSET Students
    /\ incoming = [x \in Receipts |-> NoRow]
    /\ requests = [r \in Requests |-> NoRequest]
    /\ calls = [r \in Requests |-> "none"]
    /\ prompts = [r \in Requests |-> 0]
    /\ callbacks = [c \in Callbacks |-> NoCallback]
    /\ txns = [w \in Workers |-> Idle]

\* Variants named Mutant... are wrong on purpose, one plausible slip each.

----------------------------------------------------------------------------
(* Row locks and constraints *)

\* A worker keeps the rows its select_for_updates returned until it commits.
CallbackLocked(c) == \E w \in Workers : txns[w].stage # "idle" /\ txns[w].callback = c
RequestLocked(r) == \E w \in Workers : txns[w].stage \in {"located", "looked"} /\ txns[w].request = r

\* unique_stk_checkout_request_per_tenant, unique_stk_receipt_per_tenant
CheckoutFree(r, k) == \A q \in Requests \ {r} : requests[q].checkout # k
MutantReceiptFree(r, x) == TRUE
ReceiptFree(r, x) == \A q \in Requests \ {r} : requests[q].receipt # x

----------------------------------------------------------------------------
(* Incoming payments *)

Admit(s) ==
    /\ s \notin roster
    /\ roster' = roster \cup {s}
    /\ UNCHANGED <<incoming, requests, calls, prompts, callbacks, txns>>

\* What a new row becomes: matched if its reference is recognised, unless
\* record_payment refuses, which leaves it to a bursar.
NewRows(a, reference) ==
    {[status |-> "UNMATCHED", amount |-> a, reference |-> reference, student |-> None]} \cup
    {[status |-> "MATCHED", amount |-> a, reference |-> reference, student |-> s] : s \in roster \cap {reference}}

\* ingest_incoming_payment: the unique transaction id makes look-up and insert one step.
Ingest(x, a, reference) ==
    /\ incoming[x].status = "NONE"
    /\ \E row \in NewRows(a, reference) : incoming' = [incoming EXCEPT ![x] = row]
    /\ UNCHANGED <<roster, requests, calls, prompts, callbacks, txns>>

\* matched_payment is missing from update_fields.
MutantMatch(x, s) ==
    /\ incoming[x].status = "UNMATCHED"
    /\ s \in roster
    /\ incoming' = [incoming EXCEPT ![x].status = "MATCHED"]
    /\ UNCHANGED <<roster, requests, calls, prompts, callbacks, txns>>

Match(x, s) ==
    /\ incoming[x].status = "UNMATCHED"
    /\ s \in roster
    /\ incoming' = [incoming EXCEPT ![x].status = "MATCHED", ![x].student = s]
    /\ UNCHANGED <<roster, requests, calls, prompts, callbacks, txns>>

Ignore(x) ==
    /\ incoming[x].status = "UNMATCHED"
    /\ incoming' = [incoming EXCEPT ![x].status = "IGNORED"]
    /\ UNCHANGED <<roster, requests, calls, prompts, callbacks, txns>>

----------------------------------------------------------------------------
(* Collection requests *)

\* A repeated key sends again while the outcome is unknown.
MutantInitiate(r) ==
    /\ requests[r].status \in {"NONE", "UNKNOWN"}
    /\ StudentOf[r] \in roster
    /\ requests' = [requests EXCEPT ![r].status = "INITIATING"]
    /\ calls' = [calls EXCEPT ![r] = "intent"]
    /\ UNCHANGED <<roster, incoming, prompts, callbacks, txns>>

\* initiate_stk_push commits its intent first; a repeated key returns the row as
\* it stands.
Initiate(r) ==
    /\ requests[r].status = "NONE"
    /\ StudentOf[r] \in roster
    /\ requests' = [requests EXCEPT ![r].status = "INITIATING"]
    /\ calls' = [calls EXCEPT ![r] = "intent"]
    /\ UNCHANGED <<roster, incoming, prompts, callbacks, txns>>

\* The provider takes the call and prompts the payer.
Prompt(r) ==
    /\ calls[r] = "intent"
    /\ calls' = [calls EXCEPT ![r] = "sent"]
    /\ prompts' = [prompts EXCEPT ![r] = @ + 1]
    /\ UNCHANGED <<roster, incoming, requests, callbacks, txns>>

EndCall(r) ==
    /\ calls' = [calls EXCEPT ![r] = "over"]
    /\ UNCHANGED <<roster, incoming, prompts, callbacks, txns>>

\* The response arrives. An answer that conflicts, or comes after the callback or
\* an operator, changes nothing.
RecordAnswer(r) ==
    /\ calls[r] = "sent"
    /\ ~RequestLocked(r)
    /\ \/ /\ requests[r].checkout \in {None, r}
          /\ requests[r].status \in Unresolved
          /\ CheckoutFree(r, r)
          /\ requests' = [requests EXCEPT ![r].status = "PENDING", ![r].checkout = r]
       \/ /\ \/ requests[r].checkout \notin {None, r}
             \/ requests[r].status \notin Unresolved
             \/ ~CheckoutFree(r, r)
          /\ UNCHANGED requests
    /\ EndCall(r)

\* The call fails before or after the prompt; the UPDATE only touches INITIATING.
RecordError(r) ==
    /\ calls[r] \in {"intent", "sent"}
    /\ ~RequestLocked(r)
    /\ requests' = [requests EXCEPT ![r].status = IF @ = "INITIATING" THEN "UNKNOWN" ELSE @]
    /\ EndCall(r)

\* The calling process dies.
LoseCall(r) ==
    /\ calls[r] \in {"intent", "sent"}
    /\ UNCHANGED requests
    /\ EndCall(r)

\* identify_stk_request: an operator supplies the checkout id, perhaps wrongly.
Identify(r, k) ==
    /\ ~RequestLocked(r)
    /\ requests[r].status \in Unresolved
    /\ requests[r].checkout \in {None, k}
    /\ CheckoutFree(r, k)
    /\ requests' = [requests EXCEPT ![r].status = "PENDING", ![r].checkout = k]
    /\ UNCHANGED <<roster, incoming, calls, prompts, callbacks, txns>>

----------------------------------------------------------------------------
(* The callback inbox *)

\* log_mpesa_callback
Receive(c, p) ==
    /\ callbacks[c].status = "NONE"
    /\ callbacks' = [callbacks EXCEPT ![c] = [status |-> "RECEIVED", verified |-> FALSE, payload |-> p]]
    /\ UNCHANGED <<roster, incoming, requests, calls, prompts, txns>>

Verify(c) ==
    /\ ~CallbackLocked(c)
    /\ callbacks[c].status \notin {"NONE", "REJECTED"}
    /\ callbacks' = [callbacks EXCEPT ![c].verified = TRUE]
    /\ UNCHANGED <<roster, incoming, requests, calls, prompts, txns>>

MutantReject(c) ==
    /\ ~CallbackLocked(c)
    /\ callbacks[c].status \notin {"NONE", "REJECTED"}
    /\ callbacks' = [callbacks EXCEPT ![c].status = "REJECTED"]
    /\ UNCHANGED <<roster, incoming, requests, calls, prompts, txns>>

Reject(c) ==
    /\ ~CallbackLocked(c)
    /\ callbacks[c].status \notin {"NONE", "PROCESSED", "REJECTED"}
    /\ callbacks' = [callbacks EXCEPT ![c].status = "REJECTED"]
    /\ UNCHANGED <<roster, incoming, requests, calls, prompts, txns>>

----------------------------------------------------------------------------
(* process_mpesa_callback: one transaction that locks the callback, then,    *)
(* for an STK callback, the request, then the receipt.                       *)

Body(w) == callbacks[txns[w].callback].payload

Open(w, c) ==
    /\ txns[w].stage = "idle"
    /\ ~CallbackLocked(c)
    /\ callbacks[c].verified
    /\ callbacks[c].status \in {"RECEIVED", "FAILED"}
    /\ txns' = [txns EXCEPT ![w] = [Idle EXCEPT !.stage = "opened", !.callback = c]]
    /\ UNCHANGED <<roster, incoming, requests, calls, prompts, callbacks>>

\* Commit, with the callback's new status.
Finish(w, status) ==
    /\ callbacks' = [callbacks EXCEPT ![txns[w].callback].status = status]
    /\ txns' = [txns EXCEPT ![w] = Idle]
    /\ UNCHANGED <<roster, calls, prompts>>

\* The request an STK callback is about: by its URL, else by its checkout id.
About(p, r) ==
    /\ requests[r].status # "NONE"
    /\ IF p.request # None THEN r = p.request ELSE requests[r].checkout = p.checkout
    /\ requests[r].checkout \in {None, p.checkout}

\* The callback repeats what decided the request.
MutantRepeats(p, r) == requests[r].status \in {"COMPLETED", "FAILED"}
Repeats(p, r) ==
    \/ /\ requests[r].status = "COMPLETED"
       /\ Success(p) /\ p.receipt = requests[r].receipt /\ p.amount = AmountOf[r]
    \/ /\ requests[r].status = "FAILED"
       /\ p.code # 0 /\ p.code = requests[r].code

Replay(w, r) ==
    /\ txns[w].stage = "opened" /\ Body(w).kind = "stk"
    /\ ~RequestLocked(r) /\ About(Body(w), r)
    /\ Repeats(Body(w), r)
    /\ UNCHANGED <<incoming, requests>>
    /\ Finish(w, "PROCESSED")

\* The provider reports that the payer did not pay.
Decline(w, r) ==
    /\ txns[w].stage = "opened" /\ Body(w).kind = "stk" /\ Body(w).code # 0
    /\ ~RequestLocked(r) /\ About(Body(w), r)
    /\ requests[r].status \in Undecided
    /\ CheckoutFree(r, Body(w).checkout)
    /\ requests' = [requests EXCEPT ![r].status = "FAILED", ![r].checkout = Body(w).checkout,
                                    ![r].code = Body(w).code]
    /\ UNCHANGED incoming
    /\ Finish(w, "PROCESSED")

\* A success for an undecided request: its row is locked from here on.
Locate(w, r) ==
    /\ txns[w].stage = "opened" /\ Success(Body(w))
    /\ ~RequestLocked(r) /\ About(Body(w), r)
    /\ requests[r].status \in Undecided
    /\ Body(w).amount = AmountOf[r]
    /\ txns' = [txns EXCEPT ![w].stage = "located", ![w].request = r]
    /\ UNCHANGED <<roster, incoming, requests, calls, prompts, callbacks>>

\* ingest_incoming_payment inside it: the receipt is looked up without a lock, and
\* again when the insert hits the unique transaction id.
Look(w) ==
    LET row == incoming[Body(w).receipt] IN
    /\ \/ txns[w].stage = "located"
       \/ txns[w].stage = "looked" /\ txns[w].seen = "NONE" /\ row.status # "NONE"
    /\ row.status = "NONE" \/ row.amount = Body(w).amount
    /\ txns' = [txns EXCEPT ![w].stage = "looked", ![w].seen = row.status]
    /\ UNCHANGED <<roster, incoming, requests, calls, prompts, callbacks>>

MutantStillAsSeen(w) == txns[w].seen \in {"NONE", "UNMATCHED"}
\* The insert succeeds, or the lock on the row finds it still to be resolved.
StillAsSeen(w) == txns[w].seen \in {"NONE", "UNMATCHED"} /\ incoming[Body(w).receipt].status = txns[w].seen

\* The receipt is recorded for the request's student, or already was.
Settle(w) ==
    LET r == txns[w].request
        x == Body(w).receipt
    IN
    /\ txns[w].stage = "looked"
    /\ \/ /\ StillAsSeen(w)
          /\ incoming' = [incoming EXCEPT ![x] = [status |-> "MATCHED", amount |-> AmountOf[r],
                                                  reference |-> @.reference, student |-> StudentOf[r]]]
       \/ /\ txns[w].seen = "MATCHED" /\ incoming[x].student = StudentOf[r]
          /\ UNCHANGED incoming
    /\ CheckoutFree(r, Body(w).checkout) /\ ReceiptFree(r, x)
    /\ requests' = [requests EXCEPT ![r] = [status |-> "COMPLETED", checkout |-> Body(w).checkout,
                                            receipt |-> x, code |-> 0]]
    /\ Finish(w, "PROCESSED")

\* A C2B confirmation ingests its receipt, or finds it with the same amount.
Confirm(w) ==
    LET p == Body(w) IN
    /\ txns[w].stage = "opened" /\ p.kind = "c2b"
    /\ \/ /\ incoming[p.receipt].status = "NONE"
          /\ \E row \in NewRows(p.amount, p.reference) : incoming' = [incoming EXCEPT ![p.receipt] = row]
       \/ /\ incoming[p.receipt].status # "NONE" /\ incoming[p.receipt].amount = p.amount
          /\ UNCHANGED incoming
    /\ UNCHANGED requests
    /\ Finish(w, "PROCESSED")

\* A check that did not hold, or any other error: the savepoint is rolled back and
\* the failure is recorded.
Fail(w) ==
    /\ txns[w].stage # "idle"
    /\ UNCHANGED <<incoming, requests>>
    /\ Finish(w, "FAILED")

\* The worker dies, or its lock_timeout expires outside the savepoint.
Crash(w) ==
    /\ txns[w].stage # "idle"
    /\ txns' = [txns EXCEPT ![w] = Idle]
    /\ UNCHANGED <<roster, incoming, requests, calls, prompts, callbacks>>

Next ==
    \/ \E s \in Students : Admit(s)
    \/ \E x \in Receipts :
           \/ \E a \in Amounts, reference \in Students \cup {None} : Ingest(x, a, reference)
           \/ \E s \in Students : Match(x, s)
           \/ Ignore(x)
    \/ \E r \in Requests :
           \/ Initiate(r) \/ Prompt(r) \/ RecordAnswer(r) \/ RecordError(r) \/ LoseCall(r)
           \/ \E k \in Requests : Identify(r, k)
    \/ \E c \in Callbacks :
           \/ \E p \in Payloads : Receive(c, p)
           \/ Verify(c) \/ Reject(c)
    \/ \E w \in Workers :
           \/ \E c \in Callbacks : Open(w, c)
           \/ \E r \in Requests : Replay(w, r) \/ Decline(w, r) \/ Locate(w, r)
           \/ Look(w) \/ Settle(w) \/ Confirm(w) \/ Fail(w) \/ Crash(w)

Spec == Init /\ [][Next]_vars

----------------------------------------------------------------------------
(* Properties *)

(* The types of the tables and of the processes' state. *)
TypeOK ==
    /\ roster \subseteq Students
    /\ incoming \in [Receipts -> IncomingRow]
    /\ requests \in [Requests -> RequestRow]
    /\ calls \in [Requests -> {"none", "intent", "sent", "over"}]
    /\ prompts \in [Requests -> Nat]
    /\ callbacks \in [Callbacks -> CallbackRow]
    /\ txns \in [Workers -> Txn]
    \* matched_payment and confirmed_receipt are set with the status, never without it
    /\ \A x \in Receipts : incoming[x].student # None <=> incoming[x].status = "MATCHED"
    /\ \A r \in Requests : requests[r].receipt # None <=> requests[r].status = "COMPLETED"

(* A completed request is backed by a receipt of its amount, recorded for its
   student, that completes no other request, whatever callbacks, bursars and
   late answers did meanwhile (handle_stk_callback). *)
RequestsAreBacked ==
    \A r \in Requests : requests[r].status = "COMPLETED" =>
        LET x == requests[r].receipt IN
        /\ x \in Receipts
        /\ incoming[x].status = "MATCHED"
        /\ incoming[x].student = StudentOf[r]
        /\ incoming[x].amount = AmountOf[r]
        /\ \A q \in Requests \ {r} : requests[q].receipt # x

\* Request r stands the way body p reports it.
StandsAs(p, r) ==
    /\ p.request \in {None, r} /\ requests[r].checkout = p.checkout
    /\ \/ p.code = 0 /\ requests[r].status = "COMPLETED" /\ requests[r].receipt = p.receipt /\ AmountOf[r] = p.amount
       \/ p.code # 0 /\ requests[r].status = "FAILED" /\ requests[r].code = p.code

(* What a processed callback reported has taken place and still stands: its
   request is decided the way it said, its receipt is on file with its amount.
   A callback that was acknowledged as processed is never void. *)
ProcessedCallbacksStand ==
    \A c \in Callbacks : callbacks[c].status = "PROCESSED" =>
        LET p == callbacks[c].payload IN
        \/ /\ p.kind = "c2b"
           /\ incoming[p.receipt].status # "NONE" /\ incoming[p.receipt].amount = p.amount
        \/ /\ p.kind = "stk"
           /\ \E r \in Requests : StandsAs(p, r)

(* Public delivery is evidence, not proof: a request is only decided by a
   callback that somebody verified, that is kept as processed, and that says
   what the request's row says (process_mpesa_callback, reject_mpesa_callback). *)
DecisionsAreEvidenced ==
    \A r \in Requests : requests[r].status \in {"COMPLETED", "FAILED"} =>
        \E c \in Callbacks :
            /\ callbacks[c].status = "PROCESSED" /\ callbacks[c].verified
            /\ callbacks[c].payload.kind = "stk" /\ StandsAs(callbacks[c].payload, r)

(* A payer is prompted at most once per idempotency key, and only for a request
   that is on file, however often the caller retries or dies
   (initiate_stk_push). *)
PromptedOnce ==
    \A r \in Requests : prompts[r] <= 1 /\ (prompts[r] = 1 => requests[r].status # "NONE")

Book == INSTANCE ReceiptBook WITH
    receipts <- [x \in Receipts |-> [status |-> incoming[x].status, amount |-> incoming[x].amount,
                                     student |-> incoming[x].student]],
    outcomes <- [r \in Requests |-> [status |-> IF requests[r].status \in Undecided THEN "OPEN"
                                                ELSE requests[r].status,
                                     receipt |-> requests[r].receipt]]

(* Every step of the interleaved transactions is a step of the receipt book:
   each receipt is entered and given once, each request is decided once and for
   good, by a receipt that is its own. *)
BookSteps == [][Book!BookNext]_(Book!bookVars)

ImplementsReceiptBook == Book!BookInit /\ BookSteps
=============================================================================
