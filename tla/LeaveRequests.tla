--------------------------- MODULE LeaveRequests ---------------------------
(***************************************************************************)
(* apps/leave for one employee: leave requests, their approval stages and  *)
(* the leave ledger. Submissions, decisions, withdrawals and cancellations *)
(* are transactions that lock the employee and the request row; drafts are *)
(* edited, and settings changed, without a lock.                           *)
(***************************************************************************)
EXTENDS Integers, Sequences, FiniteSets

CONSTANTS
    Requests, Workers,
    Types,                 \* leave types
    Roles,                 \* approver roles
    LastDay,               \* bound: leave dates are 1..LastDay
    MaxSpan,               \* bound: the days from the start to the end of a request
    MaxStages,             \* bound: stages of the approval workflow
    MaxBalance,            \* bound: grants, adjustments and carried days stay within it
    TypeSettings,          \* bound: the settings a leave type is given
    YearStarts,            \* bound: the first days of the leave year configured
    Weeks,                 \* bound: the sets of working days configured
    None

VARIABLES
    types,       \* LeaveType rows
    stages,      \* LeaveApprovalWorkflowStage: the approver role of each sequence number
    setup,       \* LeaveSetup: first day of the leave year, working days
    requests,    \* LeaveRequest rows
    approvals,   \* LeaveRequestApproval rows of each request, by sequence
    postings,    \* LeaveLedgerEntry rows that name a request
    balances,    \* resolve_leave_balance: the sum of the ledger by type and year
    txns,        \* by worker, the call it is in
    editedLate,  \* history: the requests an edit changed after they left DRAFT
    resettled    \* history: the requests whose leave year or tracking changed under their approval

vars == <<types, stages, setup, requests, approvals, postings, balances, txns, editedLate, resettled>>
settings == <<types, stages, setup, resettled>>   \* what only an edit of the settings changes

Days == 1 .. LastDay
Years == {0, 1}
AdjustedYears == {1}   \* bound: last year's balance is what the year left
TypeRow == [requires_balance : BOOLEAN, allow_negative_balance : BOOLEAN, requires_approval : BOOLEAN,
            is_active : BOOLEAN]
RequestRow == [status : {"absent", "DRAFT", "SUBMITTED", "APPROVED", "REJECTED", "CANCELLED"},
               type : Types, start : Days, end : Days, days : Days]
Posting == [kind : {"CONSUMED", "REVERSAL"}, type : Types, year : Years, days : Days]

ASSUME LeaveAssumption ==
    /\ LastDay \in Nat \ {0} /\ MaxSpan \in Nat /\ MaxStages \in Nat /\ MaxBalance \in Nat
    /\ None \notin Roles \cup Types /\ None \notin Posting
    /\ TypeSettings \subseteq TypeRow /\ YearStarts \subseteq Days /\ Weeks \subseteq SUBSET Days

\* A call: the decision taken, what its transaction will post, whether it still waits
\* for its second row, and the copy an edit decides from.
Txn == [op : {"none", "submit", "decide", "withdraw", "cancel", "edit", "carry"},
        request : Requests \cup {None}, decision : {"APPROVED", "REJECTED", "none"},
        waits : BOOLEAN, posting : Posting \cup {None}, copy : RequestRow \cup {None},
        carried : 0 .. MaxBalance, type : Types \cup {None}, stage : 0 .. MaxStages,
        final : BOOLEAN, checked : BOOLEAN]
Idle == [op |-> "none", request |-> None, decision |-> "none", waits |-> FALSE, posting |-> None,
         copy |-> None, carried |-> 0, type |-> None, stage |-> 0, final |-> FALSE, checked |-> FALSE]

Init ==
    /\ types \in [Types -> TypeSettings]
    /\ stages = [i \in 1 .. MaxStages |-> None]
    /\ setup \in [anchor : YearStarts, working : Weeks]
    /\ requests \in [Requests -> {[status |-> "absent", type |-> t, start |-> 1, end |-> 1, days |-> 1] : t \in Types}]
    /\ approvals = [r \in Requests |-> <<>>]
    /\ postings = [r \in Requests |-> <<>>]
    /\ balances = [t \in Types |-> [y \in Years |-> IF y \in AdjustedYears THEN 0 ELSE MaxBalance]]
    /\ txns = [w \in Workers |-> Idle]
    /\ editedLate = {}
    /\ resettled = {}

Status(r) == requests[r].status
End(w) == txns' = [txns EXCEPT ![w] = Idle]

\* resolve_leave_year, relative to the year the dates lie in.
YearOf(day, anchor) == IF day >= anchor THEN 1 ELSE 0
LeaveYear(day) == YearOf(day, setup.anchor)

WorkingDays(start, end) == Cardinality({d \in start .. end : d \in setup.working})
MutantWorkable(start, end) == start <= end
Workable(start, end) == start <= end /\ WorkingDays(start, end) > 0

----------------------------------------------------------------------------
(* Rows locked FOR UPDATE *)

InTransaction(w) == txns[w].op \in {"submit", "decide", "withdraw", "cancel"}

\* submit_leave_request locks the employee and then the request; the others the request first.
TakesEmployeeFirst(op) == op = "submit"

MutantHoldsRequest(w, r) == FALSE
HoldsRequest(w, r) ==
    InTransaction(w) /\ txns[w].request = r /\ (TakesEmployeeFirst(txns[w].op) => ~txns[w].waits)

MutantHoldsEmployee(w) == FALSE
HoldsEmployee(w) ==
    /\ InTransaction(w)
    /\ IF TakesEmployeeFirst(txns[w].op) THEN TRUE ELSE txns[w].final /\ ~txns[w].waits

RequestFree(r) == \A w \in Workers : ~HoldsRequest(w, r)
EmployeeFree == \A w \in Workers : ~HoldsEmployee(w)

----------------------------------------------------------------------------
(* Settings *)

\* Approved, or about to be by a call that has read what it will post.
Approved(r) ==
    \/ Status(r) = "APPROVED"
    \/ \E w \in Workers : /\ txns[w].request = r /\ ~txns[w].waits
                         /\ (txns[w].op = "submit" \/ (txns[w].op = "decide" /\ txns[w].final))

\* configure_leave_setup, update_leave_type, add_, update_ and delete_workflow_stage.
Configure(anchor, working) ==
    /\ setup' = [anchor |-> anchor, working |-> working]
    /\ resettled' = resettled \cup {r \in Requests : /\ Approved(r)
                                                    /\ YearOf(requests[r].start, anchor) # LeaveYear(requests[r].start)}
    /\ UNCHANGED <<types, stages, requests, approvals, postings, balances, txns, editedLate>>

UpdateLeaveType(t, row) ==
    /\ types' = [types EXCEPT ![t] = row]
    /\ resettled' = resettled \cup {r \in Requests : /\ Approved(r) /\ requests[r].type = t
                                                    /\ row.requires_balance # types[t].requires_balance}
    /\ UNCHANGED <<stages, setup, requests, approvals, postings, balances, txns, editedLate>>

SetStage(i, role) ==
    /\ stages' = [stages EXCEPT ![i] = role]
    /\ UNCHANGED <<types, setup, resettled, requests, approvals, postings, balances, txns, editedLate>>

\* grant_leave_entitlement and adjust_leave_balance; the ledger row's foreign key waits
\* for whoever has the employee locked.
AdjustBalance(t, y, days) ==
    /\ types[t].requires_balance
    /\ EmployeeFree
    /\ balances[t][y] + days \in 0 .. MaxBalance
    /\ balances' = [balances EXCEPT ![t][y] = @ + days]
    /\ UNCHANGED <<settings, requests, approvals, postings, txns, editedLate>>

\* carry_forward_leave reads last year's balance, and inserts later; it debits nothing.
ReadCarryForward(w, t) ==
    /\ txns[w] = Idle
    /\ types[t].requires_balance
    /\ balances[t][0] \in 1 .. MaxBalance
    /\ txns' = [txns EXCEPT ![w] = [Idle EXCEPT !.op = "carry", !.carried = balances[t][0], !.type = t]]
    /\ UNCHANGED <<settings, requests, approvals, postings, balances, editedLate>>

PostCarryForward(w) ==
    LET t == txns[w].type IN
    /\ txns[w].op = "carry"
    /\ EmployeeFree
    /\ balances[t][1] + txns[w].carried <= MaxBalance
    /\ balances' = [balances EXCEPT ![t][1] = @ + txns[w].carried]
    /\ End(w)
    /\ UNCHANGED <<settings, requests, approvals, postings, editedLate>>

----------------------------------------------------------------------------
(* Drafts *)

CreateLeaveRequest(r, t, start, end) ==
    /\ Status(r) = "absent"
    /\ types[t].is_active /\ Workable(start, end) /\ end - start < MaxSpan
    /\ EmployeeFree
    /\ requests' = [requests EXCEPT ![r] = [status |-> "DRAFT", type |-> t, start |-> start, end |-> end,
                                            days |-> WorkingDays(start, end)]]
    /\ UNCHANGED <<settings, approvals, postings, balances, txns, editedLate>>

\* Only a copy that reads DRAFT passes update_leave_request's check.
LoadForEdit(w, r) ==
    /\ txns[w] = Idle
    /\ Status(r) = "DRAFT"
    /\ txns' = [txns EXCEPT ![w] = [Idle EXCEPT !.op = "edit", !.request = r, !.copy = requests[r]]]
    /\ UNCHANGED <<settings, requests, approvals, postings, balances, editedLate>>

\* update_leave_request validates the copy with the columns it was given (None: not given),
\* and saves those, with requested_days whenever one of them is a date.
UpdateLeaveRequest(w, t, start, end) ==
    LET r == txns[w].request
        copy == txns[w].copy
        s == IF start = None THEN copy.start ELSE start
        e == IF end = None THEN copy.end ELSE end
        dated == start # None \/ end # None
    IN
    /\ txns[w].op = "edit"
    /\ t # None => types[t].is_active
    /\ s <= e /\ e - s < MaxSpan
    /\ dated => Workable(s, e)
    /\ RequestFree(r)
    /\ requests' = [requests EXCEPT ![r].type = IF t = None THEN @ ELSE t,
                                    ![r].start = IF start = None THEN @ ELSE start,
                                    ![r].end = IF end = None THEN @ ELSE end,
                                    ![r].days = IF dated THEN WorkingDays(s, e) ELSE @]
    /\ editedLate' = IF Status(r) = "DRAFT" THEN editedLate ELSE editedLate \cup {r}
    /\ End(w)
    /\ UNCHANGED <<settings, approvals, postings, balances>>

----------------------------------------------------------------------------
(* Transactions *)

PendingStages(r) == {i \in DOMAIN approvals[r] : approvals[r][i].status = "PENDING"}
CurrentStage(r) == CHOOSE i \in PendingStages(r) : \A j \in PendingStages(r) : i <= j

Begin(w, txn) ==
    /\ txns[w] = Idle
    /\ txns' = [txns EXCEPT ![w] = txn]
    /\ UNCHANGED <<settings, requests, approvals, postings, balances, editedLate>>

BeginSubmission(w, r) ==
    /\ Status(r) # "absent"
    /\ EmployeeFree
    /\ Begin(w, [Idle EXCEPT !.op = "submit", !.request = r, !.waits = TRUE])

\* decide_leave_request_stage: the last stage's approval also wants the employee.
BeginDecision(w, r, role, decision) ==
    LET stage == CurrentStage(r)
        final == decision = "APPROVED" /\ Cardinality(PendingStages(r)) = 1
    IN
    /\ RequestFree(r)
    /\ Status(r) = "SUBMITTED"
    /\ PendingStages(r) # {}
    /\ approvals[r][stage].role = role
    /\ Begin(w, [Idle EXCEPT !.op = "decide", !.request = r, !.decision = decision, !.stage = stage,
                        !.waits = final, !.final = final])

BeginWithdrawal(w, r) ==
    /\ RequestFree(r)
    /\ Status(r) = "SUBMITTED"
    /\ Begin(w, [Idle EXCEPT !.op = "withdraw", !.request = r])

BeginCancellation(w, r) ==
    LET tracked == types[requests[r].type].requires_balance IN
    /\ RequestFree(r)
    /\ Status(r) = "APPROVED"
    /\ Begin(w, [Idle EXCEPT !.op = "cancel", !.request = r, !.waits = tracked, !.final = tracked])

Standing(r) == Status(r) \in {"SUBMITTED", "APPROVED"}
MutantOverlap(a, b) == requests[a].start < requests[b].end /\ requests[b].start < requests[a].end
Overlap(a, b) == requests[a].start <= requests[b].end /\ requests[b].start <= requests[a].end

PostingIn(r, kind, year) == [kind |-> kind, type |-> requests[r].type, year |-> year, days |-> requests[r].days]
LedgerPosting(r, kind) == PostingIn(r, kind, LeaveYear(requests[r].start))

\* The second row is locked, and what follows is read under both locks.
Proceed(w, posting, checked) ==
    /\ txns' = [txns EXCEPT ![w].waits = FALSE, ![w].posting = posting, ![w].final = TRUE, ![w].checked = checked]
    /\ UNCHANGED <<settings, requests, approvals, postings, balances, editedLate>>

\* _finalize_approval's reads: the balance must cover the request unless the type tracks
\* none or lets it go negative.
Approve(w, r) ==
    LET type == types[requests[r].type]
        checked == type.requires_balance /\ ~type.allow_negative_balance
    IN
    /\ checked => balances[requests[r].type][LeaveYear(requests[r].start)] >= requests[r].days
    /\ Proceed(w, IF type.requires_balance THEN LedgerPosting(r, "CONSUMED") ELSE None, checked)

\* submit_leave_request, once it has both rows: the draft must not overlap a standing request.
Submittable(w, r) ==
    /\ txns[w].op = "submit" /\ txns[w].waits
    /\ RequestFree(r)
    /\ Status(r) = "DRAFT"
    /\ \A other \in Requests \ {r} : Standing(other) => ~Overlap(r, other)

SubmitDirectly(w) ==
    LET r == txns[w].request IN
    /\ Submittable(w, r)
    /\ ~types[requests[r].type].requires_approval
    /\ Approve(w, r)

ProceedApproval(w) ==
    /\ txns[w].op = "decide" /\ txns[w].waits
    /\ EmployeeFree
    /\ Approve(w, txns[w].request)

MutantProceedCancellation(w) ==
    /\ txns[w].op = "cancel" /\ txns[w].waits
    /\ EmployeeFree
    /\ Proceed(w, PostingIn(txns[w].request, "REVERSAL", 1), FALSE)
ProceedCancellation(w) ==
    /\ txns[w].op = "cancel" /\ txns[w].waits
    /\ EmployeeFree
    /\ Proceed(w, LedgerPosting(txns[w].request, "REVERSAL"), FALSE)

\* The transaction commits: the status, the ledger row and the end of both locks.
Settle(w, status) ==
    LET r == txns[w].request
        p == txns[w].posting
    IN
    /\ requests' = [requests EXCEPT ![r].status = status]
    /\ IF p = None THEN UNCHANGED <<postings, balances>>
       ELSE /\ postings' = [postings EXCEPT ![r] = Append(@, p)]
            /\ balances' = [balances EXCEPT ![p.type][p.year] = IF p.kind = "CONSUMED" THEN @ - p.days ELSE @ + p.days]
    /\ End(w)
    /\ UNCHANGED <<settings, editedLate>>

\* The stages are copied in one read, in their order, and the transaction commits.
SubmitForApproval(w) ==
    LET r == txns[w].request
        filled == {i \in DOMAIN stages : stages[i] # None}
    IN
    /\ Submittable(w, r)
    /\ types[requests[r].type].requires_approval
    /\ filled # {}
    /\ \E order \in [1 .. Cardinality(filled) -> filled] :
           /\ \A i, j \in DOMAIN order : i < j => order[i] < order[j]
           /\ approvals' = [approvals EXCEPT ![r] =
                                [i \in DOMAIN order |-> [role |-> stages[order[i]], status |-> "PENDING"]]]
    /\ Settle(w, "SUBMITTED")

CommitDirectSubmission(w) ==
    /\ txns[w].op = "submit" /\ ~txns[w].waits
    /\ Settle(w, "APPROVED")
    /\ UNCHANGED approvals

CommitDecision(w) ==
    LET r == txns[w].request
        stage == txns[w].stage
    IN
    /\ txns[w].op = "decide" /\ ~txns[w].waits
    /\ IF txns[w].decision = "REJECTED"
       THEN /\ approvals' = [approvals EXCEPT ![r] =
                   [i \in DOMAIN @ |-> IF i = stage THEN [@[i] EXCEPT !.status = "REJECTED"]
                                       ELSE IF i \in PendingStages(r) THEN [@[i] EXCEPT !.status = "SKIPPED"] ELSE @[i]]]
            /\ Settle(w, "REJECTED")
       ELSE /\ approvals' = [approvals EXCEPT ![r][stage].status = "APPROVED"]
            /\ Settle(w, IF txns[w].final THEN "APPROVED" ELSE "SUBMITTED")

CommitWithdrawalOrCancellation(w) ==
    /\ txns[w].op \in {"withdraw", "cancel"} /\ ~txns[w].waits
    /\ Settle(w, "CANCELLED")
    /\ UNCHANGED approvals

\* A refused check, an error, a kill, or PostgreSQL's deadlock detector.
Rollback(w) ==
    /\ txns[w] # Idle
    /\ End(w)
    /\ UNCHANGED <<settings, requests, approvals, postings, balances, editedLate>>

Next ==
    \/ \E anchor \in YearStarts, working \in Weeks : Configure(anchor, working)
    \/ \E t \in Types :
           \/ \E row \in TypeSettings : UpdateLeaveType(t, row)
           \/ \E y \in AdjustedYears, days \in {-1, 1} : AdjustBalance(t, y, days)
           \/ \E r \in Requests, start, end \in Days : CreateLeaveRequest(r, t, start, end)
    \/ \E i \in DOMAIN stages, role \in Roles \cup {None} : SetStage(i, role)
    \/ \E w \in Workers :
           \/ \E t \in Types : ReadCarryForward(w, t)
           \/ \E t \in Types \cup {None}, start, end \in Days \cup {None} : UpdateLeaveRequest(w, t, start, end)
           \/ \E r \in Requests :
                  \/ LoadForEdit(w, r) \/ BeginSubmission(w, r) \/ BeginWithdrawal(w, r) \/ BeginCancellation(w, r)
                  \/ \E role \in Roles, decision \in {"APPROVED", "REJECTED"} : BeginDecision(w, r, role, decision)
           \/ PostCarryForward(w) \/ SubmitDirectly(w) \/ SubmitForApproval(w) \/ ProceedApproval(w) \/ ProceedCancellation(w)
           \/ CommitDirectSubmission(w) \/ CommitDecision(w) \/ CommitWithdrawalOrCancellation(w) \/ Rollback(w)

Spec == Init /\ [][Next]_vars

----------------------------------------------------------------------------
(* Properties *)

(* The types of the tables and calls; the days stored with a request are at
   least one. *)
TypeOK ==
    /\ types \in [Types -> TypeRow]
    /\ stages \in [1 .. MaxStages -> Roles \cup {None}]
    /\ setup \in [anchor : Days, working : SUBSET Days]
    /\ requests \in [Requests -> RequestRow]
    /\ \A r \in Requests : \A i \in DOMAIN approvals[r] :
           approvals[r][i] \in [role : Roles, status : {"PENDING", "APPROVED", "REJECTED", "SKIPPED"}]
    /\ \A r \in Requests : \A i \in DOMAIN postings[r] : postings[r][i] \in Posting
    /\ balances \in [Types -> [Years -> Int]]
    /\ txns \in [Workers -> Txn]
    /\ editedLate \subseteq Requests /\ resettled \subseteq Requests

\* Approved in order up to the current stage of a submitted request, all of them for an
\* approved one, nothing pending after a rejection.
StagesMatchStatus ==
    \A r \in Requests :
        LET stage(s) == {i \in DOMAIN approvals[r] : approvals[r][i].status = s} IN
        /\ Status(r) \in {"absent", "DRAFT"} => approvals[r] = <<>>
        /\ Status(r) = "SUBMITTED" => /\ stage("PENDING") # {} /\ stage("REJECTED") \cup stage("SKIPPED") = {}
                                      /\ \A i \in stage("APPROVED"), j \in stage("PENDING") : i < j
        /\ Status(r) = "APPROVED" => stage("APPROVED") = DOMAIN approvals[r]
        /\ Status(r) = "REJECTED" => /\ Cardinality(stage("REJECTED")) = 1 /\ stage("PENDING") = {}
                                     /\ \A i \in stage("REJECTED"), j \in stage("SKIPPED") : i < j
        /\ Status(r) = "CANCELLED" => stage("REJECTED") \cup stage("SKIPPED") = {}

PostedOnce ==
    \A r \in Requests :
        LET posted(kind) == Cardinality({i \in DOMAIN postings[r] : postings[r][i].kind = kind}) IN
        /\ posted("CONSUMED") <= IF Status(r) \in {"APPROVED", "CANCELLED"} THEN 1 ELSE 0
        /\ posted("REVERSAL") <= IF Status(r) = "CANCELLED" THEN 1 ELSE 0

(* The stages and the ledger tell the same story as the status, through
   concurrent decisions, withdrawals, cancellations and edits of the workflow:
   a request is decided once, consumed at most once and reversed at most once,
   and reversed only when cancelled. *)
DecidedAndPostedOnce == StagesMatchStatus /\ PostedOnce

(* Competing approvals, adjustments and carry-forwards never spend the same
   balance twice: a transaction that found the balance sufficient under its lock
   does not take it below zero when it commits. *)
ApprovalsWithinBalance ==
    [][\A w \in Workers :
          txns[w].checked /\ txns'[w] = Idle /\ postings' # postings =>
              balances'[txns[w].posting.type][txns[w].posting.year] >= 0]_vars

\* Standing requests lie apart, and a ledger row has its request's type and days.
DatesAndDaysAgree ==
    /\ \A a, b \in Requests \ editedLate : a # b /\ Standing(a) /\ Standing(b) =>
           (requests[a].start .. requests[a].end) \cap (requests[b].start .. requests[b].end) = {}
    /\ \A r \in Requests \ editedLate : \A i \in DOMAIN postings[r] :
           postings[r][i].days = requests[r].days /\ postings[r][i].type = requests[r].type

\* An approved request has consumed its days in its leave year if its type is tracked, and
\* a cancelled one has had back, in the year they were taken from, all it had consumed.
LedgerAgrees ==
    \A r \in Requests \ (editedLate \cup resettled) :
        /\ Status(r) = "APPROVED" =>
               postings[r] = IF types[requests[r].type].requires_balance THEN <<LedgerPosting(r, "CONSUMED")>> ELSE <<>>
        /\ Status(r) = "CANCELLED" /\ postings[r] # <<>> =>
               \E year \in Years : postings[r] = <<PostingIn(r, "CONSUMED", year), PostingIn(r, "REVERSAL", year)>>

(* Standing requests of one employee do not overlap; the ledger holds the days
   of an approved request, in the leave year they start in, and gives them back
   to that year when it is cancelled. Every interleaving keeps this, but for the
   requests that an edit loaded as a draft changes after their submission; and
   the leave year and the posting itself are promised only while the settings
   stay as the approval found them, because a cancellation computes both anew
   and gives the days of a resettled request to another year, or does not. *)
RequestsAndLedgerAgree == DatesAndDaysAgree /\ LedgerAgrees
=============================================================================
