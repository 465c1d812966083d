------------------------ MODULE LeaveRequests_proofs ------------------------
(***************************************************************************)
(* Proofs about LeaveRequests, for any number of requests, workers, leave  *)
(* types, roles, days and stages. The argument: a row is locked by one     *)
(* call, a call's plan fits the rows it has locked, and so each commit     *)
(* finds the request, the stages and the balance its checks have seen. On  *)
(* top of it, what an approval posts is what the settings ask for, as long *)
(* as they stay, so a cancellation reads the same and gives it back.       *)
(***************************************************************************)
EXTENDS LeaveRequests, FiniteSetTheorems, TLAPS

ApprovalRow == [role : Roles, status : {"PENDING", "APPROVED", "REJECTED", "SKIPPED"}]

\* The rows of a request's stages and postings are numbered, and no workflow
\* has more stages than its settings.
Tables ==
    /\ approvals \in [Requests -> Seq(ApprovalRow)]
    /\ \A r \in Requests : Len(approvals[r]) <= MaxStages
    /\ postings \in [Requests -> Seq(Posting)]

\* A row is locked by one call at a time.
LocksExclude ==
    /\ \A v, w \in Workers, r \in Requests : HoldsRequest(v, r) /\ HoldsRequest(w, r) => v = w
    /\ \A v, w \in Workers : HoldsEmployee(v) /\ HoldsEmployee(w) => v = w

Stage(r, i) == approvals[r][i].status

\* What the stages of a request say of its status; a submitted request is at stage n.
StagesFollow(r) ==
    /\ Status(r) \in {"absent", "DRAFT"} => approvals[r] = <<>>
    /\ Status(r) = "SUBMITTED" =>
           \E n \in DOMAIN approvals[r] :
               \A i \in DOMAIN approvals[r] : Stage(r, i) = IF i < n THEN "APPROVED" ELSE "PENDING"
    /\ Status(r) = "APPROVED" => \A i \in DOMAIN approvals[r] : Stage(r, i) = "APPROVED"
    /\ Status(r) = "REJECTED" =>
           \E i \in DOMAIN approvals[r] :
               /\ Stage(r, i) = "REJECTED"
               /\ \A j \in DOMAIN approvals[r] : /\ Stage(r, j) # "PENDING"
                                                 /\ Stage(r, j) = "REJECTED" => j = i
                                                 /\ Stage(r, j) = "SKIPPED" => i < j
    /\ Status(r) = "CANCELLED" => \A i \in DOMAIN approvals[r] : Stage(r, i) \in {"PENDING", "APPROVED"}

\* What the ledger rows of a request say of its status: each kind at most once.
PostingsFollow(r) ==
    /\ Status(r) \notin {"APPROVED", "CANCELLED"} => postings[r] = <<>>
    /\ Status(r) # "CANCELLED" => \A i \in DOMAIN postings[r] : postings[r][i].kind = "CONSUMED"
    /\ \A i, j \in DOMAIN postings[r] : postings[r][i].kind = postings[r][j].kind => i = j

\* The status a call relies on, in the request it has locked.
Relied(op) ==
    CASE op = "submit" -> "DRAFT"
      [] op \in {"decide", "withdraw"} -> "SUBMITTED"
      [] OTHER -> "APPROVED"

\* The locks a call has taken, told from the call alone.
OnRequest(x, r) ==
    /\ x.op \in {"submit", "decide", "withdraw", "cancel"} /\ x.request = r
    /\ x.op = "submit" => ~x.waits
OnEmployee(x) ==
    /\ x.op \in {"submit", "decide", "withdraw", "cancel"}
    /\ x.op # "submit" => x.final /\ ~x.waits

\* A call names its rows.
Named(x) ==
    /\ x.op \notin {"none", "carry"} => x.request \in Requests
    /\ x.op = "edit" => x.copy \in RequestRow
    /\ x.op = "carry" => x.type \in Types

\* The request that a call has locked is in the status the call relies on.
StatusFits(x) == OnRequest(x, x.request) => Status(x.request) = Relied(x.op)

\* What a call is about to post is what the rows it holds say.
PostingFits(x) ==
    LET p == x.posting
        r == x.request
    IN
    p # None =>
        /\ OnEmployee(x) /\ OnRequest(x, r)
        /\ p.type = requests[r].type /\ p.days = requests[r].days
        /\ x.op \in {"submit", "decide", "cancel"}
        /\ p.kind = IF x.op = "cancel" THEN "REVERSAL" ELSE "CONSUMED"

\* A call that has checked the balance still finds it sufficient.
BalanceFits(x) ==
    LET p == x.posting IN
    x.checked => p # None /\ p.kind = "CONSUMED" /\ balances[p.type][p.year] >= p.days

\* A decision takes the first pending stage, and is final exactly when it approves the
\* last; only a final one waits for the employee.
DecisionFits(x) ==
    LET r == x.request IN
    x.op = "decide" =>
        /\ x.decision \in {"APPROVED", "REJECTED"}
        /\ x.stage \in PendingStages(r)
        /\ \A j \in PendingStages(r) : x.stage <= j
        /\ x.waits => x.final
        /\ x.final => x.decision = "APPROVED"
        /\ x.decision = "APPROVED" => (x.final <=> PendingStages(r) = {x.stage})

\* A direct submission that has both its rows overlaps no other standing request.
DatesFit(x) ==
    x.op = "submit" /\ ~x.waits =>
        \A other \in (Requests \ editedLate) \ {x.request} : Standing(other) => ~Overlap(x.request, other)

\* The posting that the settings ask for, if any.
Tracked(r) == types[requests[r].type].requires_balance
Planned(r, kind) == IF Tracked(r) THEN LedgerPosting(r, kind) ELSE None

\* A call that has read what its approval will post.
Approving(x) == ~x.waits /\ (x.op = "submit" \/ (x.op = "decide" /\ x.final))

\* A call plans what the settings ask for, unless they changed under its request.
PlanAgrees(x) ==
    LET r == x.request IN
    r \notin editedLate \cup resettled =>
        /\ Approving(x) => x.posting = Planned(r, "CONSUMED")
        /\ x.op = "cancel" /\ x.waits => Tracked(r)
        /\ x.op = "cancel" /\ ~x.waits => x.posting = Planned(r, "REVERSAL")

Fits(x) ==
    Named(x) /\ StatusFits(x) /\ PostingFits(x) /\ BalanceFits(x) /\ DecisionFits(x) /\ DatesFit(x)

LeaveInv ==
    /\ TypeOK /\ Tables /\ LocksExclude /\ DatesAndDaysAgree
    /\ \A r \in Requests : StagesFollow(r) /\ PostingsFollow(r)
    /\ \A w \in Workers : Fits(txns[w])

\* What is added about the ledger: it needs the locks and the plans of LeaveInv.
LedgerInv == LedgerAgrees /\ \A w \in Workers : PlanAgrees(txns[w])

USE LeaveAssumption

----------------------------------------------------------------------------
(* Types and locks *)

\* What TypeOK says of each table.
LEMMA TableTypes ==
    ASSUME TypeOK
    PROVE  /\ types \in [Types -> TypeRow] /\ stages \in [1 .. MaxStages -> Roles \cup {None}]
           /\ setup \in [anchor : Days, working : SUBSET Days]
           /\ requests \in [Requests -> RequestRow] /\ balances \in [Types -> [Years -> Int]]
           /\ txns \in [Workers -> Txn] /\ editedLate \subseteq Requests /\ resettled \subseteq Requests
  BY DEF TypeOK

\* The two ways to tell a lock agree.
LEMMA Holding ==
    ASSUME NEW w \in Workers
    PROVE  /\ \A r : HoldsRequest(w, r) <=> OnRequest(txns[w], r)
           /\ HoldsEmployee(w) <=> OnEmployee(txns[w])
  BY DEF HoldsRequest, HoldsEmployee, InTransaction, TakesEmployeeFirst, OnRequest, OnEmployee

\* A call that ends holds nothing.
LEMMA IdleHolds ==
    /\ Idle \in Txn /\ ~OnEmployee(Idle) /\ \A r : ~OnRequest(Idle, r)
    /\ Idle.op = "none" /\ Idle.posting = None /\ ~Idle.waits /\ ~Idle.final /\ ~Idle.checked
  BY DEF Idle, Txn, OnEmployee, OnRequest

\* What a step may do to a call: take rows that are free, and no others.
Takes(w, x) ==
    /\ x \in Txn
    /\ \A r \in Requests : OnRequest(x, r) => OnRequest(txns[w], r) \/ RequestFree(r)
    /\ OnEmployee(x) => OnEmployee(txns[w]) \/ EmployeeFree

\* A step that takes only free rows keeps them apart.
LEMMA TakenApart ==
    ASSUME TypeOK, LocksExclude, NEW w \in Workers, NEW x, Takes(w, x), txns' = [txns EXCEPT ![w] = x]
    PROVE  LocksExclude'
  <1>1. txns \in [Workers -> Txn] /\ txns'[w] = x /\ \A v \in Workers \ {w} : txns'[v] = txns[v]
    BY TableTypes
  <1>2. /\ \A r : \A v \in Workers : HoldsRequest(v, r)' <=> OnRequest(txns'[v], r)
        /\ \A v \in Workers : HoldsEmployee(v)' <=> OnEmployee(txns'[v])
    BY DEF HoldsRequest, HoldsEmployee, InTransaction, TakesEmployeeFirst, OnRequest, OnEmployee
  <1>3. ASSUME NEW u \in Workers, NEW v \in Workers, NEW r \in Requests, HoldsRequest(u, r)', HoldsRequest(v, r)'
        PROVE  u = v
    <2>1. OnRequest(txns'[u], r) /\ OnRequest(txns'[v], r)
      BY <1>2, <1>3
    <2>2. \A k \in Workers : OnRequest(txns'[k], r) => HoldsRequest(k, r) \/ (k = w /\ RequestFree(r))
      BY <1>1, Holding DEF Takes
    <2> QED
      BY <2>1, <2>2 DEF LocksExclude, RequestFree
  <1>4. ASSUME NEW u \in Workers, NEW v \in Workers, HoldsEmployee(u)', HoldsEmployee(v)'
        PROVE  u = v
    <2>1. OnEmployee(txns'[u]) /\ OnEmployee(txns'[v])
      BY <1>2, <1>4
    <2>2. \A k \in Workers : OnEmployee(txns'[k]) => HoldsEmployee(k) \/ (k = w /\ EmployeeFree)
      BY <1>1, Holding DEF Takes
    <2> QED
      BY <2>1, <2>2 DEF LocksExclude, EmployeeFree
  <1> QED
    BY <1>3, <1>4 DEF LocksExclude

\* Days counted between two dates are days.
LEMMA CountedDays ==
    ASSUME setup \in [anchor : Days, working : SUBSET Days], NEW s \in Days, NEW e \in Days, Workable(s, e)
    PROVE  WorkingDays(s, e) \in Days
  <1> DEFINE D == {d \in s .. e : d \in setup.working}
  <1>1. IsFiniteSet(1 .. LastDay) /\ Cardinality(1 .. LastDay) = LastDay
    BY FS_Interval
  <1>2. D \in SUBSET (1 .. LastDay)
    BY DEF Days
  <1>3. IsFiniteSet(D) /\ Cardinality(D) <= LastDay
    BY <1>1, <1>2, FS_Subset
  <1>4. Cardinality(D) \in Nat
    BY <1>3, FS_CardinalityType
  <1> QED
    BY <1>3, <1>4 DEF WorkingDays, Workable, Days

\* A posting made from a request is a posting.
LEMMA PostingTyped ==
    ASSUME TypeOK, NEW r \in Requests, NEW kind \in {"CONSUMED", "REVERSAL"}
    PROVE  /\ LedgerPosting(r, kind) \in Posting /\ LedgerPosting(r, kind) # None
           /\ LedgerPosting(r, kind).kind = kind
           /\ LedgerPosting(r, kind).type = requests[r].type /\ LedgerPosting(r, kind).days = requests[r].days
           /\ LedgerPosting(r, kind).year = LeaveYear(requests[r].start)
  BY TableTypes DEF LedgerPosting, PostingIn, Posting, LeaveYear, YearOf, Years, RequestRow

\* The stage a decision takes is the first pending one.
LEMMA FirstPending ==
    ASSUME Tables, NEW r \in Requests, StagesFollow(r), Status(r) = "SUBMITTED"
    PROVE  /\ CurrentStage(r) \in PendingStages(r) /\ CurrentStage(r) \in 1 .. MaxStages
           /\ \A j \in PendingStages(r) : CurrentStage(r) <= j
           /\ IsFiniteSet(PendingStages(r))
  <1>1. /\ approvals[r] \in Seq(ApprovalRow) /\ Len(approvals[r]) \in Nat /\ Len(approvals[r]) <= MaxStages
        /\ DOMAIN approvals[r] = 1 .. Len(approvals[r])
    BY DEF Tables
  <1>2. PICK n \in DOMAIN approvals[r] :
            \A i \in DOMAIN approvals[r] : Stage(r, i) = IF i < n THEN "APPROVED" ELSE "PENDING"
    BY DEF StagesFollow
  <1>3. n \in PendingStages(r) /\ \A j \in PendingStages(r) : n <= j
    BY <1>1, <1>2 DEF PendingStages, Stage
  <1>4. CurrentStage(r) \in PendingStages(r) /\ \A j \in PendingStages(r) : CurrentStage(r) <= j
    BY <1>3 DEF CurrentStage
  <1>5. PendingStages(r) \in SUBSET (1 .. Len(approvals[r]))
    BY <1>1 DEF PendingStages
  <1>6. IsFiniteSet(PendingStages(r))
    <2>1. IsFiniteSet(1 .. Len(approvals[r]))
      BY <1>1, FS_Interval
    <2> QED
      BY <1>5, <2>1, FS_Subset
  <1> QED
    BY <1>1, <1>4, <1>5, <1>6

----------------------------------------------------------------------------
(* What a step does to the calls *)

\* Nothing but the calls changes.
OnlyCalls == UNCHANGED <<requests, approvals, postings, balances, editedLate>>

\* Reading a balance to carry forward takes no lock and plans no posting of a request.
LEMMA ReadCarryForwardCall ==
    ASSUME TypeOK, NEW w \in Workers, NEW t \in Types, ReadCarryForward(w, t)
    PROVE  OnlyCalls /\ \E x : /\ Takes(w, x) /\ txns' = [txns EXCEPT ![w] = x]
                               /\ x.op = "carry" /\ x.type = t /\ x.posting = None /\ ~x.checked
  <1>1. PICK n \in 0 .. MaxBalance : n = balances[t][0]
    BY DEF ReadCarryForward
  <1>2. PICK x : x = [Idle EXCEPT !.op = "carry", !.carried = n, !.type = t]
    OBVIOUS
  <1>3. x \in Txn /\ x.op = "carry" /\ x.type = t /\ x.posting = None /\ ~x.checked
    BY <1>2, IdleHolds DEF Txn
  <1> QED
    BY <1>1, <1>2, <1>3 DEF ReadCarryForward, Takes, OnRequest, OnEmployee, OnlyCalls, settings

\* Loading a request to edit it takes no lock; the call keeps the copy it read.
LEMMA LoadForEditCall ==
    ASSUME TypeOK, NEW w \in Workers, NEW r \in Requests, LoadForEdit(w, r)
    PROVE  OnlyCalls /\ \E x : /\ Takes(w, x) /\ txns' = [txns EXCEPT ![w] = x]
                               /\ x.op = "edit" /\ x.request = r /\ x.copy = requests[r]
                               /\ x.posting = None /\ ~x.checked
  <1>1. PICK x : x = [Idle EXCEPT !.op = "edit", !.request = r, !.copy = requests[r]]
    OBVIOUS
  <1>2. x \in Txn /\ x.op = "edit" /\ x.request = r /\ x.copy = requests[r] /\ x.posting = None /\ ~x.checked
    BY <1>1, TableTypes, IdleHolds DEF Txn
  <1> QED
    BY <1>1, <1>2 DEF LoadForEdit, Takes, OnRequest, OnEmployee, OnlyCalls, settings

\* A submission waits for its rows, and plans nothing yet.
LEMMA BeginSubmissionCall ==
    ASSUME TypeOK, NEW w \in Workers, NEW r \in Requests, BeginSubmission(w, r)
    PROVE  OnlyCalls /\ \E x : /\ Takes(w, x) /\ txns' = [txns EXCEPT ![w] = x]
                               /\ x.op = "submit" /\ x.request = r /\ x.waits /\ x.posting = None /\ ~x.checked
  <1>1. PICK x : x = [Idle EXCEPT !.op = "submit", !.request = r, !.waits = TRUE]
    OBVIOUS
  <1>2. x \in Txn /\ x.op = "submit" /\ x.request = r /\ x.waits /\ x.posting = None /\ ~x.checked
    BY <1>1, IdleHolds DEF Txn
  <1> QED
    BY <1>1, <1>2 DEF BeginSubmission, Begin, Takes, OnRequest, OnEmployee, OnlyCalls, settings

\* A decision begins on a submitted request: at its first pending stage, final exactly
\* when it approves the last. It plans its posting only once it has the employee.
LEMMA BeginDecisionCall ==
    ASSUME TypeOK, Tables, NEW w \in Workers, NEW r \in Requests, NEW role \in Roles,
           NEW decision \in {"APPROVED", "REJECTED"}, StagesFollow(r), BeginDecision(w, r, role, decision)
    PROVE  /\ OnlyCalls /\ Status(r) = "SUBMITTED"
           /\ \E x : /\ Takes(w, x) /\ txns' = [txns EXCEPT ![w] = x]
                     /\ x.op = "decide" /\ x.request = r /\ x.posting = None /\ ~x.checked
                     /\ x.decision = decision /\ x.stage \in PendingStages(r)
                     /\ \A j \in PendingStages(r) : x.stage <= j
                     /\ x.waits => x.final
                     /\ x.final => x.waits
                     /\ x.final => x.decision = "APPROVED"
                     /\ x.decision = "APPROVED" => (x.final <=> PendingStages(r) = {x.stage})
  <1>1. PICK stage \in 1 .. MaxStages : stage = CurrentStage(r)
    BY FirstPending DEF BeginDecision
  <1>2. PICK final \in BOOLEAN : final = (decision = "APPROVED" /\ Cardinality(PendingStages(r)) = 1)
    OBVIOUS
  <1>3. /\ stage \in PendingStages(r) /\ \A j \in PendingStages(r) : stage <= j
        /\ IsFiniteSet(PendingStages(r))
    BY <1>1, FirstPending DEF BeginDecision
  <1>4. decision = "APPROVED" => (final <=> PendingStages(r) = {stage})
    <2>1. Cardinality(PendingStages(r)) = 1 <=> PendingStages(r) = {stage}
      BY <1>3, FS_Singleton
    <2> QED
      BY <1>2, <2>1
  <1>5. PICK y : y = [Idle EXCEPT !.op = "decide", !.request = r, !.decision = decision]
    OBVIOUS
  <1>6. y \in Txn /\ y.op = "decide" /\ y.request = r /\ y.decision = decision /\ y.posting = None /\ ~y.checked
    BY <1>5, IdleHolds DEF Txn
  <1>7. PICK z : z = [y EXCEPT !.stage = stage]
    OBVIOUS
  <1>8. stage \in 0 .. MaxStages
    OBVIOUS
  <1>9. z \in Txn /\ z.op = "decide" /\ z.request = r /\ z.decision = decision /\ z.stage = stage
         /\ z.posting = None /\ ~z.checked
    BY <1>6, <1>7, <1>8 DEF Txn
  <1>10. PICK x : x = [z EXCEPT !.waits = final, !.final = final]
    OBVIOUS
  <1>11. x \in Txn /\ x.op = "decide" /\ x.request = r /\ x.decision = decision /\ x.stage = stage /\ x.posting = None
    BY <1>10, <1>9 DEF Txn
  <1>12. x.waits = final /\ x.final = final /\ ~x.checked
    BY <1>10, <1>9 DEF Txn
  <1>13. txns' = [txns EXCEPT ![w] = x]
    BY <1>1, <1>2, <1>5, <1>7, <1>10 DEF BeginDecision, Begin
  <1>14. OnlyCalls /\ Status(r) = "SUBMITTED" /\ RequestFree(r)
    BY DEF BeginDecision, Begin, OnlyCalls
  <1>15. Takes(w, x)
    BY <1>11, <1>12, <1>14 DEF Takes, OnRequest, OnEmployee
  <1>16. (x.waits => x.final) /\ (x.final => x.waits)
    BY <1>12
  <1>17. x.final => x.decision = "APPROVED"
    BY <1>2, <1>11, <1>12
  <1> QED
    BY <1>3, <1>4, <1>11, <1>12, <1>13, <1>14, <1>15, <1>16, <1>17

\* A withdrawal begins on a submitted request and never posts.
LEMMA BeginWithdrawalCall ==
    ASSUME TypeOK, NEW w \in Workers, NEW r \in Requests, BeginWithdrawal(w, r)
    PROVE  /\ OnlyCalls /\ Status(r) = "SUBMITTED"
           /\ \E x : /\ Takes(w, x) /\ txns' = [txns EXCEPT ![w] = x]
                     /\ x.op = "withdraw" /\ x.request = r /\ x.posting = None /\ ~x.checked
  <1>1. PICK x : x = [Idle EXCEPT !.op = "withdraw", !.request = r]
    OBVIOUS
  <1>2. x \in Txn /\ x.op = "withdraw" /\ x.request = r /\ x.posting = None /\ ~x.final /\ ~x.checked
    BY <1>1, IdleHolds DEF Txn
  <1> QED
    BY <1>1, <1>2 DEF BeginWithdrawal, Begin, Takes, OnRequest, OnEmployee, OnlyCalls

\* A cancellation begins on an approved request, and has planned nothing yet.
LEMMA BeginCancellationCall ==
    ASSUME TypeOK, NEW w \in Workers, NEW r \in Requests, BeginCancellation(w, r)
    PROVE  /\ OnlyCalls /\ Status(r) = "APPROVED"
           /\ \E x : /\ Takes(w, x) /\ txns' = [txns EXCEPT ![w] = x]
                     /\ x.op = "cancel" /\ x.request = r /\ x.posting = None /\ ~x.checked
                     /\ x.waits <=> Tracked(r)
  <1>1. PICK tracked \in BOOLEAN : tracked = types[requests[r].type].requires_balance
    BY TableTypes DEF TypeRow, RequestRow
  <1>2. PICK x : x = [Idle EXCEPT !.op = "cancel", !.request = r, !.waits = tracked, !.final = tracked]
    OBVIOUS
  <1>3. x \in Txn /\ x.op = "cancel" /\ x.request = r /\ x.posting = None /\ ~x.checked
    BY <1>2, IdleHolds DEF Txn
  <1>4. x.waits = tracked /\ x.final = tracked
    BY <1>2, IdleHolds DEF Txn
  <1>5. txns' = [txns EXCEPT ![w] = x]
    BY <1>1, <1>2 DEF BeginCancellation, Begin
  <1>6. OnlyCalls /\ Status(r) = "APPROVED" /\ RequestFree(r)
    BY DEF BeginCancellation, Begin, OnlyCalls
  <1>7. Takes(w, x)
    BY <1>3, <1>4, <1>6 DEF Takes, OnRequest, OnEmployee
  <1>8. x.waits <=> Tracked(r)
    BY <1>1, <1>4 DEF Tracked
  <1> QED
    BY <1>3, <1>5, <1>6, <1>7, <1>8

\* A call that goes on has both its rows, and keeps the rest of its plan.
LEMMA ProceedCall ==
    ASSUME TypeOK, NEW w \in Workers, NEW posting \in Posting \cup {None}, NEW checked \in BOOLEAN,
           Proceed(w, posting, checked)
    PROVE  /\ OnlyCalls
           /\ \E x \in Txn : /\ txns' = [txns EXCEPT ![w] = x]
                             /\ x.op = txns[w].op /\ x.request = txns[w].request /\ x.stage = txns[w].stage
                             /\ x.decision = txns[w].decision /\ x.copy = txns[w].copy /\ x.type = txns[w].type
                             /\ x.posting = posting /\ x.checked = checked /\ ~x.waits /\ x.final
  <1>1. PICK y \in Txn : y = txns[w]
    BY TableTypes
  <1>2. PICK z : z = [y EXCEPT !.waits = FALSE, !.posting = posting]
    OBVIOUS
  <1>3. /\ z \in Txn /\ z.op = y.op /\ z.request = y.request /\ z.stage = y.stage /\ z.decision = y.decision
        /\ z.copy = y.copy /\ z.type = y.type /\ z.posting = posting /\ ~z.waits
    BY <1>1, <1>2 DEF Txn
  <1>4. PICK x : x = [z EXCEPT !.final = TRUE, !.checked = checked]
    OBVIOUS
  <1>5. /\ x \in Txn /\ x.op = z.op /\ x.request = z.request /\ x.stage = z.stage /\ x.decision = z.decision
        /\ x.copy = z.copy /\ x.type = z.type /\ x.posting = posting
    BY <1>3, <1>4 DEF Txn
  <1>6. x.checked = checked /\ ~x.waits /\ x.final
    BY <1>3, <1>4 DEF Txn
  <1>7. txns' = [txns EXCEPT ![w] = x]
    <2>1. txns' = [txns EXCEPT ![w] = [[[[txns[w] EXCEPT !.waits = FALSE] EXCEPT !.posting = posting]
                                           EXCEPT !.final = TRUE] EXCEPT !.checked = checked]]
      BY TableTypes DEF Proceed
    <2> QED
      BY <1>1, <1>2, <1>4, <2>1
  <1> QED
    BY <1>1, <1>3, <1>5, <1>6, <1>7 DEF Proceed, OnlyCalls

\* An approval posts what the request asks for, or nothing; what it checked is covered.
LEMMA ApproveCall ==
    ASSUME TypeOK, NEW w \in Workers, NEW r \in Requests, Approve(w, r)
    PROVE  \E posting \in {None, LedgerPosting(r, "CONSUMED")}, checked \in BOOLEAN :
               /\ Proceed(w, posting, checked) /\ posting = Planned(r, "CONSUMED")
               /\ checked => /\ posting = LedgerPosting(r, "CONSUMED")
                             /\ balances[requests[r].type][LeaveYear(requests[r].start)] >= requests[r].days
  <1>1. PICK row \in TypeRow : row = types[requests[r].type]
    BY TableTypes DEF RequestRow
  <1>2. PICK checked \in BOOLEAN : checked = (row.requires_balance /\ ~row.allow_negative_balance)
    OBVIOUS
  <1>3. checked => balances[requests[r].type][LeaveYear(requests[r].start)] >= requests[r].days
    BY <1>1, <1>2 DEF Approve
  <1>4. checked => row.requires_balance
    BY <1>2
  <1>5. Proceed(w, IF row.requires_balance THEN LedgerPosting(r, "CONSUMED") ELSE None, checked)
    BY <1>1, <1>2 DEF Approve
  <1>6. CASE row.requires_balance
    <2>1. Planned(r, "CONSUMED") = LedgerPosting(r, "CONSUMED")
      BY <1>1, <1>6 DEF Planned, Tracked
    <2> QED
      BY <1>3, <1>5, <1>6, <2>1
  <1>7. CASE ~row.requires_balance
    <2>1. Planned(r, "CONSUMED") = None
      BY <1>1, <1>7 DEF Planned, Tracked
    <2> QED
      BY <1>4, <1>5, <1>7, <2>1
  <1> QED
    BY <1>6, <1>7

\* A direct submission has found its request a draft that overlaps no standing one, and
\* plans the posting it checked.
LEMMA SubmitDirectlyCall ==
    ASSUME TypeOK, NEW w \in Workers, NEW r \in Requests, txns[w].request = r, SubmitDirectly(w)
    PROVE  /\ OnlyCalls /\ Status(r) = "DRAFT" /\ \A other \in Requests \ {r} : Standing(other) => ~Overlap(r, other)
           /\ \E x : /\ Takes(w, x) /\ txns' = [txns EXCEPT ![w] = x]
                     /\ x.op = "submit" /\ x.request = r /\ ~x.waits /\ x.final
                     /\ x.posting \in {None, LedgerPosting(r, "CONSUMED")} /\ x.posting = Planned(r, "CONSUMED")
                     /\ x.checked => /\ x.posting = LedgerPosting(r, "CONSUMED")
                                     /\ balances[requests[r].type][LeaveYear(requests[r].start)] >= requests[r].days
  <1>1. /\ txns[w].op = "submit" /\ RequestFree(r) /\ Status(r) = "DRAFT" /\ Approve(w, r)
        /\ \A other \in Requests \ {r} : Standing(other) => ~Overlap(r, other)
    BY DEF SubmitDirectly, Submittable
  <1>2. PICK posting \in {None, LedgerPosting(r, "CONSUMED")}, checked \in BOOLEAN :
               /\ Proceed(w, posting, checked) /\ posting = Planned(r, "CONSUMED")
               /\ checked => /\ posting = LedgerPosting(r, "CONSUMED")
                             /\ balances[requests[r].type][LeaveYear(requests[r].start)] >= requests[r].days
    BY <1>1, ApproveCall
  <1>3. posting \in Posting \cup {None}
    BY PostingTyped
  <1>4. PICK x \in Txn : /\ txns' = [txns EXCEPT ![w] = x]
                         /\ x.op = "submit" /\ x.request = r /\ x.posting = posting /\ x.checked = checked
                         /\ ~x.waits /\ x.final
    BY <1>1, <1>2, <1>3, ProceedCall
  <1>5. Takes(w, x)
    BY <1>1, <1>4 DEF Takes, OnRequest, OnEmployee
  <1>6. OnlyCalls
    BY <1>2, <1>3, ProceedCall
  <1>7. x.checked => /\ x.posting = LedgerPosting(r, "CONSUMED")
                     /\ balances[requests[r].type][LeaveYear(requests[r].start)] >= requests[r].days
    BY <1>2, <1>4
  <1> QED
    BY <1>1, <1>2, <1>4, <1>5, <1>6, <1>7

\* A final approval that now has the employee keeps its stage and plans the posting it checked.
LEMMA ProceedApprovalCall ==
    ASSUME TypeOK, NEW w \in Workers, NEW r \in Requests, txns[w].request = r, ProceedApproval(w)
    PROVE  /\ OnlyCalls
           /\ \E x : /\ Takes(w, x) /\ txns' = [txns EXCEPT ![w] = x]
                     /\ x.op = "decide" /\ x.request = r /\ x.stage = txns[w].stage
                     /\ x.decision = txns[w].decision /\ ~x.waits /\ x.final
                     /\ x.posting \in {None, LedgerPosting(r, "CONSUMED")} /\ x.posting = Planned(r, "CONSUMED")
                     /\ x.checked => /\ x.posting = LedgerPosting(r, "CONSUMED")
                                     /\ balances[requests[r].type][LeaveYear(requests[r].start)] >= requests[r].days
  <1>1. txns[w].op = "decide" /\ EmployeeFree /\ Approve(w, r)
    BY DEF ProceedApproval
  <1>2. PICK posting \in {None, LedgerPosting(r, "CONSUMED")}, checked \in BOOLEAN :
               /\ Proceed(w, posting, checked) /\ posting = Planned(r, "CONSUMED")
               /\ checked => /\ posting = LedgerPosting(r, "CONSUMED")
                             /\ balances[requests[r].type][LeaveYear(requests[r].start)] >= requests[r].days
    BY <1>1, ApproveCall
  <1>3. posting \in Posting \cup {None}
    BY PostingTyped
  <1>4. PICK x \in Txn : /\ txns' = [txns EXCEPT ![w] = x]
                         /\ x.op = "decide" /\ x.request = r /\ x.stage = txns[w].stage /\ x.decision = txns[w].decision
                         /\ x.posting = posting /\ x.checked = checked /\ ~x.waits /\ x.final
    BY <1>1, <1>2, <1>3, ProceedCall
  <1>5. Takes(w, x)
    BY <1>1, <1>4 DEF Takes, OnRequest, OnEmployee
  <1>6. OnlyCalls
    BY <1>2, <1>3, ProceedCall
  <1>7. x.checked => /\ x.posting = LedgerPosting(r, "CONSUMED")
                     /\ balances[requests[r].type][LeaveYear(requests[r].start)] >= requests[r].days
    BY <1>2, <1>4
  <1> QED
    BY <1>2, <1>4, <1>5, <1>6, <1>7

\* A cancellation that now has the employee plans to give back what was consumed.
LEMMA ProceedCancellationCall ==
    ASSUME TypeOK, NEW w \in Workers, NEW r \in Requests, txns[w].request = r, ProceedCancellation(w)
    PROVE  /\ OnlyCalls
           /\ \E x : /\ Takes(w, x) /\ txns' = [txns EXCEPT ![w] = x]
                     /\ x.op = "cancel" /\ x.request = r /\ ~x.waits /\ x.final
                     /\ x.posting = LedgerPosting(r, "REVERSAL") /\ ~x.checked
  <1>1. PICK checked \in BOOLEAN : checked = FALSE
    OBVIOUS
  <1>2. txns[w].op = "cancel" /\ EmployeeFree /\ Proceed(w, LedgerPosting(r, "REVERSAL"), checked)
    BY <1>1 DEF ProceedCancellation
  <1>3. LedgerPosting(r, "REVERSAL") \in Posting
    BY PostingTyped
  <1>4. PICK x \in Txn : /\ txns' = [txns EXCEPT ![w] = x]
                         /\ x.op = "cancel" /\ x.request = r
                         /\ x.posting = LedgerPosting(r, "REVERSAL") /\ x.checked = checked /\ ~x.waits /\ x.final
    BY <1>2, <1>3, ProceedCall
  <1>5. Takes(w, x)
    BY <1>2, <1>4 DEF Takes, OnRequest, OnEmployee
  <1>6. OnlyCalls
    BY <1>2, <1>3, ProceedCall
  <1>7. ~x.checked
    BY <1>1, <1>4
  <1> QED
    BY <1>4, <1>5, <1>6, <1>7

----------------------------------------------------------------------------
(* Plans that a step does not disturb *)

\* The step leaves alone what a call has locked.
Respects(x) ==
    /\ OnRequest(x, x.request) =>
           requests'[x.request] = requests[x.request] /\ approvals'[x.request] = approvals[x.request]
    /\ OnEmployee(x) =>
           /\ balances' = balances
           /\ \A o \in Requests \ editedLate' : Standing(o)' =>
                  /\ o \notin editedLate /\ Standing(o)
                  /\ requests'[o].start = requests[o].start /\ requests'[o].end = requests[o].end

\* A plan that fits still does when its rows are left alone.
LEMMA FitsKept ==
    ASSUME NEW x \in Txn, Fits(x), Respects(x)
    PROVE  Fits(x)'
  <1>1. Named(x)'
    BY DEF Fits, Named
  <1>2. StatusFits(x)'
    BY DEF Fits, StatusFits, Respects, Status, OnRequest
  <1>3. PostingFits(x)'
    BY DEF Fits, PostingFits, Respects, OnRequest, OnEmployee
  <1>4. BalanceFits(x)'
    BY DEF Fits, BalanceFits, PostingFits, Respects
  <1>5. DecisionFits(x)'
    <2> SUFFICES ASSUME x.op = "decide" PROVE DecisionFits(x)'
      BY DEF DecisionFits
    <2>1. approvals'[x.request] = approvals[x.request]
      BY DEF Respects, OnRequest
    <2>2. PendingStages(x.request)' = PendingStages(x.request)
      BY <2>1 DEF PendingStages
    <2> QED
      BY <2>2 DEF Fits, DecisionFits
  <1>6. DatesFit(x)'
    <2> SUFFICES ASSUME x.op = "submit", ~x.waits, NEW o \in (Requests \ editedLate') \ {x.request}, Standing(o)'
                 PROVE  ~Overlap(x.request, o)'
      BY DEF DatesFit
    <2>1. /\ o \notin editedLate /\ Standing(o)
          /\ requests'[o].start = requests[o].start /\ requests'[o].end = requests[o].end
          /\ requests'[x.request] = requests[x.request]
      BY DEF Respects, OnRequest, OnEmployee
    <2>2. ~Overlap(x.request, o)
      BY <2>1 DEF Fits, DatesFit
    <2> QED
      BY <2>1, <2>2 DEF Overlap
  <1> QED
    BY <1>1, <1>2, <1>3, <1>4, <1>5, <1>6 DEF Fits

\* A call that has ended plans nothing.
LEMMA IdleFits == Fits(Idle)'
  BY IdleHolds DEF Fits, Named, StatusFits, PostingFits, BalanceFits, DecisionFits, DatesFit

\* A step of the calls alone keeps every plan, and what the tables tell.
LEMMA OnlyCallsStep ==
    ASSUME TypeOK, Tables, LocksExclude, DatesAndDaysAgree, \A r \in Requests : StagesFollow(r) /\ PostingsFollow(r),
           \A v \in Workers : Fits(txns[v]),
           OnlyCalls, NEW w \in Workers, NEW x, Takes(w, x), Fits(x), txns' = [txns EXCEPT ![w] = x],
           types' \in [Types -> TypeRow], stages' \in [1 .. MaxStages -> Roles \cup {None}],
           setup' \in [anchor : Days, working : SUBSET Days], resettled' \subseteq Requests
    PROVE  LeaveInv'
  <1>1. \A y : Respects(y)
    BY DEF Respects, OnlyCalls, Standing, Status
  <1>2. txns' \in [Workers -> Txn] /\ txns'[w] = x /\ \A v \in Workers \ {w} : txns'[v] = txns[v]
    BY TableTypes DEF Takes
  <1>3. TypeOK'
    BY <1>2 DEF TypeOK, OnlyCalls
  <1>4. Tables' /\ DatesAndDaysAgree'
    BY DEF OnlyCalls, Tables, DatesAndDaysAgree, Standing, Status
  <1>5. ASSUME NEW v \in Workers PROVE Fits(txns[v])'
    <2>1. PICK y \in Txn : y = txns'[v] /\ Fits(y)
      BY <1>2, TableTypes DEF Takes
    <2>2. Fits(y)'
      BY <1>1, <2>1, FitsKept
    <2> QED
      BY <2>1, <2>2
  <1>6. \A r \in Requests : StagesFollow(r)' /\ PostingsFollow(r)'
    BY DEF OnlyCalls, StagesFollow, PostingsFollow, Status, Stage
  <1> QED
    BY <1>3, <1>4, <1>5, <1>6, TakenApart DEF LeaveInv

----------------------------------------------------------------------------
(* Steps of the calls alone *)

\* What the invariant gives to a lemma about one call.
LEMMA Known ==
    ASSUME LeaveInv
    PROVE  /\ TypeOK /\ Tables /\ LocksExclude /\ DatesAndDaysAgree
           /\ \A r \in Requests : StagesFollow(r) /\ PostingsFollow(r)
           /\ \A w \in Workers : Fits(txns[w]) /\ Named(txns[w])
           /\ types \in [Types -> TypeRow] /\ stages \in [1 .. MaxStages -> Roles \cup {None}]
           /\ setup \in [anchor : Days, working : SUBSET Days] /\ resettled \subseteq Requests
  BY TableTypes DEF LeaveInv, Fits

\* A plan without a posting or a second lock fits when its status and stage do.
LEMMA BareFits ==
    ASSUME NEW x, x.posting = None, ~x.checked, Named(x), StatusFits(x), DecisionFits(x), x.op = "submit" => x.waits
    PROVE  Fits(x)
  BY DEF Fits, PostingFits, BalanceFits, DatesFit

\* The calls that begin without a plan keep the invariant.
LEMMA SimpleCallStep ==
    ASSUME LeaveInv, NEW w \in Workers,
           \/ \E t \in Types : ReadCarryForward(w, t)
           \/ \E r \in Requests : \/ LoadForEdit(w, r) \/ BeginSubmission(w, r)
                                  \/ BeginWithdrawal(w, r) \/ BeginCancellation(w, r)
    PROVE  LeaveInv'
  <1>1. CASE \E t \in Types : ReadCarryForward(w, t)
    <2>1. PICK t \in Types : ReadCarryForward(w, t)
      BY <1>1
    <2>2. PICK x : /\ OnlyCalls /\ Takes(w, x) /\ txns' = [txns EXCEPT ![w] = x]
                   /\ x.op = "carry" /\ x.type = t /\ x.posting = None /\ ~x.checked
      BY <2>1, Known, ReadCarryForwardCall
    <2>3. Fits(x)
      BY <2>2, BareFits DEF Named, StatusFits, DecisionFits, OnRequest
    <2> QED
      BY <2>1, <2>2, <2>3, Known, OnlyCallsStep DEF ReadCarryForward, settings
  <1>2. CASE \E r \in Requests : LoadForEdit(w, r)
    <2>1. PICK r \in Requests : LoadForEdit(w, r)
      BY <1>2
    <2>2. PICK x : /\ OnlyCalls /\ Takes(w, x) /\ txns' = [txns EXCEPT ![w] = x]
                   /\ x.op = "edit" /\ x.request = r /\ x.copy = requests[r] /\ x.posting = None /\ ~x.checked
      BY <2>1, Known, LoadForEditCall
    <2>3. requests[r] \in RequestRow
      BY Known, TableTypes
    <2>4. Fits(x)
      BY <2>2, <2>3, BareFits DEF Named, StatusFits, DecisionFits, OnRequest
    <2> QED
      BY <2>1, <2>2, <2>4, Known, OnlyCallsStep DEF LoadForEdit, settings
  <1>3. CASE \E r \in Requests : BeginSubmission(w, r)
    <2>1. PICK r \in Requests : BeginSubmission(w, r)
      BY <1>3
    <2>2. PICK x : /\ OnlyCalls /\ Takes(w, x) /\ txns' = [txns EXCEPT ![w] = x]
                   /\ x.op = "submit" /\ x.request = r /\ x.waits /\ x.posting = None /\ ~x.checked
      BY <2>1, Known, BeginSubmissionCall
    <2>3. Fits(x)
      BY <2>2, BareFits DEF Named, StatusFits, DecisionFits, OnRequest
    <2> QED
      BY <2>1, <2>2, <2>3, Known, OnlyCallsStep DEF BeginSubmission, Begin, settings
  <1>4. CASE \E r \in Requests : BeginWithdrawal(w, r)
    <2>1. PICK r \in Requests : BeginWithdrawal(w, r)
      BY <1>4
    <2>2. PICK x : /\ OnlyCalls /\ Takes(w, x) /\ txns' = [txns EXCEPT ![w] = x] /\ Status(r) = "SUBMITTED"
                   /\ x.op = "withdraw" /\ x.request = r /\ x.posting = None /\ ~x.checked
      BY <2>1, Known, BeginWithdrawalCall
    <2>3. Fits(x)
      BY <2>2, BareFits DEF Named, StatusFits, DecisionFits, Relied
    <2> QED
      BY <2>1, <2>2, <2>3, Known, OnlyCallsStep DEF BeginWithdrawal, Begin, settings
  <1>5. CASE \E r \in Requests : BeginCancellation(w, r)
    <2>1. PICK r \in Requests : BeginCancellation(w, r)
      BY <1>5
    <2>2. PICK x : /\ OnlyCalls /\ Takes(w, x) /\ txns' = [txns EXCEPT ![w] = x] /\ Status(r) = "APPROVED"
                   /\ x.op = "cancel" /\ x.request = r /\ x.posting = None /\ ~x.checked
      BY <2>1, Known, BeginCancellationCall
    <2>3. Fits(x)
      BY <2>2, BareFits DEF Named, StatusFits, DecisionFits, Relied
    <2> QED
      BY <2>1, <2>2, <2>3, Known, OnlyCallsStep DEF BeginCancellation, Begin, settings
  <1> QED
    BY <1>1, <1>2, <1>3, <1>4, <1>5

\* The beginning of a decision keeps the invariant.
LEMMA BeginDecisionStep ==
    ASSUME LeaveInv, NEW w \in Workers, NEW r \in Requests, NEW role \in Roles,
           NEW decision \in {"APPROVED", "REJECTED"}, BeginDecision(w, r, role, decision)
    PROVE  LeaveInv'
  <1>1. PICK x : /\ OnlyCalls /\ Takes(w, x) /\ txns' = [txns EXCEPT ![w] = x] /\ Status(r) = "SUBMITTED"
                 /\ x.op = "decide" /\ x.request = r /\ x.posting = None /\ ~x.checked
                 /\ x.decision = decision /\ x.stage \in PendingStages(r)
                 /\ \A j \in PendingStages(r) : x.stage <= j
                 /\ x.waits => x.final
                 /\ x.final => x.decision = "APPROVED"
                 /\ x.decision = "APPROVED" => (x.final <=> PendingStages(r) = {x.stage})
    BY Known, BeginDecisionCall
  <1>2. DecisionFits(x)
    BY <1>1 DEF DecisionFits
  <1>3. Fits(x)
    BY <1>1, <1>2, BareFits DEF Named, StatusFits, Relied
  <1> QED
    BY <1>1, <1>3, Known, OnlyCallsStep DEF BeginDecision, Begin, settings

\* A call that proceeds under both locks plans what the rows say.
LEMMA ProceedFits ==
    ASSUME TypeOK, NEW r \in Requests, NEW kind \in {"CONSUMED", "REVERSAL"},
           NEW x, x.request = r, ~x.waits, x.final, x.op \in {"submit", "decide", "cancel"},
           x.posting \in {None, LedgerPosting(r, kind)}, kind = IF x.op = "cancel" THEN "REVERSAL" ELSE "CONSUMED",
           Status(r) = Relied(x.op), DecisionFits(x), DatesFit(x),
           x.checked => /\ x.posting = LedgerPosting(r, "CONSUMED")
                        /\ balances[requests[r].type][LeaveYear(requests[r].start)] >= requests[r].days
    PROVE  Fits(x)
  <1>1. Named(x) /\ StatusFits(x)
    BY DEF Named, StatusFits
  <1>2. PostingFits(x)
    BY PostingTyped DEF PostingFits, OnRequest, OnEmployee
  <1>3. BalanceFits(x)
    BY PostingTyped DEF BalanceFits
  <1> QED
    BY <1>1, <1>2, <1>3 DEF Fits

\* A call that takes its second row keeps the invariant.
LEMMA ProceedStep ==
    ASSUME LeaveInv, NEW w \in Workers, SubmitDirectly(w) \/ ProceedApproval(w) \/ ProceedCancellation(w)
    PROVE  LeaveInv'
  <1>1. txns[w].op \in {"submit", "decide", "cancel"}
    BY DEF SubmitDirectly, Submittable, ProceedApproval, ProceedCancellation
  <1>2. PICK r \in Requests : r = txns[w].request
    BY <1>1, Known DEF Named
  <1>3. CASE SubmitDirectly(w)
    <2>1. PICK x :
              /\ OnlyCalls /\ Status(r) = "DRAFT"
              /\ \A other \in Requests \ {r} : Standing(other) => ~Overlap(r, other)
              /\ Takes(w, x) /\ txns' = [txns EXCEPT ![w] = x]
              /\ x.op = "submit" /\ x.request = r /\ ~x.waits /\ x.final
              /\ x.posting \in {None, LedgerPosting(r, "CONSUMED")}
              /\ x.checked => /\ x.posting = LedgerPosting(r, "CONSUMED")
                              /\ balances[requests[r].type][LeaveYear(requests[r].start)] >= requests[r].days
      BY <1>2, <1>3, Known, SubmitDirectlyCall
    <2>2. DatesFit(x) /\ DecisionFits(x)
      BY <2>1 DEF DatesFit, DecisionFits
    <2>3. Fits(x)
      BY <2>1, <2>2, Known, ProceedFits DEF Relied
    <2> QED
      BY <1>3, <2>1, <2>3, Known, OnlyCallsStep DEF SubmitDirectly, Approve, Proceed, settings
  <1>4. CASE ProceedApproval(w)
    <2>1. PICK x :
              /\ OnlyCalls /\ Takes(w, x) /\ txns' = [txns EXCEPT ![w] = x]
              /\ x.op = "decide" /\ x.request = r /\ x.stage = txns[w].stage
              /\ x.decision = txns[w].decision /\ ~x.waits /\ x.final
              /\ x.posting \in {None, LedgerPosting(r, "CONSUMED")}
              /\ x.checked => /\ x.posting = LedgerPosting(r, "CONSUMED")
                              /\ balances[requests[r].type][LeaveYear(requests[r].start)] >= requests[r].days
      BY <1>2, <1>4, Known, ProceedApprovalCall
    <2>2. txns[w].op = "decide" /\ txns[w].waits
      BY <1>4 DEF ProceedApproval
    <2>3. PICK y : y = txns[w]
      OBVIOUS
    <2>4. y.op = "decide" /\ y.waits /\ y.request = r /\ Fits(y)
      BY <1>2, <2>2, <2>3, Known
    <2>5. Status(r) = "SUBMITTED"
      BY <2>4 DEF Fits, StatusFits, OnRequest, Relied
    <2>6. /\ y.decision = "APPROVED" /\ y.stage \in PendingStages(r)
          /\ \A j \in PendingStages(r) : y.stage <= j
          /\ PendingStages(r) = {y.stage}
      BY <2>4 DEF Fits, DecisionFits
    <2>7. DecisionFits(x) /\ DatesFit(x)
      BY <2>1, <2>3, <2>6 DEF DecisionFits, DatesFit
    <2>8. Fits(x)
      BY <2>1, <2>5, <2>7, Known, ProceedFits DEF Relied
    <2> QED
      BY <1>4, <2>1, <2>8, Known, OnlyCallsStep DEF ProceedApproval, Approve, Proceed, settings
  <1>5. CASE ProceedCancellation(w)
    <2>1. PICK x :
              /\ OnlyCalls /\ Takes(w, x) /\ txns' = [txns EXCEPT ![w] = x]
              /\ x.op = "cancel" /\ x.request = r /\ ~x.waits /\ x.final
              /\ x.posting = LedgerPosting(r, "REVERSAL") /\ ~x.checked
      BY <1>2, <1>5, Known, ProceedCancellationCall
    <2>2. Status(r) = "APPROVED"
      <3>1. OnRequest(txns[w], r) /\ Relied(txns[w].op) = "APPROVED"
        BY <1>2, <1>5 DEF ProceedCancellation, OnRequest, Relied
      <3> QED
        BY <1>2, <3>1, Known DEF Fits, StatusFits
    <2>3. DatesFit(x) /\ DecisionFits(x)
      BY <2>1 DEF DatesFit, DecisionFits
    <2>4. Fits(x)
      BY <2>1, <2>2, <2>3, Known, ProceedFits DEF Relied
    <2> QED
      BY <1>5, <2>1, <2>4, Known, OnlyCallsStep DEF ProceedCancellation, Proceed, settings
  <1> QED
    BY <1>3, <1>4, <1>5

\* A call that is rolled back leaves no trace.
LEMMA RollbackStep ==
    ASSUME LeaveInv, NEW w \in Workers, Rollback(w)
    PROVE  LeaveInv'
  <1>1. OnlyCalls /\ txns' = [txns EXCEPT ![w] = Idle]
    BY DEF Rollback, End, OnlyCalls
  <1>2. Takes(w, Idle) /\ Fits(Idle)
    BY IdleHolds DEF Takes, Fits, Named, StatusFits, PostingFits, BalanceFits, DecisionFits, DatesFit
  <1> QED
    BY <1>1, <1>2, Known, OnlyCallsStep DEF Rollback, settings

----------------------------------------------------------------------------
(* Steps that write tables *)

\* The invariant survives a step that writes tables when each call it leaves
\* running is respected, the others end, and the tables still agree.
LEMMA TableStep ==
    ASSUME LeaveInv, UNCHANGED settings, txns' \in [Workers -> Txn],
           \A v \in Workers : (txns'[v] = txns[v] /\ Respects(txns[v])) \/ txns'[v] = Idle,
           requests' \in [Requests -> RequestRow], balances' \in [Types -> [Years -> Int]],
           editedLate' \subseteq Requests, Tables', DatesAndDaysAgree',
           \A r \in Requests : StagesFollow(r)' /\ PostingsFollow(r)'
    PROVE  LeaveInv'
  <1>1. TypeOK'
    <2>1. /\ types' \in [Types -> TypeRow] /\ stages' \in [1 .. MaxStages -> Roles \cup {None}]
          /\ setup' \in [anchor : Days, working : SUBSET Days] /\ resettled' \subseteq Requests
      BY Known DEF settings
    <2>2. /\ approvals' \in [Requests -> Seq(ApprovalRow)]
          /\ postings' \in [Requests -> Seq(Posting)]
      BY DEF Tables
    <2>3. /\ \A r \in Requests : \A i \in DOMAIN approvals'[r] : approvals'[r][i] \in ApprovalRow
          /\ \A r \in Requests : \A i \in DOMAIN postings'[r] : postings'[r][i] \in Posting
      BY <2>2
    <2> QED
      BY <2>1, <2>3 DEF TypeOK, ApprovalRow
  <1>2. ASSUME NEW v \in Workers PROVE Fits(txns[v])'
    <2>1. CASE txns'[v] = txns[v] /\ Respects(txns[v])
      <3>1. PICK y \in Txn : y = txns[v]
        BY Known, TableTypes
      <3>2. Fits(y)'
        BY <2>1, <3>1, Known, FitsKept
      <3> QED
        BY <2>1, <3>1, <3>2
    <2>2. CASE txns'[v] = Idle
      <3>1. PICK y : y = Idle
        OBVIOUS
      <3>2. Fits(y)'
        BY <3>1, IdleHolds DEF Fits, Named, StatusFits, PostingFits, BalanceFits, DecisionFits, DatesFit
      <3> QED
        BY <2>2, <3>1, <3>2
    <2> QED
      BY <2>1, <2>2
  <1>3. LocksExclude'
    <2>1. /\ \A v \in Workers, r \in Requests : HoldsRequest(v, r)' <=> OnRequest(txns'[v], r)
          /\ \A v \in Workers : HoldsEmployee(v)' <=> OnEmployee(txns'[v])
      BY DEF HoldsRequest, HoldsEmployee, InTransaction, TakesEmployeeFirst, OnRequest, OnEmployee
    <2>2. /\ \A v \in Workers, r \in Requests : HoldsRequest(v, r)' => HoldsRequest(v, r)
          /\ \A v \in Workers : HoldsEmployee(v)' => HoldsEmployee(v)
      BY <2>1, Holding, IdleHolds
    <2> QED
      BY <2>2, Known DEF LocksExclude
  <1> QED
    BY <1>1, <1>2, <1>3 DEF LeaveInv

\* Nobody but its holder sees a change of the row.
LEMMA Unlocked ==
    ASSUME NEW v \in Workers
    PROVE  /\ \A r \in Requests : RequestFree(r) => ~OnRequest(txns[v], r)
           /\ EmployeeFree => ~OnEmployee(txns[v])
  BY Holding DEF RequestFree, EmployeeFree

\* Settings change under the calls.
LEMMA SettingsStep ==
    ASSUME LeaveInv, UNCHANGED <<requests, approvals, postings, balances, txns, editedLate>>,
           types' \in [Types -> TypeRow], stages' \in [1 .. MaxStages -> Roles \cup {None}],
           setup' \in [anchor : Days, working : SUBSET Days], resettled' \subseteq Requests
    PROVE  LeaveInv'
  <1>1. TypeOK'
    BY Known DEF TypeOK
  <1>2. Tables' /\ DatesAndDaysAgree'
    BY Known DEF Tables, DatesAndDaysAgree, Standing, Status
  <1>3. LocksExclude'
    BY Known DEF LocksExclude, HoldsRequest, HoldsEmployee, InTransaction
  <1>4. \A r \in Requests : StagesFollow(r)' /\ PostingsFollow(r)'
    BY Known DEF StagesFollow, PostingsFollow, Status, Stage
  <1>5. ASSUME NEW v \in Workers PROVE Fits(txns[v])'
    <2>1. PICK y \in Txn : y = txns[v]
      BY Known, TableTypes
    <2>2. Respects(y)
      BY DEF Respects, Standing, Status
    <2>3. Fits(y)'
      BY <2>1, <2>2, Known, FitsKept
    <2> QED
      BY <2>1, <2>3
  <1> QED
    BY <1>1, <1>2, <1>3, <1>4, <1>5 DEF LeaveInv

\* New settings, types and workflow stages keep the invariant: calls keep the plans they made.
LEMMA ConfigurationStep ==
    ASSUME LeaveInv,
           \/ \E anchor \in YearStarts, working \in Weeks : Configure(anchor, working)
           \/ \E t \in Types, row \in TypeSettings : UpdateLeaveType(t, row)
           \/ \E i \in DOMAIN stages, role \in Roles \cup {None} : SetStage(i, role)
    PROVE  LeaveInv'
  <1>1. CASE \E anchor \in YearStarts, working \in Weeks : Configure(anchor, working)
    BY <1>1, Known, SettingsStep DEF Configure
  <1>2. CASE \E t \in Types, row \in TypeSettings : UpdateLeaveType(t, row)
    BY <1>2, Known, SettingsStep DEF UpdateLeaveType
  <1>3. CASE \E i \in DOMAIN stages, role \in Roles \cup {None} : SetStage(i, role)
    BY <1>3, Known, SettingsStep DEF SetStage
  <1> QED
    BY <1>1, <1>2, <1>3

\* A balance changes only while nobody has the employee locked.
LEMMA BalanceStep ==
    ASSUME LeaveInv,
           \/ \E t \in Types, y \in AdjustedYears, days \in {-1, 1} : AdjustBalance(t, y, days)
           \/ \E w \in Workers : PostCarryForward(w)
    PROVE  LeaveInv'
  <1>1. /\ EmployeeFree /\ UNCHANGED <<settings, requests, approvals, postings, editedLate>>
        /\ txns' \in [Workers -> Txn] /\ \A v \in Workers : txns'[v] = txns[v] \/ txns'[v] = Idle
    <2>1. CASE \E t \in Types, y \in AdjustedYears, days \in {-1, 1} : AdjustBalance(t, y, days)
      BY <2>1, Known, TableTypes DEF AdjustBalance
    <2>2. CASE \E w \in Workers : PostCarryForward(w)
      <3>1. PICK w \in Workers : PostCarryForward(w)
        BY <2>2
      <3>2. txns' = [txns EXCEPT ![w] = Idle]
        BY <3>1 DEF PostCarryForward, End
      <3>3. EmployeeFree /\ UNCHANGED <<settings, requests, approvals, postings, editedLate>>
        BY <3>1 DEF PostCarryForward
      <3> QED
        BY <3>2, <3>3, Known, TableTypes, IdleHolds
    <2> QED
      BY <2>1, <2>2
  <1>2. balances' \in [Types -> [Years -> Int]]
    <2>1. CASE \E t \in Types, y \in AdjustedYears, days \in {-1, 1} : AdjustBalance(t, y, days)
      BY <2>1, Known, TableTypes DEF AdjustBalance, AdjustedYears, Years
    <2>2. CASE \E w \in Workers : PostCarryForward(w)
      <3>1. PICK w \in Workers : PostCarryForward(w)
        BY <2>2
      <3>2. PICK t \in Types, n \in 0 .. MaxBalance : t = txns[w].type /\ n = txns[w].carried
        BY <3>1, Known, TableTypes DEF PostCarryForward, Named, Txn
      <3>3. balances' = [balances EXCEPT ![t][1] = @ + n]
        BY <3>1, <3>2 DEF PostCarryForward
      <3> QED
        BY <3>3, Known, TableTypes DEF Years
    <2> QED
      BY <2>1, <2>2
  <1>3. \A v \in Workers : Respects(txns[v])
    BY <1>1, Unlocked DEF Respects, Standing, Status
  <1>4. Tables' /\ DatesAndDaysAgree'
    BY <1>1, Known DEF Tables, DatesAndDaysAgree, Standing, Status
  <1>5. \A r \in Requests : StagesFollow(r)' /\ PostingsFollow(r)'
    BY <1>1, Known DEF StagesFollow, PostingsFollow, Status, Stage
  <1>6. requests' \in [Requests -> RequestRow] /\ editedLate' \subseteq Requests /\ UNCHANGED settings
    BY <1>1, Known, TableTypes DEF settings
  <1> QED
    BY <1>1, <1>2, <1>3, <1>4, <1>5, <1>6, TableStep

\* A new draft has no stages and no postings, and nobody has locked it.
LEMMA CreateStep ==
    ASSUME LeaveInv, NEW r \in Requests, NEW t \in Types, NEW start \in Days, NEW end \in Days,
           CreateLeaveRequest(r, t, start, end)
    PROVE  LeaveInv'
  <1>1. WorkingDays(start, end) \in Days
    BY Known, CountedDays DEF CreateLeaveRequest
  <1>2. PICK row \in RequestRow : row.status = "DRAFT" /\ requests' = [requests EXCEPT ![r] = row]
    BY <1>1 DEF CreateLeaveRequest, RequestRow
  <1>3. /\ requests' \in [Requests -> RequestRow] /\ requests'[r].status = "DRAFT"
        /\ \A q \in Requests \ {r} : requests'[q] = requests[q]
    BY <1>2, Known, TableTypes
  <1>4. /\ requests[r].status = "absent" /\ EmployeeFree
        /\ UNCHANGED <<settings, approvals, postings, balances, txns, editedLate>>
    BY DEF CreateLeaveRequest, Status
  <1>5. approvals[r] = <<>> /\ postings[r] = <<>>
    BY <1>4, Known DEF StagesFollow, PostingsFollow, Status
  <1>6. \A v \in Workers : Respects(txns[v])
    <2> SUFFICES ASSUME NEW v \in Workers PROVE Respects(txns[v])
      OBVIOUS
    <2>1. ~OnEmployee(txns[v])
      BY <1>4, Unlocked
    <2>2. OnRequest(txns[v], txns[v].request) => txns[v].request # r /\ txns[v].request \in Requests
      BY <1>4, Known DEF Fits, StatusFits, Status, Relied, Named, OnRequest
    <2> QED
      BY <1>3, <1>4, <2>1, <2>2 DEF Respects
  <1>7. DatesAndDaysAgree'
    BY <1>3, <1>4, <1>5, Known DEF DatesAndDaysAgree, Standing, Status
  <1>8. ASSUME NEW q \in Requests PROVE StagesFollow(q)' /\ PostingsFollow(q)'
    <2>1. CASE q = r
      BY <1>3, <1>4, <1>5, <2>1 DEF StagesFollow, PostingsFollow, Status
    <2>2. CASE q # r
      BY <1>3, <1>4, <2>2, Known DEF StagesFollow, PostingsFollow, Status, Stage
    <2> QED
      BY <2>1, <2>2
  <1>9. /\ Tables' /\ txns' \in [Workers -> Txn] /\ balances' \in [Types -> [Years -> Int]]
        /\ editedLate' \subseteq Requests /\ UNCHANGED settings /\ \A v \in Workers : txns'[v] = txns[v]
    BY <1>4, Known, TableTypes DEF Tables
  <1> QED
    BY <1>3, <1>6, <1>7, <1>8, <1>9, TableStep

\* An edit writes a row of the same status.
LEMMA EditedRow ==
    ASSUME LeaveInv, NEW w \in Workers, NEW r \in Requests, r = txns[w].request,
           NEW t \in Types \cup {None}, NEW start \in Days \cup {None}, NEW end \in Days \cup {None},
           UpdateLeaveRequest(w, t, start, end)
    PROVE  \E row \in RequestRow : row.status = requests[r].status /\ requests' = [requests EXCEPT ![r] = row]
  <1>1. txns[w].op = "edit"
    BY DEF UpdateLeaveRequest
  <1>2. PICK copy \in RequestRow : copy = txns[w].copy
    BY <1>1, Known DEF Named
  <1>3. PICK q \in RequestRow : q = requests[r]
    BY Known, TableTypes
  <1>4. PICK s \in Days : s = IF start = None THEN copy.start ELSE start
    BY DEF RequestRow
  <1>5. PICK e \in Days : e = IF end = None THEN copy.end ELSE end
    BY DEF RequestRow
  <1>6. start # None \/ end # None => Workable(s, e)
    BY <1>2, <1>4, <1>5 DEF UpdateLeaveRequest
  <1>7. start # None \/ end # None => WorkingDays(s, e) \in Days
    BY <1>6, Known, CountedDays
  <1>8. PICK type \in Types : type = IF t = None THEN q.type ELSE t
    BY DEF RequestRow
  <1>9. PICK first \in Days : first = IF start = None THEN q.start ELSE start
    BY DEF RequestRow
  <1>10. PICK last \in Days : last = IF end = None THEN q.end ELSE end
    BY DEF RequestRow
  <1>11. PICK days \in Days : days = IF start # None \/ end # None THEN WorkingDays(s, e) ELSE q.days
    BY <1>7 DEF RequestRow
  <1>12. PICK row : row = [q EXCEPT !.type = type, !.start = first, !.end = last, !.days = days]
    OBVIOUS
  <1>13. row \in RequestRow /\ row.status = q.status
    BY <1>12 DEF RequestRow
  <1>14. requests' = [requests EXCEPT ![r] = row]
    BY <1>2, <1>3, <1>4, <1>5, <1>8, <1>9, <1>10, <1>11, <1>12, Known, TableTypes DEF UpdateLeaveRequest, RequestRow
  <1> QED
    BY <1>3, <1>13, <1>14

\* An edit keeps the invariant: no other call holds its request, and a request edited after
\* it left DRAFT is remembered.
LEMMA UpdateStep ==
    ASSUME LeaveInv, NEW w \in Workers,
           NEW t \in Types \cup {None}, NEW start \in Days \cup {None}, NEW end \in Days \cup {None},
           UpdateLeaveRequest(w, t, start, end)
    PROVE  LeaveInv'
  <1>1. PICK r \in Requests : r = txns[w].request
    BY Known DEF Named, UpdateLeaveRequest
  <1>2. PICK row \in RequestRow : row.status = requests[r].status /\ requests' = [requests EXCEPT ![r] = row]
    BY <1>1, EditedRow
  <1>3. /\ requests' \in [Requests -> RequestRow] /\ requests'[r].status = requests[r].status
        /\ \A q \in Requests \ {r} : requests'[q] = requests[q]
    BY <1>2, Known, TableTypes
  <1>4. /\ RequestFree(r) /\ UNCHANGED <<settings, approvals, postings, balances>>
        /\ editedLate' = IF requests[r].status = "DRAFT" THEN editedLate ELSE editedLate \cup {r}
        /\ txns' = [txns EXCEPT ![w] = Idle]
    BY <1>1 DEF UpdateLeaveRequest, Status, End
  <1>5. txns' \in [Workers -> Txn] /\ \A v \in Workers : txns'[v] = IF v = w THEN Idle ELSE txns[v]
    BY <1>4, Known, TableTypes, IdleHolds
  <1>6. \A q \in Requests : Status(q)' = Status(q)
    BY <1>3 DEF Status
  <1>7. \A q \in Requests \ editedLate' : q \notin editedLate /\ (q # r \/ requests[r].status = "DRAFT")
    BY <1>4
  <1>8. requests[r].status = "DRAFT" => postings[r] = <<>>
    BY Known DEF PostingsFollow, Status
  <1>9. \A v \in Workers : Respects(txns[v])
    <2> SUFFICES ASSUME NEW v \in Workers PROVE Respects(txns[v])
      OBVIOUS
    <2>1. OnRequest(txns[v], txns[v].request) => txns[v].request # r /\ txns[v].request \in Requests
      BY <1>4, Unlocked, Known DEF Named, OnRequest
    <2>2. ASSUME NEW o \in Requests \ editedLate', Standing(o)'
          PROVE  /\ o \notin editedLate /\ Standing(o)
                 /\ requests'[o].start = requests[o].start /\ requests'[o].end = requests[o].end
      <3>1. Standing(o)
        BY <1>6, <2>2 DEF Standing
      <3>2. o # r
        BY <1>7, <2>2, <3>1 DEF Standing, Status
      <3> QED
        BY <1>3, <1>7, <2>2, <3>1, <3>2
    <2> QED
      BY <1>3, <1>4, <2>1, <2>2 DEF Respects
  <1>10. DatesAndDaysAgree'
    <2>1. ASSUME NEW a \in Requests \ editedLate', Standing(a)'
          PROVE  a \in Requests \ editedLate /\ Standing(a) /\ requests'[a] = requests[a]
      <3>1. Standing(a)
        BY <1>6, <2>1 DEF Standing
      <3> QED
        BY <1>3, <1>7, <2>1, <3>1 DEF Standing, Status
    <2>2. ASSUME NEW a \in Requests \ editedLate', NEW i \in DOMAIN postings[a]
          PROVE  postings[a][i].days = requests'[a].days /\ postings[a][i].type = requests'[a].type
      <3>1. a # r /\ a \notin editedLate
        BY <1>7, <1>8, <2>2
      <3> QED
        BY <1>3, <3>1, Known DEF DatesAndDaysAgree
    <2> QED
      BY <1>4, <2>1, <2>2, Known DEF DatesAndDaysAgree
  <1>11. ASSUME NEW q \in Requests PROVE StagesFollow(q)' /\ PostingsFollow(q)'
    BY <1>4, <1>6, Known DEF StagesFollow, PostingsFollow, Stage
  <1>12. Tables' /\ balances' \in [Types -> [Years -> Int]] /\ editedLate' \subseteq Requests /\ UNCHANGED settings
    BY <1>4, Known, TableTypes DEF Tables
  <1> QED
    BY <1>3, <1>5, <1>9, <1>10, <1>11, <1>12, TableStep

----------------------------------------------------------------------------
(* Commits *)

\* The rows a commit writes, and the call it ends.
Settled(w, r, p, status) ==
    /\ requests' \in [Requests -> RequestRow] /\ requests'[r].status = status
    /\ requests'[r].days = requests[r].days /\ requests'[r].type = requests[r].type
    /\ requests'[r].start = requests[r].start /\ requests'[r].end = requests[r].end
    /\ \A q \in Requests \ {r} : requests'[q] = requests[q]
    /\ txns' \in [Workers -> Txn] /\ \A v \in Workers : txns'[v] = IF v = w THEN Idle ELSE txns[v]
    /\ UNCHANGED settings /\ editedLate' = editedLate
    /\ p = None => UNCHANGED <<postings, balances>>
    /\ p # None =>
           /\ p \in Posting
           /\ postings' = [postings EXCEPT ![r] = Append(@, p)]
           /\ balances' = [balances EXCEPT ![p.type][p.year] = IF p.kind = "CONSUMED" THEN @ - p.days
                                                                ELSE @ + p.days]
    /\ balances' \in [Types -> [Years -> Int]] /\ postings' \in [Requests -> Seq(Posting)]

\* What the posting of a call that commits does to the ledger.
LEMMA SettleEffect ==
    ASSUME LeaveInv, NEW w \in Workers, NEW r \in Requests, r = txns[w].request,
           NEW status \in {"SUBMITTED", "APPROVED", "REJECTED", "CANCELLED"}, Settle(w, status),
           NEW p, p = txns[w].posting
    PROVE  Settled(w, r, p, status)
  <1>1. PICK q \in RequestRow : q = requests[r]
    BY Known, TableTypes
  <1>2. PICK row : row = [q EXCEPT !.status = status]
    OBVIOUS
  <1>3. /\ row \in RequestRow /\ row.status = status /\ row.days = q.days /\ row.type = q.type
        /\ row.start = q.start /\ row.end = q.end
    BY <1>2 DEF RequestRow
  <1>4. requests' = [requests EXCEPT ![r] = row]
    BY <1>1, <1>2, Known, TableTypes DEF Settle
  <1>5. txns' = [txns EXCEPT ![w] = Idle] /\ UNCHANGED settings /\ editedLate' = editedLate
    BY DEF Settle, End
  <1>6. p = None => UNCHANGED <<postings, balances>>
    BY DEF Settle
  <1>7. p # None =>
            /\ p \in Posting
            /\ postings' = [postings EXCEPT ![r] = Append(@, p)]
            /\ balances' = [balances EXCEPT ![p.type][p.year] = IF p.kind = "CONSUMED" THEN @ - p.days ELSE @ + p.days]
    <2>1. p \in Posting \cup {None}
      BY Known, TableTypes DEF Txn
    <2> QED
      BY <2>1 DEF Settle
  <1>8. postings \in [Requests -> Seq(Posting)] /\ balances \in [Types -> [Years -> Int]]
    BY Known, TableTypes DEF Tables
  <1>9. postings' \in [Requests -> Seq(Posting)]
    <2>1. CASE p = None
      BY <1>6, <1>8, <2>1
    <2>2. CASE p # None
      <3>1. postings[r] \in Seq(Posting) /\ p \in Posting
        BY <1>7, <1>8, <2>2
      <3>2. Append(postings[r], p) \in Seq(Posting)
        BY <3>1
      <3> QED
        BY <1>7, <1>8, <2>2, <3>2
    <2> QED
      BY <2>1, <2>2
  <1>10. balances' \in [Types -> [Years -> Int]]
    <2>1. CASE p = None
      BY <1>6, <1>8, <2>1
    <2>2. CASE p # None
      <3>1. p.type \in Types /\ p.year \in Years /\ p.days \in Int
        BY <1>7, <2>2 DEF Posting, Days
      <3>2. PICK n \in Int : n = IF p.kind = "CONSUMED" THEN balances[p.type][p.year] - p.days
                                 ELSE balances[p.type][p.year] + p.days
        <4>1. balances[p.type][p.year] \in Int
          BY <1>8, <3>1
        <4> QED
          BY <3>1, <4>1
      <3>3. balances' = [balances EXCEPT ![p.type][p.year] = n]
        BY <1>7, <1>8, <2>2, <3>1, <3>2
      <3> QED
        BY <1>8, <3>1, <3>3
    <2> QED
      BY <2>1, <2>2
  <1> QED
    BY <1>1, <1>3, <1>4, <1>5, <1>6, <1>7, <1>9, <1>10, Known, TableTypes, IdleHolds DEF Settled

\* The status a commit leaves.
LEMMA SettledStatus ==
    ASSUME LeaveInv, NEW w \in Workers, NEW r \in Requests, r = txns[w].request,
           NEW status \in {"SUBMITTED", "APPROVED", "REJECTED", "CANCELLED"}, Settle(w, status)
    PROVE  requests'[r].status = status
  <1>1. PICK p : p = txns[w].posting
    OBVIOUS
  <1>2. Settled(w, r, p, status)
    BY <1>1, SettleEffect
  <1> QED
    BY <1>2 DEF Settled

\* A commit keeps the invariant when its status follows from the one it relied on,
\* with the posting and the stages that go with it.
LEMMA CommitStep ==
    ASSUME LeaveInv, NEW w \in Workers, NEW r \in Requests, r = txns[w].request,
           NEW status \in {"SUBMITTED", "APPROVED", "REJECTED", "CANCELLED"}, Settle(w, status),
           OnRequest(txns[w], r) \/ RequestFree(r),
           \/ Status(r) \in {"DRAFT", "SUBMITTED"} /\ (txns[w].posting # None => status = "APPROVED")
           \/ Status(r) = "APPROVED" /\ status = "CANCELLED",
           txns[w].posting # None => (txns[w].op = "cancel" <=> Status(r) = "APPROVED"),
           status \in {"SUBMITTED", "APPROVED"} /\ ~Standing(r) =>
               /\ OnEmployee(txns[w])
               /\ \A o \in (Requests \ editedLate) \ {r} : Standing(o) => ~Overlap(r, o),
           approvals' \in [Requests -> Seq(ApprovalRow)], Len(approvals'[r]) <= MaxStages,
           \A q \in Requests \ {r} : approvals'[q] = approvals[q],
           StagesFollow(r)'
    PROVE  LeaveInv'
  <1>1. PICK p : p = txns[w].posting
    OBVIOUS
  <1>2. Settled(w, r, p, status)
    BY <1>1, SettleEffect
  <1>3. /\ requests' \in [Requests -> RequestRow] /\ requests'[r].status = status
        /\ requests'[r].days = requests[r].days /\ requests'[r].type = requests[r].type
        /\ requests'[r].start = requests[r].start /\ requests'[r].end = requests[r].end
        /\ \A q \in Requests \ {r} : requests'[q] = requests[q]
        /\ txns' \in [Workers -> Txn] /\ \A v \in Workers : txns'[v] = IF v = w THEN Idle ELSE txns[v]
        /\ UNCHANGED settings /\ editedLate' = editedLate
        /\ balances' \in [Types -> [Years -> Int]] /\ postings' \in [Requests -> Seq(Posting)]
    BY <1>2 DEF Settled
  <1>4. p = None => UNCHANGED <<postings, balances>>
    BY <1>2 DEF Settled
  <1>5. p # None => p \in Posting /\ postings' = [postings EXCEPT ![r] = Append(@, p)]
    BY <1>2 DEF Settled
  <1>6. p # None => /\ OnEmployee(txns[w]) /\ p.type = requests[r].type /\ p.days = requests[r].days
                    /\ p.kind = IF Status(r) = "APPROVED" THEN "REVERSAL" ELSE "CONSUMED"
    BY <1>1, Known DEF Fits, PostingFits
  <1>7. postings \in [Requests -> Seq(Posting)]
    BY Known DEF Tables
  <1>8. \A q \in Requests \ {r} : postings'[q] = postings[q]
    BY <1>4, <1>5, <1>7
  <1>9. p # None => /\ DOMAIN postings'[r] = DOMAIN postings[r] \cup {Len(postings[r]) + 1}
                    /\ \A i \in DOMAIN postings[r] : postings'[r][i] = postings[r][i]
                    /\ postings'[r][Len(postings[r]) + 1] = p
    <2> SUFFICES ASSUME p # None
                 PROVE  /\ DOMAIN postings'[r] = DOMAIN postings[r] \cup {Len(postings[r]) + 1}
                        /\ \A i \in DOMAIN postings[r] : postings'[r][i] = postings[r][i]
                        /\ postings'[r][Len(postings[r]) + 1] = p
      OBVIOUS
    <2>1. postings'[r] = Append(postings[r], p) /\ postings[r] \in Seq(Posting) /\ p \in Posting
      BY <1>5, <1>7
    <2>2. PICK q \in Seq(Posting) : q = postings[r]
      BY <2>1
    <2>3. /\ DOMAIN Append(q, p) = 1 .. Len(q) + 1 /\ DOMAIN q = 1 .. Len(q) /\ Len(q) \in Nat
          /\ Append(q, p)[Len(q) + 1] = p /\ \A i \in 1 .. Len(q) : Append(q, p)[i] = q[i]
      BY <2>1
    <2> QED
      BY <2>1, <2>2, <2>3
  <1>10. ASSUME NEW v \in Workers, v # w PROVE Respects(txns[v])
    <2>1. OnRequest(txns[v], txns[v].request) => txns[v].request # r /\ txns[v].request \in Requests
      <3>1. Named(txns[v])
        BY Known
      <3>2. OnRequest(txns[v], txns[v].request) => txns[v].request \in Requests
        BY <3>1 DEF Named, OnRequest
      <3>3. ~OnRequest(txns[v], r)
        BY <1>10, Unlocked, Holding, Known DEF LocksExclude
      <3> QED
        BY <3>2, <3>3
    <2>2. ASSUME OnEmployee(txns[v]) PROVE ~OnEmployee(txns[w])
      BY <1>10, <2>2, Holding, Known DEF LocksExclude
    <2>3. ASSUME OnEmployee(txns[v]), NEW o \in Requests \ editedLate', Standing(o)'
          PROVE  /\ o \notin editedLate /\ Standing(o)
                 /\ requests'[o].start = requests[o].start /\ requests'[o].end = requests[o].end
      BY <1>3, <2>2, <2>3 DEF Standing, Status
    <2> QED
      BY <1>3, <1>4, <1>6, <2>1, <2>2, <2>3 DEF Respects
  <1>11. DatesAndDaysAgree'
    <2>1. ASSUME NEW a \in Requests \ editedLate, NEW b \in Requests \ editedLate, a # b, Standing(a)', Standing(b)'
          PROVE  (requests'[a].start .. requests'[a].end) \cap (requests'[b].start .. requests'[b].end) = {}
      <3>1. /\ requests'[a].start = requests[a].start /\ requests'[a].end = requests[a].end
            /\ requests'[b].start = requests[b].start /\ requests'[b].end = requests[b].end
        BY <1>3
      <3>2. CASE Standing(a) /\ Standing(b)
        BY <2>1, <3>1, <3>2, Known DEF DatesAndDaysAgree
      <3>3. CASE a = r /\ ~Standing(r)
        <4>1. Standing(b)
          BY <1>3, <2>1, <3>3 DEF Standing, Status
        <4>2. ~Overlap(r, b)
          BY <1>3, <2>1, <3>3, <4>1 DEF Standing, Status
        <4> QED
          BY <3>1, <3>3, <4>2, Known, TableTypes DEF Overlap, RequestRow, Days
      <3>4. CASE b = r /\ ~Standing(r)
        <4>1. Standing(a)
          BY <1>3, <2>1, <3>4 DEF Standing, Status
        <4>2. ~Overlap(r, a)
          BY <1>3, <2>1, <3>4, <4>1 DEF Standing, Status
        <4> QED
          BY <3>1, <3>4, <4>2, Known, TableTypes DEF Overlap, RequestRow, Days
      <3> QED
        BY <1>3, <2>1, <3>2, <3>3, <3>4 DEF Standing, Status
    <2>2. ASSUME NEW a \in Requests \ editedLate, NEW i \in DOMAIN postings'[a]
          PROVE  postings'[a][i].days = requests'[a].days /\ postings'[a][i].type = requests'[a].type
      <3>1. \A j \in DOMAIN postings[a] : postings[a][j].days = requests[a].days /\ postings[a][j].type = requests[a].type
        BY Known DEF DatesAndDaysAgree
      <3>2. CASE a # r \/ p = None
        BY <1>3, <1>4, <1>8, <2>2, <3>1, <3>2
      <3>3. CASE a = r /\ p # None
        <4>1. CASE i \in DOMAIN postings[r]
          BY <1>3, <1>9, <3>1, <3>3, <4>1
        <4>2. CASE i = Len(postings[r]) + 1
          BY <1>3, <1>6, <1>9, <3>3, <4>2
        <4> QED
          BY <1>9, <2>2, <3>3, <4>1, <4>2
      <3> QED
        BY <3>2, <3>3
    <2> QED
      BY <1>3, <2>1, <2>2 DEF DatesAndDaysAgree
  <1>12. PostingsFollow(r)'
    <2>1. PostingsFollow(r)
      BY Known
    <2>2. CASE p = None
      BY <1>3, <1>4, <2>1, <2>2 DEF PostingsFollow, Status
    <2>3. CASE p # None /\ Status(r) # "APPROVED"
      <3>1. postings[r] = <<>> /\ status = "APPROVED" /\ p.kind = "CONSUMED"
        BY <1>1, <1>6, <2>1, <2>3 DEF PostingsFollow
      <3>2. DOMAIN postings'[r] = {1} /\ postings'[r][1].kind = "CONSUMED"
        BY <1>9, <2>3, <3>1
      <3> QED
        BY <1>3, <3>1, <3>2 DEF PostingsFollow, Status
    <2>4. CASE p # None /\ Status(r) = "APPROVED"
      <3>1. p.kind = "REVERSAL" /\ status = "CANCELLED"
        BY <1>1, <1>6, <2>4
      <3>2. \A i \in DOMAIN postings[r] : postings[r][i].kind = "CONSUMED"
        BY <2>1, <2>4 DEF PostingsFollow
      <3>3. \A i, j \in DOMAIN postings[r] : i = j
        BY <2>1, <3>2 DEF PostingsFollow
      <3>4. \A i, j \in DOMAIN postings'[r] : postings'[r][i].kind = postings'[r][j].kind => i = j
        BY <1>9, <2>4, <3>1, <3>2, <3>3
      <3> QED
        BY <1>3, <3>1, <3>4 DEF PostingsFollow, Status
    <2> QED
      BY <2>2, <2>3, <2>4
  <1>13. ASSUME NEW q \in Requests \ {r} PROVE StagesFollow(q)' /\ PostingsFollow(q)'
    <2>1. requests'[q] = requests[q] /\ approvals'[q] = approvals[q] /\ postings'[q] = postings[q]
      BY <1>3, <1>8
    <2>2. StagesFollow(q) /\ PostingsFollow(q)
      BY Known
    <2>3. StagesFollow(q)'
      BY <2>1, <2>2 DEF StagesFollow, Status, Stage
    <2> QED
      BY <2>1, <2>2, <2>3 DEF PostingsFollow, Status
  <1>14. Tables'
    <2>1. \A q \in Requests : Len(approvals'[q]) <= MaxStages
      BY Known DEF Tables
    <2> QED
      BY <1>3, <2>1 DEF Tables
  <1>15. editedLate' \subseteq Requests
    BY <1>3, Known, TableTypes
  <1> QED
    BY <1>3, <1>10, <1>11, <1>12, <1>13, <1>14, <1>15, TableStep

\* A submission that waits for its request has planned no posting, and holds the employee.
LEMMA SubmittableFits ==
    ASSUME LeaveInv, NEW w \in Workers, NEW r \in Requests, r = txns[w].request, Submittable(w, r)
    PROVE  txns[w].posting = None /\ OnEmployee(txns[w]) /\ txns[w].op = "submit"
  BY Known DEF Submittable, Fits, PostingFits, OnRequest, OnEmployee

\* The stages of the workflow become the stages of the request, all pending.
LEMMA SubmitForApprovalStep ==
    ASSUME LeaveInv, NEW w \in Workers, SubmitForApproval(w)
    PROVE  LeaveInv'
  <1>1. PICK r \in Requests : r = txns[w].request
    BY Known DEF SubmitForApproval, Submittable, Named
  <1>2. PICK filled \in SUBSET (1 .. MaxStages) : filled = {i \in DOMAIN stages : stages[i] # None}
    BY Known
  <1>3. Submittable(w, r) /\ filled # {} /\ Settle(w, "SUBMITTED")
    BY <1>1, <1>2 DEF SubmitForApproval
  <1>4. PICK order \in [1 .. Cardinality(filled) -> filled] :
            approvals' = [approvals EXCEPT ![r] =
                             [i \in DOMAIN order |-> [role |-> stages[order[i]], status |-> "PENDING"]]]
    BY <1>1, <1>2 DEF SubmitForApproval
  <1>5. IsFiniteSet(1 .. MaxStages) /\ Cardinality(1 .. MaxStages) = MaxStages
    BY FS_Interval
  <1>6. PICK n \in Nat : n = Cardinality(filled) /\ n <= MaxStages /\ n # 0
    <2>1. IsFiniteSet(filled) /\ Cardinality(filled) <= Cardinality(1 .. MaxStages)
      BY <1>5, FS_Subset
    <2>2. Cardinality(filled) \in Nat /\ Cardinality(filled) # 0
      BY <1>3, <2>1, FS_CardinalityType, FS_EmptySet
    <2> QED
      BY <1>5, <2>1, <2>2
  <1>7. PICK copied : copied = [i \in 1 .. n |-> [role |-> stages[order[i]], status |-> "PENDING"]]
    OBVIOUS
  <1>8. \A i \in 1 .. n : stages[order[i]] \in Roles
    BY <1>2, <1>6, Known
  <1>9. copied \in [1 .. n -> ApprovalRow] /\ \A i \in 1 .. n : copied[i].status = "PENDING"
    BY <1>7, <1>8 DEF ApprovalRow
  <1>10. copied \in Seq(ApprovalRow) /\ Len(copied) = n /\ DOMAIN copied = 1 .. n
    BY <1>9
  <1>11. approvals' = [approvals EXCEPT ![r] = copied]
    BY <1>4, <1>6, <1>7
  <1>12. approvals \in [Requests -> Seq(ApprovalRow)]
    BY Known DEF Tables
  <1>13. /\ approvals' \in [Requests -> Seq(ApprovalRow)] /\ approvals'[r] = copied
         /\ \A q \in Requests \ {r} : approvals'[q] = approvals[q]
    <2>1. copied \in Seq(ApprovalRow)
      BY <1>10
    <2> QED
      BY <1>11, <1>12, <2>1
  <1>14. requests'[r].status = "SUBMITTED"
    BY <1>1, <1>3, SettledStatus
  <1>15. StagesFollow(r)'
    <2>1. 1 \in DOMAIN copied /\ \A i \in DOMAIN copied : copied[i].status = IF i < 1 THEN "APPROVED" ELSE "PENDING"
      BY <1>6, <1>9, <1>10
    <2> QED
      BY <1>13, <1>14, <2>1 DEF StagesFollow, Status, Stage
  <1>16. /\ Status(r) = "DRAFT" /\ txns[w].posting = None /\ OnEmployee(txns[w]) /\ RequestFree(r)
         /\ \A o \in Requests \ {r} : Standing(o) => ~Overlap(r, o)
    BY <1>1, <1>3, SubmittableFits DEF Submittable
  <1> QED
    BY <1>1, <1>3, <1>6, <1>10, <1>13, <1>15, <1>16, CommitStep

\* A direct submission commits what it has checked.
LEMMA CommitDirectSubmissionStep ==
    ASSUME LeaveInv, NEW w \in Workers, CommitDirectSubmission(w)
    PROVE  LeaveInv'
  <1>1. PICK r \in Requests : r = txns[w].request
    BY Known DEF CommitDirectSubmission, Named
  <1>2. txns[w].op = "submit" /\ ~txns[w].waits /\ Settle(w, "APPROVED") /\ approvals' = approvals
    BY DEF CommitDirectSubmission
  <1>3. OnRequest(txns[w], r) /\ OnEmployee(txns[w])
    BY <1>1, <1>2 DEF OnRequest, OnEmployee
  <1>4. Status(r) = "DRAFT" /\ \A o \in (Requests \ editedLate) \ {r} : Standing(o) => ~Overlap(r, o)
    BY <1>1, <1>2, <1>3, Known DEF Fits, StatusFits, DatesFit, Relied
  <1>5. approvals \in [Requests -> Seq(ApprovalRow)] /\ Len(approvals[r]) <= MaxStages /\ approvals[r] = <<>>
    BY <1>4, Known DEF Tables, StagesFollow
  <1>6. requests'[r].status = "APPROVED"
    BY <1>1, <1>2, SettledStatus
  <1>7. StagesFollow(r)'
    BY <1>2, <1>5, <1>6 DEF StagesFollow, Status
  <1> QED
    BY <1>1, <1>2, <1>3, <1>4, <1>5, <1>7, CommitStep

\* The commit of a withdrawal or a cancellation keeps the invariant.
LEMMA CommitWithdrawalOrCancellationStep ==
    ASSUME LeaveInv, NEW w \in Workers, CommitWithdrawalOrCancellation(w)
    PROVE  LeaveInv'
  <1>1. PICK r \in Requests : r = txns[w].request
    BY Known DEF CommitWithdrawalOrCancellation, Named
  <1>2. txns[w].op \in {"withdraw", "cancel"} /\ ~txns[w].waits /\ Settle(w, "CANCELLED") /\ approvals' = approvals
    BY DEF CommitWithdrawalOrCancellation
  <1>3. OnRequest(txns[w], r)
    BY <1>1, <1>2 DEF OnRequest
  <1>4. Status(r) = IF txns[w].op = "cancel" THEN "APPROVED" ELSE "SUBMITTED"
    BY <1>1, <1>2, <1>3, Known DEF Fits, StatusFits, Relied
  <1>5. txns[w].posting # None => txns[w].op = "cancel"
    BY <1>2, Known DEF Fits, PostingFits
  <1>6. approvals \in [Requests -> Seq(ApprovalRow)] /\ Len(approvals[r]) <= MaxStages
    BY Known DEF Tables
  <1>7. requests'[r].status = "CANCELLED"
    BY <1>1, <1>2, SettledStatus
  <1>8. StagesFollow(r)'
    <2>1. \A i \in DOMAIN approvals[r] : Stage(r, i) \in {"PENDING", "APPROVED"}
      BY <1>4, Known DEF StagesFollow
    <2> QED
      BY <1>2, <1>7, <2>1 DEF StagesFollow, Status, Stage
  <1> QED
    BY <1>1, <1>2, <1>3, <1>4, <1>5, <1>6, <1>8, CommitStep

\* A decision of the current stage: a rejection skips what was pending behind it,
\* an approval moves on to the next stage, or approves the request.
LEMMA CommitDecisionStep ==
    ASSUME LeaveInv, NEW w \in Workers, CommitDecision(w)
    PROVE  LeaveInv'
  <1>1. PICK r \in Requests : r = txns[w].request
    BY Known DEF CommitDecision, Named
  <1>2. PICK x \in Txn : x = txns[w]
    BY Known, TableTypes
  <1>3. x.op = "decide" /\ ~x.waits /\ x.request = r
    BY <1>1, <1>2 DEF CommitDecision
  <1>4. OnRequest(x, r) /\ Fits(x)
    BY <1>2, <1>3, Known DEF OnRequest
  <1>5. Status(r) = "SUBMITTED"
    BY <1>3, <1>4 DEF Fits, StatusFits, Relied
  <1>6. /\ x.decision \in {"APPROVED", "REJECTED"} /\ x.stage \in PendingStages(r)
        /\ \A j \in PendingStages(r) : x.stage <= j
        /\ x.final => x.decision = "APPROVED"
        /\ x.decision = "APPROVED" => (x.final <=> PendingStages(r) = {x.stage})
    BY <1>3, <1>4 DEF Fits, DecisionFits
  <1>7. x.posting # None => x.final
    BY <1>3, <1>4 DEF Fits, PostingFits, OnEmployee
  <1>8. PICK rows \in Seq(ApprovalRow) : rows = approvals[r]
    BY Known DEF Tables
  <1>9. Len(rows) \in Nat /\ Len(rows) <= MaxStages /\ DOMAIN rows = 1 .. Len(rows) /\ rows \in [1 .. Len(rows) -> ApprovalRow]
    BY <1>8, Known DEF Tables
  <1>10. PICK n \in 1 .. Len(rows) : \A i \in 1 .. Len(rows) : rows[i].status = IF i < n THEN "APPROVED" ELSE "PENDING"
    BY <1>5, <1>8, <1>9, Known DEF StagesFollow, Stage
  <1>11. \A i : i \in PendingStages(r) <=> i \in 1 .. Len(rows) /\ i >= n
    BY <1>8, <1>9, <1>10 DEF PendingStages
  <1>12. x.stage = n
    BY <1>6, <1>9, <1>11
  <1>13. approvals \in [Requests -> Seq(ApprovalRow)]
    BY Known DEF Tables
  <1>14. CASE x.decision = "REJECTED"
    <2>1. /\ approvals' = [approvals EXCEPT ![r] =
                 [i \in DOMAIN @ |-> IF i = n THEN [@[i] EXCEPT !.status = "REJECTED"]
                                     ELSE IF i \in PendingStages(r) THEN [@[i] EXCEPT !.status = "SKIPPED"] ELSE @[i]]]
          /\ Settle(w, "REJECTED")
      BY <1>1, <1>2, <1>12, <1>14 DEF CommitDecision
    <2>2. PICK decided : decided = [i \in 1 .. Len(rows) |->
                                        IF i = n THEN [rows[i] EXCEPT !.status = "REJECTED"]
                                        ELSE IF i >= n THEN [rows[i] EXCEPT !.status = "SKIPPED"] ELSE rows[i]]
      OBVIOUS
    <2>3. approvals' = [approvals EXCEPT ![r] = decided]
      BY <1>8, <1>9, <1>11, <1>13, <2>1, <2>2
    <2>4. \A i \in 1 .. Len(rows) :
              /\ decided[i] \in ApprovalRow
              /\ decided[i].status = IF i = n THEN "REJECTED" ELSE IF i >= n THEN "SKIPPED" ELSE "APPROVED"
      BY <1>9, <1>10, <2>2 DEF ApprovalRow
    <2>5. decided \in [1 .. Len(rows) -> ApprovalRow]
      BY <2>2, <2>4
    <2>6. decided \in Seq(ApprovalRow) /\ Len(decided) = Len(rows) /\ DOMAIN decided = 1 .. Len(rows)
      BY <1>9, <2>5
    <2>7. /\ approvals' \in [Requests -> Seq(ApprovalRow)] /\ approvals'[r] = decided
          /\ \A q \in Requests \ {r} : approvals'[q] = approvals[q]
      <3>1. decided \in Seq(ApprovalRow)
        BY <2>6
      <3> QED
        BY <1>13, <2>3, <3>1
    <2>8. requests'[r].status = "REJECTED"
      BY <1>1, <2>1, SettledStatus
    <2>9. StagesFollow(r)'
      <3>1. /\ n \in DOMAIN decided /\ decided[n].status = "REJECTED"
            /\ \A j \in DOMAIN decided : /\ decided[j].status # "PENDING"
                                         /\ decided[j].status = "REJECTED" => j = n
                                         /\ decided[j].status = "SKIPPED" => n < j
        BY <1>9, <1>10, <2>4, <2>6
      <3> QED
        BY <2>7, <2>8, <3>1 DEF StagesFollow, Status, Stage
    <2>10. txns[w].posting = None
      BY <1>2, <1>6, <1>7, <1>14
    <2> QED
      BY <1>1, <1>2, <1>4, <1>5, <1>9, <2>1, <2>6, <2>7, <2>9, <2>10, CommitStep
  <1>15. CASE x.decision = "APPROVED"
    <2>1. approvals' = [approvals EXCEPT ![r][n].status = "APPROVED"]
      BY <1>1, <1>2, <1>12, <1>15 DEF CommitDecision
    <2>2. PICK status \in {"APPROVED", "SUBMITTED"} :
              /\ status = IF PendingStages(r) = {n} THEN "APPROVED" ELSE "SUBMITTED"
              /\ Settle(w, status)
      BY <1>2, <1>6, <1>12, <1>15 DEF CommitDecision
    <2>3. PICK row : row = [rows[n] EXCEPT !.status = "APPROVED"]
      OBVIOUS
    <2>4. row \in ApprovalRow /\ row.status = "APPROVED"
      BY <1>9, <1>10, <2>3 DEF ApprovalRow
    <2>5. PICK decided : decided = [rows EXCEPT ![n] = row]
      OBVIOUS
    <2>6. approvals' = [approvals EXCEPT ![r] = decided]
      BY <1>8, <1>13, <2>1, <2>3, <2>5
    <2>7. /\ decided \in [1 .. Len(rows) -> ApprovalRow] /\ decided[n] = row
          /\ \A i \in 1 .. Len(rows) : i # n => decided[i] = rows[i]
      BY <1>9, <1>10, <2>4, <2>5
    <2>8. decided \in Seq(ApprovalRow) /\ Len(decided) = Len(rows) /\ DOMAIN decided = 1 .. Len(rows)
      BY <1>9, <2>7
    <2>9. /\ approvals' \in [Requests -> Seq(ApprovalRow)] /\ approvals'[r] = decided
          /\ \A q \in Requests \ {r} : approvals'[q] = approvals[q]
      <3>1. decided \in Seq(ApprovalRow)
        BY <2>8
      <3> QED
        BY <1>13, <2>6, <3>1
    <2>10. requests'[r].status = status
      BY <1>1, <2>2, SettledStatus
    <2>11. \A i \in 1 .. Len(rows) : decided[i].status = IF i < n + 1 THEN "APPROVED" ELSE "PENDING"
      BY <1>9, <1>10, <2>4, <2>7
    <2>12. StagesFollow(r)'
      <3>1. CASE PendingStages(r) = {n}
        <4>1. \A i \in DOMAIN decided : decided[i].status = "APPROVED"
          BY <1>9, <1>10, <1>11, <2>8, <2>11, <3>1
        <4> QED
          BY <2>2, <2>9, <2>10, <3>1, <4>1 DEF StagesFollow, Status, Stage
      <3>2. CASE PendingStages(r) # {n}
        <4>1. n + 1 \in DOMAIN decided
          <5>1. PICK j \in PendingStages(r) : j # n
            BY <1>6, <1>12, <3>2
          <5> QED
            BY <1>9, <1>10, <1>11, <2>8, <5>1
        <4>2. \A i \in DOMAIN decided : decided[i].status = IF i < n + 1 THEN "APPROVED" ELSE "PENDING"
          BY <2>8, <2>11
        <4> QED
          BY <2>2, <2>9, <2>10, <3>2, <4>1, <4>2 DEF StagesFollow, Status, Stage
      <3> QED
        BY <3>1, <3>2
    <2>13. txns[w].posting # None => status = "APPROVED"
      BY <1>2, <1>6, <1>7, <1>12, <1>15, <2>2
    <2>14. Standing(r)
      BY <1>5 DEF Standing
    <2> QED
      BY <1>1, <1>2, <1>3, <1>4, <1>5, <1>9, <2>2, <2>8, <2>9, <2>12, <2>13, <2>14, CommitStep
  <1> QED
    BY <1>6, <1>14, <1>15

----------------------------------------------------------------------------
(* The invariant *)

\* The invariant holds of the empty tables.
LEMMA InitLeaveInv == Init => LeaveInv
  <1> SUFFICES ASSUME Init PROVE LeaveInv
    OBVIOUS
  <1>1. 1 \in Days /\ {0, 1} \subseteq Int /\ AdjustedYears \subseteq Years
    BY DEF Days, AdjustedYears, Years
  <1>2. requests \in [Requests -> RequestRow] /\ \A r \in Requests : requests[r].status = "absent"
    BY <1>1 DEF Init, RequestRow
  <1>3. balances \in [Types -> [Years -> Int]]
    BY DEF Init, Years, AdjustedYears
  <1>4. types \in [Types -> TypeRow] /\ setup \in [anchor : Days, working : SUBSET Days]
    BY DEF Init
  <1>5. stages \in [1 .. MaxStages -> Roles \cup {None}] /\ txns \in [Workers -> Txn] /\ editedLate = {}
         /\ resettled = {}
    BY IdleHolds DEF Init
  <1>6. \A r \in Requests : approvals[r] = <<>> /\ postings[r] = <<>>
    BY DEF Init
  <1>7. TypeOK
    BY <1>2, <1>3, <1>4, <1>5, <1>6 DEF TypeOK
  <1>8. Tables
    BY DEF Init, Tables
  <1>9. LocksExclude
    BY Holding, IdleHolds DEF Init, LocksExclude
  <1>10. DatesAndDaysAgree
    BY <1>2, <1>6 DEF DatesAndDaysAgree, Standing, Status
  <1>11. \A r \in Requests : StagesFollow(r) /\ PostingsFollow(r)
    BY <1>2, <1>6 DEF StagesFollow, PostingsFollow, Status
  <1>12. Fits(Idle)
    BY IdleHolds DEF Fits, Named, StatusFits, PostingFits, BalanceFits, DecisionFits, DatesFit
  <1>13. \A w \in Workers : Fits(txns[w])
    <2>1. \A w \in Workers : txns[w] = Idle
      BY DEF Init
    <2> QED
      BY <1>12, <2>1
  <1> QED
    BY <1>7, <1>8, <1>9, <1>10, <1>11, <1>13 DEF LeaveInv

\* Every step keeps the invariant.
LEMMA LeaveStep == LeaveInv /\ [Next]_vars => LeaveInv'
  <1> SUFFICES ASSUME LeaveInv, Next \/ vars' = vars PROVE LeaveInv'
    OBVIOUS
  <1>1. CASE vars' = vars
    BY <1>1, Known, SettingsStep DEF vars
  <1>2. CASE \/ \E anchor \in YearStarts, working \in Weeks : Configure(anchor, working)
             \/ \E t \in Types, row \in TypeSettings : UpdateLeaveType(t, row)
             \/ \E i \in DOMAIN stages, role \in Roles \cup {None} : SetStage(i, role)
    BY <1>2, ConfigurationStep
  <1>3. CASE \E t \in Types, y \in AdjustedYears, days \in {-1, 1} : AdjustBalance(t, y, days)
    BY <1>3, BalanceStep
  <1>4. CASE \E t \in Types, r \in Requests, start, end \in Days : CreateLeaveRequest(r, t, start, end)
    BY <1>4, CreateStep
  <1>5. ASSUME NEW w \in Workers,
               \/ \E t \in Types : ReadCarryForward(w, t)
               \/ \E r \in Requests : \/ LoadForEdit(w, r) \/ BeginSubmission(w, r)
                                      \/ BeginWithdrawal(w, r) \/ BeginCancellation(w, r)
        PROVE  LeaveInv'
    BY <1>5, SimpleCallStep
  <1>6. ASSUME NEW w \in Workers,
               \E t \in Types \cup {None}, start, end \in Days \cup {None} : UpdateLeaveRequest(w, t, start, end)
        PROVE  LeaveInv'
    BY <1>6, UpdateStep
  <1>7. ASSUME NEW w \in Workers, NEW r \in Requests,
               \E role \in Roles, decision \in {"APPROVED", "REJECTED"} : BeginDecision(w, r, role, decision)
        PROVE  LeaveInv'
    BY <1>7, BeginDecisionStep
  <1>8. ASSUME NEW w \in Workers, PostCarryForward(w) PROVE LeaveInv'
    BY <1>8, BalanceStep
  <1>9. ASSUME NEW w \in Workers, SubmitDirectly(w) \/ ProceedApproval(w) \/ ProceedCancellation(w) PROVE LeaveInv'
    BY <1>9, ProceedStep
  <1>10. ASSUME NEW w \in Workers, SubmitForApproval(w) PROVE LeaveInv'
    BY <1>10, SubmitForApprovalStep
  <1>11. ASSUME NEW w \in Workers, CommitDirectSubmission(w) PROVE LeaveInv'
    BY <1>11, CommitDirectSubmissionStep
  <1>12. ASSUME NEW w \in Workers, CommitDecision(w) PROVE LeaveInv'
    BY <1>12, CommitDecisionStep
  <1>13. ASSUME NEW w \in Workers, CommitWithdrawalOrCancellation(w) PROVE LeaveInv'
    BY <1>13, CommitWithdrawalOrCancellationStep
  <1>14. ASSUME NEW w \in Workers, Rollback(w) PROVE LeaveInv'
    BY <1>14, RollbackStep
  <1> QED
    BY <1>1, <1>2, <1>3, <1>4, <1>5, <1>6, <1>7, <1>8, <1>9, <1>10, <1>11, <1>12, <1>13, <1>14 DEF Next

\* The invariant holds in every reachable state.
LEMMA LeaveInvariant == Spec => []LeaveInv
  BY InitLeaveInv, LeaveStep, PTL DEF Spec

----------------------------------------------------------------------------
(* The ledger *)

\* What LedgerAgrees says of one request.
Agrees(r) ==
    r \notin editedLate \cup resettled =>
        /\ Status(r) = "APPROVED" => postings[r] = IF Tracked(r) THEN <<LedgerPosting(r, "CONSUMED")>> ELSE <<>>
        /\ Status(r) = "CANCELLED" /\ postings[r] # <<>> =>
               \E year \in Years : postings[r] = <<PostingIn(r, "CONSUMED", year), PostingIn(r, "REVERSAL", year)>>

LEMMA AgreesEach == /\ LedgerAgrees <=> \A r \in Requests : Agrees(r)
                    /\ LedgerAgrees' <=> \A r \in Requests : Agrees(r)'
  BY DEF LedgerAgrees, Agrees, Tracked

\* A step that leaves what the posting of a request is made from.
SameRow(q) ==
    /\ requests'[q].type = requests[q].type
    /\ requests'[q].start = requests[q].start
    /\ requests'[q].days = requests[q].days
SameTerms(q) ==
    /\ SameRow(q)
    /\ types'[requests[q].type].requires_balance = types[requests[q].type].requires_balance
    /\ YearOf(requests[q].start, setup'.anchor) = YearOf(requests[q].start, setup.anchor)

\* It leaves the posting too.
LEMMA TermsKept ==
    ASSUME NEW q \in Requests, SameTerms(q)
    PROVE  /\ Tracked(q)' <=> Tracked(q)
           /\ \A kind : LedgerPosting(q, kind)' = LedgerPosting(q, kind)
           /\ \A kind : Planned(q, kind)' = Planned(q, kind)
  <1>1. Tracked(q)' <=> Tracked(q)
    BY DEF SameTerms, SameRow, Tracked
  <1>2. LeaveYear(requests[q].start)' = LeaveYear(requests[q].start)
    BY DEF SameTerms, SameRow, LeaveYear
  <1>3. \A kind : LedgerPosting(q, kind)' = LedgerPosting(q, kind)
    BY <1>2 DEF SameTerms, SameRow, LedgerPosting, PostingIn
  <1> QED
    BY <1>1, <1>3 DEF Planned

\* The agreement of a request survives a step that leaves its row, its status and its
\* postings, and, once it is approved, the settings its posting was made from.
LEMMA AgreesKept ==
    ASSUME NEW q \in Requests, Agrees(q), editedLate \subseteq editedLate', resettled \subseteq resettled',
           requests'[q].status = requests[q].status, postings'[q] = postings[q], SameRow(q),
           Status(q) = "APPROVED" /\ q \notin editedLate' \cup resettled' => SameTerms(q)
    PROVE  Agrees(q)'
  <1> SUFFICES ASSUME q \notin editedLate' \cup resettled' PROVE Agrees(q)'
    BY DEF Agrees
  <1>1. q \notin editedLate \cup resettled /\ Status(q)' = Status(q)
    BY DEF Status
  <1>2. CASE Status(q) = "APPROVED"
    <2>1. SameTerms(q)
      BY <1>2
    <2>2. (Tracked(q)' <=> Tracked(q)) /\ LedgerPosting(q, "CONSUMED")' = LedgerPosting(q, "CONSUMED")
      BY <2>1, TermsKept
    <2> QED
      BY <1>1, <1>2, <2>2 DEF Agrees
  <1>3. CASE Status(q) = "CANCELLED" /\ postings[q] # <<>>
    <2>1. PICK year \in Years : postings[q] = <<PostingIn(q, "CONSUMED", year), PostingIn(q, "REVERSAL", year)>>
      BY <1>1, <1>3 DEF Agrees
    <2>2. /\ PostingIn(q, "CONSUMED", year)' = PostingIn(q, "CONSUMED", year)
          /\ PostingIn(q, "REVERSAL", year)' = PostingIn(q, "REVERSAL", year)
      BY DEF SameRow, PostingIn
    <2>3. postings'[q] = <<PostingIn(q, "CONSUMED", year)', PostingIn(q, "REVERSAL", year)'>>
      BY <2>1, <2>2
    <2> QED
      BY <1>1, <1>3, <2>3 DEF Agrees
  <1> QED
    BY <1>1, <1>2, <1>3 DEF Agrees

\* The plan of a call survives a step that leaves what it was made from.
LEMMA PlanKept ==
    ASSUME NEW y, PlanAgrees(y), editedLate \subseteq editedLate', resettled \subseteq resettled',
           (Approving(y) \/ y.op = "cancel") /\ y.request \notin editedLate' \cup resettled' =>
               y.request \in Requests /\ SameTerms(y.request)
    PROVE  PlanAgrees(y)'
  <1> SUFFICES ASSUME y.request \notin editedLate' \cup resettled', Approving(y) \/ y.op = "cancel"
               PROVE  PlanAgrees(y)'
    BY DEF PlanAgrees
  <1>1. PICK q \in Requests : q = y.request /\ SameTerms(q)
    OBVIOUS
  <1>2. /\ Tracked(q)' <=> Tracked(q)
        /\ Planned(q, "CONSUMED")' = Planned(q, "CONSUMED")
        /\ Planned(q, "REVERSAL")' = Planned(q, "REVERSAL")
    BY <1>1, TermsKept
  <1>3. /\ Approving(y) => y.posting = Planned(q, "CONSUMED")
        /\ y.op = "cancel" /\ y.waits => Tracked(q)
        /\ y.op = "cancel" /\ ~y.waits => y.posting = Planned(q, "REVERSAL")
    BY <1>1 DEF PlanAgrees
  <1>4. /\ Approving(y) => y.posting = Planned(q, "CONSUMED")'
        /\ y.op = "cancel" /\ y.waits => Tracked(q)'
        /\ y.op = "cancel" /\ ~y.waits => y.posting = Planned(q, "REVERSAL")'
    BY <1>2, <1>3
  <1> QED
    BY <1>1, <1>4 DEF PlanAgrees

\* A call with a plan holds its request, in the status it relies on.
LEMMA PlanHolds ==
    ASSUME LeaveInv, NEW v \in Workers, Approving(txns[v]) \/ txns[v].op = "cancel"
    PROVE  /\ txns[v].request \in Requests /\ OnRequest(txns[v], txns[v].request)
           /\ Status(txns[v].request) = Relied(txns[v].op)
  <1>1. txns[v].op \in {"submit", "decide", "cancel"} /\ (txns[v].op = "submit" => ~txns[v].waits)
    BY DEF Approving
  <1>2. Fits(txns[v]) /\ Named(txns[v])
    BY Known
  <1>3. OnRequest(txns[v], txns[v].request) /\ txns[v].request \in Requests
    BY <1>1, <1>2 DEF OnRequest, Named
  <1> QED
    BY <1>2, <1>3 DEF Fits, StatusFits

\* The ledger agrees after a step that changes a row only if nobody has locked it, and
\* that ends each call or leaves its plan.
LEMMA LedgerStep ==
    ASSUME LeaveInv, LedgerInv, editedLate \subseteq editedLate', resettled \subseteq resettled',
           \A q \in Requests : Agrees(q)',
           \A v \in Workers : txns'[v] = txns[v] \/ PlanAgrees(txns[v])',
           \A v \in Workers, q \in Requests :
               /\ txns'[v] = txns[v] /\ OnRequest(txns[v], q) /\ Status(q) = Relied(txns[v].op)
               /\ txns[v].request = q /\ q \notin editedLate' \cup resettled'
               /\ Approving(txns[v]) \/ txns[v].op = "cancel"
               => SameTerms(q)
    PROVE  LedgerInv'
  <1>1. ASSUME NEW v \in Workers PROVE PlanAgrees(txns[v])'
    <2>1. CASE txns'[v] = txns[v]
      <3>1. PICK y : y = txns[v]
        OBVIOUS
      <3>2. PlanAgrees(y)
        BY <3>1 DEF LedgerInv
      <3>3. (Approving(y) \/ y.op = "cancel") /\ y.request \notin editedLate' \cup resettled' =>
                y.request \in Requests /\ SameTerms(y.request)
        BY <2>1, <3>1, PlanHolds
      <3>4. PlanAgrees(y)'
        BY <3>2, <3>3, PlanKept
      <3> QED
        BY <2>1, <3>1, <3>4
    <2> QED
      BY <2>1
  <1> QED
    BY <1>1, AgreesEach DEF LedgerInv

\* A call that has ended plans nothing.
LEMMA IdlePlan ==
    ASSUME NEW v \in Workers, txns'[v] = Idle
    PROVE  PlanAgrees(txns[v])'
  <1>1. Idle.op = "none"
    BY IdleHolds
  <1>2. PICK y : y = Idle
    OBVIOUS
  <1>3. PlanAgrees(y)'
    BY <1>1, <1>2 DEF PlanAgrees, Approving
  <1> QED
    BY <1>2, <1>3

\* A step of the calls alone keeps the ledger in agreement when the plan it makes agrees.
LEMMA CallsLedger ==
    ASSUME LeaveInv, LedgerInv, OnlyCalls, UNCHANGED settings,
           NEW w \in Workers, NEW x, txns' = [txns EXCEPT ![w] = x], PlanAgrees(x)
    PROVE  LedgerInv'
  <1>1. \A q \in Requests : SameTerms(q)
    BY DEF OnlyCalls, settings, SameTerms, SameRow
  <1>2. editedLate' = editedLate /\ resettled' = resettled
    BY DEF OnlyCalls, settings
  <1>3. ASSUME NEW q \in Requests PROVE Agrees(q)'
    <2>1. Agrees(q) /\ SameTerms(q) /\ SameRow(q)
      BY <1>1, AgreesEach DEF LedgerInv, SameTerms
    <2>2. requests'[q].status = requests[q].status /\ postings'[q] = postings[q]
      BY DEF OnlyCalls
    <2> QED
      BY <1>2, <2>1, <2>2, AgreesKept
  <1>4. ASSUME NEW v \in Workers PROVE txns'[v] = txns[v] \/ PlanAgrees(txns[v])'
    <2>1. CASE v # w
      BY <2>1, Known, TableTypes
    <2>2. CASE v = w
      <3>1. PICK y : y = x
        OBVIOUS
      <3>2. txns'[v] = y
        BY <2>2, <3>1, Known, TableTypes
      <3>3. y.request \notin editedLate' \cup resettled' => PlanAgrees(y)'
        <4> SUFFICES ASSUME y.request \notin editedLate' \cup resettled' PROVE PlanAgrees(y)'
          OBVIOUS
        <4>1. \A kind : Planned(y.request, kind)' = Planned(y.request, kind)
          BY DEF OnlyCalls, settings, Planned, Tracked, LedgerPosting, PostingIn, LeaveYear
        <4>2. Tracked(y.request)' <=> Tracked(y.request)
          BY DEF OnlyCalls, settings, Tracked
        <4> QED
          BY <1>2, <3>1, <4>1, <4>2 DEF PlanAgrees
      <3>4. PlanAgrees(y)'
        BY <3>3 DEF PlanAgrees
      <3> QED
        BY <3>2, <3>4
    <2> QED
      BY <2>1, <2>2
  <1> QED
    BY <1>1, <1>2, <1>3, <1>4, LedgerStep

\* The calls that begin, and those that end without a commit.
LEMMA SimpleCallLedger ==
    ASSUME LeaveInv, LedgerInv, NEW w \in Workers,
           \/ \E t \in Types : ReadCarryForward(w, t)
           \/ \E r \in Requests : \/ LoadForEdit(w, r) \/ BeginSubmission(w, r)
                                  \/ BeginWithdrawal(w, r) \/ BeginCancellation(w, r)
           \/ Rollback(w)
    PROVE  LedgerInv'
  <1>1. CASE \E t \in Types : ReadCarryForward(w, t)
    <2>1. PICK t \in Types : ReadCarryForward(w, t)
      BY <1>1
    <2>2. PICK x : OnlyCalls /\ txns' = [txns EXCEPT ![w] = x] /\ x.op = "carry"
      BY <2>1, Known, ReadCarryForwardCall
    <2> QED
      BY <2>1, <2>2, CallsLedger DEF ReadCarryForward, settings, PlanAgrees, Approving
  <1>2. CASE \E r \in Requests : LoadForEdit(w, r)
    <2>1. PICK r \in Requests : LoadForEdit(w, r)
      BY <1>2
    <2>2. PICK x : OnlyCalls /\ txns' = [txns EXCEPT ![w] = x] /\ x.op = "edit"
      BY <2>1, Known, LoadForEditCall
    <2> QED
      BY <2>1, <2>2, CallsLedger DEF LoadForEdit, settings, PlanAgrees, Approving
  <1>3. CASE \E r \in Requests : BeginSubmission(w, r)
    <2>1. PICK r \in Requests : BeginSubmission(w, r)
      BY <1>3
    <2>2. PICK x : OnlyCalls /\ txns' = [txns EXCEPT ![w] = x] /\ x.op = "submit" /\ x.waits
      BY <2>1, Known, BeginSubmissionCall
    <2> QED
      BY <2>1, <2>2, CallsLedger DEF BeginSubmission, Begin, settings, PlanAgrees, Approving
  <1>4. CASE \E r \in Requests : BeginWithdrawal(w, r)
    <2>1. PICK r \in Requests : BeginWithdrawal(w, r)
      BY <1>4
    <2>2. PICK x : OnlyCalls /\ txns' = [txns EXCEPT ![w] = x] /\ x.op = "withdraw"
      BY <2>1, Known, BeginWithdrawalCall
    <2> QED
      BY <2>1, <2>2, CallsLedger DEF BeginWithdrawal, Begin, settings, PlanAgrees, Approving
  <1>5. CASE \E r \in Requests : BeginCancellation(w, r)
    <2>1. PICK r \in Requests : BeginCancellation(w, r)
      BY <1>5
    <2>2. PICK x : /\ OnlyCalls /\ txns' = [txns EXCEPT ![w] = x] /\ x.op = "cancel" /\ x.request = r
                   /\ x.posting = None /\ (x.waits <=> Tracked(r))
      BY <2>1, Known, BeginCancellationCall
    <2>3. PlanAgrees(x)
      BY <2>2 DEF PlanAgrees, Approving, Planned
    <2> QED
      BY <2>1, <2>2, <2>3, CallsLedger DEF BeginCancellation, Begin, settings
  <1>6. CASE Rollback(w)
    <2>1. OnlyCalls /\ txns' = [txns EXCEPT ![w] = Idle] /\ UNCHANGED settings
      BY <1>6 DEF Rollback, End, OnlyCalls, settings
    <2>2. PlanAgrees(Idle)
      BY IdleHolds DEF PlanAgrees, Approving
    <2> QED
      BY <2>1, <2>2, CallsLedger
  <1> QED
    BY <1>1, <1>2, <1>3, <1>4, <1>5, <1>6

\* A decision that begins has no posting yet: a final one waits for the employee.
LEMMA BeginDecisionLedger ==
    ASSUME LeaveInv, LedgerInv, NEW w \in Workers, NEW r \in Requests, NEW role \in Roles,
           NEW decision \in {"APPROVED", "REJECTED"}, BeginDecision(w, r, role, decision)
    PROVE  LedgerInv'
  <1>1. PICK x : OnlyCalls /\ txns' = [txns EXCEPT ![w] = x] /\ x.op = "decide" /\ (x.final => x.waits)
    BY Known, BeginDecisionCall
  <1>2. PlanAgrees(x)
    BY <1>1 DEF PlanAgrees, Approving
  <1> QED
    BY <1>1, <1>2, CallsLedger DEF BeginDecision, Begin, settings

\* A call that takes its second row plans what the settings ask for.
LEMMA ProceedLedger ==
    ASSUME LeaveInv, LedgerInv, NEW w \in Workers, SubmitDirectly(w) \/ ProceedApproval(w) \/ ProceedCancellation(w)
    PROVE  LedgerInv'
  <1>1. txns[w].op \in {"submit", "decide", "cancel"}
    BY DEF SubmitDirectly, Submittable, ProceedApproval, ProceedCancellation
  <1>2. PICK r \in Requests : r = txns[w].request
    BY <1>1, Known DEF Named
  <1>3. CASE SubmitDirectly(w)
    <2>1. PICK x : /\ OnlyCalls /\ txns' = [txns EXCEPT ![w] = x] /\ x.op = "submit" /\ x.request = r
                   /\ x.posting = Planned(r, "CONSUMED")
      BY <1>2, <1>3, Known, SubmitDirectlyCall
    <2> QED
      BY <1>3, <2>1, CallsLedger DEF SubmitDirectly, Approve, Proceed, settings, PlanAgrees
  <1>4. CASE ProceedApproval(w)
    <2>1. PICK x : /\ OnlyCalls /\ txns' = [txns EXCEPT ![w] = x] /\ x.op = "decide" /\ x.request = r
                   /\ x.posting = Planned(r, "CONSUMED")
      BY <1>2, <1>4, Known, ProceedApprovalCall
    <2> QED
      BY <1>4, <2>1, CallsLedger DEF ProceedApproval, Approve, Proceed, settings, PlanAgrees
  <1>5. CASE ProceedCancellation(w)
    <2>1. PICK x : /\ OnlyCalls /\ txns' = [txns EXCEPT ![w] = x] /\ x.op = "cancel" /\ x.request = r /\ ~x.waits
                   /\ x.posting = LedgerPosting(r, "REVERSAL")
      BY <1>2, <1>5, Known, ProceedCancellationCall
    <2>2. r \notin editedLate \cup resettled => Tracked(r)
      <3>1. PlanAgrees(txns[w]) /\ txns[w].op = "cancel" /\ txns[w].waits
        BY <1>5 DEF LedgerInv, ProceedCancellation
      <3> QED
        BY <1>2, <3>1 DEF PlanAgrees
    <2>3. PlanAgrees(x)
      BY <2>1, <2>2 DEF PlanAgrees, Approving, Planned
    <2> QED
      BY <1>5, <2>1, <2>3, CallsLedger DEF ProceedCancellation, Proceed, settings
  <1> QED
    BY <1>3, <1>4, <1>5

\* An edit of the settings changes no approved request's posting but marks it.
LEMMA SettingsLedger ==
    ASSUME LeaveInv, LedgerInv, UNCHANGED <<requests, postings, txns, editedLate>>, resettled \subseteq resettled',
           \A q \in Requests : Approved(q) /\ q \notin resettled' => SameTerms(q)
    PROVE  LedgerInv'
  <1>1. ASSUME NEW q \in Requests PROVE Agrees(q)'
    <2>1. Agrees(q)
      BY AgreesEach DEF LedgerInv
    <2>2. Status(q) = "APPROVED" /\ q \notin resettled' => SameTerms(q)
      BY DEF Approved
    <2>3. requests'[q].status = requests[q].status /\ postings'[q] = postings[q] /\ SameRow(q)
      BY DEF SameRow
    <2>4. editedLate \subseteq editedLate'
      OBVIOUS
    <2> QED
      BY <2>1, <2>2, <2>3, <2>4, AgreesKept
  <1>2. ASSUME NEW v \in Workers, NEW q \in Requests, txns[v].request = q, Status(q) = Relied(txns[v].op),
               q \notin resettled', Approving(txns[v]) \/ txns[v].op = "cancel"
        PROVE  SameTerms(q)
    <2>1. CASE Approving(txns[v])
      BY <1>2, <2>1 DEF Approving, Approved
    <2>2. CASE txns[v].op = "cancel"
      BY <1>2, <2>2 DEF Relied, Approved
    <2> QED
      BY <1>2, <2>1, <2>2
  <1>3. /\ editedLate \subseteq editedLate' /\ \A v \in Workers : txns'[v] = txns[v]
    OBVIOUS
  <1> QED
    BY <1>1, <1>2, <1>3, LedgerStep

LEMMA ConfigurationLedger ==
    ASSUME LeaveInv, LedgerInv,
           \/ \E anchor \in YearStarts, working \in Weeks : Configure(anchor, working)
           \/ \E t \in Types, row \in TypeSettings : UpdateLeaveType(t, row)
           \/ \E i \in DOMAIN stages, role \in Roles \cup {None} : SetStage(i, role)
    PROVE  LedgerInv'
  <1>1. CASE \E anchor \in YearStarts, working \in Weeks : Configure(anchor, working)
    <2>1. PICK anchor \in YearStarts, working \in Weeks : Configure(anchor, working)
      BY <1>1
    <2>2. UNCHANGED <<types, requests, postings, txns, editedLate>> /\ setup'.anchor = anchor
      BY <2>1 DEF Configure
    <2>3. resettled' = resettled \cup {r \in Requests : /\ Approved(r)
                                                        /\ YearOf(requests[r].start, anchor) # LeaveYear(requests[r].start)}
      BY <2>1 DEF Configure
    <2>4. ASSUME NEW q \in Requests, Approved(q), q \notin resettled' PROVE SameTerms(q)
      <3>1. YearOf(requests[q].start, anchor) = LeaveYear(requests[q].start)
        BY <2>3, <2>4
      <3> QED
        BY <2>2, <3>1 DEF SameTerms, SameRow, LeaveYear
    <2> QED
      BY <2>2, <2>3, <2>4, SettingsLedger
  <1>2. CASE \E t \in Types, row \in TypeSettings : UpdateLeaveType(t, row)
    <2>1. PICK t \in Types, row \in TypeSettings : UpdateLeaveType(t, row)
      BY <1>2
    <2>2. UNCHANGED <<setup, requests, postings, txns, editedLate>> /\ types' = [types EXCEPT ![t] = row]
      BY <2>1 DEF UpdateLeaveType
    <2>3. resettled' = resettled \cup {r \in Requests : /\ Approved(r) /\ requests[r].type = t
                                                        /\ row.requires_balance # types[t].requires_balance}
      BY <2>1 DEF UpdateLeaveType
    <2>4. ASSUME NEW q \in Requests, Approved(q), q \notin resettled' PROVE SameTerms(q)
      <3>1. requests[q].type = t => row.requires_balance = types[t].requires_balance
        BY <2>3, <2>4
      <3>2. types'[requests[q].type].requires_balance = types[requests[q].type].requires_balance
        BY <2>2, <3>1, Known, TableTypes DEF RequestRow
      <3> QED
        BY <2>2, <3>2 DEF SameTerms, SameRow
    <2> QED
      BY <2>2, <2>3, <2>4, SettingsLedger
  <1>3. CASE \E i \in DOMAIN stages, role \in Roles \cup {None} : SetStage(i, role)
    <2>1. UNCHANGED <<types, setup, resettled, requests, postings, txns, editedLate>>
      BY <1>3 DEF SetStage
    <2>2. \A q \in Requests : SameTerms(q)
      BY <2>1 DEF SameTerms, SameRow
    <2> QED
      BY <2>1, <2>2, SettingsLedger
  <1> QED
    BY <1>1, <1>2, <1>3

\* A row that nobody has locked may change while it is a draft, or leave the agreement.
LEMMA RowLedger ==
    ASSUME LeaveInv, LedgerInv, UNCHANGED settings, postings' = postings, editedLate \subseteq editedLate',
           \A v \in Workers : txns'[v] = txns[v] \/ txns'[v] = Idle,
           \A q \in Requests :
               \/ requests'[q] = requests[q]
               \/ /\ requests'[q].status = "DRAFT" \/ q \in editedLate'
                  /\ \A v \in Workers : OnRequest(txns[v], q) => Status(q) # Relied(txns[v].op)
    PROVE  LedgerInv'
  <1>1. resettled' = resettled /\ types' = types /\ setup' = setup
    BY DEF settings
  <1>2. ASSUME NEW q \in Requests, requests'[q] = requests[q] PROVE SameTerms(q) /\ SameRow(q)
    BY <1>1, <1>2 DEF SameTerms, SameRow
  <1>3. ASSUME NEW q \in Requests PROVE Agrees(q)'
    <2>1. CASE requests'[q] = requests[q]
      <3>1. Agrees(q) /\ SameTerms(q) /\ SameRow(q)
        BY <1>2, <2>1, AgreesEach DEF LedgerInv
      <3> QED
        BY <1>1, <2>1, <3>1, AgreesKept
    <2>2. CASE requests'[q].status = "DRAFT"
      BY <2>2 DEF Agrees, Status
    <2>3. CASE q \in editedLate'
      BY <2>3 DEF Agrees
    <2> QED
      BY <2>1, <2>2, <2>3
  <1>4. ASSUME NEW v \in Workers PROVE txns'[v] = txns[v] \/ PlanAgrees(txns[v])'
    BY IdlePlan
  <1>5. ASSUME NEW v \in Workers, NEW q \in Requests, OnRequest(txns[v], q), Status(q) = Relied(txns[v].op)
        PROVE  SameTerms(q)
    <2>1. requests'[q] = requests[q]
      BY <1>5
    <2> QED
      BY <1>2, <2>1
  <1>6. resettled \subseteq resettled'
    BY <1>1
  <1> QED
    BY <1>3, <1>4, <1>5, <1>6, LedgerStep

\* Balances, new drafts and edits.
LEMMA RowsLedger ==
    ASSUME LeaveInv, LedgerInv,
           \/ \E t \in Types, y \in AdjustedYears, days \in {-1, 1} : AdjustBalance(t, y, days)
           \/ \E w \in Workers : PostCarryForward(w)
           \/ \E t \in Types, r \in Requests, start, end \in Days : CreateLeaveRequest(r, t, start, end)
           \/ \E w \in Workers, t \in Types \cup {None}, start, end \in Days \cup {None} :
                  UpdateLeaveRequest(w, t, start, end)
    PROVE  LedgerInv'
  <1>1. CASE \E t \in Types, y \in AdjustedYears, days \in {-1, 1} : AdjustBalance(t, y, days)
    <2>1. UNCHANGED <<settings, requests, postings, txns, editedLate>>
      BY <1>1 DEF AdjustBalance
    <2> QED
      BY <2>1, RowLedger
  <1>2. CASE \E w \in Workers : PostCarryForward(w)
    <2>1. PICK w \in Workers : PostCarryForward(w)
      BY <1>2
    <2>2. UNCHANGED <<settings, requests, postings, editedLate>> /\ txns' = [txns EXCEPT ![w] = Idle]
      BY <2>1 DEF PostCarryForward, End
    <2>3. \A v \in Workers : txns'[v] = txns[v] \/ txns'[v] = Idle
      BY <2>2, Known, TableTypes
    <2> QED
      BY <2>2, <2>3, RowLedger
  <1>3. CASE \E t \in Types, r \in Requests, start, end \in Days : CreateLeaveRequest(r, t, start, end)
    <2>1. PICK t \in Types, r \in Requests, start \in Days, end \in Days : CreateLeaveRequest(r, t, start, end)
      BY <1>3
    <2>2. UNCHANGED <<settings, postings, txns, editedLate>> /\ Status(r) = "absent"
      BY <2>1 DEF CreateLeaveRequest
    <2>3. PICK row : row.status = "DRAFT" /\ requests' = [requests EXCEPT ![r] = row]
      BY <2>1 DEF CreateLeaveRequest
    <2>4. requests'[r].status = "DRAFT" /\ \A q \in Requests \ {r} : requests'[q] = requests[q]
      BY <2>3, Known, TableTypes
    <2>5. \A v \in Workers : Status(r) # Relied(txns[v].op)
      BY <2>2 DEF Relied
    <2> QED
      BY <2>2, <2>4, <2>5, RowLedger
  <1>4. CASE \E w \in Workers, t \in Types \cup {None}, start, end \in Days \cup {None} :
                 UpdateLeaveRequest(w, t, start, end)
    <2>1. PICK w \in Workers, t \in Types \cup {None}, start \in Days \cup {None}, end \in Days \cup {None} :
              UpdateLeaveRequest(w, t, start, end)
      BY <1>4
    <2>2. PICK r \in Requests : r = txns[w].request
      BY <2>1, Known DEF Named, UpdateLeaveRequest
    <2>3. PICK row \in RequestRow : row.status = requests[r].status /\ requests' = [requests EXCEPT ![r] = row]
      BY <2>1, <2>2, EditedRow
    <2>4. requests'[r].status = requests[r].status /\ \A q \in Requests \ {r} : requests'[q] = requests[q]
      BY <2>3, Known, TableTypes
    <2>5. /\ RequestFree(r) /\ UNCHANGED <<settings, postings>>
          /\ editedLate' = IF requests[r].status = "DRAFT" THEN editedLate ELSE editedLate \cup {r}
          /\ txns' = [txns EXCEPT ![w] = Idle]
      BY <2>1, <2>2 DEF UpdateLeaveRequest, Status, End
    <2>6. \A v \in Workers : txns'[v] = txns[v] \/ txns'[v] = Idle
      BY <2>5, Known, TableTypes
    <2>7. \A v \in Workers : ~OnRequest(txns[v], r)
      BY <2>5, Unlocked
    <2> QED
      BY <2>4, <2>5, <2>6, <2>7, RowLedger
  <1> QED
    BY <1>1, <1>2, <1>3, <1>4

\* A commit writes the posting its call has planned: an approval what the settings asked
\* for, a cancellation what gives it back.
LEMMA CommitLedger ==
    ASSUME LeaveInv, LedgerInv, NEW w \in Workers, NEW r \in Requests, r = txns[w].request,
           NEW status \in {"SUBMITTED", "APPROVED", "REJECTED", "CANCELLED"}, Settle(w, status),
           OnRequest(txns[w], r) \/ RequestFree(r),
           status = "APPROVED" => Approving(txns[w]) /\ Status(r) \in {"DRAFT", "SUBMITTED"},
           status = "CANCELLED" =>
               \/ txns[w].op = "cancel" /\ ~txns[w].waits /\ Status(r) = "APPROVED"
               \/ txns[w].posting = None /\ Status(r) = "SUBMITTED"
    PROVE  LedgerInv'
  <1>1. PICK p : p = txns[w].posting
    OBVIOUS
  <1>2. Settled(w, r, p, status)
    BY <1>1, SettleEffect
  <1>3. /\ requests'[r].status = status /\ SameRow(r) /\ \A q \in Requests \ {r} : requests'[q] = requests[q]
        /\ \A v \in Workers : txns'[v] = IF v = w THEN Idle ELSE txns[v]
        /\ UNCHANGED <<types, setup, resettled>> /\ editedLate' = editedLate
        /\ p = None => postings' = postings
    BY <1>2 DEF Settled, SameRow, settings
  <1>4. p # None => p \in Posting /\ postings' = [postings EXCEPT ![r] = Append(@, p)]
    BY <1>2 DEF Settled
  <1>5. postings \in [Requests -> Seq(Posting)]
    BY Known DEF Tables
  <1>6. /\ \A q \in Requests \ {r} : postings'[q] = postings[q]
        /\ p # None => postings'[r] = Append(postings[r], p)
    BY <1>3, <1>4, <1>5
  <1>7. SameTerms(r) /\ \A q \in Requests \ {r} : SameTerms(q)
    BY <1>3 DEF SameTerms, SameRow
  <1>8. ASSUME NEW q \in Requests \ {r} PROVE Agrees(q)'
    <2>1. Agrees(q) /\ SameTerms(q) /\ SameRow(q)
      BY <1>7, AgreesEach DEF LedgerInv, SameTerms
    <2> QED
      BY <1>3, <1>6, <2>1, AgreesKept
  <1>9. PlanAgrees(txns[w]) /\ Agrees(r) /\ PostingsFollow(r)
    BY AgreesEach, Known DEF LedgerInv
  <1>10. Agrees(r)'
    <2> SUFFICES ASSUME r \notin editedLate \cup resettled PROVE Agrees(r)'
      BY <1>3 DEF Agrees
    <2>1. /\ Tracked(r)' <=> Tracked(r)
          /\ LedgerPosting(r, "CONSUMED")' = LedgerPosting(r, "CONSUMED")
      BY <1>7, TermsKept
    <2>2. Status(r)' = status
      BY <1>3 DEF Status
    <2>3. CASE status = "APPROVED"
      <3>1. postings[r] = <<>> /\ p = Planned(r, "CONSUMED")
        BY <1>1, <1>9, <2>3 DEF PlanAgrees, PostingsFollow
      <3>2. CASE Tracked(r)
        <4>1. p = LedgerPosting(r, "CONSUMED") /\ p # None
          BY <3>1, <3>2, Known, PostingTyped DEF Planned
        <4>2. postings'[r] = <<p>>
          BY <1>6, <3>1, <4>1
        <4> QED
          BY <2>1, <2>2, <2>3, <3>2, <4>1, <4>2 DEF Agrees
      <3>3. CASE ~Tracked(r)
        <4>1. postings'[r] = <<>>
          BY <1>3, <3>1, <3>3 DEF Planned
        <4> QED
          BY <2>1, <2>2, <2>3, <3>3, <4>1 DEF Agrees
      <3> QED
        BY <3>2, <3>3
    <2>4. CASE status = "CANCELLED" /\ txns[w].op = "cancel" /\ ~txns[w].waits /\ Status(r) = "APPROVED"
      <3>1. p = Planned(r, "REVERSAL") /\ postings[r] = IF Tracked(r) THEN <<LedgerPosting(r, "CONSUMED")>> ELSE <<>>
        BY <1>1, <1>9, <2>4 DEF PlanAgrees, Agrees
      <3>2. CASE Tracked(r)
        <4>1. PICK year \in Years : year = LeaveYear(requests[r].start)
          BY DEF LeaveYear, YearOf, Years
        <4>2. LedgerPosting(r, "CONSUMED") = PostingIn(r, "CONSUMED", year) /\ p = PostingIn(r, "REVERSAL", year) /\ p # None
          BY <3>1, <3>2, <4>1, Known, PostingTyped DEF Planned, LedgerPosting
        <4>3. postings'[r] = <<PostingIn(r, "CONSUMED", year), PostingIn(r, "REVERSAL", year)>>
          BY <1>6, <3>1, <3>2, <4>2
        <4>4. /\ PostingIn(r, "CONSUMED", year)' = PostingIn(r, "CONSUMED", year)
              /\ PostingIn(r, "REVERSAL", year)' = PostingIn(r, "REVERSAL", year)
          BY <1>3 DEF SameRow, PostingIn
        <4>5. postings'[r] = <<PostingIn(r, "CONSUMED", year)', PostingIn(r, "REVERSAL", year)'>>
          BY <4>3, <4>4
        <4> QED
          BY <2>2, <2>4, <4>5 DEF Agrees
      <3>3. CASE ~Tracked(r)
        <4>1. postings'[r] = <<>>
          BY <1>3, <3>1, <3>3 DEF Planned
        <4> QED
          BY <2>2, <2>4, <4>1 DEF Agrees
      <3> QED
        BY <3>2, <3>3
    <2>5. CASE status = "CANCELLED" /\ p = None /\ Status(r) = "SUBMITTED"
      <3>1. postings'[r] = <<>>
        BY <1>3, <1>9, <2>5 DEF PostingsFollow
      <3> QED
        BY <2>2, <2>5, <3>1 DEF Agrees
    <2>6. CASE status \in {"SUBMITTED", "REJECTED"}
      BY <2>2, <2>6 DEF Agrees
    <2> QED
      BY <1>1, <2>3, <2>4, <2>5, <2>6
  <1>11. ASSUME NEW v \in Workers, NEW q \in Requests, txns'[v] = txns[v], OnRequest(txns[v], q)
         PROVE  SameTerms(q)
    BY <1>7
  <1>12. \A q \in Requests : Agrees(q)'
    BY <1>8, <1>10
  <1>13. \A v \in Workers : txns'[v] = txns[v] \/ PlanAgrees(txns[v])'
    BY <1>3, IdlePlan
  <1>14. editedLate \subseteq editedLate' /\ resettled \subseteq resettled'
    BY <1>3
  <1> QED
    BY <1>11, <1>12, <1>13, <1>14, LedgerStep

\* The commits of submissions, decisions, withdrawals and cancellations.
LEMMA CommitsLedger ==
    ASSUME LeaveInv, LedgerInv, NEW w \in Workers,
           \/ SubmitForApproval(w) \/ CommitDirectSubmission(w)
           \/ CommitDecision(w) \/ CommitWithdrawalOrCancellation(w)
    PROVE  LedgerInv'
  <1>1. txns[w].op \in {"submit", "decide", "withdraw", "cancel"}
    BY DEF SubmitForApproval, Submittable, CommitDirectSubmission, CommitDecision, CommitWithdrawalOrCancellation
  <1>2. PICK r \in Requests : r = txns[w].request
    BY <1>1, Known DEF Named
  <1>3. CASE SubmitForApproval(w)
    <2>1. Submittable(w, r) /\ Settle(w, "SUBMITTED")
      BY <1>2, <1>3 DEF SubmitForApproval
    <2>2. RequestFree(r)
      BY <2>1 DEF Submittable
    <2> QED
      BY <1>2, <2>1, <2>2, CommitLedger
  <1>4. CASE ~SubmitForApproval(w)
    <2>1. ~txns[w].waits
      BY <1>4 DEF CommitDirectSubmission, CommitDecision, CommitWithdrawalOrCancellation
    <2>2. OnRequest(txns[w], r)
      BY <1>1, <1>2, <2>1 DEF OnRequest
    <2>3. Status(r) = Relied(txns[w].op) /\ Fits(txns[w])
      BY <1>2, <2>2, Known DEF Fits, StatusFits
    <2>4. CASE CommitDirectSubmission(w)
      <3>1. txns[w].op = "submit" /\ Settle(w, "APPROVED")
        BY <2>4 DEF CommitDirectSubmission
      <3>2. Approving(txns[w]) /\ Status(r) = "DRAFT"
        BY <2>1, <2>3, <3>1 DEF Approving, Relied
      <3> QED
        BY <1>2, <2>2, <3>1, <3>2, CommitLedger
    <2>5. CASE CommitDecision(w)
      <3>1. txns[w].op = "decide" /\ Status(r) = "SUBMITTED"
        BY <2>3, <2>5 DEF CommitDecision, Relied
      <3>2. PICK status \in {"SUBMITTED", "APPROVED", "REJECTED"} :
                Settle(w, status) /\ (status = "APPROVED" => txns[w].final)
        BY <2>5 DEF CommitDecision
      <3>3. status = "APPROVED" => Approving(txns[w])
        BY <2>1, <3>1, <3>2 DEF Approving
      <3> QED
        BY <1>2, <2>2, <3>1, <3>2, <3>3, CommitLedger
    <2>6. CASE CommitWithdrawalOrCancellation(w)
      <3>1. txns[w].op \in {"withdraw", "cancel"} /\ Settle(w, "CANCELLED")
        BY <2>6 DEF CommitWithdrawalOrCancellation
      <3>2. txns[w].op = "withdraw" => txns[w].posting = None /\ Status(r) = "SUBMITTED"
        BY <2>3 DEF Fits, PostingFits, Relied
      <3>3. txns[w].op = "cancel" => Status(r) = "APPROVED"
        BY <2>3 DEF Relied
      <3> QED
        BY <1>2, <2>1, <2>2, <3>1, <3>2, <3>3, CommitLedger
    <2> QED
      BY <1>4, <2>4, <2>5, <2>6
  <1> QED
    BY <1>3, <1>4

\* The ledger agrees with the empty tables, and every step keeps it so.
LEMMA InitLedgerInv == Init => LedgerInv
  <1> SUFFICES ASSUME Init PROVE LedgerInv
    OBVIOUS
  <1>1. \A r \in Requests : Agrees(r)
    BY DEF Init, Agrees, Status
  <1>2. \A w \in Workers : txns[w] = Idle
    BY DEF Init
  <1>3. PlanAgrees(Idle)
    BY IdleHolds DEF PlanAgrees, Approving
  <1> QED
    BY <1>1, <1>2, <1>3, AgreesEach DEF LedgerInv

LEMMA LedgerNext == LeaveInv /\ LedgerInv /\ [Next]_vars => LedgerInv'
  <1> SUFFICES ASSUME LeaveInv, LedgerInv, Next \/ vars' = vars PROVE LedgerInv'
    OBVIOUS
  <1>1. CASE vars' = vars
    <2>1. UNCHANGED <<settings, requests, postings, txns, editedLate>>
      BY <1>1 DEF vars, settings
    <2> QED
      BY <2>1, RowLedger
  <1>2. CASE \/ \E anchor \in YearStarts, working \in Weeks : Configure(anchor, working)
             \/ \E t \in Types, row \in TypeSettings : UpdateLeaveType(t, row)
             \/ \E i \in DOMAIN stages, role \in Roles \cup {None} : SetStage(i, role)
    BY <1>2, ConfigurationLedger
  <1>3. CASE \/ \E t \in Types, y \in AdjustedYears, days \in {-1, 1} : AdjustBalance(t, y, days)
             \/ \E w \in Workers : PostCarryForward(w)
             \/ \E t \in Types, r \in Requests, start, end \in Days : CreateLeaveRequest(r, t, start, end)
             \/ \E w \in Workers, t \in Types \cup {None}, start, end \in Days \cup {None} :
                    UpdateLeaveRequest(w, t, start, end)
    BY <1>3, RowsLedger
  <1>4. ASSUME NEW w \in Workers,
               \/ \E t \in Types : ReadCarryForward(w, t)
               \/ \E r \in Requests : \/ LoadForEdit(w, r) \/ BeginSubmission(w, r)
                                      \/ BeginWithdrawal(w, r) \/ BeginCancellation(w, r)
               \/ Rollback(w)
        PROVE  LedgerInv'
    BY <1>4, SimpleCallLedger
  <1>5. ASSUME NEW w \in Workers, NEW r \in Requests,
               \E role \in Roles, decision \in {"APPROVED", "REJECTED"} : BeginDecision(w, r, role, decision)
        PROVE  LedgerInv'
    BY <1>5, BeginDecisionLedger
  <1>6. ASSUME NEW w \in Workers, SubmitDirectly(w) \/ ProceedApproval(w) \/ ProceedCancellation(w)
        PROVE  LedgerInv'
    BY <1>6, ProceedLedger
  <1>7. ASSUME NEW w \in Workers,
               \/ SubmitForApproval(w) \/ CommitDirectSubmission(w)
               \/ CommitDecision(w) \/ CommitWithdrawalOrCancellation(w)
        PROVE  LedgerInv'
    BY <1>7, CommitsLedger
  <1> QED
    BY <1>1, <1>2, <1>3, <1>4, <1>5, <1>6, <1>7 DEF Next

\* The ledger agrees in every reachable state.
LEMMA LedgerInvariant == Spec => []LedgerInv
  <1>1. Init /\ [][Next]_vars /\ []LeaveInv => []LedgerInv
    BY InitLedgerInv, LedgerNext, PTL
  <1> QED
    BY <1>1, LeaveInvariant, PTL DEF Spec

----------------------------------------------------------------------------
(* What the invariant says *)

\* A set whose members are all one has at most one.
LEMMA AtMostOne ==
    ASSUME NEW S, \A x, y \in S : x = y
    PROVE  Cardinality(S) \in {0, 1}
  <1>1. CASE S = {}
    BY <1>1, FS_EmptySet
  <1>2. CASE S # {}
    <2>1. PICK x : S = {x}
      BY <1>2
    <2> QED
      BY <2>1, FS_Singleton
  <1> QED
    BY <1>1, <1>2

\* The stages and the ledger tell the same story as the status.
LEMMA StagesAndPostings == LeaveInv => DecidedAndPostedOnce
  <1> SUFFICES ASSUME LeaveInv, NEW r \in Requests
               PROVE  LET stage(s) == {i \in DOMAIN approvals[r] : approvals[r][i].status = s}
                          posted(kind) == Cardinality({i \in DOMAIN postings[r] : postings[r][i].kind = kind})
                      IN  /\ Status(r) \in {"absent", "DRAFT"} => approvals[r] = <<>>
                          /\ Status(r) = "SUBMITTED" =>
                                 /\ stage("PENDING") # {} /\ stage("REJECTED") \cup stage("SKIPPED") = {}
                                 /\ \A i \in stage("APPROVED"), j \in stage("PENDING") : i < j
                          /\ Status(r) = "APPROVED" => stage("APPROVED") = DOMAIN approvals[r]
                          /\ Status(r) = "REJECTED" =>
                                 /\ Cardinality(stage("REJECTED")) = 1 /\ stage("PENDING") = {}
                                 /\ \A i \in stage("REJECTED"), j \in stage("SKIPPED") : i < j
                          /\ Status(r) = "CANCELLED" => stage("REJECTED") \cup stage("SKIPPED") = {}
                          /\ posted("CONSUMED") <= IF Status(r) \in {"APPROVED", "CANCELLED"} THEN 1 ELSE 0
                          /\ posted("REVERSAL") <= IF Status(r) = "CANCELLED" THEN 1 ELSE 0
    BY DEF DecidedAndPostedOnce, StagesMatchStatus, PostedOnce
  <1> DEFINE stage(s) == {i \in DOMAIN approvals[r] : approvals[r][i].status = s}
             posted(kind) == {i \in DOMAIN postings[r] : postings[r][i].kind = kind}
  <1>1. StagesFollow(r) /\ PostingsFollow(r) /\ approvals[r] \in Seq(ApprovalRow)
    BY Known DEF Tables
  <1>2. DOMAIN approvals[r] \subseteq Nat
    BY <1>1
  <1>3. Status(r) \in {"absent", "DRAFT"} => approvals[r] = <<>>
    BY <1>1 DEF StagesFollow
  <1>4. Status(r) = "SUBMITTED" => /\ stage("PENDING") # {} /\ stage("REJECTED") \cup stage("SKIPPED") = {}
                                   /\ \A i \in stage("APPROVED"), j \in stage("PENDING") : i < j
    <2> SUFFICES ASSUME Status(r) = "SUBMITTED"
                 PROVE  /\ stage("PENDING") # {} /\ stage("REJECTED") \cup stage("SKIPPED") = {}
                        /\ \A i \in stage("APPROVED"), j \in stage("PENDING") : i < j
      OBVIOUS
    <2>1. PICK n \in DOMAIN approvals[r] :
              \A i \in DOMAIN approvals[r] : approvals[r][i].status = IF i < n THEN "APPROVED" ELSE "PENDING"
      BY <1>1 DEF StagesFollow, Stage
    <2> QED
      BY <1>2, <2>1
  <1>5. Status(r) = "APPROVED" => stage("APPROVED") = DOMAIN approvals[r]
    BY <1>1 DEF StagesFollow, Stage
  <1>6. Status(r) = "REJECTED" => /\ Cardinality(stage("REJECTED")) = 1 /\ stage("PENDING") = {}
                                  /\ \A i \in stage("REJECTED"), j \in stage("SKIPPED") : i < j
    <2> SUFFICES ASSUME Status(r) = "REJECTED"
                 PROVE  /\ Cardinality(stage("REJECTED")) = 1 /\ stage("PENDING") = {}
                        /\ \A i \in stage("REJECTED"), j \in stage("SKIPPED") : i < j
      OBVIOUS
    <2>1. PICK n \in DOMAIN approvals[r] :
              /\ approvals[r][n].status = "REJECTED"
              /\ \A j \in DOMAIN approvals[r] : /\ approvals[r][j].status # "PENDING"
                                                /\ approvals[r][j].status = "REJECTED" => j = n
                                                /\ approvals[r][j].status = "SKIPPED" => n < j
      BY <1>1 DEF StagesFollow, Stage
    <2>2. stage("REJECTED") = {n}
      BY <2>1
    <2>3. Cardinality(stage("REJECTED")) = 1
      BY <2>2, FS_Singleton
    <2> QED
      BY <2>1, <2>2, <2>3
  <1>7. Status(r) = "CANCELLED" => stage("REJECTED") \cup stage("SKIPPED") = {}
    BY <1>1 DEF StagesFollow, Stage
  <1>8. Cardinality(posted("CONSUMED")) \in {0, 1} /\ Cardinality(posted("REVERSAL")) \in {0, 1}
    <2>1. /\ \A i, j \in posted("CONSUMED") : i = j
          /\ \A i, j \in posted("REVERSAL") : i = j
      BY <1>1 DEF PostingsFollow
    <2> HIDE DEF posted
    <2> QED
      BY <2>1, AtMostOne
  <1>9. Status(r) \notin {"APPROVED", "CANCELLED"} => Cardinality(posted("CONSUMED")) = 0
    <2>1. Status(r) \notin {"APPROVED", "CANCELLED"} => posted("CONSUMED") = {}
      BY <1>1 DEF PostingsFollow
    <2> QED
      BY <2>1, FS_EmptySet
  <1>10. Status(r) # "CANCELLED" => Cardinality(posted("REVERSAL")) = 0
    <2>1. Status(r) # "CANCELLED" => posted("REVERSAL") = {}
      BY <1>1 DEF PostingsFollow
    <2> QED
      BY <2>1, FS_EmptySet
  <1> HIDE DEF stage, posted
  <1>11. /\ Cardinality(posted("CONSUMED")) <= IF Status(r) \in {"APPROVED", "CANCELLED"} THEN 1 ELSE 0
         /\ Cardinality(posted("REVERSAL")) <= IF Status(r) = "CANCELLED" THEN 1 ELSE 0
    BY <1>8, <1>9, <1>10
  <1> QED
    BY <1>3, <1>4, <1>5, <1>6, <1>7, <1>11 DEF stage, posted

(* The tables and the calls keep their types, for any number of requests,
   workers, roles and stages. *)
THEOREM LeaveTypes == Spec => []TypeOK
  <1>1. LeaveInv => TypeOK
    BY DEF LeaveInv
  <1> QED
    BY <1>1, LeaveInvariant, PTL

(* A request is decided once, consumed at most once and reversed at most once,
   however decisions, withdrawals, cancellations and edits interleave
   (decide_leave_request_stage, cancel_approved_leave_request). *)
THEOREM DecidedOnce == Spec => []DecidedAndPostedOnce
  BY LeaveInvariant, StagesAndPostings, PTL

(* Standing requests do not overlap; an approved request has consumed its days
   in its leave year if its type is tracked, and a cancelled one has had back
   from that year all it consumed, except for requests an edit changed after
   they left DRAFT and, in what concerns year and posting, for those whose
   settings changed under their approval (submit_leave_request,
   update_leave_request, cancel_approved_leave_request). *)
THEOREM SoundRequests == Spec => []RequestsAndLedgerAgree
  <1>1. LeaveInv /\ LedgerInv => RequestsAndLedgerAgree
    BY DEF LeaveInv, LedgerInv, RequestsAndLedgerAgree
  <1> QED
    BY <1>1, LeaveInvariant, LedgerInvariant, PTL

----------------------------------------------------------------------------
(* The balance *)

\* A call that has checked the balance and posts leaves it at zero or more.
LEMMA CheckedCommit ==
    ASSUME LeaveInv, [Next]_vars, NEW w \in Workers, txns[w].checked, txns'[w] = Idle, postings' # postings
    PROVE  balances'[txns[w].posting.type][txns[w].posting.year] >= 0
  <1>1. txns[w] # Idle
    BY IdleHolds
  <1>2. \E status \in {"SUBMITTED", "APPROVED", "REJECTED", "CANCELLED"} : \E v \in Workers : Settle(v, status)
    <2>1. ASSUME NEW v \in Workers,
                 SubmitForApproval(v) \/ CommitDirectSubmission(v) \/ CommitDecision(v) \/ CommitWithdrawalOrCancellation(v)
          PROVE  \E status \in {"SUBMITTED", "APPROVED", "REJECTED", "CANCELLED"} : Settle(v, status)
      BY <2>1 DEF SubmitForApproval, CommitDirectSubmission, CommitDecision, CommitWithdrawalOrCancellation
    <2>2. ASSUME NEW anchor \in YearStarts, NEW working \in Weeks, Configure(anchor, working)
          PROVE  postings' = postings
      BY <2>2 DEF Configure
    <2>3. ASSUME NEW t \in Types,
                 \/ \E row \in TypeSettings : UpdateLeaveType(t, row)
                 \/ \E y \in AdjustedYears, days \in {-1, 1} : AdjustBalance(t, y, days)
                 \/ \E r \in Requests, start, end \in Days : CreateLeaveRequest(r, t, start, end)
          PROVE  postings' = postings
      BY <2>3 DEF UpdateLeaveType, AdjustBalance, CreateLeaveRequest
    <2>4. ASSUME NEW i \in DOMAIN stages, NEW role \in Roles \cup {None}, SetStage(i, role)
          PROVE  postings' = postings
      BY <2>4 DEF SetStage
    <2>5. ASSUME NEW v \in Workers,
                 \/ \E t \in Types : ReadCarryForward(v, t)
                 \/ \E t \in Types \cup {None}, start, end \in Days \cup {None} : UpdateLeaveRequest(v, t, start, end)
          PROVE  postings' = postings
      <3>1. ASSUME NEW t \in Types, ReadCarryForward(v, t) PROVE postings' = postings
        BY <3>1 DEF ReadCarryForward
      <3>2. ASSUME NEW t \in Types \cup {None}, NEW start \in Days \cup {None}, NEW end \in Days \cup {None},
                   UpdateLeaveRequest(v, t, start, end)
            PROVE  postings' = postings
        BY <3>2 DEF UpdateLeaveRequest
      <3> QED
        BY <2>5, <3>1, <3>2
    <2>6. ASSUME NEW v \in Workers, NEW r \in Requests,
                 \/ LoadForEdit(v, r) \/ BeginSubmission(v, r) \/ BeginWithdrawal(v, r) \/ BeginCancellation(v, r)
                 \/ \E role \in Roles, decision \in {"APPROVED", "REJECTED"} : BeginDecision(v, r, role, decision)
          PROVE  postings' = postings
      BY <2>6 DEF LoadForEdit, BeginSubmission, BeginWithdrawal, BeginCancellation, BeginDecision, Begin
    <2>7. ASSUME NEW v \in Workers,
                 PostCarryForward(v) \/ SubmitDirectly(v) \/ ProceedApproval(v) \/ ProceedCancellation(v) \/ Rollback(v)
          PROVE  postings' = postings
      BY <2>7 DEF PostCarryForward, SubmitDirectly, ProceedApproval, ProceedCancellation, Rollback, Approve, Proceed
    <2>8. Next
      BY DEF vars
    <2> QED
      BY <2>1, <2>2, <2>3, <2>4, <2>5, <2>6, <2>7, <2>8 DEF Next
  <1>3. PICK status \in {"SUBMITTED", "APPROVED", "REJECTED", "CANCELLED"}, v \in Workers : Settle(v, status)
    BY <1>2
  <1>4. v = w
    <2>1. txns' = [txns EXCEPT ![v] = Idle]
      BY <1>3 DEF Settle, End
    <2> QED
      BY <1>1, <2>1, Known, TableTypes
  <1>5. PICK p : p = txns[w].posting
    OBVIOUS
  <1>6. p # None /\ p.kind = "CONSUMED" /\ balances[p.type][p.year] >= p.days
    BY <1>5, Known DEF Fits, BalanceFits
  <1>7. txns[w].request \in Requests
    <2>1. OnRequest(txns[w], txns[w].request)
      BY <1>5, <1>6, Known DEF Fits, PostingFits
    <2> QED
      BY <2>1, Known DEF Named, OnRequest
  <1>8. /\ p \in Posting
        /\ balances' = [balances EXCEPT ![p.type][p.year] = IF p.kind = "CONSUMED" THEN @ - p.days ELSE @ + p.days]
    BY <1>3, <1>4, <1>5, <1>6, <1>7, SettleEffect DEF Settled
  <1>9. p.type \in Types /\ p.year \in Years /\ p.days \in Int /\ balances \in [Types -> [Years -> Int]]
    BY <1>8, Known, TableTypes DEF Posting, Days
  <1>10. balances'[p.type][p.year] = balances[p.type][p.year] - p.days /\ balances[p.type][p.year] \in Int
    BY <1>6, <1>8, <1>9
  <1> QED
    BY <1>5, <1>6, <1>9, <1>10

(* A balance found sufficient under the employee's lock is still so at the
   commit: competing approvals, adjustments and carry-forwards never spend the
   same days twice (_finalize_approval), for any number of them. *)
THEOREM BalanceKept == Spec => ApprovalsWithinBalance
  <1>1. LeaveInv /\ [Next]_vars =>
            [\A w \in Workers :
                txns[w].checked /\ txns'[w] = Idle /\ postings' # postings =>
                    balances'[txns[w].posting.type][txns[w].posting.year] >= 0]_vars
    BY CheckedCommit
  <1> QED
    BY <1>1, LeaveInvariant, PTL DEF Spec, ApprovalsWithinBalance
=============================================================================
