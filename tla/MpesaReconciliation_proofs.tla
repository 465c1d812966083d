--------------------- MODULE MpesaReconciliation_proofs ---------------------
(* However callbacks, answers, operators and bursars interleave and         *)
(* processes die, a completed request is backed by its own receipt, and     *)
(* every step is one of the receipt book: for any number of requests,       *)
(* receipts, callbacks and workers.                                         *)
EXTENDS MpesaReconciliation, TLAPS

USE ConstantsAssumption

\* How one row of each table may change in a step.
RowEvolves(old, new) ==
    \/ new = old
    \/ /\ old = NoRow
       /\ new.status \in {"UNMATCHED", "MATCHED"} /\ new.amount \in Amounts
       /\ new.status = "UNMATCHED" => new.student = None
       /\ new.status = "MATCHED" => new.student \in Students
    \/ /\ old.status = "UNMATCHED" /\ new.status \in {"MATCHED", "IGNORED"} /\ new.amount = old.amount
       /\ new.status = "IGNORED" => new.student = old.student
       /\ new.status = "MATCHED" => new.student \in Students

\* Every row that was never ingested is blank.
UnusedIsBlank == \A x \in Receipts : incoming[x].status = "NONE" => incoming[x] = NoRow

\* A callback on file has a body, and an open transaction a callback.
Bodies ==
    /\ \A c \in Callbacks : callbacks[c].status # "NONE" => callbacks[c].payload \in Payloads
    /\ \A w \in Workers : txns[w].stage # "idle" =>
           txns[w].callback \in Callbacks /\ callbacks[txns[w].callback].status # "NONE"

\* What a worker that holds a request's row has established.
Located(w) ==
    /\ txns[w].request \in Requests
    /\ requests[txns[w].request].status \in Undecided
    /\ Success(Body(w)) /\ Body(w).amount = AmountOf[txns[w].request]

\* What it saw of the receipt can only have been overtaken by a resolution.
SeenStands(w) ==
    LET row == incoming[Body(w).receipt] IN
    txns[w].seen # "NONE" => /\ row.amount = Body(w).amount /\ row.status # "NONE"
                             /\ txns[w].seen = "MATCHED" => row.status = "MATCHED"

\* Row locks: a request's row has one holder, and what the holder checked stands.
LocksProtect ==
    \A w \in Workers : txns[w].stage \in {"located", "looked"} =>
        /\ Located(w)
        /\ txns[w].stage = "looked" => SeenStands(w)
        /\ \A v \in Workers \ {w} : txns[v].stage \in {"located", "looked"} => txns[v].request # txns[w].request

\* TypeOK, table by table.
LEMMA Types ==
    ASSUME TypeOK
    PROVE  /\ roster \subseteq Students
           /\ incoming \in [Receipts -> IncomingRow] /\ requests \in [Requests -> RequestRow]
           /\ calls \in [Requests -> {"none", "intent", "sent", "over"}] /\ prompts \in [Requests -> Nat]
           /\ callbacks \in [Callbacks -> CallbackRow] /\ txns \in [Workers -> Txn]
           /\ \A x \in Receipts : incoming[x].student # None <=> incoming[x].status = "MATCHED"
           /\ \A r \in Requests : requests[r].receipt # None <=> requests[r].status = "COMPLETED"
  BY DEF TypeOK

\* Empty tables are well typed.
LEMMA InitTypes == Init => TypeOK /\ UnusedIsBlank
  BY DEF Init, TypeOK, UnusedIsBlank, NoRow, NoRequest, NoCallback, NoPayload, Idle, IncomingRow, RequestRow,
         CallbackRow, Txn, Statuses, RowStatuses, CallbackStatuses

\* Types are preserved: each action writes rows of the right shape.
LEMMA TypeStep == TypeOK /\ UnusedIsBlank /\ Bodies /\ LocksProtect /\ [Next]_vars => TypeOK' /\ UnusedIsBlank'
  <1> SUFFICES ASSUME TypeOK, UnusedIsBlank, Bodies, LocksProtect, [Next]_vars PROVE TypeOK' /\ UnusedIsBlank'
    OBVIOUS
  <1>0. /\ roster \subseteq Students
        /\ incoming \in [Receipts -> IncomingRow] /\ requests \in [Requests -> RequestRow]
        /\ calls \in [Requests -> {"none", "intent", "sent", "over"}] /\ prompts \in [Requests -> Nat]
        /\ callbacks \in [Callbacks -> CallbackRow] /\ txns \in [Workers -> Txn]
        /\ \A x \in Receipts : incoming[x].student # None <=> incoming[x].status = "MATCHED"
        /\ \A r \in Requests : requests[r].receipt # None <=> requests[r].status = "COMPLETED"
    BY Types
  <1> DEFINE IncomingOK == /\ incoming \in [Receipts -> IncomingRow]
                           /\ \A x \in Receipts : incoming[x].student # None <=> incoming[x].status = "MATCHED"
                           /\ UnusedIsBlank
             RequestsOK == /\ requests \in [Requests -> RequestRow]
                           /\ \A r \in Requests : requests[r].receipt # None <=> requests[r].status = "COMPLETED"
             CallsOK == calls \in [Requests -> {"none", "intent", "sent", "over"}] /\ prompts \in [Requests -> Nat]
             CallbacksOK == callbacks \in [Callbacks -> CallbackRow]
             TxnsOK == txns \in [Workers -> Txn]
  \* What a table keeps when nobody writes it, or when one good row is written.
  <1>1. /\ UNCHANGED incoming => IncomingOK'
        /\ UNCHANGED requests => RequestsOK'
        /\ UNCHANGED <<calls, prompts>> => CallsOK'
        /\ UNCHANGED callbacks => CallbacksOK'
        /\ UNCHANGED txns => TxnsOK'
    BY <1>0 DEF UnusedIsBlank
  <1>2. ASSUME NEW x \in Receipts, NEW row \in IncomingRow, incoming' = [incoming EXCEPT ![x] = row],
               row.status # "NONE", row.student # None <=> row.status = "MATCHED"
        PROVE  IncomingOK'
    BY <1>0, <1>2 DEF UnusedIsBlank
  <1>3. ASSUME NEW r \in Requests, NEW row \in RequestRow, requests' = [requests EXCEPT ![r] = row],
               row.receipt # None <=> row.status = "COMPLETED"
        PROVE  RequestsOK'
    BY <1>0, <1>3
  <1>4. ASSUME NEW c \in Callbacks, NEW row \in CallbackRow, callbacks' = [callbacks EXCEPT ![c] = row]
        PROVE  CallbacksOK'
    BY <1>0, <1>4
  <1>5. ASSUME NEW w \in Workers, NEW t \in Txn, txns' = [txns EXCEPT ![w] = t]
        PROVE  TxnsOK'
    BY <1>0, <1>5
  <1>6. ASSUME roster' \subseteq Students, IncomingOK', RequestsOK', CallsOK', CallbacksOK', TxnsOK'
        PROVE  TypeOK' /\ UnusedIsBlank'
    BY <1>6 DEF TypeOK
  <1>7. Idle \in Txn
    BY DEF Idle, Txn, RowStatuses
  <1>8. ASSUME NEW a \in Amounts, NEW reference \in Students \cup {None}, NEW row \in NewRows(a, reference)
        PROVE  row \in IncomingRow /\ row.status # "NONE" /\ (row.student # None <=> row.status = "MATCHED")
    BY <1>0, <1>8 DEF NewRows, IncomingRow, RowStatuses
  \* A worker's transaction has a callback, and an STK body what its kind promises.
  <1> HIDE DEF IncomingOK, RequestsOK, CallsOK, CallbacksOK, TxnsOK
  <1>9. ASSUME NEW s \in Students, Admit(s) PROVE TypeOK' /\ UnusedIsBlank'
    BY <1>0, <1>1, <1>6, <1>9 DEF Admit
  <1>10. ASSUME NEW x \in Receipts, NEW a \in Amounts, NEW reference \in Students \cup {None}, Ingest(x, a, reference)
         PROVE  TypeOK' /\ UnusedIsBlank'
    <2>1. IncomingOK'
      BY <1>2, <1>8, <1>10 DEF Ingest
    <2> QED
      BY <1>0, <1>1, <1>6, <1>10, <2>1 DEF Ingest
  <1>11. ASSUME NEW x \in Receipts, NEW s \in Students, Match(x, s) PROVE TypeOK' /\ UnusedIsBlank'
    <2> DEFINE row == [incoming[x] EXCEPT !.status = "MATCHED", !.student = s]
    <2>1. row \in IncomingRow /\ row.status = "MATCHED" /\ row.student = s
      BY <1>0 DEF IncomingRow, RowStatuses
    <2>2. incoming' = [incoming EXCEPT ![x] = row]
      BY <1>11 DEF Match
    <2> HIDE DEF row
    <2>3. IncomingOK'
      BY <1>2, <2>1, <2>2
    <2> QED
      BY <1>0, <1>1, <1>6, <1>11, <2>3 DEF Match
  <1>12. ASSUME NEW x \in Receipts, Ignore(x) PROVE TypeOK' /\ UnusedIsBlank'
    <2> DEFINE row == [incoming[x] EXCEPT !.status = "IGNORED"]
    <2>1. row \in IncomingRow /\ row.status = "IGNORED" /\ row.student = None
      BY <1>0, <1>12 DEF IncomingRow, RowStatuses, Ignore
    <2>2. incoming' = [incoming EXCEPT ![x] = row]
      BY <1>12 DEF Ignore
    <2> HIDE DEF row
    <2>3. IncomingOK'
      BY <1>2, <2>1, <2>2
    <2> QED
      BY <1>0, <1>1, <1>6, <1>12, <2>3 DEF Ignore
  <1>13. ASSUME NEW r \in Requests, Initiate(r) PROVE TypeOK' /\ UnusedIsBlank'
    <2> DEFINE row == [requests[r] EXCEPT !.status = "INITIATING"]
    <2>1. row \in RequestRow /\ row.status = "INITIATING" /\ row.receipt = None
      BY <1>0, <1>13 DEF RequestRow, Statuses, Initiate
    <2>2. requests' = [requests EXCEPT ![r] = row]
      BY <1>13 DEF Initiate
    <2> HIDE DEF row
    <2>3. RequestsOK'
      BY <1>3, <2>1, <2>2
    <2>4. CallsOK'
      BY <1>0, <1>13 DEF Initiate, CallsOK
    <2> QED
      BY <1>0, <1>1, <1>6, <1>13, <2>3, <2>4 DEF Initiate
  <1>14. ASSUME NEW r \in Requests, Prompt(r) PROVE TypeOK' /\ UnusedIsBlank'
    <2>1. CallsOK'
      BY <1>0, <1>14 DEF Prompt, CallsOK
    <2> QED
      BY <1>0, <1>1, <1>6, <1>14, <2>1 DEF Prompt
  <1>15. ASSUME NEW r \in Requests, EndCall(r), RequestsOK' PROVE TypeOK' /\ UnusedIsBlank'
    <2>1. CallsOK'
      BY <1>0, <1>15 DEF EndCall, CallsOK
    <2> QED
      BY <1>0, <1>1, <1>6, <1>15, <2>1 DEF EndCall
  <1>16. ASSUME NEW r \in Requests, NEW k \in Requests, requests[r].status \in Unresolved,
                requests' = [requests EXCEPT ![r].status = "PENDING", ![r].checkout = k]
         PROVE  RequestsOK'
    <2> DEFINE row == [requests[r] EXCEPT !.status = "PENDING", !.checkout = k]
    <2>1. row \in RequestRow /\ row.status = "PENDING" /\ row.receipt = None
      BY <1>0, <1>16 DEF RequestRow, Statuses, Unresolved
    <2>2. requests' = [requests EXCEPT ![r] = row]
      BY <1>16
    <2> HIDE DEF row
    <2> QED
      BY <1>3, <2>1, <2>2
  <1>17. ASSUME NEW r \in Requests, RecordAnswer(r) PROVE TypeOK' /\ UnusedIsBlank'
    <2>1. RequestsOK'
      BY <1>1, <1>16, <1>17 DEF RecordAnswer
    <2> QED
      BY <1>15, <1>17, <2>1 DEF RecordAnswer
  <1>18. ASSUME NEW r \in Requests, RecordError(r) PROVE TypeOK' /\ UnusedIsBlank'
    <2> DEFINE row == [requests[r] EXCEPT !.status = IF @ = "INITIATING" THEN "UNKNOWN" ELSE @]
    <2>1. row \in RequestRow /\ (row.receipt # None <=> row.status = "COMPLETED")
      BY <1>0 DEF RequestRow, Statuses
    <2>2. requests' = [requests EXCEPT ![r] = row]
      BY <1>18 DEF RecordError
    <2> HIDE DEF row
    <2>3. RequestsOK'
      BY <1>3, <2>1, <2>2
    <2> QED
      BY <1>15, <1>18, <2>3 DEF RecordError
  <1>19. ASSUME NEW r \in Requests, LoseCall(r) PROVE TypeOK' /\ UnusedIsBlank'
    BY <1>1, <1>15, <1>19 DEF LoseCall
  <1>20. ASSUME NEW r \in Requests, NEW k \in Requests, Identify(r, k) PROVE TypeOK' /\ UnusedIsBlank'
    <2>1. RequestsOK'
      BY <1>16, <1>20 DEF Identify
    <2> QED
      BY <1>0, <1>1, <1>6, <1>20, <2>1 DEF Identify
  <1>21. ASSUME NEW c \in Callbacks, NEW p \in Payloads, Receive(c, p) PROVE TypeOK' /\ UnusedIsBlank'
    <2>1. [status |-> "RECEIVED", verified |-> FALSE, payload |-> p] \in CallbackRow
      BY DEF CallbackRow, CallbackStatuses
    <2>2. CallbacksOK'
      BY <1>4, <1>21, <2>1 DEF Receive
    <2> QED
      BY <1>0, <1>1, <1>6, <1>21, <2>2 DEF Receive
  <1>22. ASSUME NEW c \in Callbacks, Verify(c) PROVE TypeOK' /\ UnusedIsBlank'
    <2> DEFINE row == [callbacks[c] EXCEPT !.verified = TRUE]
    <2>1. row \in CallbackRow
      <3>1. callbacks[c] \in CallbackRow
        BY <1>0
      <3>2. ASSUME NEW old \in CallbackRow PROVE [old EXCEPT !.verified = TRUE] \in CallbackRow
        BY DEF CallbackRow
      <3> QED
        BY <3>1, <3>2
    <2>2. callbacks' = [callbacks EXCEPT ![c] = row]
      BY <1>22 DEF Verify
    <2> HIDE DEF row
    <2>3. CallbacksOK'
      BY <1>4, <2>1, <2>2
    <2> QED
      BY <1>0, <1>1, <1>6, <1>22, <2>3 DEF Verify
  \* A callback's status changes.
  <1>23. ASSUME NEW c \in Callbacks, NEW status \in CallbackStatuses,
                callbacks' = [callbacks EXCEPT ![c].status = status]
         PROVE  CallbacksOK'
    <2> DEFINE row == [callbacks[c] EXCEPT !.status = status]
    <2>1. row \in CallbackRow
      BY <1>0 DEF CallbackRow
    <2>2. callbacks' = [callbacks EXCEPT ![c] = row]
      BY <1>23
    <2> HIDE DEF row
    <2> QED
      BY <1>4, <2>1, <2>2
  <1>24. ASSUME NEW c \in Callbacks, Reject(c) PROVE TypeOK' /\ UnusedIsBlank'
    <2>1. CallbacksOK'
      BY <1>23, <1>24 DEF Reject, CallbackStatuses
    <2> QED
      BY <1>0, <1>1, <1>6, <1>24, <2>1 DEF Reject
  <1>25. ASSUME NEW w \in Workers, NEW c \in Callbacks, Open(w, c) PROVE TypeOK' /\ UnusedIsBlank'
    <2>1. [Idle EXCEPT !.stage = "opened", !.callback = c] \in Txn
      BY DEF Idle, Txn, RowStatuses
    <2>2. TxnsOK'
      BY <1>5, <1>25, <2>1 DEF Open
    <2> QED
      BY <1>0, <1>1, <1>6, <1>25, <2>2 DEF Open
  <1>26. ASSUME NEW w \in Workers, NEW status \in CallbackStatuses, Finish(w, status), IncomingOK', RequestsOK',
                txns[w].callback \in Callbacks
         PROVE  TypeOK' /\ UnusedIsBlank'
    <2>1. CallbacksOK'
      BY <1>23, <1>26 DEF Finish
    <2>2. TxnsOK'
      BY <1>5, <1>7, <1>26 DEF Finish
    <2> QED
      BY <1>0, <1>1, <1>6, <1>26, <2>1, <2>2 DEF Finish
  <1>27. ASSUME NEW w \in Workers, txns[w].stage # "idle" PROVE txns[w].callback \in Callbacks /\ Body(w) \in Payloads
    BY <1>27 DEF Bodies, Body
  <1>28. CallbackStatuses = {"NONE", "RECEIVED", "PROCESSED", "FAILED", "REJECTED"}
    BY DEF CallbackStatuses
  <1>29. ASSUME NEW w \in Workers, NEW r \in Requests, Replay(w, r) PROVE TypeOK' /\ UnusedIsBlank'
    BY <1>1, <1>26, <1>27, <1>28, <1>29 DEF Replay
  <1>30. ASSUME NEW w \in Workers, NEW r \in Requests, Decline(w, r) PROVE TypeOK' /\ UnusedIsBlank'
    <2> DEFINE row == [requests[r] EXCEPT !.status = "FAILED", !.checkout = Body(w).checkout, !.code = Body(w).code]
    <2>1. Body(w) \in Payloads /\ txns[w].callback \in Callbacks
      BY <1>27, <1>30 DEF Decline
    <2>2. Body(w).checkout \in Requests \cup {None} /\ Body(w).code \in Codes \cup {0}
      BY <2>1 DEF Payload
    <2>a. requests[r] \in RequestRow /\ requests[r].receipt = None
      BY <1>0, <1>30 DEF Decline, Undecided, Unresolved
    <2>3. row \in RequestRow /\ row.status = "FAILED" /\ row.receipt = None
      BY <2>2, <2>a DEF RequestRow, Statuses
    <2>4. requests' = [requests EXCEPT ![r] = row]
      BY <1>30 DEF Decline
    <2> HIDE DEF row
    <2>5. RequestsOK'
      BY <1>3, <2>3, <2>4
    <2> QED
      BY <1>1, <1>26, <1>28, <1>30, <2>1, <2>5 DEF Decline
  <1>31. ASSUME NEW w \in Workers, NEW r \in Requests, Locate(w, r) PROVE TypeOK' /\ UnusedIsBlank'
    <2> DEFINE t == [txns[w] EXCEPT !.stage = "located", !.request = r]
    <2>0. txns[w] \in Txn
      BY <1>0
    <2>1. t \in Txn
      BY <2>0 DEF Txn
    <2>2. txns' = [txns EXCEPT ![w] = t]
      BY <1>31 DEF Locate
    <2> HIDE DEF t
    <2>3. TxnsOK'
      BY <1>5, <2>1, <2>2
    <2> QED
      BY <1>0, <1>1, <1>6, <1>31, <2>3 DEF Locate
  \* The receipt of a success, which a located transaction reports.
  <1>32. ASSUME NEW w \in Workers, txns[w].stage \in {"located", "looked"}
         PROVE  /\ Body(w).receipt \in Receipts /\ Body(w).checkout \in Requests
                /\ txns[w].request \in Requests /\ txns[w].callback \in Callbacks
    <2>1. Located(w) /\ Body(w) \in Payloads /\ txns[w].callback \in Callbacks
      BY <1>27, <1>32 DEF LocksProtect
    <2> QED
      BY <2>1 DEF Located, Success, Payload
  <1>33. ASSUME NEW w \in Workers, Look(w) PROVE TypeOK' /\ UnusedIsBlank'
    <2> DEFINE t == [txns[w] EXCEPT !.stage = "looked", !.seen = incoming[Body(w).receipt].status]
    <2>1. Body(w).receipt \in Receipts
      BY <1>32, <1>33 DEF Look
    <2>2. incoming[Body(w).receipt].status \in RowStatuses
      BY <1>0, <2>1 DEF IncomingRow
    <2>0. txns[w] \in Txn
      BY <1>0
    <2>3. t \in Txn
      BY <2>0, <2>2 DEF Txn
    <2>4. txns' = [txns EXCEPT ![w] = t]
      BY <1>33 DEF Look
    <2> HIDE DEF t
    <2>5. TxnsOK'
      BY <1>5, <2>3, <2>4
    <2> QED
      BY <1>0, <1>1, <1>6, <1>33, <2>5 DEF Look
  <1>34. ASSUME NEW w \in Workers, Settle(w) PROVE TypeOK' /\ UnusedIsBlank'
    <2> DEFINE r == txns[w].request
               x == Body(w).receipt
               row == [status |-> "MATCHED", amount |-> AmountOf[r], reference |-> incoming[x].reference,
                       student |-> StudentOf[r]]
               done == [status |-> "COMPLETED", checkout |-> Body(w).checkout, receipt |-> x, code |-> 0]
    <2>1. x \in Receipts /\ Body(w).checkout \in Requests /\ r \in Requests /\ txns[w].callback \in Callbacks
      BY <1>32, <1>34 DEF Settle
    <2>2. row \in IncomingRow /\ row.status = "MATCHED" /\ row.student # None
      BY <1>0, <2>1 DEF IncomingRow, RowStatuses
    <2>3. done \in RequestRow /\ done.status = "COMPLETED" /\ done.receipt # None
      BY <2>1 DEF RequestRow, Statuses
    <2>4. /\ incoming' = [incoming EXCEPT ![x] = row] \/ UNCHANGED incoming
          /\ requests' = [requests EXCEPT ![r] = done]
          /\ Finish(w, "PROCESSED")
      BY <1>34 DEF Settle
    <2> HIDE DEF row, done, r, x
    <2>5. IncomingOK' /\ RequestsOK'
      BY <1>1, <1>2, <1>3, <2>1, <2>2, <2>3, <2>4
    <2> QED
      BY <1>26, <1>28, <2>1, <2>4, <2>5
  <1>35. ASSUME NEW w \in Workers, Confirm(w) PROVE TypeOK' /\ UnusedIsBlank'
    <2>1. Body(w) \in Payloads /\ txns[w].callback \in Callbacks
      BY <1>27, <1>35 DEF Confirm
    <2>2. Body(w).receipt \in Receipts /\ Body(w).amount \in Amounts /\ Body(w).reference \in Students \cup {None}
      BY <1>35, <2>1 DEF Confirm, Payload
    <2>3. IncomingOK'
      BY <1>1, <1>2, <1>8, <1>35, <2>2 DEF Confirm
    <2> QED
      BY <1>1, <1>26, <1>28, <1>35, <2>1, <2>3 DEF Confirm
  <1>36. ASSUME NEW w \in Workers, Fail(w) PROVE TypeOK' /\ UnusedIsBlank'
    BY <1>1, <1>26, <1>27, <1>28, <1>36 DEF Fail
  <1>37. ASSUME NEW w \in Workers, Crash(w) PROVE TypeOK' /\ UnusedIsBlank'
    BY <1>0, <1>1, <1>5, <1>6, <1>7, <1>37 DEF Crash
  <1>38. CASE UNCHANGED vars
    BY <1>0, <1>1, <1>6, <1>38 DEF vars
  <1> QED
    BY <1>9, <1>10, <1>11, <1>12, <1>13, <1>14, <1>17, <1>18, <1>19, <1>20, <1>21, <1>22, <1>24, <1>25,
       <1>29, <1>30, <1>31, <1>33, <1>34, <1>35, <1>36, <1>37, <1>38 DEF Next

\* A body never changes once it is received, and nothing returns to "NONE".
BodiesKept ==
    \A c \in Callbacks : callbacks[c].status # "NONE" =>
        callbacks'[c].status # "NONE" /\ callbacks'[c].payload = callbacks[c].payload

\* Every step keeps the bodies received.
LEMMA BodyStep ==
    ASSUME TypeOK, Bodies, [Next]_vars
    PROVE  BodiesKept
  <1>1. callbacks \in [Callbacks -> CallbackRow]
    BY Types
  <1>2. ASSUME NEW c \in Callbacks, NEW status, status # "NONE", callbacks' = [callbacks EXCEPT ![c].status = status]
        PROVE  BodiesKept
    BY <1>1, <1>2 DEF CallbackRow, BodiesKept
  <1>3. ASSUME NEW w \in Workers, NEW status, status # "NONE", Finish(w, status), txns[w].stage # "idle" PROVE BodiesKept
    BY <1>2, <1>3 DEF Finish, Bodies
  <1>4. ASSUME NEW c \in Callbacks, NEW p \in Payloads, Receive(c, p) PROVE BodiesKept
    BY <1>1, <1>4 DEF Receive, BodiesKept
  <1>5. ASSUME NEW c \in Callbacks, Verify(c) PROVE BodiesKept
    BY <1>1, <1>5 DEF Verify, CallbackRow, BodiesKept
  <1>6. ASSUME NEW c \in Callbacks, Reject(c) PROVE BodiesKept
    BY <1>2, <1>6 DEF Reject
  <1>7. ASSUME NEW w \in Workers, NEW r \in Requests, Replay(w, r) \/ Decline(w, r) PROVE BodiesKept
    BY <1>3, <1>7 DEF Replay, Decline
  <1>8. ASSUME NEW w \in Workers, Settle(w) \/ Confirm(w) \/ Fail(w) PROVE BodiesKept
    BY <1>3, <1>8 DEF Settle, Confirm, Fail
  <1>9. CASE UNCHANGED callbacks
    BY <1>9 DEF BodiesKept
  <1> QED
    BY <1>4, <1>5, <1>6, <1>7, <1>8, <1>9
       DEF Next, vars, Admit, Ingest, Match, Ignore, Initiate, Prompt, RecordAnswer, RecordError, LoseCall, EndCall,
           Identify, Open, Locate, Look, Crash

\* How a transaction may change in a step.
LEMMA TxnStep ==
    ASSUME TypeOK, Bodies, [Next]_vars, NEW w \in Workers
    PROVE  \/ txns'[w] = txns[w]
           \/ txns'[w] = Idle
           \/ \E c \in Callbacks : Open(w, c) /\ txns'[w] = [Idle EXCEPT !.stage = "opened", !.callback = c]
           \/ \E r \in Requests : Locate(w, r) /\ txns'[w] = [txns[w] EXCEPT !.stage = "located", !.request = r]
           \/ /\ Look(w)
              /\ txns'[w] = [txns[w] EXCEPT !.stage = "looked", !.seen = incoming[Body(w).receipt].status]
  <1>1. txns \in [Workers -> Txn]
    BY Types
  <1>2. ASSUME NEW v \in Workers, NEW status, Finish(v, status) PROVE txns'[w] \in {txns[w], Idle}
    BY <1>1, <1>2 DEF Finish
  <1>3. ASSUME NEW v \in Workers, Crash(v) PROVE txns'[w] \in {txns[w], Idle}
    BY <1>1, <1>3 DEF Crash
  <1>4. ASSUME NEW v \in Workers, NEW c \in Callbacks, Open(v, c)
        PROVE  \/ txns'[w] = txns[w]
               \/ v = w /\ txns'[w] = [Idle EXCEPT !.stage = "opened", !.callback = c]
    BY <1>1, <1>4 DEF Open
  <1>5. ASSUME NEW v \in Workers, NEW r \in Requests, Locate(v, r)
        PROVE  \/ txns'[w] = txns[w]
               \/ v = w /\ txns'[w] = [txns[w] EXCEPT !.stage = "located", !.request = r]
    BY <1>1, <1>5 DEF Locate
  <1>6. ASSUME NEW v \in Workers, Look(v)
        PROVE  \/ txns'[w] = txns[w]
               \/ v = w /\ txns'[w] = [txns[w] EXCEPT !.stage = "looked", !.seen = incoming[Body(w).receipt].status]
    BY <1>1, <1>6 DEF Look
  <1>7. ASSUME NEW v \in Workers, NEW r \in Requests, Replay(v, r) \/ Decline(v, r)
        PROVE  txns'[w] \in {txns[w], Idle}
    BY <1>2, <1>7 DEF Replay, Decline
  <1>8. ASSUME NEW v \in Workers, Settle(v) \/ Confirm(v) \/ Fail(v) PROVE txns'[w] \in {txns[w], Idle}
    BY <1>2, <1>8 DEF Settle, Confirm, Fail
  <1>9. CASE UNCHANGED txns
    BY <1>9
  <1> QED
    BY <1>3, <1>4, <1>5, <1>6, <1>7, <1>8, <1>9
       DEF Next, vars, Admit, Ingest, Match, Ignore, Initiate, Prompt, RecordAnswer, RecordError, LoseCall, EndCall,
           Identify, Receive, Verify, Reject

\* So a transaction goes on reading the body of the callback it works on.
LEMMA BodiesStep == TypeOK /\ Bodies /\ [Next]_vars => Bodies'
  <1> SUFFICES ASSUME TypeOK, Bodies, [Next]_vars PROVE Bodies'
    OBVIOUS
  <1>1. callbacks \in [Callbacks -> CallbackRow] /\ txns \in [Workers -> Txn]
    BY Types
  <1>2. \A c \in Callbacks : callbacks[c].status # "NONE" =>
            callbacks'[c].status # "NONE" /\ callbacks'[c].payload = callbacks[c].payload
    BY BodyStep DEF BodiesKept
  \* A callback that was on file is written, and no other.
  <1> DEFINE Rewrite == \E d \in Callbacks : /\ callbacks[d].status # "NONE"
                                             /\ \A e \in Callbacks \ {d} : callbacks'[e] = callbacks[e]
  <1>3. ASSUME NEW c \in Callbacks, callbacks'[c].status # "NONE" PROVE callbacks'[c].payload \in Payloads
    <2>1. CASE callbacks[c].status # "NONE"
      BY <1>2, <2>1 DEF Bodies
    <2>2. CASE callbacks[c].status = "NONE"
      <3>1. callbacks'[c] # callbacks[c]
        BY <1>3, <2>2
      <3>2. \/ \E d \in Callbacks, p \in Payloads : Receive(d, p)
            \/ Rewrite
            \/ UNCHANGED callbacks
        <4>1. ASSUME NEW w \in Workers, NEW status, Finish(w, status), txns[w].stage # "idle"
              PROVE  Rewrite
          BY <1>1, <4>1 DEF Finish, Bodies
        <4>2. ASSUME NEW d \in Callbacks, Verify(d) \/ Reject(d)
              PROVE  Rewrite
          BY <1>1, <4>2 DEF Verify, Reject
        <4>3. ASSUME NEW w \in Workers, NEW r \in Requests, Replay(w, r) \/ Decline(w, r)
              PROVE  Rewrite
          BY <4>1, <4>3 DEF Replay, Decline
        <4>4. ASSUME NEW w \in Workers, Settle(w) \/ Confirm(w) \/ Fail(w)
              PROVE  Rewrite
          BY <4>1, <4>4 DEF Settle, Confirm, Fail
        <4> QED
          <5> HIDE DEF Rewrite
          <5> QED
            BY <4>2, <4>3, <4>4
             DEF Next, vars, Admit, Ingest, Match, Ignore, Initiate, Prompt, RecordAnswer, RecordError, LoseCall, EndCall,
                 Identify, Open, Locate, Look, Crash
      <3>3. PICK d \in Callbacks, p \in Payloads : Receive(d, p)
        BY <2>2, <3>1, <3>2
      <3> QED
        BY <1>1, <3>1, <3>3 DEF Receive
    <2> QED
      BY <2>1, <2>2
  <1>4. ASSUME NEW w \in Workers, txns'[w].stage # "idle"
        PROVE  txns'[w].callback \in Callbacks /\ callbacks'[txns'[w].callback].status # "NONE"
    <2>1. \/ txns'[w].callback = txns[w].callback /\ txns[w].stage # "idle"
          \/ \E c \in Callbacks : callbacks[c].status # "NONE" /\ txns'[w].callback = c
      <3>1. txns[w] \in Txn
        BY <1>1
      <3>2. CASE \E c \in Callbacks : Open(w, c) /\ txns'[w] = [Idle EXCEPT !.stage = "opened", !.callback = c]
        BY <3>2 DEF Idle, Open
      <3>3. CASE \E r \in Requests : Locate(w, r) /\ txns'[w] = [txns[w] EXCEPT !.stage = "located", !.request = r]
        BY <3>1, <3>3 DEF Txn, Locate
      <3>4. CASE /\ Look(w)
                 /\ txns'[w] = [txns[w] EXCEPT !.stage = "looked", !.seen = incoming[Body(w).receipt].status]
        <4>1. txns[w].stage # "idle"
          BY <3>4 DEF Look
        <4>2. txns'[w].callback = txns[w].callback
          BY <3>1, <3>4 DEF Txn
        <4> QED
          BY <4>1, <4>2
      <3>5. txns'[w] # Idle
        BY <1>4 DEF Idle
      <3>6. CASE txns'[w] = txns[w]
        BY <1>4, <3>6
      <3> QED
        BY <3>2, <3>3, <3>4, <3>5, <3>6, TxnStep
    <2> QED
      BY <1>2, <2>1 DEF Bodies
  <1> QED
    BY <1>3, <1>4 DEF Bodies

\* What a located transaction knows of its body.
LEMMA LocatedBody ==
    ASSUME TypeOK, Bodies, LocksProtect, NEW w \in Workers, txns[w].stage \in {"located", "looked"}
    PROVE  /\ Body(w) \in Payloads /\ Success(Body(w))
           /\ Body(w).receipt \in Receipts /\ Body(w).checkout \in Requests
           /\ txns[w].request \in Requests /\ txns[w].callback \in Callbacks
           /\ requests[txns[w].request].status \in Undecided
           /\ Body(w).amount = AmountOf[txns[w].request]
           /\ AmountOf[txns[w].request] \in Amounts /\ StudentOf[txns[w].request] \in Students
  <1>1. Located(w) /\ txns[w].callback \in Callbacks /\ Body(w) \in Payloads
    BY DEF LocksProtect, Bodies, Body
  <1>2. Body(w).receipt \in Receipts /\ Body(w).checkout \in Requests
    BY <1>1 DEF Located, Success, Payload
  <1> QED
    BY <1>1, <1>2 DEF Located

\* A receipt is entered once, resolved once, and keeps its amount.
LEMMA RowStep ==
    ASSUME TypeOK, UnusedIsBlank, Bodies, LocksProtect, [Next]_vars, NEW y \in Receipts
    PROVE  RowEvolves(incoming[y], incoming'[y])
  <1>1. /\ roster \subseteq Students /\ incoming \in [Receipts -> IncomingRow]
        /\ \A x \in Receipts : incoming[x].student # None <=> incoming[x].status = "MATCHED"
    BY Types
  <1>2. incoming[y] \in IncomingRow
    BY <1>1
  <1>3. ASSUME NEW a \in Amounts, NEW reference \in Students \cup {None}, NEW row \in NewRows(a, reference),
               NEW x \in Receipts, incoming[x].status = "NONE", incoming' = [incoming EXCEPT ![x] = row]
        PROVE  RowEvolves(incoming[y], incoming'[y])
    <2>1. /\ row.status \in {"UNMATCHED", "MATCHED"} /\ row.amount = a
          /\ row.status = "UNMATCHED" => row.student = None
          /\ row.status = "MATCHED" => row.student \in Students
      BY <1>1, <1>3 DEF NewRows
    <2>2. incoming[x] = NoRow
      BY <1>3 DEF UnusedIsBlank
    <2> QED
      BY <1>1, <1>3, <2>1, <2>2 DEF RowEvolves
  <1>4. ASSUME NEW x \in Receipts, NEW a \in Amounts, NEW reference \in Students \cup {None}, Ingest(x, a, reference)
        PROVE  RowEvolves(incoming[y], incoming'[y])
    BY <1>3, <1>4 DEF Ingest
  <1>5. ASSUME NEW x \in Receipts, NEW s \in Students, Match(x, s) PROVE RowEvolves(incoming[y], incoming'[y])
    <2>1. CASE x = y
      <3>1. incoming'[y] = [incoming[y] EXCEPT !.status = "MATCHED", !.student = s]
        BY <1>1, <1>5, <2>1 DEF Match
      <3>2. incoming'[y].status = "MATCHED" /\ incoming'[y].student = s /\ incoming'[y].amount = incoming[y].amount
        BY <1>2, <3>1 DEF IncomingRow
      <3> QED
        BY <1>5, <2>1, <3>2 DEF Match, RowEvolves
    <2>2. CASE x # y
      BY <1>1, <1>5, <2>2 DEF Match, RowEvolves
    <2> QED
      BY <2>1, <2>2
  <1>6. ASSUME NEW x \in Receipts, Ignore(x) PROVE RowEvolves(incoming[y], incoming'[y])
    <2>1. CASE x = y
      <3>1. incoming'[y] = [incoming[y] EXCEPT !.status = "IGNORED"]
        BY <1>1, <1>6, <2>1 DEF Ignore
      <3>2. /\ incoming'[y].status = "IGNORED" /\ incoming'[y].student = incoming[y].student
            /\ incoming'[y].amount = incoming[y].amount
        BY <1>2, <3>1 DEF IncomingRow
      <3> QED
        BY <1>6, <2>1, <3>2 DEF Ignore, RowEvolves
    <2>2. CASE x # y
      BY <1>1, <1>6, <2>2 DEF Ignore, RowEvolves
    <2> QED
      BY <2>1, <2>2
  <1>7. ASSUME NEW w \in Workers, Settle(w) PROVE RowEvolves(incoming[y], incoming'[y])
    <2> DEFINE r == txns[w].request
               x == Body(w).receipt
               row == [status |-> "MATCHED", amount |-> AmountOf[r], reference |-> incoming[x].reference,
                       student |-> StudentOf[r]]
    <2>1. /\ x \in Receipts /\ r \in Requests /\ AmountOf[r] \in Amounts /\ StudentOf[r] \in Students
          /\ Body(w).amount = AmountOf[r]
      BY <1>7, LocatedBody DEF Settle
    <2>2. SeenStands(w)
      BY <1>7 DEF Settle, LocksProtect
    <2>3. CASE StillAsSeen(w) /\ incoming' = [incoming EXCEPT ![x] = row]
      <3>1. incoming[x] = NoRow \/ (incoming[x].status = "UNMATCHED" /\ incoming[x].amount = AmountOf[r])
        <4>1. incoming[x].status = "NONE" => incoming[x] = NoRow
          BY <2>1 DEF UnusedIsBlank
        <4>2. incoming[x].status \in {"NONE", "UNMATCHED"} /\ incoming[x].status = txns[w].seen
          BY <2>3 DEF StillAsSeen
        <4>3. txns[w].seen # "NONE" => incoming[x].amount = Body(w).amount
          BY <2>2 DEF SeenStands
        <4> QED
          BY <2>1, <4>1, <4>2, <4>3
      <3>2. row.status = "MATCHED" /\ row.amount = AmountOf[r] /\ row.student = StudentOf[r]
        OBVIOUS
      <3> HIDE DEF row, r, x
      <3> QED
        BY <1>1, <2>1, <2>3, <3>1, <3>2 DEF RowEvolves
    <2>4. CASE UNCHANGED incoming
      BY <2>4 DEF RowEvolves
    <2> QED
      BY <1>7, <2>3, <2>4 DEF Settle
  <1>8. ASSUME NEW w \in Workers, Confirm(w) PROVE RowEvolves(incoming[y], incoming'[y])
    <2>1. Body(w) \in Payloads
      BY <1>8 DEF Confirm, Bodies, Body
    <2>2. Body(w).receipt \in Receipts /\ Body(w).amount \in Amounts /\ Body(w).reference \in Students \cup {None}
      BY <1>8, <2>1 DEF Confirm, Payload
    <2>3. CASE UNCHANGED incoming
      BY <2>3 DEF RowEvolves
    <2> QED
      BY <1>3, <1>8, <2>2, <2>3 DEF Confirm
  <1>9. CASE UNCHANGED incoming
    BY <1>9 DEF RowEvolves
  <1> QED
    BY <1>4, <1>5, <1>6, <1>7, <1>8, <1>9
       DEF Next, vars, Admit, Initiate, Prompt, RecordAnswer, RecordError, LoseCall, EndCall, Identify, Receive, Verify,
           Reject, Open, Replay, Decline, Locate, Look, Fail, Crash, Finish

\* A request whose row is locked stays undecided until the holder settles it.
LEMMA RequestStep ==
    ASSUME TypeOK, UnusedIsBlank, Bodies, LocksProtect, [Next]_vars, NEW q \in Requests
    PROVE  \/ requests'[q] = requests[q]
           \/ requests[q].status \in Undecided \cup {"NONE"} /\ requests'[q].status \in Undecided
           \/ /\ requests[q].status \in Undecided /\ requests'[q].status = "FAILED" /\ ~RequestLocked(q)
              /\ \E w \in Workers : Decline(w, q)
           \/ \E w \in Workers : Settle(w) /\ txns[w].request = q
  <1>1. requests \in [Requests -> RequestRow]
    BY Types
  <1>2. requests[q] \in RequestRow
    BY <1>1
  <1> DEFINE Reopen == requests[q].status \in Undecided \cup {"NONE"} /\ requests'[q].status \in Undecided
             Lose == /\ requests[q].status \in Undecided /\ requests'[q].status = "FAILED" /\ ~RequestLocked(q)
                     /\ \E w \in Workers : Decline(w, q)
  <1>3. ASSUME NEW r \in Requests, Initiate(r) PROVE requests'[q] = requests[q] \/ Reopen
    BY <1>1, <1>2, <1>3 DEF Initiate, RequestRow, Undecided, Unresolved
  <1>4. ASSUME NEW r \in Requests, RecordAnswer(r) PROVE requests'[q] = requests[q] \/ Reopen
    BY <1>1, <1>2, <1>4 DEF RecordAnswer, RequestRow, Undecided
  <1>5. ASSUME NEW r \in Requests, RecordError(r) PROVE requests'[q] = requests[q] \/ Reopen
    <2>1. CASE r = q /\ requests[q].status = "INITIATING"
      BY <1>1, <1>2, <1>5, <2>1 DEF RecordError, RequestRow, Undecided, Unresolved
    <2>2. CASE r = q /\ requests[q].status # "INITIATING"
      <3>1. requests'[q] = [requests[q] EXCEPT !.status = requests[q].status]
        BY <1>1, <1>5, <2>2 DEF RecordError
      <3> QED
        BY <1>2, <3>1 DEF RequestRow
    <2>3. CASE r # q
      BY <1>1, <1>5, <2>3 DEF RecordError
    <2> QED
      BY <2>1, <2>2, <2>3
  <1>6. ASSUME NEW r \in Requests, NEW k \in Requests, Identify(r, k) PROVE requests'[q] = requests[q] \/ Reopen
    BY <1>1, <1>2, <1>6 DEF Identify, RequestRow, Undecided
  <1>7. ASSUME NEW w \in Workers, NEW r \in Requests, Decline(w, r) PROVE requests'[q] = requests[q] \/ Lose
    <2>1. CASE r = q
      <3>1. /\ requests[q].status \in Undecided /\ ~RequestLocked(q)
            /\ requests' = [requests EXCEPT ![q].status = "FAILED", ![q].checkout = Body(w).checkout,
                                            ![q].code = Body(w).code]
        BY <1>7, <2>1 DEF Decline
      <3>2. requests'[q].status = "FAILED"
        BY <1>1, <1>2, <3>1 DEF RequestRow
      <3> QED
        BY <1>7, <2>1, <3>1, <3>2
    <2>2. CASE r # q
      BY <1>1, <1>7, <2>2 DEF Decline
    <2> QED
      BY <2>1, <2>2
  <1>8. ASSUME NEW w \in Workers, Settle(w), txns[w].request # q PROVE requests'[q] = requests[q]
    BY <1>1, <1>8 DEF Settle
  <1>9. CASE UNCHANGED requests
    BY <1>9
  <1> QED
    BY <1>3, <1>4, <1>5, <1>6, <1>7, <1>8, <1>9
       DEF Next, vars, Admit, Ingest, Match, Ignore, Prompt, LoseCall, Receive, Verify, Reject, Open, Replay, Locate,
           Look, Confirm, Fail, Crash

\* Whoever holds a request's row keeps what it established.
LEMMA LocksStep ==
    ASSUME TypeOK, UnusedIsBlank, Bodies, LocksProtect, [Next]_vars
    PROVE  LocksProtect'
  <1>1. txns \in [Workers -> Txn] /\ incoming \in [Receipts -> IncomingRow]
    BY Types
  <1> DEFINE Holds(w) == txns[w].stage \in {"located", "looked"}
  <1>2. SUFFICES ASSUME NEW w \in Workers, txns'[w].stage \in {"located", "looked"}
                 PROVE  /\ Located(w)'
                        /\ txns'[w].stage = "looked" => SeenStands(w)'
                        /\ \A v \in Workers \ {w} : txns'[v].stage \in {"located", "looked"} =>
                                                       txns'[v].request # txns'[w].request
    BY DEF LocksProtect
  <1>3. txns[w] \in Txn
    BY <1>1
  \* A worker that holds a request afterwards held it before, or located it unlocked.
  <1>4. ASSUME NEW v \in Workers, txns'[v].stage \in {"located", "looked"}
        PROVE  \/ Holds(v) /\ txns'[v].request = txns[v].request /\ txns'[v].callback = txns[v].callback
               \/ /\ \E r \in Requests : Locate(v, r) /\ txns'[v].request = r
                  /\ txns'[v].callback = txns[v].callback /\ txns'[v].stage = "located"
    <2>1. txns[v] \in Txn
      BY <1>1
    <2>2. CASE \E r \in Requests : Locate(v, r) /\ txns'[v] = [txns[v] EXCEPT !.stage = "located", !.request = r]
      BY <2>1, <2>2 DEF Txn
    <2>3. CASE /\ Look(v)
               /\ txns'[v] = [txns[v] EXCEPT !.stage = "looked", !.seen = incoming[Body(v).receipt].status]
      <3>1. Holds(v)
        BY <2>3 DEF Look
      <3>2. txns'[v].request = txns[v].request /\ txns'[v].callback = txns[v].callback
        BY <2>1, <2>3 DEF Txn
      <3> QED
        BY <3>1, <3>2
    <2>4. CASE txns'[v] = txns[v]
      BY <1>4, <2>4
    <2>5. ASSUME NEW c \in Callbacks, txns'[v] = [Idle EXCEPT !.stage = "opened", !.callback = c] PROVE FALSE
      BY <1>4, <2>5 DEF Idle
    <2>6. txns'[v] # Idle
      BY <1>4 DEF Idle
    <2> QED
      BY <2>2, <2>3, <2>4, <2>5, <2>6, TxnStep
  <1>5. ASSUME NEW v \in Workers, Holds(v) PROVE RequestLocked(txns[v].request)
    BY <1>5 DEF RequestLocked
  \* The body it works on is the same.
  <1>6. Body(w)' = Body(w) /\ Body(w) \in Payloads
    <2>1. txns[w].stage # "idle" /\ txns'[w].callback = txns[w].callback
      BY <1>2, <1>4 DEF Locate
    <2> QED
      BY <2>1, BodyStep DEF BodiesKept, Bodies, Body
  <1>7. ~\E v \in Workers : Settle(v) /\ txns[v].request = txns'[w].request
    <2> SUFFICES ASSUME NEW v \in Workers, Settle(v), txns[v].request = txns'[w].request PROVE FALSE
      OBVIOUS
    <2>1. Holds(v) /\ txns'[v] = Idle
      BY <1>1 DEF Settle, Finish
    <2>2. v # w
      BY <1>2, <2>1 DEF Idle
    <2>3. ~Holds(w) \/ txns[w].request # txns'[w].request
      BY <2>1, <2>2 DEF LocksProtect
    <2>4. RequestLocked(txns'[w].request)
      BY <1>5, <2>1
    <2> QED
      BY <1>2, <1>4, <2>3, <2>4 DEF Locate
  <1>8. Located(w)'
    <2>1. /\ txns'[w].request \in Requests /\ requests[txns'[w].request].status \in Undecided
          /\ Success(Body(w)) /\ Body(w).amount = AmountOf[txns'[w].request]
          /\ RequestLocked(txns'[w].request) \/ UNCHANGED requests
      <3>1. CASE Holds(w) /\ txns'[w].request = txns[w].request
        BY <1>5, <3>1 DEF LocksProtect, Located
      <3>2. CASE \E r \in Requests : Locate(w, r) /\ txns'[w].request = r
        BY <3>2 DEF Locate
      <3> QED
        BY <1>2, <1>4, <3>1, <3>2
    <2>2. requests'[txns'[w].request].status \in Undecided
      BY <1>7, <2>1, RequestStep
    <2> QED
      BY <1>6, <2>1, <2>2 DEF Located
  <1>9. ASSUME txns'[w].stage = "looked" PROVE SeenStands(w)'
    <2> DEFINE x == Body(w).receipt
    <2>1. Holds(w)
      BY <1>4, <1>9
    <2>2. x \in Receipts /\ Body(w)' = Body(w)
      BY <1>6, <2>1, LocatedBody
    <2>3. RowEvolves(incoming[x], incoming'[x])
      BY <2>2, RowStep
    <2>4. CASE txns'[w].seen = txns[w].seen /\ txns[w].stage = "looked"
      <3>1. txns[w].seen # "NONE" => /\ incoming[x].amount = Body(w).amount /\ incoming[x].status # "NONE"
                                     /\ txns[w].seen = "MATCHED" => incoming[x].status = "MATCHED"
        BY <2>4 DEF LocksProtect, SeenStands
      <3>2. txns[w].seen # "NONE" => /\ incoming'[x].amount = Body(w).amount /\ incoming'[x].status # "NONE"
                                     /\ txns[w].seen = "MATCHED" => incoming'[x].status = "MATCHED"
        BY <2>3, <3>1 DEF RowEvolves, NoRow
      <3> HIDE DEF x
      <3> QED
        BY <2>2, <2>4, <3>2 DEF SeenStands, x
    <2>5. CASE Look(w) /\ txns'[w] = [txns[w] EXCEPT !.stage = "looked", !.seen = incoming[x].status]
      <3>1. txns'[w].seen = incoming[x].status
        BY <1>3, <2>5 DEF Txn
      <3>2. incoming'[x] = incoming[x] /\ (incoming[x].status = "NONE" \/ incoming[x].amount = Body(w).amount)
        BY <2>5 DEF Look
      <3> HIDE DEF x
      <3> QED
        BY <2>2, <3>1, <3>2 DEF SeenStands, x
    <2>6. CASE txns'[w] = txns[w]
      BY <1>9, <2>4, <2>6
    <2>7. ASSUME NEW r \in Requests, txns'[w] = [txns[w] EXCEPT !.stage = "located", !.request = r] PROVE FALSE
      BY <1>3, <1>9, <2>7 DEF Txn
    <2>8. ASSUME NEW c \in Callbacks, txns'[w] = [Idle EXCEPT !.stage = "opened", !.callback = c] PROVE FALSE
      BY <1>9, <2>8 DEF Idle
    <2>9. txns'[w] # Idle
      BY <1>9 DEF Idle
    <2> QED
      BY <2>5, <2>6, <2>7, <2>8, <2>9, TxnStep
  <1>10. ASSUME NEW v \in Workers \ {w}, txns'[v].stage \in {"located", "looked"}
         PROVE  txns'[v].request # txns'[w].request
    <2>1. CASE Holds(v) /\ txns'[v].request = txns[v].request /\ Holds(w) /\ txns'[w].request = txns[w].request
      BY <1>10, <2>1 DEF LocksProtect
    <2>2. CASE \E r \in Requests : Locate(v, r) /\ txns'[v].request = r
      <3>1. PICK r \in Requests : Locate(v, r) /\ txns'[v].request = r
        BY <2>2
      <3>2. txns'[w] = txns[w] /\ ~RequestLocked(r)
        BY <1>1, <1>10, <3>1 DEF Locate
      <3> QED
        BY <1>2, <1>5, <3>1, <3>2
    <2>3. CASE \E r \in Requests : Locate(w, r) /\ txns'[w].request = r
      <3>1. PICK r \in Requests : Locate(w, r) /\ txns'[w].request = r
        BY <2>3
      <3>2. txns'[v] = txns[v] /\ ~RequestLocked(r)
        BY <1>1, <1>10, <3>1 DEF Locate
      <3> QED
        BY <1>5, <1>10, <3>1, <3>2
    <2> QED
      BY <1>2, <1>4, <1>10, <2>1, <2>2, <2>3
  <1> QED
    BY <1>8, <1>9, <1>10

\* What settling does to the receipt and the request.
LEMMA SettleEffect ==
    ASSUME TypeOK, UnusedIsBlank, Bodies, LocksProtect, NEW w \in Workers, Settle(w)
    PROVE  LET r == txns[w].request
               x == Body(w).receipt
           IN  /\ x \in Receipts /\ r \in Requests /\ requests[r].status \in Undecided
               /\ \/ incoming[x] = NoRow
                  \/ /\ incoming[x].status \in {"UNMATCHED", "MATCHED"} /\ incoming[x].amount = AmountOf[r]
                     /\ incoming[x].status = "MATCHED" => incoming[x].student = StudentOf[r]
               /\ incoming'[x].status = "MATCHED" /\ incoming'[x].amount = AmountOf[r]
               /\ incoming'[x].student = StudentOf[r]
               /\ \A y \in Receipts \ {x} : incoming'[y] = incoming[y]
               /\ requests'[r].status = "COMPLETED" /\ requests'[r].receipt = x
               /\ \A q \in Requests \ {r} : requests'[q] = requests[q] /\ requests[q].receipt # x
  <1> DEFINE r == txns[w].request
             x == Body(w).receipt
             row == [status |-> "MATCHED", amount |-> AmountOf[r], reference |-> incoming[x].reference,
                     student |-> StudentOf[r]]
             done == [status |-> "COMPLETED", checkout |-> Body(w).checkout, receipt |-> x, code |-> 0]
  <1>1. incoming \in [Receipts -> IncomingRow] /\ requests \in [Requests -> RequestRow]
    BY Types
  <1>2. /\ x \in Receipts /\ r \in Requests /\ requests[r].status \in Undecided
        /\ Body(w).amount = AmountOf[r]
    BY LocatedBody DEF Settle
  <1>3. txns[w].seen # "NONE" => /\ incoming[x].amount = AmountOf[r] /\ incoming[x].status # "NONE"
                                 /\ txns[w].seen = "MATCHED" => incoming[x].status = "MATCHED"
    BY <1>2 DEF Settle, LocksProtect, SeenStands
  <1>4. incoming[x].status = "NONE" => incoming[x] = NoRow
    BY <1>2 DEF UnusedIsBlank
  <1>5. requests' = [requests EXCEPT ![r] = done] /\ ReceiptFree(r, x)
    BY DEF Settle
  <1>6. done.status = "COMPLETED" /\ done.receipt = x
    OBVIOUS
  <1>7. row.status = "MATCHED" /\ row.amount = AmountOf[r] /\ row.student = StudentOf[r]
    OBVIOUS
  <1>8. \/ StillAsSeen(w) /\ incoming' = [incoming EXCEPT ![x] = row]
        \/ txns[w].seen = "MATCHED" /\ incoming[x].student = StudentOf[r] /\ UNCHANGED incoming
    BY DEF Settle
  <1>9. StillAsSeen(w) => txns[w].seen \in {"NONE", "UNMATCHED"} /\ incoming[x].status = txns[w].seen
    BY DEF StillAsSeen
  <1> HIDE DEF r, x, row, done
  <1>10. /\ requests'[r].status = "COMPLETED" /\ requests'[r].receipt = x
         /\ \A q \in Requests \ {r} : requests'[q] = requests[q] /\ requests[q].receipt # x
    BY <1>1, <1>2, <1>5, <1>6 DEF ReceiptFree
  <1>11. CASE StillAsSeen(w) /\ incoming' = [incoming EXCEPT ![x] = row]
    <2>1. /\ incoming'[x].status = "MATCHED" /\ incoming'[x].amount = AmountOf[r]
          /\ incoming'[x].student = StudentOf[r]
          /\ \A y \in Receipts \ {x} : incoming'[y] = incoming[y]
      BY <1>1, <1>2, <1>7, <1>11
    <2>2. incoming[x] = NoRow \/ (incoming[x].status = "UNMATCHED" /\ incoming[x].amount = AmountOf[r])
      BY <1>3, <1>4, <1>9, <1>11
    <2> QED
      BY <1>2, <1>10, <2>1, <2>2 DEF r, x
  <1>12. CASE txns[w].seen = "MATCHED" /\ incoming[x].student = StudentOf[r] /\ UNCHANGED incoming
    BY <1>2, <1>3, <1>10, <1>12 DEF r, x
  <1> QED
    BY <1>8, <1>11, <1>12

\* Completed requests stay backed: the one completed in this step, and the
\* others.
LEMMA BackedStep ==
    ASSUME TypeOK, UnusedIsBlank, Bodies, LocksProtect, RequestsAreBacked, [Next]_vars
    PROVE  RequestsAreBacked'
  <1>1. TypeOK'
    BY TypeStep
  <1>2. \A q \in Requests : requests'[q].receipt # None <=> requests'[q].status = "COMPLETED"
    BY <1>1 DEF TypeOK
  <1>3. SUFFICES ASSUME NEW r \in Requests, requests'[r].status = "COMPLETED"
                 PROVE  /\ requests'[r].receipt \in Receipts
                        /\ incoming'[requests'[r].receipt].status = "MATCHED"
                        /\ incoming'[requests'[r].receipt].student = StudentOf[r]
                        /\ incoming'[requests'[r].receipt].amount = AmountOf[r]
                        /\ \A q \in Requests \ {r} : requests'[q].receipt # requests'[r].receipt
    BY DEF RequestsAreBacked
  <1>4. CASE requests'[r] = requests[r]
    <2> DEFINE x == requests[r].receipt
    <2>1. /\ x \in Receipts /\ incoming[x].status = "MATCHED" /\ incoming[x].student = StudentOf[r]
          /\ incoming[x].amount = AmountOf[r]
          /\ \A q \in Requests \ {r} : requests[q].receipt # x
      BY <1>3, <1>4 DEF RequestsAreBacked
    <2>2. incoming'[x] = incoming[x]
      BY <2>1, RowStep DEF RowEvolves, NoRow
    <2>3. ASSUME NEW q \in Requests \ {r} PROVE requests'[q].receipt # x
      <3>1. CASE requests'[q] = requests[q]
        BY <2>1, <3>1
      <3>2. CASE requests'[q].status \in Undecided \cup {"FAILED"}
        BY <1>2, <2>1, <3>2 DEF Undecided, Unresolved
      <3>3. ASSUME NEW w \in Workers, Settle(w), txns[w].request = q PROVE requests'[q].receipt # x
        BY <2>3, <3>3, SettleEffect
      <3> QED
        BY <3>1, <3>2, <3>3, RequestStep
    <2> QED
      BY <1>4, <2>1, <2>2, <2>3
  <1>5. ASSUME NEW w \in Workers, Settle(w), txns[w].request = r
        PROVE  /\ requests'[r].receipt \in Receipts
               /\ incoming'[requests'[r].receipt].status = "MATCHED"
               /\ incoming'[requests'[r].receipt].student = StudentOf[r]
               /\ incoming'[requests'[r].receipt].amount = AmountOf[r]
               /\ \A q \in Requests \ {r} : requests'[q].receipt # requests'[r].receipt
    BY <1>5, SettleEffect
  <1>6. requests'[r].status \notin Undecided \cup {"FAILED"}
    BY <1>3 DEF Undecided, Unresolved
  <1> QED
    BY <1>4, <1>5, <1>6, RequestStep

\* The invariant the theorems rest on.
ReconciliationInv == TypeOK /\ UnusedIsBlank /\ Bodies /\ LocksProtect /\ RequestsAreBacked

\* With empty tables there is nothing to back.
LEMMA InitInv == Init => ReconciliationInv
  <1> SUFFICES ASSUME Init PROVE ReconciliationInv
    OBVIOUS
  <1>1. TypeOK /\ UnusedIsBlank
    BY InitTypes
  <1>2. Bodies /\ LocksProtect
    BY DEF Init, Bodies, LocksProtect, NoCallback, Idle
  <1>3. RequestsAreBacked
    BY DEF Init, RequestsAreBacked, NoRequest
  <1> QED
    BY <1>1, <1>2, <1>3 DEF ReconciliationInv

\* Every step preserves the invariant.
LEMMA InvStep == ReconciliationInv /\ [Next]_vars => ReconciliationInv'
  BY TypeStep, BodiesStep, LocksStep, BackedStep DEF ReconciliationInv

(* The tables and the transactions' state keep their types; matched rows and
   completed requests carry what matched and completed them. *)
THEOREM ReconciliationTypes == Spec => []TypeOK
  <1>1. ReconciliationInv => TypeOK
    BY DEF ReconciliationInv
  <1> QED
    BY <1>1, InitInv, InvStep, PTL DEF Spec

(* A completed request is backed by a receipt of its amount that is recorded for
   its student and completes no other request (handle_stk_callback), for any
   number of requests, callbacks and workers. *)
THEOREM CompletedRequestsAreBacked == Spec => []RequestsAreBacked
  <1>1. ReconciliationInv => RequestsAreBacked
    BY DEF ReconciliationInv
  <1> QED
    BY <1>1, InitInv, InvStep, PTL DEF Spec

----------------------------------------------------------------------------
(* The receipt book *)

\* What the book shows of a row and of a request.
EntryOf(row) == [status |-> row.status, amount |-> row.amount, student |-> row.student]
OutcomeOf(row) == [status |-> IF row.status \in Undecided THEN "OPEN" ELSE row.status, receipt |-> row.receipt]
Entries == [x \in Receipts |-> EntryOf(incoming[x])]
Outcomes == [r \in Requests |-> OutcomeOf(requests[r])]

\* The book's initial state and its stuttering steps, in the module's own words.
LEMMA BookView ==
    /\ Book!BookInit <=> /\ Entries = [x \in Receipts |-> Book!NoEntry]
                         /\ Outcomes = [r \in Requests |-> Book!Outcome("NONE", None)]
    /\ Entries' = Entries /\ Outcomes' = Outcomes => UNCHANGED Book!bookVars
  BY DEF Book!BookInit, Book!bookVars, Entries, Outcomes, EntryOf, OutcomeOf

\* The book's steps on receipts, in terms of the entry they write.
LEMMA EnterIsStep ==
    ASSUME NEW x \in Receipts, NEW a \in Amounts, NEW e, Entries[x] = Book!NoEntry,
           \/ e = [status |-> "UNMATCHED", amount |-> a, student |-> None]
           \/ \E s \in Students : e = [status |-> "MATCHED", amount |-> a, student |-> s],
           Entries' = [Entries EXCEPT ![x] = e], Outcomes' = Outcomes
    PROVE  Book!BookNext
  <1>1. Book!Enter(x) <=>
           /\ Entries[x] = Book!NoEntry
           /\ \E b \in Amounts :
                  \/ Entries' = [Entries EXCEPT ![x] = [status |-> "UNMATCHED", amount |-> b, student |-> None]]
                  \/ \E s \in Students :
                         Entries' = [Entries EXCEPT ![x] = [status |-> "MATCHED", amount |-> b, student |-> s]]
           /\ Outcomes' = Outcomes
    BY DEF Book!Enter, Entries, Outcomes, EntryOf, OutcomeOf
  <1>2. Book!Enter(x)
    BY <1>1
  <1> QED
    BY <1>2 DEF Book!BookNext

\* Ignoring a row, as the book sees it.
LEMMA SetAsideIsStep ==
    ASSUME NEW x \in Receipts, Entries[x].status = "UNMATCHED", Outcomes' = Outcomes,
           Entries' = [Entries EXCEPT ![x] = [Entries[x] EXCEPT !.status = "IGNORED"]]
    PROVE  Book!BookNext
  <1>1. Book!SetAside(x)
    BY DEF Book!SetAside, Entries, Outcomes, EntryOf, OutcomeOf
  <1> QED
    BY <1>1 DEF Book!BookNext

\* Matching a row to a student, as the book sees it.
LEMMA GiveIsStep ==
    ASSUME NEW x \in Receipts, NEW s \in Students, Entries[x].status = "UNMATCHED", Outcomes' = Outcomes,
           Entries' = [Entries EXCEPT ![x] = [status |-> "MATCHED", amount |-> Entries[x].amount, student |-> s]]
    PROVE  Book!BookNext
  <1>1. Book!Give(x, s)
    BY DEF Book!Give, Entries, Outcomes, EntryOf, OutcomeOf
  <1> QED
    BY <1>1 DEF Book!BookNext

\* Empty tables are an empty book.
LEMMA InitBook == Init => Book!BookInit
  <1> SUFFICES ASSUME Init PROVE Book!BookInit
    OBVIOUS
  <1>1. \A x \in Receipts : EntryOf(incoming[x]) = Book!NoEntry
    BY DEF Init, EntryOf, Book!NoEntry, NoRow
  <1>2. \A r \in Requests : OutcomeOf(requests[r]) = Book!Outcome("NONE", None)
    BY DEF Init, OutcomeOf, Book!Outcome, NoRequest, Undecided, Unresolved
  <1> QED
    BY <1>1, <1>2, BookView DEF Entries, Outcomes

\* A step that changes one receipt's row, as RowStep allows, is a step of the book.
LEMMA RowIsBookStep ==
    ASSUME TypeOK, UnusedIsBlank, Bodies, LocksProtect, [Next]_vars, NEW x \in Receipts,
           \A y \in Receipts \ {x} : incoming'[y] = incoming[y], UNCHANGED requests
    PROVE  [Book!BookNext]_(Book!bookVars)
  <1>1. TypeOK'
    BY TypeStep
  <1>2. RowEvolves(incoming[x], incoming'[x])
    BY RowStep
  <1>3. Outcomes' = Outcomes
    BY DEF Outcomes
  <1>4. Entries' = [Entries EXCEPT ![x] = EntryOf(incoming'[x])]
    BY DEF Entries
  <1>5. Entries[x] = EntryOf(incoming[x])
    BY DEF Entries
  <1>6. CASE incoming'[x] = incoming[x]
    <2>1. Entries' = Entries
      BY <1>4, <1>5, <1>6 DEF Entries
    <2> QED
      BY <1>3, <2>1, BookView
  <1> DEFINE new == incoming'[x]
  <1>7. CASE incoming[x] = NoRow /\ incoming'[x] # incoming[x]
    <2>1. Entries[x] = Book!NoEntry
      BY <1>5, <1>7 DEF EntryOf, Book!NoEntry, NoRow
    <2>2. /\ new.status \in {"UNMATCHED", "MATCHED"} /\ new.amount \in Amounts
          /\ new.status = "UNMATCHED" => new.student = None
          /\ new.status = "MATCHED" => new.student \in Students
      BY <1>2, <1>7 DEF RowEvolves, NoRow
    <2>3. EntryOf(new) = [status |-> new.status, amount |-> new.amount, student |-> new.student]
      BY DEF EntryOf
    <2> HIDE DEF new
    <2>4. \/ EntryOf(new) = [status |-> "UNMATCHED", amount |-> new.amount, student |-> None]
          \/ \E s \in Students : EntryOf(new) = [status |-> "MATCHED", amount |-> new.amount, student |-> s]
      BY <2>2, <2>3
    <2>5. Entries' = [Entries EXCEPT ![x] = EntryOf(new)]
      BY <1>4 DEF new
    <2>6. Book!BookNext
      BY <1>3, <2>1, <2>2, <2>4, <2>5, EnterIsStep
    <2> QED
      BY <2>6
  <1>8. CASE incoming[x].status = "UNMATCHED" /\ incoming'[x] # incoming[x]
    <2>1. /\ new.status \in {"MATCHED", "IGNORED"} /\ new.amount = incoming[x].amount
          /\ new.status = "IGNORED" => new.student = incoming[x].student
          /\ new.status = "MATCHED" => new.student \in Students
      BY <1>2, <1>8 DEF RowEvolves, NoRow
    <2>2. Entries[x] = [status |-> "UNMATCHED", amount |-> incoming[x].amount, student |-> incoming[x].student]
      BY <1>5, <1>8 DEF EntryOf
    <2>3. EntryOf(new) = [status |-> new.status, amount |-> incoming[x].amount, student |-> new.student]
      BY <2>1 DEF EntryOf
    <2> HIDE DEF new
    <2>4. Entries' = [Entries EXCEPT ![x] = EntryOf(new)]
      BY <1>4 DEF new
    <2>5. CASE new.status = "IGNORED"
      <3>1. EntryOf(new) = [Entries[x] EXCEPT !.status = "IGNORED"]
        BY <2>1, <2>2, <2>3, <2>5
      <3>2. Entries[x].status = "UNMATCHED" /\ Entries' = [Entries EXCEPT ![x] = [Entries[x] EXCEPT !.status = "IGNORED"]]
        BY <2>2, <2>4, <3>1
      <3>3. Book!BookNext
        BY <1>3, <3>2, SetAsideIsStep
      <3> QED
        BY <3>3
    <2>6. CASE new.status = "MATCHED"
      <3>1. /\ Entries[x].status = "UNMATCHED" /\ new.student \in Students
            /\ Entries[x].amount = incoming[x].amount
        BY <2>1, <2>2, <2>6
      <3>2. Entries' = [Entries EXCEPT ![x] = [status |-> "MATCHED", amount |-> Entries[x].amount,
                                                student |-> new.student]]
        BY <2>3, <2>4, <2>6, <3>1
      <3>3. Book!BookNext
        BY <1>3, <3>1, <3>2, GiveIsStep
      <3> QED
        BY <3>3
    <2> QED
      BY <2>1, <2>5, <2>6
  <1> QED
    BY <1>2, <1>6, <1>7, <1>8 DEF RowEvolves

\* So is a step that changes one request without completing it.
LEMMA RequestIsBookStep ==
    ASSUME TypeOK, UnusedIsBlank, Bodies, LocksProtect, [Next]_vars, NEW r \in Requests,
           \A q \in Requests \ {r} : requests'[q] = requests[q], UNCHANGED incoming,
           requests'[r] = requests[r] \/ requests'[r].status # "COMPLETED"
    PROVE  [Book!BookNext]_(Book!bookVars)
  <1>1. TypeOK'
    BY TypeStep
  <1>2. /\ requests[r].receipt # None <=> requests[r].status = "COMPLETED"
        /\ requests'[r].receipt # None <=> requests'[r].status = "COMPLETED"
    BY <1>1 DEF TypeOK
  <1>3. Entries' = Entries
    BY DEF Entries
  <1>4. Outcomes' = [Outcomes EXCEPT ![r] = OutcomeOf(requests'[r])] /\ Outcomes[r] = OutcomeOf(requests[r])
    BY DEF Outcomes
  <1>5. CASE OutcomeOf(requests'[r]) = OutcomeOf(requests[r])
    <2>1. Outcomes' = Outcomes
      BY <1>4, <1>5 DEF Outcomes
    <2> QED
      BY <1>3, <2>1, BookView
  <1>6. CASE requests[r].status = "NONE" /\ requests'[r].status \in Undecided
    <2>1. Outcomes[r].status = "NONE"
      BY <1>4, <1>6 DEF OutcomeOf, Undecided, Unresolved
    <2>2. OutcomeOf(requests'[r]) = Book!Outcome("OPEN", None)
      BY <1>2, <1>6 DEF OutcomeOf, Book!Outcome, Undecided, Unresolved
    <2>3. Outcomes' = [Outcomes EXCEPT ![r] = Book!Outcome("OPEN", None)]
      BY <1>4, <2>2
    <2>4. Book!Ask(r)
      BY <1>3, <2>1, <2>3 DEF Book!Ask, Entries, Outcomes, EntryOf, OutcomeOf
    <2> QED
      BY <2>4 DEF Book!BookNext
  <1>7. CASE requests[r].status \in Undecided /\ requests'[r].status = "FAILED"
    <2>1. Outcomes[r].status = "OPEN"
      BY <1>4, <1>7 DEF OutcomeOf
    <2>2. OutcomeOf(requests'[r]) = Book!Outcome("FAILED", None)
      BY <1>2, <1>7 DEF OutcomeOf, Book!Outcome, Undecided, Unresolved
    <2>3. Outcomes' = [Outcomes EXCEPT ![r] = Book!Outcome("FAILED", None)]
      BY <1>4, <2>2
    <2>4. Book!Refuse(r)
      BY <1>3, <2>1, <2>3 DEF Book!Refuse, Entries, Outcomes, EntryOf, OutcomeOf
    <2> QED
      BY <2>4 DEF Book!BookNext
  <1>8. CASE requests[r].status \in Undecided /\ requests'[r].status \in Undecided
    <2>1. OutcomeOf(requests'[r]) = OutcomeOf(requests[r])
      BY <1>2, <1>8 DEF OutcomeOf, Undecided, Unresolved
    <2> QED
      BY <1>5, <2>1
  <1>9. ASSUME NEW w \in Workers, Settle(w), txns[w].request = r PROVE [Book!BookNext]_(Book!bookVars)
    <2>1. requests'[r].status = "COMPLETED" /\ requests[r].status \in Undecided
      BY <1>9, SettleEffect
    <2>2. requests'[r] # requests[r]
      BY <2>1 DEF Undecided, Unresolved
    <2> QED
      BY <2>1, <2>2
  <1> QED
    BY <1>5, <1>6, <1>7, <1>8, <1>9, RequestStep

\* Settling completes the request in the book.
LEMMA SettleIsBookStep ==
    ASSUME TypeOK, UnusedIsBlank, Bodies, LocksProtect, NEW w \in Workers, Settle(w)
    PROVE  Book!BookNext
  <1>0. PICK r \in Requests, x \in Receipts : r = txns[w].request /\ x = Body(w).receipt
    BY SettleEffect
  <1> DEFINE entry == [status |-> "MATCHED", amount |-> AmountOf[r], student |-> StudentOf[r]]
  <1>1. /\ requests[r].status \in Undecided
        /\ \/ incoming[x] = NoRow
           \/ /\ incoming[x].status \in {"UNMATCHED", "MATCHED"} /\ incoming[x].amount = AmountOf[r]
              /\ incoming[x].status = "MATCHED" => incoming[x].student = StudentOf[r]
        /\ incoming'[x].status = "MATCHED" /\ incoming'[x].amount = AmountOf[r]
        /\ incoming'[x].student = StudentOf[r]
        /\ \A y \in Receipts \ {x} : incoming'[y] = incoming[y]
        /\ requests'[r].status = "COMPLETED" /\ requests'[r].receipt = x
        /\ \A q \in Requests \ {r} : requests'[q] = requests[q] /\ requests[q].receipt # x
    BY <1>0, SettleEffect
  <1>2. /\ requests[r].receipt # None <=> requests[r].status = "COMPLETED"
        /\ incoming[x].student # None <=> incoming[x].status = "MATCHED"
    BY <1>1, Types
  <1>3. x # None
    BY <1>1
  <1>4. requests[r].receipt = None
    BY <1>1, <1>2 DEF Undecided, Unresolved
  <1>5. Entries' = [Entries EXCEPT ![x] = entry]
    <2>1. EntryOf(incoming'[x]) = entry
      BY <1>1 DEF EntryOf
    <2> QED
      BY <1>1, <2>1 DEF Entries
  <1>6. Outcomes' = [Outcomes EXCEPT ![r] = Book!Outcome("COMPLETED", x)]
    <2>1. OutcomeOf(requests'[r]) = Book!Outcome("COMPLETED", x)
      BY <1>1 DEF OutcomeOf, Book!Outcome, Undecided, Unresolved
    <2> QED
      BY <1>1, <2>1 DEF Outcomes
  <1>7. Outcomes[r].status = "OPEN" /\ \A q \in Requests : Outcomes[q].receipt # x
    BY <1>1, <1>3, <1>4 DEF Outcomes, OutcomeOf
  <1>8. Entries[x] \in {Book!NoEntry, entry, [status |-> "UNMATCHED", amount |-> AmountOf[r], student |-> None]}
    <2>1. Entries[x] = EntryOf(incoming[x])
      BY <1>1 DEF Entries
    <2>2. CASE incoming[x] = NoRow
      BY <2>1, <2>2 DEF EntryOf, NoRow, Book!NoEntry
    <2>3. CASE incoming[x].status = "MATCHED" /\ incoming[x].amount = AmountOf[r] /\ incoming[x].student = StudentOf[r]
      BY <2>1, <2>3 DEF EntryOf
    <2>4. CASE incoming[x].status = "UNMATCHED" /\ incoming[x].amount = AmountOf[r]
      <3>1. incoming[x].student = None
        BY <1>2, <2>4
      <3> QED
        BY <2>1, <2>4, <3>1 DEF EntryOf
    <2> QED
      BY <1>1, <2>2, <2>3, <2>4
  <1>9. Book!Complete(r, x)
    BY <1>5, <1>6, <1>7, <1>8 DEF Book!Complete, Entries, Outcomes, EntryOf, OutcomeOf
  <1> QED
    BY <1>9 DEF Book!BookNext

\* Every step is a step of the book, or none of its business.
LEMMA BookStep ==
    ASSUME ReconciliationInv, [Next]_vars
    PROVE  [Book!BookNext]_(Book!bookVars)
  <1>0. /\ TypeOK /\ UnusedIsBlank /\ Bodies /\ LocksProtect
        /\ incoming \in [Receipts -> IncomingRow] /\ requests \in [Requests -> RequestRow]
    BY Types DEF ReconciliationInv
  <1> DEFINE Stays == UNCHANGED incoming /\ UNCHANGED requests
             OneReceipt == /\ UNCHANGED requests
                           /\ \E x \in Receipts : \A y \in Receipts \ {x} : incoming'[y] = incoming[y]
             OneRequest == /\ UNCHANGED incoming
                           /\ \E r \in Requests :
                                  /\ \A q \in Requests \ {r} : requests'[q] = requests[q]
                                  /\ requests'[r] = requests[r] \/ requests'[r].status # "COMPLETED"
             Settles == \E w \in Workers : Settle(w)
  <1>1. CASE Stays
    <2>1. Entries' = Entries /\ Outcomes' = Outcomes
      BY <1>1 DEF Entries, Outcomes
    <2> QED
      BY <2>1, BookView
  <1>2. CASE OneReceipt
    BY <1>0, <1>2, RowIsBookStep
  <1>3. CASE OneRequest
    BY <1>0, <1>3, RequestIsBookStep
  <1>4. CASE Settles
    BY <1>0, <1>4, SettleIsBookStep
  \* Which of these an action is.
  <1>5. ASSUME NEW x \in Receipts,
               \/ \E a \in Amounts, reference \in Students \cup {None} : Ingest(x, a, reference)
               \/ \E s \in Students : Match(x, s)
               \/ Ignore(x)
        PROVE  OneReceipt
    BY <1>0, <1>5 DEF Ingest, Match, Ignore
  <1>6. ASSUME NEW r \in Requests, Initiate(r) PROVE OneRequest
    <2>1. requests'[r] = [requests[r] EXCEPT !.status = "INITIATING"] /\ requests[r] \in RequestRow
      BY <1>0, <1>6 DEF Initiate
    <2>2. requests'[r].status = "INITIATING"
      BY <2>1 DEF RequestRow
    <2> QED
      BY <1>0, <1>6, <2>2 DEF Initiate
  <1>7. ASSUME NEW r \in Requests, NEW k \in Requests, UNCHANGED incoming,
               requests' = [requests EXCEPT ![r].status = "PENDING", ![r].checkout = k]
        PROVE  OneRequest
    <2>1. requests'[r] = [requests[r] EXCEPT !.status = "PENDING", !.checkout = k] /\ requests[r] \in RequestRow
      BY <1>0, <1>7
    <2>2. requests'[r].status = "PENDING"
      BY <2>1 DEF RequestRow
    <2> QED
      BY <1>0, <1>7, <2>2
  <1>8. ASSUME NEW r \in Requests, RecordAnswer(r) PROVE Stays \/ OneRequest
    BY <1>7, <1>8 DEF RecordAnswer, EndCall
  <1>9. ASSUME NEW r \in Requests, RecordError(r) PROVE OneRequest
    <2>1. requests[r] \in RequestRow
      BY <1>0
    <2>2. CASE requests[r].status = "INITIATING"
      <3>1. requests'[r] = [requests[r] EXCEPT !.status = "UNKNOWN"]
        BY <1>0, <1>9, <2>2 DEF RecordError
      <3>2. requests'[r].status = "UNKNOWN"
        BY <2>1, <3>1 DEF RequestRow
      <3> QED
        BY <1>0, <1>9, <3>2 DEF RecordError, EndCall
    <2>3. CASE requests[r].status # "INITIATING"
      <3>1. requests'[r] = [requests[r] EXCEPT !.status = requests[r].status]
        BY <1>0, <1>9, <2>3 DEF RecordError
      <3>2. requests'[r] = requests[r]
        BY <2>1, <3>1 DEF RequestRow
      <3> QED
        BY <1>0, <1>9, <3>2 DEF RecordError, EndCall
    <2> QED
      BY <2>2, <2>3
  <1>10. ASSUME NEW r \in Requests, NEW k \in Requests, Identify(r, k) PROVE OneRequest
    BY <1>7, <1>10 DEF Identify
  <1>11. ASSUME NEW w \in Workers, NEW r \in Requests, Decline(w, r) PROVE OneRequest
    <2>1. /\ requests[r] \in RequestRow
          /\ requests'[r] = [requests[r] EXCEPT !.status = "FAILED", !.checkout = Body(w).checkout,
                                                !.code = Body(w).code]
      BY <1>0, <1>11 DEF Decline
    <2>2. requests'[r].status = "FAILED"
      BY <2>1 DEF RequestRow
    <2> QED
      BY <1>0, <1>11, <2>2 DEF Decline
  <1>12. ASSUME NEW w \in Workers, Confirm(w) PROVE Stays \/ OneReceipt
    <2>1. Body(w) \in Payloads
      BY <1>0, <1>12 DEF Confirm, Bodies, Body
    <2>2. Body(w).receipt \in Receipts
      BY <1>12, <2>1 DEF Confirm, Payload
    <2> QED
      BY <1>0, <1>12, <2>2 DEF Confirm
  <1>13. ASSUME NEW r \in Requests, Prompt(r) \/ LoseCall(r) PROVE Stays
    BY <1>13 DEF Prompt, LoseCall, EndCall
  <1>14. ASSUME NEW c \in Callbacks, Verify(c) \/ Reject(c) \/ \E p \in Payloads : Receive(c, p) PROVE Stays
    BY <1>14 DEF Verify, Reject, Receive
  <1>15. ASSUME NEW w \in Workers,
                \/ \E c \in Callbacks : Open(w, c)
                \/ \E r \in Requests : Replay(w, r) \/ Locate(w, r)
                \/ Look(w) \/ Fail(w) \/ Crash(w)
         PROVE  Stays
    BY <1>15 DEF Open, Replay, Locate, Look, Fail, Crash
  <1>16. ASSUME NEW s \in Students, Admit(s) PROVE Stays
    BY <1>16 DEF Admit
  <1>17. CASE UNCHANGED vars
    BY <1>1, <1>17 DEF vars
  <1> HIDE DEF Stays, OneReceipt, OneRequest
  <1> QED
    BY <1>1, <1>2, <1>3, <1>4, <1>5, <1>6, <1>8, <1>9, <1>10, <1>11, <1>12, <1>13, <1>14, <1>15, <1>16, <1>17 DEF Next

(* Every step of concurrent callback processing, of operators and bursars, and
   every crash is a step of the receipt book, in which receipts and requests
   are decided one at a time and for good. *)
THEOREM StepsAreBookSteps == Spec => BookSteps
  <1> QED
    BY InitInv, InvStep, BookStep, PTL DEF Spec, BookSteps

(* The reconciliation code implements the receipt book. *)
THEOREM ReconciliationImplementsBook == Spec => ImplementsReceiptBook
  <1> QED
    BY InitBook, StepsAreBookSteps, PTL DEF Spec, ImplementsReceiptBook


----------------------------------------------------------------------------
(* The inbox and the outbox *)

HIDE ConstantsAssumption

Decided(r) == requests[r].status \in {"COMPLETED", "FAILED"}

\* A callback that is being processed was verified, is not decided yet, and has one
\* worker; a worker that holds a request's row was not sent by its callback to another.
InboxProtects ==
    \A w \in Workers : txns[w].stage # "idle" =>
        /\ callbacks[txns[w].callback].status \in {"RECEIVED", "FAILED"}
        /\ callbacks[txns[w].callback].verified
        /\ \A v \in Workers \ {w} : txns[v].stage # "idle" => txns[v].callback # txns[w].callback
        /\ txns[w].stage \in {"located", "looked"} => Body(w).request \in {None, txns[w].request}

\* A decision records the checkout id it came with.
DecidedIsNamed == \A r \in Requests : Decided(r) => requests[r].checkout # None

\* A prompt is sent by the one call of a request's creation.
CallsFollowRequests ==
    \A r \in Requests : /\ calls[r] = "none" <=> requests[r].status = "NONE"
                        /\ calls[r] \in {"none", "intent"} => prompts[r] = 0
                        /\ prompts[r] <= 1

\* The invariant of the theorems below, upon the one above.
InboxInv == InboxProtects /\ DecidedIsNamed /\ CallsFollowRequests /\ ProcessedCallbacksStand /\ DecisionsAreEvidenced

\* The transaction that processes a callback ends in this step.
Ends(w, c) == /\ txns[w].stage # "idle" /\ txns[w].callback = c /\ txns'[w] = Idle
              /\ callbacks'[c].payload = callbacks[c].payload /\ callbacks'[c].verified = callbacks[c].verified

\* How a callback may change in a step.
LEMMA CallbackStep ==
    ASSUME TypeOK, Bodies, [Next]_vars, NEW c \in Callbacks
    PROVE  \/ callbacks'[c] = callbacks[c]
           \/ callbacks[c].status = "NONE" /\ callbacks'[c].status = "RECEIVED"
           \/ /\ ~CallbackLocked(c) /\ callbacks[c].status # "NONE" /\ callbacks'[c].status = callbacks[c].status
              /\ callbacks'[c].verified = TRUE /\ callbacks'[c].payload = callbacks[c].payload
           \/ /\ ~CallbackLocked(c) /\ callbacks[c].status \notin {"NONE", "PROCESSED"}
              /\ callbacks'[c].status = "REJECTED"
           \/ \E w \in Workers :
                  /\ Ends(w, c)
                  /\ \/ callbacks'[c].status = "FAILED"
                     \/ /\ callbacks'[c].status = "PROCESSED"
                        /\ (\E r \in Requests : Replay(w, r) \/ Decline(w, r)) \/ Settle(w) \/ Confirm(w)
  <1>1. callbacks \in [Callbacks -> CallbackRow] /\ txns \in [Workers -> Txn] /\ callbacks[c] \in CallbackRow
    BY Types
  <1>2. ASSUME NEW w \in Workers, NEW status, Finish(w, status), txns[w].stage # "idle"
        PROVE  callbacks'[c] = callbacks[c] \/ (Ends(w, c) /\ callbacks'[c].status = status)
    <2>1. CASE txns[w].callback = c
      <3>1. callbacks'[c] = [callbacks[c] EXCEPT !.status = status] /\ txns'[w] = Idle
        BY <1>1, <1>2, <2>1 DEF Finish
      <3>2. callbacks'[c].status = status
        BY <1>1, <3>1 DEF CallbackRow
      <3>3. callbacks'[c].payload = callbacks[c].payload /\ callbacks'[c].verified = callbacks[c].verified
        BY <1>1, <3>1 DEF CallbackRow
      <3> QED
        BY <1>2, <2>1, <3>1, <3>2, <3>3 DEF Ends
    <2>2. CASE txns[w].callback # c
      <3>1. callbacks' = [callbacks EXCEPT ![txns[w].callback].status = status]
        BY <1>2 DEF Finish
      <3> QED
        BY <1>1, <2>2, <3>1
    <2> QED
      BY <2>1, <2>2
  <1>3. ASSUME NEW d \in Callbacks, NEW p \in Payloads, Receive(d, p)
        PROVE  callbacks'[c] = callbacks[c] \/ (callbacks[c].status = "NONE" /\ callbacks'[c].status = "RECEIVED")
    <2>1. /\ callbacks[d].status = "NONE"
          /\ callbacks' = [callbacks EXCEPT ![d] = [status |-> "RECEIVED", verified |-> FALSE, payload |-> p]]
      BY <1>3 DEF Receive
    <2>2. CASE d = c
      BY <1>1, <2>1, <2>2
    <2>3. CASE d # c
      BY <1>1, <2>1, <2>3
    <2> QED
      BY <2>2, <2>3
  <1>4. ASSUME NEW d \in Callbacks, Verify(d)
        PROVE  \/ callbacks'[c] = callbacks[c]
               \/ /\ ~CallbackLocked(c) /\ callbacks[c].status # "NONE" /\ callbacks'[c].status = callbacks[c].status
                  /\ callbacks'[c].verified = TRUE /\ callbacks'[c].payload = callbacks[c].payload
    <2>1. CASE d = c
      <3>1. callbacks'[c] = [callbacks[c] EXCEPT !.verified = TRUE]
        BY <1>1, <1>4, <2>1 DEF Verify
      <3>2. callbacks'[c].status = callbacks[c].status
        BY <1>1, <3>1 DEF CallbackRow
      <3>3. callbacks'[c].verified = TRUE /\ callbacks'[c].payload = callbacks[c].payload
        BY <1>1, <3>1 DEF CallbackRow
      <3>4. ~CallbackLocked(c) /\ callbacks[c].status # "NONE"
        BY <1>4, <2>1 DEF Verify
      <3> QED
        BY <3>2, <3>3, <3>4
    <2>2. CASE d # c
      BY <1>1, <1>4, <2>2 DEF Verify
    <2> QED
      BY <2>1, <2>2
  <1>5. ASSUME NEW d \in Callbacks, Reject(d)
        PROVE  \/ callbacks'[c] = callbacks[c]
               \/ /\ ~CallbackLocked(c) /\ callbacks[c].status \notin {"NONE", "PROCESSED"}
                  /\ callbacks'[c].status = "REJECTED"
    <2>1. CASE d = c
      <3>1. callbacks' = [callbacks EXCEPT ![c].status = "REJECTED"]
        BY <1>5, <2>1 DEF Reject
      <3>2. callbacks'[c].status = "REJECTED"
        BY <1>1, <3>1 DEF CallbackRow
      <3>3. ~CallbackLocked(c) /\ callbacks[c].status \notin {"NONE", "PROCESSED"}
        BY <1>5, <2>1 DEF Reject
      <3> QED
        BY <3>2, <3>3
    <2>2. CASE d # c
      BY <1>1, <1>5, <2>2 DEF Reject
    <2> QED
      BY <2>1, <2>2
  <1>6. ASSUME NEW w \in Workers, NEW r \in Requests, Replay(w, r) \/ Decline(w, r)
        PROVE  callbacks'[c] = callbacks[c] \/ (Ends(w, c) /\ callbacks'[c].status = "PROCESSED")
    BY <1>2, <1>6 DEF Replay, Decline
  <1>7. ASSUME NEW w \in Workers, Settle(w) \/ Confirm(w)
        PROVE  callbacks'[c] = callbacks[c] \/ (Ends(w, c) /\ callbacks'[c].status = "PROCESSED")
    BY <1>2, <1>7 DEF Settle, Confirm
  <1>8. ASSUME NEW w \in Workers, Fail(w)
        PROVE  callbacks'[c] = callbacks[c] \/ (Ends(w, c) /\ callbacks'[c].status = "FAILED")
    BY <1>2, <1>8 DEF Fail
  <1>9. CASE UNCHANGED callbacks
    BY <1>9
  <1> QED
    BY <1>3, <1>4, <1>5, <1>6, <1>7, <1>8, <1>9
       DEF Next, vars, Admit, Ingest, Match, Ignore, Initiate, Prompt, RecordAnswer, RecordError, LoseCall, EndCall,
           Identify, Open, Locate, Look, Crash

\* A decided request stays as it is, and a decision is a decline or a settlement.
LEMMA DecisionStep ==
    ASSUME TypeOK, UnusedIsBlank, Bodies, LocksProtect, [Next]_vars, NEW r \in Requests
    PROVE  /\ Decided(r) => requests'[r] = requests[r]
           /\ requests[r].status # "NONE" => requests'[r].status # "NONE"
           /\ Decided(r)' /\ ~Decided(r) =>
                  \E w \in Workers : Decline(w, r) \/ (Settle(w) /\ txns[w].request = r)
  <1>1. \A w \in Workers : Settle(w) => /\ requests[txns[w].request].status \in Undecided
                                        /\ requests'[txns[w].request].status = "COMPLETED"
    BY SettleEffect
  <1>2. Decided(r) => requests[r].status \notin Undecided \cup {"NONE"}
    BY DEF Decided, Undecided, Unresolved
  <1>3. requests'[r].status \in Undecided => ~Decided(r)' /\ requests'[r].status # "NONE"
    BY DEF Decided, Undecided, Unresolved
  <1> QED
    <2>1. \/ requests'[r] = requests[r]
          \/ requests[r].status \in Undecided \cup {"NONE"} /\ requests'[r].status \in Undecided
          \/ /\ requests[r].status \in Undecided /\ requests'[r].status = "FAILED"
             /\ \E w \in Workers : Decline(w, r)
          \/ \E w \in Workers : Settle(w) /\ txns[w].request = r
      BY RequestStep
    <2>2. CASE requests'[r] = requests[r]
      BY <2>2 DEF Decided
    <2>3. CASE requests[r].status \in Undecided \cup {"NONE"} /\ requests'[r].status \in Undecided
      BY <1>2, <1>3, <2>3
    <2>4. CASE /\ requests[r].status \in Undecided /\ requests'[r].status = "FAILED"
               /\ \E w \in Workers : Decline(w, r)
      BY <1>2, <2>4
    <2>5. CASE \E w \in Workers : Settle(w) /\ txns[w].request = r
      BY <1>1, <1>2, <2>5
    <2> QED
      BY <2>1, <2>2, <2>3, <2>4, <2>5

\* What a transaction reads of its callback does not change under it.
LEMMA OwnCallback ==
    ASSUME TypeOK, Bodies, [Next]_vars, NEW w \in Workers, txns'[w].stage # "idle"
    PROVE  \/ /\ txns[w].stage # "idle" /\ txns'[w].callback = txns[w].callback
              /\ txns[w].callback \in Callbacks /\ callbacks[txns[w].callback].status # "NONE"
           \/ \E c \in Callbacks : Open(w, c) /\ txns'[w].callback = c /\ txns'[w].stage = "opened"
  <1>1. txns[w] \in Txn /\ txns'[w] # Idle
    BY Types DEF Idle
  <1>2. CASE \E c \in Callbacks : Open(w, c) /\ txns'[w] = [Idle EXCEPT !.stage = "opened", !.callback = c]
    BY <1>2 DEF Idle
  <1>3. CASE \E r \in Requests : Locate(w, r) /\ txns'[w] = [txns[w] EXCEPT !.stage = "located", !.request = r]
    <2>1. txns[w].stage # "idle"
      BY <1>3 DEF Locate
    <2>2. txns'[w].callback = txns[w].callback
      BY <1>1, <1>3 DEF Txn
    <2> QED
      BY <2>1, <2>2 DEF Bodies
  <1>4. CASE /\ Look(w)
             /\ txns'[w] = [txns[w] EXCEPT !.stage = "looked", !.seen = incoming[Body(w).receipt].status]
    <2>1. txns[w].stage # "idle"
      BY <1>4 DEF Look
    <2>2. txns'[w].callback = txns[w].callback
      BY <1>1, <1>4 DEF Txn
    <2> QED
      BY <2>1, <2>2 DEF Bodies
  <1>5. CASE txns'[w] = txns[w]
    <2>1. txns[w].stage # "idle" /\ txns'[w].callback = txns[w].callback
      BY <1>5
    <2> QED
      BY <2>1 DEF Bodies
  <1> QED
    BY <1>1, <1>2, <1>3, <1>4, <1>5, TxnStep

\* A row on file keeps its amount.
LEMMA RowKept ==
    ASSUME TypeOK, UnusedIsBlank, Bodies, LocksProtect, [Next]_vars, NEW x \in Receipts,
           incoming[x].status # "NONE"
    PROVE  incoming'[x].status # "NONE" /\ incoming'[x].amount = incoming[x].amount
  BY RowStep DEF RowEvolves, NoRow

\* One worker per callback, from its lock to its end.
LEMMA InboxStep ==
    ASSUME TypeOK, Bodies, InboxProtects, [Next]_vars
    PROVE  InboxProtects'
  <1> SUFFICES ASSUME NEW w \in Workers, txns'[w].stage # "idle"
               PROVE  /\ callbacks'[txns'[w].callback].status \in {"RECEIVED", "FAILED"}
                      /\ callbacks'[txns'[w].callback].verified
                      /\ \A v \in Workers \ {w} : txns'[v].stage # "idle" => txns'[v].callback # txns'[w].callback
                      /\ txns'[w].stage \in {"located", "looked"} => Body(w)'.request \in {None, txns'[w].request}
    BY DEF InboxProtects
  <1>1. callbacks \in [Callbacks -> CallbackRow] /\ txns \in [Workers -> Txn] /\ txns[w] \in Txn
    BY Types
  \* Two open transactions have different callbacks.
  <1>2. ASSUME NEW v \in Workers, NEW u \in Workers, v # u, txns'[v].stage # "idle", txns'[u].stage # "idle",
               NEW c \in Callbacks, Open(v, c), txns'[v].callback = c
        PROVE  txns'[u].callback # c
    <2>1. txns'[u] = txns[u]
      BY <1>1, <1>2 DEF Open
    <2>2. ~CallbackLocked(c)
      BY <1>2 DEF Open
    <2> QED
      BY <1>2, <2>1, <2>2 DEF CallbackLocked
  <1>3. ASSUME NEW v \in Workers \ {w}, txns'[v].stage # "idle" PROVE txns'[v].callback # txns'[w].callback
    <2>1. CASE \E c \in Callbacks : Open(w, c) /\ txns'[w].callback = c
      BY <1>2, <1>3, <2>1
    <2>2. CASE \E c \in Callbacks : Open(v, c) /\ txns'[v].callback = c
      BY <1>2, <1>3, <2>2
    <2>3. CASE /\ txns[w].stage # "idle" /\ txns'[w].callback = txns[w].callback
               /\ txns[v].stage # "idle" /\ txns'[v].callback = txns[v].callback
      BY <1>3, <2>3 DEF InboxProtects
    <2> QED
      BY <1>3, <2>1, <2>2, <2>3, OwnCallback
  <1>4. CASE \E c \in Callbacks : Open(w, c) /\ txns'[w].callback = c /\ txns'[w].stage = "opened"
    <2>1. PICK c \in Callbacks : Open(w, c) /\ txns'[w].callback = c /\ txns'[w].stage = "opened"
      BY <1>4
    <2>2. callbacks' = callbacks /\ callbacks[c].verified /\ callbacks[c].status \in {"RECEIVED", "FAILED"}
      BY <2>1 DEF Open
    <2> QED
      BY <1>3, <2>1, <2>2
  <1>5. CASE /\ txns[w].stage # "idle" /\ txns'[w].callback = txns[w].callback
             /\ txns[w].callback \in Callbacks /\ callbacks[txns[w].callback].status # "NONE"
    <2>1. PICK c \in Callbacks : c = txns[w].callback
      BY <1>5
    <2>2. /\ callbacks[c].status \in {"RECEIVED", "FAILED"} /\ callbacks[c].verified /\ CallbackLocked(c)
          /\ \A v \in Workers \ {w} : txns[v].stage # "idle" => txns[v].callback # c
          /\ txns[w].stage \in {"located", "looked"} => callbacks[c].payload.request \in {None, txns[w].request}
      BY <1>5, <2>1 DEF InboxProtects, CallbackLocked, Body
    <2>3. \A v \in Workers : ~Ends(v, c)
      <3> SUFFICES ASSUME NEW v \in Workers, Ends(v, c) PROVE FALSE
        OBVIOUS
      <3>1. txns[v].stage # "idle" /\ txns[v].callback = c /\ txns'[v] = Idle
        BY DEF Ends
      <3>2. v = w
        BY <2>2, <3>1
      <3> QED
        BY <3>1, <3>2 DEF Idle
    <2>4. callbacks'[c] = callbacks[c]
      BY <2>2, <2>3, CallbackStep
    <2>5. callbacks'[c].payload = callbacks[c].payload
      BY <2>4
    <2>6. ASSUME txns'[w].stage \in {"located", "looked"}
          PROVE  callbacks'[c].payload.request \in {None, txns'[w].request}
      <3>1. CASE txns'[w] = txns[w]
        BY <2>2, <2>5, <2>6, <3>1
      <3>2. CASE \E r \in Requests : Locate(w, r) /\ txns'[w] = [txns[w] EXCEPT !.stage = "located", !.request = r]
        <4>1. PICK r \in Requests : Locate(w, r) /\ txns'[w] = [txns[w] EXCEPT !.stage = "located", !.request = r]
          BY <3>2
        <4>2. txns'[w].request = r
          BY <1>1, <4>1 DEF Txn
        <4>3. callbacks[c].payload.request # None => r = callbacks[c].payload.request
          BY <2>1, <4>1 DEF Locate, About, Body
        <4> QED
          BY <2>5, <4>2, <4>3
      <3>3. CASE /\ Look(w)
                 /\ txns'[w] = [txns[w] EXCEPT !.stage = "looked", !.seen = incoming[Body(w).receipt].status]
        <4>1. txns'[w].request = txns[w].request
          BY <1>1, <3>3 DEF Txn
        <4>2. txns[w].stage \in {"located", "looked"}
          BY <3>3 DEF Look
        <4> QED
          BY <2>2, <2>5, <4>1, <4>2
      <3>4. txns'[w] # Idle
        BY <2>6 DEF Idle
      <3>5. ~ \E d \in Callbacks : Open(w, d)
        BY <1>5 DEF Open
      <3> QED
        BY <3>1, <3>2, <3>3, <3>4, <3>5, TxnStep
    <2>7. Body(w)' = callbacks'[c].payload
      BY <1>5, <2>1 DEF Body
    <2> QED
      BY <1>3, <1>5, <2>1, <2>2, <2>4, <2>6, <2>7
  <1> QED
    BY <1>4, <1>5, OwnCallback

\* Declining and settling copy the checkout id of a body that has one.
LEMMA NamedStep ==
    ASSUME TypeOK, UnusedIsBlank, Bodies, LocksProtect, DecidedIsNamed, [Next]_vars
    PROVE  DecidedIsNamed'
  <1> USE ConstantsAssumption
  <1> SUFFICES ASSUME NEW r \in Requests, Decided(r)' PROVE requests'[r].checkout # None
    BY DEF DecidedIsNamed
  <1>1. requests \in [Requests -> RequestRow] /\ requests[r] \in RequestRow
    BY Types
  <1>2. CASE Decided(r)
    BY <1>2, DecisionStep DEF DecidedIsNamed
  <1>3. ASSUME NEW w \in Workers, Decline(w, r) PROVE requests'[r].checkout # None
    <2>1. Body(w) \in Payloads /\ Body(w).kind = "stk"
      BY <1>3 DEF Decline, Bodies, Body
    <2>2. Body(w).checkout # None
      BY <2>1
    <2>3. requests' = [requests EXCEPT ![r].status = "FAILED", ![r].checkout = Body(w).checkout, ![r].code = Body(w).code]
      BY <1>3 DEF Decline
    <2>4. requests'[r].checkout = Body(w).checkout
      BY <1>1, <2>3 DEF RequestRow
    <2> QED
      BY <2>2, <2>4
  <1>4. ASSUME NEW w \in Workers, Settle(w), txns[w].request = r PROVE requests'[r].checkout # None
    <2>1. Body(w).checkout \in Requests
      BY <1>4, LocatedBody DEF Settle
    <2>2. requests'[r] = [status |-> "COMPLETED", checkout |-> Body(w).checkout, receipt |-> Body(w).receipt, code |-> 0]
      BY <1>1, <1>4 DEF Settle
    <2> QED
      BY <2>1, <2>2
  <1> QED
    BY <1>2, <1>3, <1>4, DecisionStep

\* What w's step to "PROCESSED" leaves is what its body says.
LEMMA ProcessedStands ==
    ASSUME TypeOK, UnusedIsBlank, Bodies, LocksProtect, InboxProtects, DecidedIsNamed, [Next]_vars,
           NEW w \in Workers, NEW p \in Payloads, p = Body(w)
    PROVE  /\ \A r \in Requests : Replay(w, r) \/ Decline(w, r) => p.kind = "stk" /\ StandsAs(p, r)'
           /\ Settle(w) => \A r \in Requests : r = txns[w].request => p.kind = "stk" /\ StandsAs(p, r)'
           /\ Confirm(w) => /\ p.kind = "c2b"
                            /\ incoming'[p.receipt].status # "NONE" /\ incoming'[p.receipt].amount = p.amount
  <1>1. /\ requests \in [Requests -> RequestRow] /\ incoming \in [Receipts -> IncomingRow]
    BY Types
  <1>2. ASSUME NEW r \in Requests, About(p, r), requests[r].checkout # None
        PROVE  p.request \in {None, r} /\ requests[r].checkout = p.checkout
    BY <1>2 DEF About
  <1>3. ASSUME NEW r \in Requests, Replay(w, r) PROVE p.kind = "stk" /\ StandsAs(p, r)'
    <2>1. p.kind = "stk" /\ About(p, r) /\ Repeats(p, r) /\ requests' = requests
      BY <1>3 DEF Replay
    <2>2. requests[r].checkout # None
      BY <2>1 DEF Repeats, DecidedIsNamed, Decided
    <2>3. p.request \in {None, r} /\ requests'[r].checkout = p.checkout
      BY <1>2, <2>1, <2>2
    <2>4. \/ requests'[r].status = "COMPLETED" /\ p.code = 0 /\ p.receipt = requests'[r].receipt /\ p.amount = AmountOf[r]
          \/ requests'[r].status = "FAILED" /\ p.code # 0 /\ p.code = requests'[r].code
      BY <2>1 DEF Repeats, Success
    <2> QED
      BY <2>1, <2>3, <2>4 DEF StandsAs
  <1>4. ASSUME NEW r \in Requests, Decline(w, r) PROVE p.kind = "stk" /\ StandsAs(p, r)'
    <2>1. /\ p.kind = "stk" /\ About(p, r) /\ p.code # 0
          /\ requests' = [requests EXCEPT ![r].status = "FAILED", ![r].checkout = p.checkout, ![r].code = p.code]
      BY <1>4 DEF Decline
    <2>2. requests[r] \in RequestRow
      BY <1>1
    <2>3. requests'[r].status = "FAILED" /\ requests'[r].checkout = p.checkout /\ requests'[r].code = p.code
      BY <1>1, <2>1, <2>2 DEF RequestRow
    <2>4. p.request \in {None, r}
      BY <2>1 DEF About
    <2> QED
      BY <2>1, <2>3, <2>4 DEF StandsAs
  <1>5. ASSUME Settle(w), NEW r \in Requests, r = txns[w].request PROVE p.kind = "stk" /\ StandsAs(p, r)'
    <2>2. Success(p) /\ p.amount = AmountOf[r] /\ p.request \in {None, r}
      BY <1>5, LocatedBody DEF Settle, InboxProtects
    <2>3. requests'[r] = [status |-> "COMPLETED", checkout |-> p.checkout, receipt |-> p.receipt, code |-> 0]
      BY <1>1, <1>5 DEF Settle
    <2> QED
      BY <2>2, <2>3 DEF StandsAs, Success
  <1>6. ASSUME Confirm(w) PROVE /\ p.kind = "c2b"
                                /\ incoming'[p.receipt].status # "NONE" /\ incoming'[p.receipt].amount = p.amount
    <2>1. p.kind = "c2b" /\ p.receipt \in Receipts
      BY <1>6, ConstantsAssumption DEF Confirm, Payload
    <2>2. CASE UNCHANGED incoming /\ incoming[p.receipt].status # "NONE" /\ incoming[p.receipt].amount = p.amount
      BY <2>1, <2>2
    <2>3. CASE \E row \in NewRows(p.amount, p.reference) : incoming' = [incoming EXCEPT ![p.receipt] = row]
      <3>1. \A row \in NewRows(p.amount, p.reference) : row.status # "NONE" /\ row.amount = p.amount
        BY DEF NewRows
      <3> QED
        BY <1>1, <2>1, <2>3, <3>1
    <2> QED
      BY <1>6, <2>2, <2>3 DEF Confirm
  <1> QED
    BY <1>3, <1>4, <1>5, <1>6

\* What a body reported of a request stands from then on.
LEMMA StandsKept ==
    ASSUME TypeOK, UnusedIsBlank, Bodies, LocksProtect, [Next]_vars, NEW p, NEW r \in Requests, StandsAs(p, r)
    PROVE  StandsAs(p, r)'
  <1>1. Decided(r)
    BY DEF StandsAs, Decided
  <1>2. requests'[r] = requests[r]
    BY <1>1, DecisionStep
  <1> QED
    BY <1>2 DEF StandsAs

\* A processed callback keeps standing, and one that becomes processed does.
LEMMA ProcessedStep ==
    ASSUME TypeOK, UnusedIsBlank, Bodies, LocksProtect, InboxProtects, DecidedIsNamed, ProcessedCallbacksStand, [Next]_vars
    PROVE  ProcessedCallbacksStand'
  <1> SUFFICES ASSUME NEW c \in Callbacks, callbacks'[c].status = "PROCESSED",
                      NEW p, p = callbacks'[c].payload
               PROVE  \/ /\ p.kind = "c2b"
                         /\ incoming'[p.receipt].status # "NONE" /\ incoming'[p.receipt].amount = p.amount
                      \/ p.kind = "stk" /\ \E r \in Requests : StandsAs(p, r)'
    BY DEF ProcessedCallbacksStand, StandsAs
  <1>1. CASE callbacks[c].status = "PROCESSED" /\ callbacks[c].payload = p
    <2>1. p \in Payloads
      BY <1>1 DEF Bodies
    <2>2. CASE p.kind = "stk" /\ \E r \in Requests : StandsAs(p, r)
      BY <2>2, StandsKept
    <2>3. CASE p.kind = "c2b" /\ incoming[p.receipt].status # "NONE" /\ incoming[p.receipt].amount = p.amount
      <3>1. p.receipt \in Receipts
        BY <2>1, <2>3, ConstantsAssumption DEF Payload
      <3> QED
        BY <2>3, <3>1, RowKept
    <2> QED
      BY <1>1, <2>2, <2>3 DEF ProcessedCallbacksStand
  <1>2. ASSUME NEW w \in Workers, Ends(w, c),
               (\E r \in Requests : Replay(w, r) \/ Decline(w, r)) \/ Settle(w) \/ Confirm(w)
        PROVE  \/ /\ p.kind = "c2b"
                  /\ incoming'[p.receipt].status # "NONE" /\ incoming'[p.receipt].amount = p.amount
               \/ p.kind = "stk" /\ \E r \in Requests : StandsAs(p, r)'
    <2>1. p = Body(w)
      BY <1>2 DEF Ends, Body
    <2>2. p \in Payloads
      BY <1>2, <2>1 DEF Ends, Bodies, Body
    <2>3. Settle(w) => txns[w].request \in Requests
      BY LocatedBody DEF Settle
    <2> QED
      BY <1>2, <2>1, <2>2, <2>3, ProcessedStands
  <1>3. CASE callbacks'[c] = callbacks[c]
    BY <1>1, <1>3
  <1>4. CASE callbacks'[c].status = callbacks[c].status /\ callbacks'[c].payload = callbacks[c].payload
    BY <1>1, <1>4
  <1> QED
    BY <1>2, <1>3, <1>4, CallbackStep

\* Evidence is not withdrawn, and every decision comes with its own.
LEMMA EvidenceStep ==
    ASSUME TypeOK, UnusedIsBlank, Bodies, LocksProtect, InboxProtects, DecidedIsNamed, DecisionsAreEvidenced, [Next]_vars
    PROVE  DecisionsAreEvidenced'
  <1> SUFFICES ASSUME NEW r \in Requests, Decided(r)'
               PROVE  \E c \in Callbacks :
                          /\ callbacks'[c].status = "PROCESSED" /\ callbacks'[c].verified
                          /\ callbacks'[c].payload.kind = "stk" /\ StandsAs(callbacks[c].payload, r)'
    BY DEF DecisionsAreEvidenced, Decided
  <1>1. callbacks \in [Callbacks -> CallbackRow]
    BY Types
  <1>2. CASE Decided(r)
    <2>1. PICK c \in Callbacks :
              /\ callbacks[c].status = "PROCESSED" /\ callbacks[c].verified
              /\ callbacks[c].payload.kind = "stk" /\ StandsAs(callbacks[c].payload, r)
      BY <1>2 DEF DecisionsAreEvidenced, Decided
    <2>2. \A w \in Workers : ~Ends(w, c)
      BY <2>1 DEF Ends, InboxProtects
    <2>3. /\ callbacks'[c].status = "PROCESSED" /\ callbacks'[c].verified
          /\ callbacks'[c].payload = callbacks[c].payload
      BY <2>1, <2>2, CallbackStep
    <2>4. PICK p : p = callbacks[c].payload
      OBVIOUS
    <2>5. StandsAs(p, r)'
      BY <2>1, <2>4, StandsKept
    <2>6. StandsAs(callbacks[c].payload, r)'
      BY <2>3, <2>4, <2>5 DEF StandsAs
    <2> QED
      BY <2>1, <2>3, <2>6
  <1>3. ASSUME NEW w \in Workers, Decline(w, r) \/ (Settle(w) /\ txns[w].request = r)
        PROVE  \E c \in Callbacks :
                   /\ callbacks'[c].status = "PROCESSED" /\ callbacks'[c].verified
                   /\ callbacks'[c].payload.kind = "stk" /\ StandsAs(callbacks[c].payload, r)'
    <2>1. txns[w].stage # "idle"
      BY <1>3 DEF Decline, Settle
    <2>2. PICK c \in Callbacks : c = txns[w].callback
      BY <2>1 DEF Bodies
    <2>3. callbacks[c].verified /\ callbacks[c].status # "NONE"
      BY <2>1, <2>2 DEF InboxProtects
    <2>4. callbacks' = [callbacks EXCEPT ![c].status = "PROCESSED"]
      BY <1>3, <2>2 DEF Decline, Settle, Finish
    <2>5. callbacks'[c] = [callbacks[c] EXCEPT !.status = "PROCESSED"] /\ callbacks[c] \in CallbackRow
      BY <1>1, <2>4
    <2>6. callbacks'[c].status = "PROCESSED" /\ callbacks'[c].payload = callbacks[c].payload
      BY <2>5 DEF CallbackRow
    <2>7. callbacks'[c].verified = callbacks[c].verified
      BY <2>5 DEF CallbackRow
    <2>8. PICK p \in Payloads : p = callbacks[c].payload /\ p = Body(w)
      BY <2>2, <2>3 DEF Bodies, Body
    <2>9. p.kind = "stk" /\ StandsAs(p, r)'
      BY <1>3, <2>8, ProcessedStands
    <2>10. StandsAs(callbacks[c].payload, r)'
      BY <2>6, <2>8, <2>9 DEF StandsAs
    <2> QED
      BY <2>3, <2>6, <2>7, <2>8, <2>9, <2>10
  <1> QED
    BY <1>2, <1>3, DecisionStep

\* The call that creates a request prompts once, whatever the row's later life.
LEMMA CallsStep ==
    ASSUME TypeOK, UnusedIsBlank, Bodies, LocksProtect, CallsFollowRequests, [Next]_vars
    PROVE  CallsFollowRequests'
  <1>1. /\ requests \in [Requests -> RequestRow] /\ prompts \in [Requests -> Nat]
        /\ calls \in [Requests -> {"none", "intent", "sent", "over"}]
    BY Types
  <1> SUFFICES ASSUME NEW q \in Requests
               PROVE  /\ calls'[q] = "none" <=> requests'[q].status = "NONE"
                      /\ calls'[q] \in {"none", "intent"} => prompts'[q] = 0
                      /\ prompts'[q] <= 1
    BY DEF CallsFollowRequests
  <1>2. /\ calls[q] = "none" <=> requests[q].status = "NONE"
        /\ calls[q] \in {"none", "intent"} => prompts[q] = 0
        /\ prompts[q] <= 1 /\ prompts[q] \in Nat /\ requests[q] \in RequestRow
    BY <1>1 DEF CallsFollowRequests
  <1>3. requests[q].status # "NONE" => requests'[q].status # "NONE"
    BY DecisionStep
  <1>4. ASSUME NEW r \in Requests, Initiate(r)
        PROVE  /\ prompts'[q] = prompts[q]
               /\ r = q => calls'[q] = "intent" /\ requests'[q].status # "NONE" /\ prompts[q] = 0
               /\ r # q => calls'[q] = calls[q] /\ requests'[q] = requests[q]
    BY <1>1, <1>2, <1>4 DEF Initiate, RequestRow
  <1>5. ASSUME NEW r \in Requests, Prompt(r)
        PROVE  /\ requests'[q] = requests[q]
               /\ r = q => calls'[q] = "sent" /\ requests[q].status # "NONE" /\ prompts'[q] = 1
               /\ r # q => calls'[q] = calls[q] /\ prompts'[q] = prompts[q]
    BY <1>1, <1>2, <1>5 DEF Prompt
  <1>6. ASSUME NEW r \in Requests, EndCall(r), calls[r] # "none",
               requests'[q].status = "NONE" => requests[q].status = "NONE"
        PROVE  /\ prompts'[q] = prompts[q]
               /\ r = q => calls'[q] = "over" /\ requests'[q].status # "NONE"
               /\ r # q => calls'[q] = calls[q]
    BY <1>1, <1>2, <1>6 DEF EndCall
  <1>7. ASSUME requests[q].status = "NONE", requests'[q].status # "NONE"
        PROVE  Initiate(q)
    <2>1. requests'[q] # requests[q]
      BY <1>7
    <2>2. ASSUME NEW r \in Requests, RecordAnswer(r) PROVE FALSE
      BY <1>1, <1>7, <2>1, <2>2 DEF RecordAnswer, Unresolved
    <2>3. ASSUME NEW r \in Requests, RecordError(r) PROVE FALSE
      BY <1>1, <1>2, <1>7, <2>1, <2>3 DEF RecordError, RequestRow
    <2>4. ASSUME NEW r \in Requests, NEW k \in Requests, Identify(r, k) PROVE FALSE
      BY <1>1, <1>7, <2>1, <2>4 DEF Identify, Unresolved
    <2>5. ASSUME NEW w \in Workers, NEW r \in Requests, Decline(w, r) PROVE FALSE
      BY <1>1, <1>7, <2>1, <2>5 DEF Decline, Undecided, Unresolved
    <2>6. ASSUME NEW w \in Workers, Settle(w) PROVE FALSE
      <3>1. requests[txns[w].request].status # "NONE" /\ txns[w].request \in Requests
        BY <2>6, SettleEffect DEF Undecided, Unresolved
      <3> QED
        BY <1>1, <1>7, <2>1, <2>6, <3>1, SettleEffect
    <2>7. ASSUME NEW r \in Requests, Initiate(r) PROVE Initiate(q)
      BY <1>1, <2>1, <2>7 DEF Initiate
    <2> QED
      BY <2>1, <2>2, <2>3, <2>4, <2>5, <2>6, <2>7
         DEF Next, vars, Admit, Ingest, Match, Ignore, Prompt, LoseCall, Receive, Verify, Reject, Open, Replay, Locate,
             Look, Confirm, Fail, Crash
  <1> DEFINE Goal == /\ calls'[q] = "none" <=> requests'[q].status = "NONE"
                     /\ calls'[q] \in {"none", "intent"} => prompts'[q] = 0
                     /\ prompts'[q] <= 1
  <1>8. ASSUME NEW r \in Requests, Initiate(r) PROVE Goal
    BY <1>2, <1>4, <1>8
  <1>9. ASSUME NEW r \in Requests, Prompt(r) PROVE Goal
    BY <1>2, <1>5, <1>9
  <1>10. ASSUME NEW r \in Requests, RecordAnswer(r) \/ RecordError(r) \/ LoseCall(r) PROVE Goal
    <2>1. EndCall(r) /\ calls[r] # "none"
      BY <1>10 DEF RecordAnswer, RecordError, LoseCall
    <2>2. requests'[q].status = "NONE" => requests[q].status = "NONE"
      BY <1>3
    <2>3. requests[q].status = "NONE" => requests'[q].status = "NONE"
      <3> SUFFICES ASSUME requests[q].status = "NONE", requests'[q].status # "NONE" PROVE FALSE
        OBVIOUS
      <3>1. Initiate(q)
        BY <1>7
      <3>2. calls'[q] = "intent"
        BY <1>1, <3>1 DEF Initiate
      <3>3. r = q => calls'[q] = "over"
        BY <1>6, <2>1, <2>2
      <3>4. r # q => calls'[q] = calls[q]
        BY <1>6, <2>1, <2>2
      <3> QED
        BY <1>2, <3>2, <3>3, <3>4
    <2> QED
      BY <1>2, <1>6, <2>1, <2>2, <2>3
  <1>11. CASE calls' = calls /\ prompts' = prompts
    <2>1. requests[q].status = "NONE" => requests'[q].status = "NONE"
      <3> SUFFICES ASSUME requests[q].status = "NONE", requests'[q].status # "NONE" PROVE FALSE
        OBVIOUS
      <3>1. calls'[q] = "intent"
        BY <1>1, <1>7 DEF Initiate
      <3> QED
        BY <1>2, <1>11, <3>1
    <2> QED
      BY <1>2, <1>3, <1>11, <2>1
  <1> QED
    <2> HIDE DEF Goal
    <2> DEFINE Calling == \E r \in Requests :
                              Initiate(r) \/ Prompt(r) \/ RecordAnswer(r) \/ RecordError(r) \/ LoseCall(r)
               Same == calls' = calls /\ prompts' = prompts
    <2>1. ASSUME NEW s \in Students, Admit(s) PROVE Same
      BY <2>1 DEF Admit
    <2>2. ASSUME NEW x \in Receipts, NEW a \in Amounts, NEW s \in Students \cup {None}, Ingest(x, a, s) PROVE Same
      BY <2>2 DEF Ingest
    <2>3. ASSUME NEW x \in Receipts, (\E s \in Students : Match(x, s)) \/ Ignore(x) PROVE Same
      BY <2>3 DEF Match, Ignore
    <2>4. ASSUME NEW r \in Requests, NEW k \in Requests, Identify(r, k) PROVE Same
      BY <2>4 DEF Identify
    <2>5. ASSUME NEW c \in Callbacks, (\E p \in Payloads : Receive(c, p)) \/ Verify(c) \/ Reject(c) PROVE Same
      BY <2>5 DEF Receive, Verify, Reject
    <2>6. ASSUME NEW w \in Workers, NEW c \in Callbacks, Open(w, c) PROVE Same
      BY <2>6 DEF Open
    <2>7. ASSUME NEW w \in Workers, NEW r \in Requests, Replay(w, r) \/ Decline(w, r) \/ Locate(w, r) PROVE Same
      BY <2>7 DEF Replay, Decline, Locate, Finish
    <2>8. ASSUME NEW w \in Workers, Look(w) \/ Settle(w) \/ Confirm(w) \/ Fail(w) \/ Crash(w) PROVE Same
      BY <2>8 DEF Look, Settle, Confirm, Fail, Crash, Finish
    <2>9. ASSUME vars' = vars PROVE Same
      BY <2>9 DEF vars
    <2>10. ASSUME Calling PROVE Goal
      <3>1. PICK r \in Requests : Initiate(r) \/ Prompt(r) \/ RecordAnswer(r) \/ RecordError(r) \/ LoseCall(r)
        BY <2>10
      <3> QED
        BY <1>8, <1>9, <1>10, <3>1
    <2>11. ASSUME Same PROVE Goal
      BY <1>11, <2>11 DEF Goal
    <2>12. Next \/ vars' = vars
      OBVIOUS
    <2> HIDE DEF Same
    <2>13. Next => Calling \/ Same
      BY <2>1, <2>2, <2>3, <2>4, <2>5, <2>6, <2>7, <2>8 DEF Next
    <2>14. Goal
      <3> HIDE DEF Calling
      <3> QED
        BY <2>9, <2>10, <2>11, <2>12, <2>13
    <2> QED
      BY <2>14 DEF Goal

\* Both invariants hold together.
LEMMA InboxInvariant == Spec => [](ReconciliationInv /\ InboxInv)
  <1>1. Init => InboxInv
    BY DEF Init, InboxInv, InboxProtects, DecidedIsNamed, Decided, CallsFollowRequests, ProcessedCallbacksStand,
           DecisionsAreEvidenced, Idle, NoRequest, NoCallback
  <1>2. ReconciliationInv /\ InboxInv /\ [Next]_vars => InboxInv'
    BY InboxStep, NamedStep, ProcessedStep, EvidenceStep, CallsStep DEF InboxInv, ReconciliationInv
  <1> QED
    BY InitInv, InvStep, <1>1, <1>2, PTL DEF Spec

(* A callback acknowledged as processed is never void: what it reported took
   place and still stands (process_mpesa_callback), for any number of callbacks
   of any bodies. *)
THEOREM ProcessedStand == Spec => []ProcessedCallbacksStand
  <1>1. InboxInv => ProcessedCallbacksStand
    BY DEF InboxInv
  <1> QED
    BY InboxInvariant, <1>1, PTL

(* No request is decided but by a verified callback that is kept as processed
   and says what the row says, whoever rejects, repeats or delays callbacks
   (process_mpesa_callback, reject_mpesa_callback). *)
THEOREM DecisionsEvidenced == Spec => []DecisionsAreEvidenced
  <1>1. InboxInv => DecisionsAreEvidenced
    BY DEF InboxInv
  <1> QED
    BY InboxInvariant, <1>1, PTL

(* A payer is prompted at most once per idempotency key, for a request on file,
   wherever its call is lost (initiate_stk_push). *)
THEOREM PayerPromptedOnce == Spec => []PromptedOnce
  <1>1. ReconciliationInv /\ InboxInv => PromptedOnce
    <2> SUFFICES ASSUME ReconciliationInv, InboxInv, NEW r \in Requests
                 PROVE  prompts[r] <= 1 /\ (prompts[r] = 1 => requests[r].status # "NONE")
      BY DEF PromptedOnce
    <2>1. prompts[r] \in Nat /\ calls[r] \in {"none", "intent", "sent", "over"}
      BY Types DEF ReconciliationInv
    <2> QED
      BY <2>1 DEF InboxInv, CallsFollowRequests
  <1> QED
    BY InboxInvariant, <1>1, PTL
=============================================================================
