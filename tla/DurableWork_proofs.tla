------------------------- MODULE DurableWork_proofs -------------------------
(* A row is never worked on twice at a time, however tasks are killed,     *)
(* time passes, rows are reclaimed and dead-lettered rows are retried: for *)
(* any number of rows, workers, kills and retries, any lease and any time  *)
(* limit within it. Rows a retry was saved over that were FAILED no longer *)
(* are the exception the code allows: of them, no attempt is shared.       *)
EXTENDS DurableWork, TLAPS

USE LimitsAssumption, BackoffAssumption

\* What a stage says of the rest of a task.
TaskShapes ==
    \A w \in Workers :
        /\ tasks[w].stage \in {"idle", "next"} => tasks[w].item = NoItem
        /\ tasks[w].stage = "idle" => tasks[w].batch = {}
        /\ tasks[w].stage \in {"returned", "raised"} => tasks[w].item \in Items
        /\ tasks[w].item \notin tasks[w].batch

\* The inductive core: the lease of a row outlives the task that works on
\* its current attempt.
LeasesOutliveTasks ==
    \A w \in Workers : \A i \in Unfinished(w) :
        rows[i.row].status = "PROCESSING" /\ rows[i.row].attempts = i.attempt => rows[i.row].lease > tasks[w].left

\* A task holds attempts that were claimed, one of a row.
ItemsAreClaimed ==
    \A w \in Workers : \A i \in Unfinished(w) :
        /\ i.attempt <= rows[i.row].attempts
        /\ \A j \in Unfinished(w) : j.row = i.row => j = i

WorkInv == TypeOK /\ TaskShapes /\ ClaimsAreExclusive /\ LeasesOutliveTasks /\ ItemsAreClaimed

\* Tasks record types, in the form the steps below use.
LEMMA TaskTypes ==
    ASSUME TypeOK, TaskShapes, NEW w \in Workers
    PROVE  /\ Unfinished(w) \subseteq Items
           /\ \A i \in Unfinished(w) : i.row \in Rows /\ i.attempt \in Nat \ {0}
           /\ tasks[w].left \in Int
  <1>1. tasks[w] \in Task
    BY DEF TypeOK
  <1>2. tasks[w].batch \subseteq Items /\ tasks[w].item \in Items \cup {NoItem} /\ tasks[w].left \in Int
    BY <1>1 DEF Task
  <1>3. Unfinished(w) \subseteq Items
    BY <1>2 DEF Unfinished
  <1>4. \A i \in Items : i.row \in Rows /\ i.attempt \in Nat \ {0}
    BY DEF Items
  <1> QED
    BY <1>2, <1>3, <1>4

\* No table, no task: nothing to protect.
LEMMA InitWork == Init => WorkInv
  BY DEF Init, WorkInv, TypeOK, TaskShapes, ClaimsAreExclusive, LeasesOutliveTasks, ItemsAreClaimed,
         Unfinished, IdleTask, NoItem, Items, Statuses, Row, Task

\* Types and task shapes are preserved.
LEMMA TypeStep == TypeOK /\ TaskShapes /\ [Next]_vars => TypeOK' /\ TaskShapes'
  <1> SUFFICES ASSUME TypeOK, TaskShapes, [Next]_vars PROVE TypeOK' /\ TaskShapes'
    OBVIOUS
  <1>0. /\ rows \in [Rows -> Row] /\ sent \in [Rows -> SUBSET Nat]
        /\ tasks \in [Workers -> Task] /\ kills \in 0..MaxKills /\ retries \in 0..MaxRetries
        /\ asked \in [Rows -> Nat] /\ retried \in [Rows -> Nat] /\ overridden \subseteq Rows
    BY DEF TypeOK
  <1>1. IdleTask \in Task /\ NoItem \notin Items /\ Lease + 1 \in Nat
    BY DEF IdleTask, Task, NoItem, Items
  \* A step is well typed and well shaped if the row and the task it writes are.
  <1>2. ASSUME NEW w \in Workers, NEW t \in Task, tasks' = [tasks EXCEPT ![w] = t],
               t.stage \in {"idle", "next"} => t.item = NoItem,
               t.stage = "idle" => t.batch = {},
               t.stage \in {"returned", "raised"} => t.item \in Items,
               t.item \notin t.batch
        PROVE  tasks' \in [Workers -> Task] /\ TaskShapes'
    BY <1>0, <1>2 DEF TaskShapes
  <1>3. ASSUME NEW w \in Workers, AfterMark(w)
        PROVE  tasks' \in [Workers -> Task] /\ TaskShapes'
    <2> DEFINE t == IF tasks[w].batch = {} THEN IdleTask
                    ELSE [tasks[w] EXCEPT !.stage = "next", !.item = NoItem]
    <2>1. tasks' = [tasks EXCEPT ![w] = t]
      BY <1>3 DEF AfterMark
    <2>2. CASE tasks[w].batch = {}
      BY <1>1, <1>2, <2>1, <2>2 DEF IdleTask
    <2>3. CASE tasks[w].batch # {}
      <3>1. tasks[w] \in Task
        BY <1>0
      <3>2. t \in Task /\ t.stage = "next" /\ t.item = NoItem /\ t.batch = tasks[w].batch
        BY <2>3, <3>1 DEF Task
      <3>3. t.item \notin t.batch
        BY <1>1, <3>1, <3>2 DEF Task
      <3> HIDE DEF t
      <3> QED
        BY <1>2, <2>1, <3>2, <3>3
    <2> QED
      BY <2>2, <2>3
  <1>4. ASSUME NEW r \in Rows, Publish(r) PROVE TypeOK' /\ TaskShapes'
    <2>1. [rows[r] EXCEPT !.status = "PENDING"] \in Row
      BY <1>0 DEF Row, Statuses
    <2>2. rows' = [rows EXCEPT ![r] = [rows[r] EXCEPT !.status = "PENDING"]] /\ UNCHANGED <<sent, tasks, kills, retryVars>>
      BY <1>4 DEF Publish
    <2> QED
      BY <1>0, <2>1, <2>2 DEF TypeOK, TaskShapes, retryVars
  <1>5. ASSUME NEW w \in Workers, Claim(w) PROVE TypeOK' /\ TaskShapes'
    <2>1. PICK claimed \in SUBSET Due :
              /\ rows' = [r \in Rows |-> IF r \in claimed
                                         THEN [rows[r] EXCEPT !.status = "PROCESSING",
                                                              !.attempts = @ + 1,
                                                              !.lease = Lease + 1]
                                         ELSE rows[r]]
              /\ tasks' = [tasks EXCEPT ![w] =
                     [stage |-> "next", item |-> NoItem, left |-> TimeLimit,
                      batch |-> {[row |-> r, attempt |-> rows[r].attempts + 1] : r \in claimed}]]
      BY <1>5 DEF Claim
    <2>2. ASSUME NEW r \in Rows
          PROVE  /\ [rows[r] EXCEPT !.status = "PROCESSING", !.attempts = @ + 1, !.lease = Lease + 1] \in Row
                 /\ rows[r] \in Row
                 /\ [row |-> r, attempt |-> rows[r].attempts + 1] \in Items
      <3>1. rows[r] \in Row /\ rows[r].attempts \in Nat
        BY <1>0 DEF Row
      <3>2. rows[r].attempts + 1 \in Nat \ {0}
        BY <3>1
      <3>3. [row |-> r, attempt |-> rows[r].attempts + 1] \in Items
        BY <3>2 DEF Items
      <3>4. [rows[r] EXCEPT !.status = "PROCESSING", !.attempts = @ + 1, !.lease = Lease + 1] \in Row
        BY <1>1, <3>1, <3>2 DEF Row, Statuses
      <3> QED
        BY <3>1, <3>3, <3>4
    <2>3. rows' \in [Rows -> Row]
      BY <2>1, <2>2
    <2> DEFINE b == {[row |-> r, attempt |-> rows[r].attempts + 1] : r \in claimed}
               t == [stage |-> "next", item |-> NoItem, left |-> TimeLimit, batch |-> b]
    <2>4. b \subseteq Items
      BY <2>2 DEF Due
    <2>5. tasks' = [tasks EXCEPT ![w] = t]
      BY <2>1
    <2> HIDE DEF b
    <2>6. t \in Task /\ t.stage = "next" /\ t.item = NoItem /\ t.item \notin t.batch
      BY <1>1, <2>4 DEF Task
    <2> HIDE DEF t
    <2>7. tasks' \in [Workers -> Task] /\ TaskShapes'
      BY <1>2, <2>5, <2>6
    <2> QED
      BY <1>0, <1>5, <2>3, <2>7 DEF Claim, TypeOK, retryVars
  <1>6. ASSUME NEW w \in Workers, Work(w) PROVE TypeOK' /\ TaskShapes'
    <2>1. PICK i \in tasks[w].batch, outcome \in {"returned", "raised"}, effect \in BOOLEAN :
              /\ sent' = IF effect THEN [sent EXCEPT ![i.row] = @ \cup {i.attempt}] ELSE sent
              /\ tasks' = [tasks EXCEPT ![w].stage = outcome, ![w].item = i, ![w].batch = @ \ {i}]
      BY <1>6 DEF Work
    <2> DEFINE t == [tasks[w] EXCEPT !.stage = outcome, !.item = i, !.batch = @ \ {i}]
    <2>2. tasks[w] \in Task /\ i \in Items /\ i.row \in Rows /\ i.attempt \in Nat
      BY <1>0 DEF Task, Items
    <2>3. /\ t \in Task /\ t.stage = outcome /\ t.item = i /\ t.item \notin t.batch
      BY <2>2 DEF Task
    <2>4. tasks' = [tasks EXCEPT ![w] = t]
      BY <1>0, <2>1
    <2> HIDE DEF t
    <2>5. tasks' \in [Workers -> Task] /\ TaskShapes'
      BY <1>2, <2>2, <2>3, <2>4
    <2>6. sent' \in [Rows -> SUBSET Nat]
      BY <1>0, <2>1, <2>2
    <2> QED
      BY <1>0, <1>6, <2>5, <2>6 DEF Work, TypeOK, retryVars
  <1>7. ASSUME NEW w \in Workers, MarkProcessed(w) PROVE TypeOK' /\ TaskShapes'
    <2>1. tasks' \in [Workers -> Task] /\ TaskShapes'
      BY <1>3, <1>7 DEF MarkProcessed
    <2>2. tasks[w].item.row \in Rows
      BY <1>7 DEF MarkProcessed, TaskShapes, Items
    <2>3. ASSUME NEW r \in Rows PROVE [[rows[r] EXCEPT !.status = "PROCESSED"] EXCEPT !.lease = 0] \in Row
      BY <1>0 DEF Row, Statuses
    <2>4. rows' = [[rows EXCEPT ![tasks[w].item.row].status = "PROCESSED"]
                         EXCEPT ![tasks[w].item.row].lease = 0]
      BY <1>7 DEF MarkProcessed
    <2>5. \A r \in Rows : rows'[r] = IF r = tasks[w].item.row
                                    THEN [[rows[r] EXCEPT !.status = "PROCESSED"] EXCEPT !.lease = 0]
                                    ELSE rows[r]
      BY <1>0, <2>2, <2>4
    <2>6. rows' \in [Rows -> Row]
      BY <1>0, <2>3, <2>4, <2>5
    <2> QED
      BY <1>0, <1>7, <2>1, <2>6 DEF MarkProcessed, TypeOK, retryVars
  <1>8. ASSUME NEW w \in Workers, MarkFailed(w) PROVE TypeOK' /\ TaskShapes'
    <2>1. tasks' \in [Workers -> Task] /\ TaskShapes'
      BY <1>3, <1>8 DEF MarkFailed
    <2> DEFINE i == tasks[w].item
               saved == IF i.attempt >= MaxAttempts
                        THEN [rows[i.row] EXCEPT !.status = "FAILED", !.lease = 0]
                        ELSE [rows[i.row] EXCEPT !.status = "PENDING", !.lease = 0, !.wait = Backoff(i.attempt)]
    <2>2. i.row \in Rows /\ i.attempt \in Nat \ {0}
      BY <1>8 DEF MarkFailed, TaskShapes, Items
    <2>3. rows[i.row] \in Row
      BY <1>0, <2>2
    <2>4. ASSUME i.attempt >= MaxAttempts PROVE saved \in Row
      BY <2>3, <2>4 DEF Row, Statuses
    <2>5. ASSUME ~(i.attempt >= MaxAttempts) PROVE saved \in Row
      <3>1. i.attempt \in 1..MaxAttempts
        BY <2>2, <2>5
      <3>2. Backoff(i.attempt) \in Nat
        BY <3>1
      <3> DEFINE n == Backoff(i.attempt)
      <3> HIDE DEF n
      <3>3. [rows[i.row] EXCEPT !.status = "PENDING", !.lease = 0, !.wait = n] \in Row
        BY <2>3, <3>2 DEF Row, Statuses, n
      <3> QED
        BY <2>5, <3>3 DEF n
    <2>6. saved \in Row
      BY <2>4, <2>5
    <2>7. rows' = [rows EXCEPT ![i.row] = saved]
      BY <1>8 DEF MarkFailed
    <2> HIDE DEF saved
    <2>8. rows' \in [Rows -> Row]
      BY <1>0, <2>6, <2>7
    <2> QED
      BY <1>0, <1>8, <2>1, <2>8 DEF MarkFailed, TypeOK, retryVars
  <1>9. ASSUME NEW w \in Workers, Kill(w) PROVE TypeOK' /\ TaskShapes'
    <2>1. tasks' \in [Workers -> Task] /\ TaskShapes'
      BY <1>1, <1>2, <1>9 DEF Kill, IdleTask
    <2>2. kills' \in 0..MaxKills
      BY <1>0, <1>9 DEF Kill
    <2> QED
      BY <1>0, <1>9, <2>1, <2>2 DEF Kill, TypeOK, retryVars
  <1>10. ASSUME Reap PROVE TypeOK' /\ TaskShapes'
    <2>1. ASSUME NEW r \in Rows PROVE [rows[r] EXCEPT !.status = "PENDING", !.wait = 0] \in Row
      BY <1>0 DEF Row, Statuses
    <2>2. rows' \in [Rows -> Row]
      <3>1. PICK reclaimed \in SUBSET Expired :
                rows' = [r \in Rows |-> IF r \in reclaimed
                                       THEN [rows[r] EXCEPT !.status = "PENDING", !.wait = 0]
                                       ELSE rows[r]]
        BY <1>10 DEF Reap
      <3> QED
        BY <1>0, <2>1, <3>1
    <2> QED
      BY <1>0, <1>10, <2>2 DEF Reap, TypeOK, TaskShapes, retryVars
  <1>11. ASSUME Tick PROVE TypeOK' /\ TaskShapes'
    <2>1. ASSUME NEW r \in Rows PROVE [rows[r] EXCEPT !.wait = Less(@), !.lease = Less(@)] \in Row
      <3>1. rows[r] \in Row /\ rows[r].wait \in Nat /\ rows[r].lease \in Nat
        BY <1>0 DEF Row
      <3>2. Less(rows[r].wait) \in Nat /\ Less(rows[r].lease) \in Nat
        BY <3>1 DEF Less
      <3> QED
        BY <3>1, <3>2 DEF Row
    <2>2. rows' \in [Rows -> Row]
      BY <1>11, <2>1 DEF Tick
    <2>3. ASSUME NEW w \in Workers
          PROVE  /\ [tasks[w] EXCEPT !.left = Less(@)] \in Task
                 /\ [tasks[w] EXCEPT !.left = Less(@)].stage = tasks[w].stage
                 /\ [tasks[w] EXCEPT !.left = Less(@)].item = tasks[w].item
                 /\ [tasks[w] EXCEPT !.left = Less(@)].batch = tasks[w].batch
      BY <1>0 DEF Task, Less
    <2>4. tasks' = [w \in Workers |-> [tasks[w] EXCEPT !.left = Less(@)]]
      BY <1>11 DEF Tick
    <2>5. tasks' \in [Workers -> Task] /\ TaskShapes'
      BY <2>3, <2>4 DEF TaskShapes
    <2> QED
      BY <1>0, <1>11, <2>2, <2>5 DEF Tick, TypeOK, retryVars
  <1>12. ASSUME NEW r \in Rows, LoadFailed(r) PROVE TypeOK' /\ TaskShapes'
    <2>1. retries' \in 0..MaxRetries
      BY <1>0, <1>12 DEF LoadFailed
    <2>2. asked' \in [Rows -> Nat]
      BY <1>0, <1>12 DEF LoadFailed
    <2> QED
      BY <1>0, <1>12, <2>1, <2>2 DEF LoadFailed, TypeOK, TaskShapes
  <1>13. ASSUME NEW r \in Rows, RetryNotification(r) PROVE TypeOK' /\ TaskShapes'
    <2>1. [[rows[r] EXCEPT !.status = "PENDING"] EXCEPT !.wait = 0] \in Row
      BY <1>0 DEF Row, Statuses
    <2>2. rows' = [rows EXCEPT ![r] = [[rows[r] EXCEPT !.status = "PENDING"] EXCEPT !.wait = 0]]
      BY <1>0, <1>13 DEF RetryNotification
    <2>3. asked' \in [Rows -> Nat] /\ retried' \in [Rows -> Nat]
      BY <1>0, <1>13 DEF RetryNotification
    <2>4. overridden' \subseteq Rows /\ rows' \in [Rows -> Row]
      BY <1>0, <1>13, <2>1, <2>2 DEF RetryNotification
    <2> QED
      BY <1>0, <1>13, <2>3, <2>4 DEF RetryNotification, TypeOK, TaskShapes
  <1>14. CASE UNCHANGED vars
    BY <1>14 DEF vars, TypeOK, TaskShapes
  <1> QED
    BY <1>4, <1>5, <1>6, <1>7, <1>8, <1>9, <1>10, <1>11, <1>12, <1>13, <1>14 DEF Next, TaskStep

\* A step that gives no task a new row, and writes a row that a task still has
\* to mark only if a retry was saved over it, then not to PROCESSING.
KeepsClaims ==
    /\ overridden \subseteq overridden'
    /\ \A w \in Workers :
        /\ Unfinished(w)' \subseteq Unfinished(w)
        /\ tasks'[w].left = tasks[w].left \/ Unfinished(w)' = {}
        /\ \A i \in Unfinished(w)' :
            /\ rows'[i.row].attempts = rows[i.row].attempts
            /\ rows'[i.row] = rows[i.row] \/ (i.row \in overridden' /\ rows'[i.row].status # "PROCESSING")

\* Such a step preserves exclusiveness and the leases.
LEMMA KeptClaims ==
    ClaimsAreExclusive /\ LeasesOutliveTasks /\ ItemsAreClaimed /\ KeepsClaims
        => ClaimsAreExclusive' /\ LeasesOutliveTasks' /\ ItemsAreClaimed'
  <1> SUFFICES ASSUME ClaimsAreExclusive, LeasesOutliveTasks, ItemsAreClaimed, KeepsClaims
               PROVE  ClaimsAreExclusive' /\ LeasesOutliveTasks' /\ ItemsAreClaimed'
    OBVIOUS
  <1>1. ASSUME NEW w \in Workers, NEW i \in Unfinished(w)', i.row \notin overridden'
        PROVE  /\ rows'[i.row].status = "PROCESSING"
               /\ rows'[i.row].lease > 0
               /\ rows'[i.row].attempts = i.attempt
    <2>1. i \in Unfinished(w) /\ i.row \notin overridden /\ rows'[i.row] = rows[i.row]
      BY <1>1 DEF KeepsClaims
    <2> QED
      BY <2>1 DEF ClaimsAreExclusive
  <1>2. ASSUME NEW w \in Workers, NEW i \in Unfinished(w)', NEW v \in Workers \ {w}, NEW j \in Unfinished(v)'
        PROVE  (i.row \notin overridden' => j.row # i.row) /\ i # j
    BY DEF ClaimsAreExclusive, KeepsClaims
  <1>3. ASSUME NEW w \in Workers, NEW i \in Unfinished(w)',
               rows'[i.row].status = "PROCESSING", rows'[i.row].attempts = i.attempt
        PROVE  rows'[i.row].lease > tasks'[w].left
    <2>1. i \in Unfinished(w) /\ rows'[i.row] = rows[i.row] /\ tasks'[w].left = tasks[w].left
      BY <1>3 DEF KeepsClaims
    <2> QED
      BY <1>3, <2>1 DEF LeasesOutliveTasks
  <1>4. ItemsAreClaimed'
    BY DEF ItemsAreClaimed, KeepsClaims
  <1> QED
    BY <1>1, <1>2, <1>3, <1>4 DEF ClaimsAreExclusive, LeasesOutliveTasks

\* A task has one item of a row, and no other task has one of a row that no
\* retry was saved over.
LEMMA OneItemPerRow ==
    ASSUME ClaimsAreExclusive, ItemsAreClaimed,
           NEW w \in Workers, NEW v \in Workers,
           NEW i \in Unfinished(w), NEW j \in Unfinished(v), i.row = j.row,
           v = w \/ i.row \notin overridden
    PROVE  v = w /\ i = j
  BY DEF ClaimsAreExclusive, ItemsAreClaimed

\* Marking an item takes it, and nothing else, off the task's hands.
LEMMA MarkingKeepsClaims ==
    ASSUME TypeOK, TaskShapes, ClaimsAreExclusive, ItemsAreClaimed, NEW w \in Workers,
           tasks[w].item \in Items, AfterMark(w), overridden' = overridden,
           rows' \in [Rows -> Row],
           \A r \in Rows : r # tasks[w].item.row => rows'[r] = rows[r],
           rows'[tasks[w].item.row].attempts = rows[tasks[w].item.row].attempts,
           rows'[tasks[w].item.row].status # "PROCESSING"
    PROVE  KeepsClaims
  <1>1. tasks \in [Workers -> Task] /\ NoItem \notin Items
    BY DEF TypeOK, NoItem, Items
  <1>2. \A v \in Workers \ {w} : tasks'[v] = tasks[v]
    BY <1>1 DEF AfterMark
  <1>3. \A v \in Workers \ {w} : Unfinished(v)' = Unfinished(v)
    BY <1>2 DEF Unfinished
  <1>4. Unfinished(w) = tasks[w].batch \cup {tasks[w].item}
    BY <1>1 DEF Unfinished
  <1>5. tasks[w].item \notin tasks[w].batch
    BY DEF TaskShapes
  <1>6. /\ Unfinished(w)' = tasks[w].batch
        /\ tasks'[w].left = tasks[w].left \/ Unfinished(w)' = {}
    <2>1. CASE tasks[w].batch = {}
      BY <1>1, <2>1 DEF AfterMark, Unfinished, IdleTask
    <2>2. CASE tasks[w].batch # {}
      <3>1. tasks'[w] = [tasks[w] EXCEPT !.stage = "next", !.item = NoItem]
        BY <1>1, <2>2 DEF AfterMark
      <3>2. tasks'[w].item = NoItem /\ tasks'[w].batch = tasks[w].batch /\ tasks'[w].left = tasks[w].left
        BY <1>1, <3>1 DEF Task
      <3> QED
        BY <3>2 DEF Unfinished
    <2> QED
      BY <2>1, <2>2
  <1>7. ASSUME NEW v \in Workers, NEW i \in Unfinished(v)'
        PROVE  /\ i \in Unfinished(v) /\ rows'[i.row].attempts = rows[i.row].attempts
               /\ rows'[i.row] = rows[i.row] \/ (i.row \in overridden' /\ rows'[i.row].status # "PROCESSING")
    <2>1. i \in Unfinished(v)
      BY <1>3, <1>4, <1>6
    <2>2. i.row \notin overridden => i.row # tasks[w].item.row
      <3> SUFFICES ASSUME i.row \notin overridden, i.row = tasks[w].item.row PROVE FALSE
        OBVIOUS
      <3>1. v = w /\ i = tasks[w].item
        BY <1>4, <2>1, OneItemPerRow
      <3> QED
        BY <1>5, <1>6, <3>1
    <2>3. i.row \in Rows
      BY <2>1, TaskTypes
    <2> QED
      BY <2>1, <2>2, <2>3
  <1> QED
    BY <1>2, <1>6, <1>7 DEF KeepsClaims

\* Claiming, working, marking, being killed, reclaiming, retrying and the
\* passing of time keep the claims exclusive.
LEMMA ExclusiveStep ==
    WorkInv /\ TypeOK' /\ [Next]_vars => ClaimsAreExclusive' /\ LeasesOutliveTasks' /\ ItemsAreClaimed'
  <1> DEFINE Done == ClaimsAreExclusive' /\ LeasesOutliveTasks' /\ ItemsAreClaimed'
  <1> SUFFICES ASSUME WorkInv, TypeOK', [Next]_vars PROVE Done
    OBVIOUS
  <1> HIDE DEF Done
  <1>0. /\ TypeOK /\ TaskShapes /\ ClaimsAreExclusive /\ LeasesOutliveTasks /\ ItemsAreClaimed
        /\ rows \in [Rows -> Row] /\ tasks \in [Workers -> Task] /\ rows' \in [Rows -> Row]
        /\ IdleTask \in Task /\ NoItem \notin Items /\ Lease + 1 \in Nat
    BY DEF WorkInv, TypeOK, IdleTask, Task, NoItem, Items
  <1>1. \A w \in Workers : \A i \in Unfinished(w) :
           /\ i.row \in Rows /\ i.attempt \in Nat
           /\ i.row \notin overridden => rows[i.row].status = "PROCESSING" /\ rows[i.row].lease > 0
    BY <1>0, TaskTypes DEF ClaimsAreExclusive
  \* A step that leaves the tasks alone, writes no row that is being worked on
  \* and makes none PROCESSING.
  <1>2. ASSUME tasks' = tasks, overridden' = overridden,
               \A r \in Rows : /\ rows'[r].attempts = rows[r].attempts
                               /\ rows'[r] = rows[r] \/ rows'[r].status # "PROCESSING"
                               /\ rows[r].status = "PROCESSING" /\ rows[r].lease > 0 => rows'[r] = rows[r]
        PROVE  KeepsClaims
    BY <1>1, <1>2 DEF KeepsClaims, Unfinished
  <1>3. ASSUME NEW r \in Rows, Publish(r) PROVE KeepsClaims
    <2>1. \A s \in Rows : /\ rows'[s].attempts = rows[s].attempts
                          /\ rows'[s] = rows[s] \/ rows'[s].status # "PROCESSING"
                          /\ rows[s].status = "PROCESSING" => rows'[s] = rows[s]
      BY <1>0, <1>3 DEF Publish, Row
    <2> QED
      BY <1>2, <1>3, <2>1 DEF Publish, retryVars
  <1>4. ASSUME NEW w \in Workers, Work(w) PROVE KeepsClaims
    <2>1. PICK i \in tasks[w].batch, outcome \in {"returned", "raised"} :
              tasks' = [tasks EXCEPT ![w].stage = outcome, ![w].item = i, ![w].batch = @ \ {i}]
      BY <1>4 DEF Work
    <2>2. tasks[w].item = NoItem /\ tasks[w] \in Task /\ i \in Items
      BY <1>0, <1>4 DEF Work, TaskShapes, Task
    <2>3. /\ tasks'[w].item = i /\ tasks'[w].batch = tasks[w].batch \ {i} /\ tasks'[w].left = tasks[w].left
          /\ \A v \in Workers \ {w} : tasks'[v] = tasks[v]
      BY <1>0, <2>1, <2>2 DEF Task
    <2>4. \A v \in Workers : Unfinished(v)' = Unfinished(v) /\ tasks'[v].left = tasks[v].left
      BY <1>0, <2>2, <2>3 DEF Unfinished
    <2> QED
      BY <1>4, <2>4 DEF KeepsClaims, Work, retryVars
  <1>5. ASSUME NEW w \in Workers, MarkProcessed(w) PROVE KeepsClaims
    <2>1. tasks[w].item \in Items /\ tasks[w].item.row \in Rows
      BY <1>0, <1>5 DEF MarkProcessed, TaskShapes, Items
    <2>2. /\ \A r \in Rows : r # tasks[w].item.row => rows'[r] = rows[r]
          /\ rows'[tasks[w].item.row].attempts = rows[tasks[w].item.row].attempts
          /\ rows'[tasks[w].item.row].status # "PROCESSING"
      BY <1>0, <1>5, <2>1 DEF MarkProcessed, Row
    <2> QED
      BY <1>0, <1>5, <2>1, <2>2, MarkingKeepsClaims DEF MarkProcessed, retryVars
  <1>6. ASSUME NEW w \in Workers, MarkFailed(w) PROVE KeepsClaims
    <2>1. tasks[w].item \in Items /\ tasks[w].item.row \in Rows
      BY <1>0, <1>6 DEF MarkFailed, TaskShapes, Items
    <2>2. /\ \A r \in Rows : r # tasks[w].item.row => rows'[r] = rows[r]
          /\ rows'[tasks[w].item.row].attempts = rows[tasks[w].item.row].attempts
          /\ rows'[tasks[w].item.row].status # "PROCESSING"
      BY <1>0, <1>6, <2>1 DEF MarkFailed, Row
    <2> QED
      BY <1>0, <1>6, <2>1, <2>2, MarkingKeepsClaims DEF MarkFailed, retryVars
  <1>7. ASSUME NEW w \in Workers, Kill(w) PROVE KeepsClaims
    <2>1. tasks'[w] = IdleTask /\ \A v \in Workers \ {w} : tasks'[v] = tasks[v]
      BY <1>0, <1>7 DEF Kill
    <2>2. Unfinished(w)' = {} /\ \A v \in Workers \ {w} : Unfinished(v)' = Unfinished(v)
      BY <2>1 DEF Unfinished, IdleTask
    <2> QED
      BY <1>7, <2>1, <2>2 DEF KeepsClaims, Kill, retryVars
  <1>8. ASSUME Reap PROVE KeepsClaims
    <2>1. \A r \in Rows : rows[r].lease > 0 => r \notin Expired
      BY <1>0 DEF Expired, Row
    <2>2. \A r \in Rows : /\ rows[r].lease > 0 => rows'[r] = rows[r]
                          /\ rows'[r].attempts = rows[r].attempts
                          /\ rows'[r] = rows[r] \/ rows'[r].status # "PROCESSING"
      BY <1>0, <1>8, <2>1 DEF Reap, Row
    <2> QED
      BY <1>2, <1>8, <2>2 DEF Reap, retryVars
  <1>9. ASSUME NEW w \in Workers, Claim(w) PROVE Done
    <2>1. PICK claimed \in SUBSET Due :
              /\ rows' = [r \in Rows |-> IF r \in claimed
                                         THEN [rows[r] EXCEPT !.status = "PROCESSING",
                                                              !.attempts = @ + 1,
                                                              !.lease = Lease + 1]
                                         ELSE rows[r]]
              /\ tasks' = [tasks EXCEPT ![w] =
                     [stage |-> "next", item |-> NoItem, left |-> TimeLimit,
                      batch |-> {[row |-> r, attempt |-> rows[r].attempts + 1] : r \in claimed}]]
      BY <1>9 DEF Claim
    <2>2. /\ Unfinished(w)' = {[row |-> r, attempt |-> rows[r].attempts + 1] : r \in claimed}
          /\ tasks'[w].left = TimeLimit
          /\ \A v \in Workers \ {w} : Unfinished(v)' = Unfinished(v) /\ tasks'[v].left = tasks[v].left
          /\ overridden' = overridden
      BY <1>0, <1>9, <2>1 DEF Unfinished, Claim, retryVars
    <2>3. \A r \in claimed : r \in Rows /\ rows[r].status = "PENDING"
      BY <2>1 DEF Due
    <2>4. \A i \in Unfinished(w)' : /\ i.row \in claimed /\ i.attempt = rows[i.row].attempts + 1
                                    /\ i = [row |-> i.row, attempt |-> rows[i.row].attempts + 1]
      BY <2>2
    <2>5. ASSUME NEW r \in claimed
          PROVE  /\ rows'[r].status = "PROCESSING"
                 /\ rows'[r].attempts = rows[r].attempts + 1
                 /\ rows[r].attempts \in Nat
                 /\ rows'[r].lease = Lease + 1
      <3>1. rows[r] \in Row
        BY <1>0, <2>3
      <3>2. rows'[r] = [rows[r] EXCEPT !.status = "PROCESSING", !.attempts = @ + 1, !.lease = Lease + 1]
        BY <2>1, <2>3
      <3> QED
        BY <3>1, <3>2 DEF Row
    <2>6. \A v \in Workers \ {w} : \A i \in Unfinished(v) :
             /\ i.row \notin overridden => i.row \notin claimed
             /\ i.row \notin claimed => rows'[i.row] = rows[i.row]
             /\ i.attempt <= rows[i.row].attempts /\ i.row \in Rows /\ i.attempt \in Nat
      BY <1>0, <1>1, <2>1, <2>3 DEF ItemsAreClaimed
    <2>7. ASSUME NEW v \in Workers, NEW i \in Unfinished(v)'
          PROVE  /\ i.row \notin overridden' =>
                        /\ rows'[i.row].status = "PROCESSING" /\ rows'[i.row].lease > 0
                        /\ rows'[i.row].attempts = i.attempt
                 /\ i.attempt <= rows'[i.row].attempts
                 /\ rows'[i.row].status = "PROCESSING" /\ rows'[i.row].attempts = i.attempt
                        => rows'[i.row].lease > tasks'[v].left
      <3>1. CASE v = w
        BY <2>2, <2>4, <2>5, <3>1
      <3>2. CASE v # w /\ i.row \in claimed
        <4>1. i.attempt <= rows[i.row].attempts /\ i.row \in overridden /\ i.attempt \in Nat
          BY <2>2, <2>6, <3>2
        <4> QED
          BY <2>2, <2>5, <3>2, <4>1
      <3>3. CASE v # w /\ i.row \notin claimed
        BY <1>0, <2>2, <2>6, <3>3 DEF ClaimsAreExclusive, LeasesOutliveTasks
      <3> QED
        BY <3>1, <3>2, <3>3
    \* An attempt just claimed is above those held.
    <2>8. ASSUME NEW v \in Workers, NEW i \in Unfinished(v)', NEW u \in Workers \ {v}, NEW j \in Unfinished(u)'
          PROVE  (i.row \notin overridden' => j.row # i.row) /\ i # j
      <3>1. CASE v = w
        <4>1. /\ j \in Unfinished(u) /\ j.attempt <= rows[j.row].attempts
              /\ i.attempt = rows[i.row].attempts + 1 /\ i.row \in claimed
              /\ j.row \notin overridden => j.row \notin claimed
          BY <2>2, <2>4, <2>6, <3>1
        <4> QED
          BY <2>2, <2>5, <2>6, <4>1, <3>1
      <3>2. CASE u = w
        <4>1. /\ i \in Unfinished(v) /\ i.attempt <= rows[i.row].attempts
              /\ j.attempt = rows[j.row].attempts + 1 /\ j.row \in claimed
              /\ i.row \notin overridden => i.row \notin claimed
          BY <2>2, <2>4, <2>6, <3>2
        <4> QED
          BY <2>2, <2>5, <2>6, <4>1, <3>2
      <3>3. CASE v # w /\ u # w
        BY <1>0, <2>2, <3>3 DEF ClaimsAreExclusive
      <3> QED
        BY <3>1, <3>2, <3>3
    <2>9. ASSUME NEW v \in Workers, NEW i \in Unfinished(v)', NEW j \in Unfinished(v)', j.row = i.row
          PROVE  j = i
      <3>1. CASE v = w
        BY <2>4, <2>9, <3>1
      <3>2. CASE v # w
        BY <1>0, <2>2, <2>9, <3>2 DEF ItemsAreClaimed
      <3> QED
        BY <3>1, <3>2
    <2>10. ClaimsAreExclusive'
      BY <2>7, <2>8 DEF ClaimsAreExclusive
    <2>11. LeasesOutliveTasks'
      BY <2>7 DEF LeasesOutliveTasks
    <2>12. ItemsAreClaimed'
      BY <2>7, <2>9 DEF ItemsAreClaimed
    <2> QED
      BY <2>10, <2>11, <2>12 DEF Done
  <1>10. ASSUME Tick PROVE Done
    <2>1. ASSUME NEW w \in Workers
          PROVE  /\ Unfinished(w)' = Unfinished(w)
                 /\ tasks'[w].left = Less(tasks[w].left)
                 /\ tasks[w].left \in Nat
      <3>1. tasks[w] \in Task /\ tasks'[w] = [tasks[w] EXCEPT !.left = Less(@)]
        BY <1>0, <1>10 DEF Tick
      <3>2. /\ tasks'[w].left = Less(tasks[w].left) /\ tasks[w].left \in Nat
            /\ tasks'[w].batch = tasks[w].batch /\ tasks'[w].item = tasks[w].item
        BY <3>1 DEF Task
      <3> QED
        BY <3>2 DEF Unfinished
    <2>2. ASSUME NEW r \in Rows
          PROVE  /\ rows'[r].status = rows[r].status /\ rows'[r].attempts = rows[r].attempts
                 /\ rows'[r].lease = Less(rows[r].lease) /\ rows[r].lease \in Nat
      <3>1. rows[r] \in Row /\ rows'[r] = [rows[r] EXCEPT !.wait = Less(@), !.lease = Less(@)]
        BY <1>0, <1>10 DEF Tick
      <3> QED
        BY <3>1 DEF Row
    <2>3. ASSUME NEW w \in Workers, NEW i \in Unfinished(w),
                 rows[i.row].status = "PROCESSING", rows[i.row].attempts = i.attempt
          PROVE  rows'[i.row].lease > 0 /\ rows'[i.row].lease > tasks'[w].left
      <3>1. Running(w)
        BY <1>0 DEF Running, TaskShapes, Unfinished
      <3>2. tasks[w].left > 0 /\ rows[i.row].lease > tasks[w].left
        BY <1>0, <1>10, <2>3, <3>1 DEF Tick, LeasesOutliveTasks
      <3>3. i.row \in Rows
        BY <1>1
      <3> QED
        BY <2>1, <2>2, <3>2, <3>3 DEF Less
    <2>4. overridden' = overridden
      BY <1>10 DEF Tick, retryVars
    <2>5. ASSUME NEW w \in Workers, NEW i \in Unfinished(w)'
          PROVE  /\ i \in Unfinished(w) /\ i.row \in Rows
                 /\ rows'[i.row].status = rows[i.row].status /\ rows'[i.row].attempts = rows[i.row].attempts
      BY <1>1, <2>1, <2>2
    <2>6. ClaimsAreExclusive'
      BY <1>0, <2>1, <2>3, <2>4, <2>5 DEF ClaimsAreExclusive
    <2>7. LeasesOutliveTasks'
      BY <2>3, <2>5 DEF LeasesOutliveTasks
    <2>8. ItemsAreClaimed'
      BY <1>0, <2>1, <2>5 DEF ItemsAreClaimed
    <2> QED
      BY <2>6, <2>7, <2>8 DEF Done
  <1>11. ASSUME NEW r \in Rows, LoadFailed(r) PROVE KeepsClaims
    BY <1>2, <1>11 DEF LoadFailed
  <1>12. ASSUME NEW r \in Rows, RetryNotification(r) PROVE KeepsClaims
    <2>1. /\ tasks' = tasks /\ overridden \subseteq overridden'
          /\ rows[r].status # "FAILED" => r \in overridden'
      BY <1>12 DEF RetryNotification
    <2>2. rows'[r].attempts = rows[r].attempts /\ rows'[r].status # "PROCESSING"
      BY <1>0, <1>12 DEF RetryNotification, Row
    <2>3. \A s \in Rows \ {r} : rows'[s] = rows[s]
      BY <1>0, <1>12 DEF RetryNotification
    <2>4. ASSUME NEW w \in Workers, NEW i \in Unfinished(w), i.row = r PROVE r \in overridden'
      BY <1>1, <2>1, <2>4
    <2>5. \A w \in Workers : Unfinished(w)' = Unfinished(w)
      BY <2>1 DEF Unfinished
    <2> QED
      BY <1>1, <2>1, <2>2, <2>3, <2>4, <2>5 DEF KeepsClaims
  <1>13. CASE UNCHANGED vars
    BY <1>0, <1>13 DEF Done, vars, ClaimsAreExclusive, LeasesOutliveTasks, ItemsAreClaimed, Unfinished
  <1>14. KeepsClaims => Done
    BY <1>0, KeptClaims DEF Done
  <1> QED
    BY <1>3, <1>4, <1>5, <1>6, <1>7, <1>8, <1>9, <1>10, <1>11, <1>12, <1>13, <1>14 DEF Next, TaskStep

\* WorkInv is an invariant: types, task shapes, exclusive claims, leases.
LEMMA WorkInvariant == Spec => []WorkInv
  <1>1. WorkInv /\ [Next]_vars => WorkInv'
    BY TypeStep, ExclusiveStep DEF WorkInv
  <1> QED
    BY InitWork, <1>1, PTL DEF Spec

\* Rows, tasks, retries and the record of sent work keep their types.
THEOREM WorkTypeCorrect == Spec => []TypeOK
  <1>1. WorkInv => TypeOK
    BY DEF WorkInv
  <1> QED
    BY WorkInvariant, <1>1, PTL

\* A row is worked on by one live task at a time, at the attempt that task
\* claimed, under a lease that has not run out, unless a retry was saved over
\* it that was FAILED no longer; and no attempt is ever held by two tasks.
THEOREM ExclusiveClaims == Spec => []ClaimsAreExclusive
  <1>1. WorkInv => ClaimsAreExclusive
    BY DEF WorkInv
  <1> QED
    BY WorkInvariant, <1>1, PTL

\* The inductive core of the record of sent work: only claimed attempts are
\* sent, a row's current attempt is sent before the row says so, and the
\* attempt a task still has in its batch is not sent yet.
SentWhenDone ==
    /\ \A r \in Rows :
           /\ rows[r].status = "PROCESSED" => sent[r] # {}
           /\ rows[r].status = "PROCESSED" /\ r \notin overridden => rows[r].attempts \in sent[r]
           /\ sent[r] \subseteq 1..rows[r].attempts
    /\ \A w \in Workers : /\ tasks[w].stage = "returned" => tasks[w].item.attempt \in sent[tasks[w].item.row]
                          /\ \A i \in tasks[w].batch : i.attempt \notin sent[i.row]

\* Nothing is sent, and no row loses an attempt or becomes processed.
SendsNothing ==
    /\ sent' = sent
    /\ overridden \subseteq overridden'
    /\ \A r \in Rows : /\ rows'[r].attempts >= rows[r].attempts
                       /\ rows'[r].status = "PROCESSED" => /\ rows'[r].attempts = rows[r].attempts
                                                           /\ rows[r].status = "PROCESSED"

\* A task keeps what it had, or loses it.
TasksShrink ==
    \A w \in Workers : /\ tasks'[w].batch \subseteq tasks[w].batch
                       /\ tasks'[w].stage = "returned" => tasks'[w].stage = tasks[w].stage /\ tasks'[w].item = tasks[w].item

\* A step that sends nothing and gives no task anything new keeps the record.
LEMMA RecordKept ==
    ASSUME TypeOK, TypeOK', SentWhenDone, SendsNothing, TasksShrink
    PROVE  SentWhenDone'
  <1>1. ASSUME NEW r \in Rows
        PROVE  /\ rows'[r].status = "PROCESSED" => sent'[r] # {}
               /\ rows'[r].status = "PROCESSED" /\ r \notin overridden' => rows'[r].attempts \in sent'[r]
               /\ sent'[r] \subseteq 1..rows'[r].attempts
    <2>1. rows[r].attempts \in Nat /\ rows'[r].attempts \in Nat
      BY DEF TypeOK, Row
    <2>2. /\ sent'[r] = sent[r] /\ overridden \subseteq overridden' /\ rows'[r].attempts >= rows[r].attempts
          /\ rows'[r].status = "PROCESSED" => rows'[r].attempts = rows[r].attempts /\ rows[r].status = "PROCESSED"
      BY DEF SendsNothing
    <2>3. /\ rows[r].status = "PROCESSED" => sent[r] # {}
          /\ rows[r].status = "PROCESSED" /\ r \notin overridden => rows[r].attempts \in sent[r]
      BY DEF SentWhenDone
    <2>4. sent[r] \subseteq 1..rows[r].attempts
      BY DEF SentWhenDone
    <2> QED
      BY <2>1, <2>2, <2>3, <2>4
  <1>2. ASSUME NEW w \in Workers
        PROVE  /\ tasks'[w].stage = "returned" => tasks'[w].item.attempt \in sent'[tasks'[w].item.row]
               /\ \A i \in tasks'[w].batch : i.attempt \notin sent'[i.row]
    BY DEF SentWhenDone, SendsNothing, TasksShrink
  <1> QED
    BY <1>1, <1>2 DEF SentWhenDone

\* Marking a row leaves the task with the rest of its batch.
LEMMA MarkingShrinks ==
    ASSUME TypeOK, NEW w \in Workers, AfterMark(w)
    PROVE  TasksShrink
  <1>1. tasks \in [Workers -> Task]
    BY DEF TypeOK
  <1>2. \A v \in Workers \ {w} : tasks'[v] = tasks[v]
    BY <1>1 DEF AfterMark
  <1>3. tasks'[w].batch \subseteq tasks[w].batch /\ tasks'[w].stage # "returned"
    <2>1. CASE tasks[w].batch = {}
      BY <1>1, <2>1 DEF AfterMark, IdleTask
    <2>2. CASE tasks[w].batch # {}
      <3>1. tasks'[w] = [tasks[w] EXCEPT !.stage = "next", !.item = NoItem]
        BY <1>1, <2>2 DEF AfterMark
      <3> QED
        BY <1>1, <3>1 DEF Task
    <2> QED
      BY <2>1, <2>2
  <1> QED
    BY <1>2, <1>3 DEF TasksShrink

\* Claims take a new attempt, work records the attempt it holds, and only
\* work that was done is marked so.
LEMMA SentStep ==
    ASSUME WorkInv, WorkInv', SentWhenDone, [Next]_vars
    PROVE  SentWhenDone'
  <1>0. /\ TypeOK /\ TypeOK' /\ TaskShapes /\ ClaimsAreExclusive /\ ItemsAreClaimed
        /\ rows \in [Rows -> Row] /\ sent \in [Rows -> SUBSET Nat] /\ tasks \in [Workers -> Task]
        /\ rows' \in [Rows -> Row] /\ IdleTask \in Task /\ NoItem \notin Items
    BY DEF WorkInv, TypeOK, IdleTask, Task, NoItem, Items
  <1>1. \A w \in Workers : \A i \in tasks[w].batch :
           /\ i \in Items /\ i.row \in Rows /\ i.attempt \in Nat \ {0} /\ i \in Unfinished(w)
           /\ i.attempt <= rows[i.row].attempts
    BY <1>0, TaskTypes DEF Unfinished, ItemsAreClaimed
  <1>2. \A w \in Workers : tasks[w].stage \in {"returned", "raised"} =>
           /\ tasks[w].item \in Items /\ tasks[w].item.row \in Rows /\ tasks[w].item \in Unfinished(w)
           /\ tasks[w].item.row \notin overridden => rows[tasks[w].item.row].attempts = tasks[w].item.attempt
    BY <1>0, TaskTypes DEF Unfinished, ClaimsAreExclusive, TaskShapes
  <1>3. \A r \in Rows : rows[r].attempts \in Nat /\ rows'[r].attempts \in Nat
    BY <1>0 DEF Row
  <1>4. ASSUME NEW r \in Rows, Publish(r) PROVE SentWhenDone'
    <2>1. sent' = sent /\ tasks' = tasks /\ rows' = [rows EXCEPT ![r].status = "PENDING"] /\ overridden' = overridden
      BY <1>4 DEF Publish, retryVars
    <2>2. \A s \in Rows : rows'[s].attempts = rows[s].attempts
                          /\ (rows'[s].status = "PROCESSED" => rows[s].status = "PROCESSED")
      BY <1>0, <2>1 DEF Row
    <2>3. SendsNothing /\ TasksShrink
      BY <1>3, <2>1, <2>2 DEF SendsNothing, TasksShrink
    <2> QED
      BY <1>0, <2>3, RecordKept
  <1>5. ASSUME NEW w \in Workers, Claim(w) PROVE SentWhenDone'
    <2>1. PICK claimed \in SUBSET Due :
              /\ rows' = [r \in Rows |-> IF r \in claimed
                                         THEN [rows[r] EXCEPT !.status = "PROCESSING",
                                                              !.attempts = @ + 1,
                                                              !.lease = Lease + 1]
                                         ELSE rows[r]]
              /\ tasks' = [tasks EXCEPT ![w] =
                     [stage |-> "next", item |-> NoItem, left |-> TimeLimit,
                      batch |-> {[row |-> r, attempt |-> rows[r].attempts + 1] : r \in claimed}]]
      BY <1>5 DEF Claim
    <2>2. sent' = sent /\ overridden' = overridden
      BY <1>5 DEF Claim, retryVars
    <2>3. \A r \in claimed : r \in Rows
      BY DEF Due
    <2>4. ASSUME NEW r \in Rows
          PROVE  /\ r \in claimed => rows'[r].status = "PROCESSING" /\ rows'[r].attempts = rows[r].attempts + 1
                 /\ r \notin claimed => rows'[r] = rows[r]
      <3>1. rows[r] \in Row
        BY <1>0
      <3>2. r \in claimed => rows'[r] = [rows[r] EXCEPT !.status = "PROCESSING", !.attempts = @ + 1, !.lease = Lease + 1]
        BY <2>1
      <3> QED
        BY <2>1, <3>1, <3>2 DEF Row
    <2>5. ASSUME NEW r \in Rows
          PROVE  /\ rows'[r].status = "PROCESSED" => sent'[r] # {}
                 /\ rows'[r].status = "PROCESSED" /\ r \notin overridden' => rows'[r].attempts \in sent'[r]
                 /\ sent'[r] \subseteq 1..rows'[r].attempts
                 /\ rows[r].attempts + 1 \notin sent[r]
      <3>1. /\ rows[r].status = "PROCESSED" => sent[r] # {}
            /\ rows[r].status = "PROCESSED" /\ r \notin overridden => rows[r].attempts \in sent[r]
            /\ sent[r] \subseteq 1..rows[r].attempts
        BY DEF SentWhenDone
      <3>2. rows[r].attempts \in Nat
        BY <1>3
      <3>3. sent'[r] = sent[r] /\ overridden' = overridden
        BY <2>2
      <3>4. rows'[r].attempts \in {rows[r].attempts, rows[r].attempts + 1}
        BY <2>4
      <3>5. rows'[r].status = "PROCESSED" => rows'[r] = rows[r]
        BY <2>4
      <3> QED
        BY <3>1, <3>2, <3>3, <3>4, <3>5
    <2>6. ASSUME NEW v \in Workers
          PROVE  /\ tasks'[v].stage = "returned" => tasks'[v].item.attempt \in sent'[tasks'[v].item.row]
                 /\ \A i \in tasks'[v].batch : i.attempt \notin sent'[i.row]
      <3>1. CASE v = w
        <4>1. /\ tasks'[v].stage = "next"
              /\ tasks'[v].batch = {[row |-> r, attempt |-> rows[r].attempts + 1] : r \in claimed}
          BY <1>0, <2>1, <3>1
        <4> QED
          BY <2>2, <2>3, <2>5, <4>1
      <3>2. CASE v # w
        <4>1. tasks'[v] = tasks[v]
          BY <1>0, <2>1, <3>2
        <4> QED
          BY <2>2, <4>1 DEF SentWhenDone
      <3> QED
        BY <3>1, <3>2
    <2> QED
      BY <2>5, <2>6 DEF SentWhenDone
  <1>6. ASSUME NEW w \in Workers, Work(w) PROVE SentWhenDone'
    <2>1. PICK i \in tasks[w].batch, outcome \in {"returned", "raised"}, effect \in BOOLEAN :
              /\ outcome = "returned" => effect
              /\ sent' = IF effect THEN [sent EXCEPT ![i.row] = @ \cup {i.attempt}] ELSE sent
              /\ tasks' = [tasks EXCEPT ![w].stage = outcome, ![w].item = i, ![w].batch = @ \ {i}]
      BY <1>6 DEF Work
    <2>2. /\ tasks'[w].item = i /\ tasks'[w].batch = tasks[w].batch \ {i} /\ tasks'[w].stage = outcome
          /\ \A v \in Workers \ {w} : tasks'[v] = tasks[v]
      BY <1>0, <2>1 DEF Task
    <2>3. i.row \in Rows /\ i.attempt \in Nat \ {0} /\ i.attempt <= rows[i.row].attempts /\ i \in Unfinished(w)
      BY <1>1
    <2>4. ASSUME NEW r \in Rows
          PROVE  /\ sent[r] \subseteq sent'[r]
                 /\ sent'[r] \subseteq sent[r] \cup {i.attempt}
                 /\ r # i.row => sent'[r] = sent[r]
                 /\ effect => i.attempt \in sent'[i.row]
      BY <1>0, <2>1, <2>3
    <2>5. rows' = rows /\ overridden' = overridden
      BY <1>6 DEF Work, retryVars
    <2>6. ASSUME NEW r \in Rows
          PROVE  /\ rows'[r].status = "PROCESSED" => sent'[r] # {}
                 /\ rows'[r].status = "PROCESSED" /\ r \notin overridden' => rows'[r].attempts \in sent'[r]
                 /\ sent'[r] \subseteq 1..rows'[r].attempts
      <3>1. /\ rows[r].status = "PROCESSED" => sent[r] # {}
            /\ rows[r].status = "PROCESSED" /\ r \notin overridden => rows[r].attempts \in sent[r]
            /\ sent[r] \subseteq 1..rows[r].attempts
        BY DEF SentWhenDone
      <3>2. CASE r = i.row
        BY <1>3, <2>3, <2>4, <2>5, <3>1, <3>2
      <3>3. CASE r # i.row
        BY <2>4, <2>5, <3>1, <3>3
      <3> QED
        BY <3>2, <3>3
    <2>7. ASSUME NEW v \in Workers, NEW j \in tasks'[v].batch PROVE j.attempt \notin sent'[j.row]
      <3>1. j \in tasks[v].batch /\ (v = w => j # i)
        BY <2>2
      <3>2. j # i
        <4>1. j \in Unfinished(v)
          BY <1>1, <3>1
        <4> QED
          BY <1>0, <2>3, <3>1, <4>1 DEF ClaimsAreExclusive
      <3>3. j \in Items /\ i \in Items /\ j.row \in Rows /\ j.attempt \notin sent[j.row]
        BY <1>1, <3>1 DEF SentWhenDone
      <3>4. j.row # i.row \/ j.attempt # i.attempt
        BY <3>2, <3>3 DEF Items
      <3> QED
        BY <2>4, <3>3, <3>4
    <2>8. ASSUME NEW v \in Workers, tasks'[v].stage = "returned"
          PROVE  tasks'[v].item.attempt \in sent'[tasks'[v].item.row]
      <3>1. CASE v = w
        BY <2>1, <2>2, <2>3, <2>4, <2>8, <3>1
      <3>2. CASE v # w
        <4>1. tasks'[v] = tasks[v] /\ tasks[v].stage = "returned"
          BY <2>2, <2>8, <3>2
        <4>2. tasks[v].item.row \in Rows /\ tasks[v].item.attempt \in sent[tasks[v].item.row]
          BY <1>2, <4>1 DEF SentWhenDone
        <4> QED
          BY <2>4, <4>1, <4>2
      <3> QED
        BY <3>1, <3>2
    <2> QED
      BY <2>6, <2>7, <2>8 DEF SentWhenDone
  <1>7. ASSUME NEW w \in Workers, MarkProcessed(w) PROVE SentWhenDone'
    <2>1. /\ tasks[w].item.row \in Rows /\ tasks[w].stage = "returned"
          /\ tasks[w].item.row \notin overridden => rows[tasks[w].item.row].attempts = tasks[w].item.attempt
          /\ tasks[w].item.attempt \in sent[tasks[w].item.row]
      BY <1>2, <1>7 DEF MarkProcessed, SentWhenDone
    <2>2. /\ rows' = [rows EXCEPT ![tasks[w].item.row].status = "PROCESSED", ![tasks[w].item.row].lease = 0]
          /\ sent' = sent /\ AfterMark(w) /\ overridden' = overridden
      BY <1>7 DEF MarkProcessed, retryVars
    <2>3. \A r \in Rows : /\ rows'[r].attempts = rows[r].attempts
                          /\ r # tasks[w].item.row => rows'[r] = rows[r]
      BY <1>0, <2>1, <2>2 DEF Row
    <2>4. TasksShrink
      BY <1>0, <2>2, MarkingShrinks
    <2>5. ASSUME NEW r \in Rows
          PROVE  /\ rows'[r].status = "PROCESSED" => sent'[r] # {}
                 /\ rows'[r].status = "PROCESSED" /\ r \notin overridden' => rows'[r].attempts \in sent'[r]
                 /\ sent'[r] \subseteq 1..rows'[r].attempts
      <3>1. /\ rows[r].status = "PROCESSED" => sent[r] # {}
            /\ rows[r].status = "PROCESSED" /\ r \notin overridden => rows[r].attempts \in sent[r]
            /\ sent[r] \subseteq 1..rows[r].attempts
        BY DEF SentWhenDone
      <3>2. rows'[r].attempts = rows[r].attempts /\ sent'[r] = sent[r] /\ overridden' = overridden
        BY <2>2, <2>3
      <3>3. r # tasks[w].item.row => rows'[r] = rows[r]
        BY <2>3
      <3>4. r = tasks[w].item.row => /\ sent[r] # {}
                                     /\ r \notin overridden => rows[r].attempts \in sent[r]
        BY <2>1
      <3> QED
        BY <3>1, <3>2, <3>3, <3>4
    <2>6. ASSUME NEW v \in Workers
          PROVE  /\ tasks'[v].stage = "returned" => tasks'[v].item.attempt \in sent'[tasks'[v].item.row]
                 /\ \A i \in tasks'[v].batch : i.attempt \notin sent'[i.row]
      BY <2>2, <2>4 DEF SentWhenDone, TasksShrink
    <2> QED
      BY <2>5, <2>6 DEF SentWhenDone
  <1>8. ASSUME NEW w \in Workers, MarkFailed(w) PROVE SentWhenDone'
    <2> DEFINE i == tasks[w].item
    <2>1. i.row \in Rows
      BY <1>2, <1>8 DEF MarkFailed
    <2>2. /\ rows' = [rows EXCEPT ![i.row] =
                          IF i.attempt >= MaxAttempts
                          THEN [rows[i.row] EXCEPT !.status = "FAILED", !.lease = 0]
                          ELSE [rows[i.row] EXCEPT !.status = "PENDING", !.lease = 0, !.wait = Backoff(i.attempt)]]
          /\ sent' = sent /\ AfterMark(w) /\ overridden' = overridden
      BY <1>8 DEF MarkFailed, retryVars
    <2>3. rows'[i.row].attempts = rows[i.row].attempts /\ rows'[i.row].status # "PROCESSED"
      BY <1>0, <2>1, <2>2 DEF Row
    <2>4. \A r \in Rows : r # i.row => rows'[r] = rows[r]
      BY <1>0, <2>1, <2>2
    <2>5. SendsNothing
      BY <1>3, <2>2, <2>3, <2>4 DEF SendsNothing
    <2> QED
      BY <1>0, <2>2, <2>5, RecordKept, MarkingShrinks
  <1>9. ASSUME NEW w \in Workers, Kill(w) PROVE SentWhenDone'
    <2>1. SendsNothing
      BY <1>3, <1>9 DEF Kill, SendsNothing, retryVars
    <2>2. TasksShrink
      BY <1>0, <1>9 DEF Kill, TasksShrink, IdleTask
    <2> QED
      BY <1>0, <2>1, <2>2, RecordKept
  <1>10. ASSUME Reap PROVE SentWhenDone'
    <2>1. \A r \in Rows : /\ rows'[r].attempts = rows[r].attempts
                          /\ rows'[r].status = "PROCESSED" => rows[r].status = "PROCESSED"
      BY <1>0, <1>10 DEF Reap, Row
    <2>2. SendsNothing /\ TasksShrink
      <3>1. sent' = sent /\ tasks' = tasks /\ overridden' = overridden
        BY <1>10 DEF Reap, retryVars
      <3> QED
        BY <1>3, <2>1, <3>1 DEF SendsNothing, TasksShrink
    <2> QED
      BY <1>0, <2>2, RecordKept
  <1>11. ASSUME Tick PROVE SentWhenDone'
    <2>1. ASSUME NEW r \in Rows PROVE rows'[r].attempts = rows[r].attempts /\ rows'[r].status = rows[r].status
      <3>1. rows[r] \in Row /\ rows'[r] = [rows[r] EXCEPT !.wait = Less(@), !.lease = Less(@)]
        BY <1>0, <1>11 DEF Tick
      <3> QED
        BY <3>1 DEF Row
    <2>2. ASSUME NEW w \in Workers
          PROVE  /\ tasks'[w].batch = tasks[w].batch /\ tasks'[w].stage = tasks[w].stage
                 /\ tasks'[w].item = tasks[w].item
      <3>1. tasks[w] \in Task /\ tasks'[w] = [tasks[w] EXCEPT !.left = Less(@)]
        BY <1>0, <1>11 DEF Tick
      <3> QED
        BY <3>1 DEF Task
    <2>3. SendsNothing /\ TasksShrink
      <3>1. sent' = sent /\ overridden' = overridden
        BY <1>11 DEF Tick, retryVars
      <3> QED
        BY <1>3, <2>1, <2>2, <3>1 DEF SendsNothing, TasksShrink
    <2> QED
      BY <1>0, <2>3, RecordKept
  <1>12. ASSUME NEW r \in Rows, LoadFailed(r) PROVE SentWhenDone'
    BY <1>12 DEF LoadFailed, SentWhenDone
  <1>13. ASSUME NEW r \in Rows, RetryNotification(r) PROVE SentWhenDone'
    <2>1. \A s \in Rows : /\ rows'[s].attempts = rows[s].attempts
                          /\ rows'[s].status = "PROCESSED" => rows[s].status = "PROCESSED"
      BY <1>0, <1>13 DEF RetryNotification, Row
    <2>2. SendsNothing /\ TasksShrink
      <3>1. sent' = sent /\ tasks' = tasks /\ overridden \subseteq overridden'
        BY <1>13 DEF RetryNotification
      <3> QED
        BY <1>3, <2>1, <3>1 DEF SendsNothing, TasksShrink
    <2> QED
      BY <1>0, <2>2, RecordKept
  <1>14. CASE UNCHANGED vars
    BY <1>14 DEF vars, SentWhenDone
  <1> QED
    BY <1>4, <1>5, <1>6, <1>7, <1>8, <1>9, <1>10, <1>11, <1>12, <1>13, <1>14 DEF Next, TaskStep

\* No task works on the row's current attempt.
Free(r) == \A w \in Workers : \A i \in Unfinished(w) : i.row = r => i.attempt # rows[r].attempts

\* The inductive core of the count of attempts. A row that waits for a claim,
\* or will when its lease runs out, has one attempt in hand; a retry finds a
\* row that used up its MAX_ATTEMPTS, so what is claimed after it can only
\* dead-letter the row again.
OwedRow(r) ==
    /\ rows[r].attempts <= MaxAttempts + kills + retried[r]
    /\ rows[r].status \in {"NONE", "PENDING"} \/ (rows[r].status = "PROCESSING" /\ Free(r))
          => rows[r].attempts <= MaxAttempts - 1 + kills + retried[r]
    /\ rows[r].status = "FAILED" \/ retried[r] > 0 => rows[r].attempts >= MaxAttempts
    /\ asked[r] > 0 /\ retried[r] = 0 => rows[r].status = "FAILED"
    /\ r \in overridden => retried[r] > 0
OwedItems == \A w \in Workers : \A i \in Unfinished(w) : retried[i.row] > 0 => i.attempt > MaxAttempts
OwedInv == OwedItems /\ \A r \in Rows : OwedRow(r)

\* A row whose status, attempts and retries stay, and whose current attempt
\* no task drops, keeps its count.
LEMMA OwedRowKept ==
    ASSUME TypeOK, TypeOK', NEW r \in Rows, OwedRow(r),
           rows'[r].status = rows[r].status, rows'[r].attempts = rows[r].attempts, kills' = kills,
           retried'[r] = retried[r], asked'[r] > 0 => asked[r] > 0, r \in overridden' => r \in overridden,
           Free(r)' => Free(r)
    PROVE  OwedRow(r)'
  <1>1. /\ rows[r].attempts \in Nat /\ kills \in Nat /\ retried[r] \in Nat /\ asked[r] \in Nat /\ asked'[r] \in Nat
    BY DEF TypeOK, Row
  <1> DEFINE f == Free(r)
  <1>2. f' => f
    OBVIOUS
  <1>3. /\ rows[r].status \in {"NONE", "PENDING"} \/ (rows[r].status = "PROCESSING" /\ f)
              => rows[r].attempts <= MaxAttempts - 1 + kills + retried[r]
        /\ rows[r].attempts <= MaxAttempts + kills + retried[r]
        /\ rows[r].status = "FAILED" \/ retried[r] > 0 => rows[r].attempts >= MaxAttempts
        /\ asked[r] > 0 /\ retried[r] = 0 => rows[r].status = "FAILED"
        /\ r \in overridden => retried[r] > 0
    BY DEF OwedRow
  <1> HIDE DEF f
  <1>4. /\ rows'[r].attempts <= MaxAttempts + kills' + retried'[r]
        /\ rows'[r].status \in {"NONE", "PENDING"} \/ (rows'[r].status = "PROCESSING" /\ f')
              => rows'[r].attempts <= MaxAttempts - 1 + kills' + retried'[r]
        /\ rows'[r].status = "FAILED" \/ retried'[r] > 0 => rows'[r].attempts >= MaxAttempts
        /\ asked'[r] > 0 /\ retried'[r] = 0 => rows'[r].status = "FAILED"
        /\ r \in overridden' => retried'[r] > 0
    BY <1>1, <1>2, <1>3
  <1> QED
    BY <1>4 DEF OwedRow, f

\* Every step keeps the count of attempts.
LEMMA OwedStep ==
    ASSUME WorkInv, WorkInv', OwedInv, [Next]_vars
    PROVE  OwedInv'
  <1>0. /\ TypeOK /\ TypeOK' /\ TaskShapes /\ ClaimsAreExclusive /\ ItemsAreClaimed /\ LeasesOutliveTasks
        /\ rows \in [Rows -> Row] /\ tasks \in [Workers -> Task] /\ rows' \in [Rows -> Row]
        /\ kills \in Nat /\ kills' \in Nat /\ asked \in [Rows -> Nat] /\ retried \in [Rows -> Nat]
        /\ asked' \in [Rows -> Nat] /\ retried' \in [Rows -> Nat] /\ IdleTask \in Task
    BY DEF WorkInv, TypeOK, IdleTask, Task, NoItem, Items
  <1>1. \A r \in Rows : rows[r].attempts \in Nat /\ rows'[r].attempts \in Nat
    BY <1>0 DEF Row
  <1>2. \A w \in Workers : \A i \in Unfinished(w) :
           /\ i.row \in Rows /\ i.attempt \in Nat /\ i.attempt <= rows[i.row].attempts
           /\ retried[i.row] > 0 => i.attempt > MaxAttempts
           /\ i.row \notin overridden => rows[i.row].status = "PROCESSING" /\ rows[i.row].attempts = i.attempt
    BY <1>0, TaskTypes DEF ItemsAreClaimed, ClaimsAreExclusive, OwedInv, OwedItems
  <1>3. \A r \in Rows : OwedRow(r)
    BY DEF OwedInv
  \* The claims of the steps that claim nothing.
  <1>4. ASSUME retried' = retried, \A w \in Workers : Unfinished(w)' \subseteq Unfinished(w)
        PROVE  OwedItems'
    BY <1>2, <1>4 DEF OwedItems
  \* A step that leaves tasks, kills and retries alone.
  <1>5. ASSUME NEW r \in Rows, tasks' = tasks, kills' = kills, retried'[r] = retried[r], asked'[r] = asked[r],
               r \in overridden' => r \in overridden,
               rows'[r].status = rows[r].status, rows'[r].attempts = rows[r].attempts
        PROVE  OwedRow(r)'
    <2>1. Free(r)' => Free(r)
      BY <1>5 DEF Free, Unfinished
    <2> QED
      BY <1>0, <1>3, <1>5, <2>1, OwedRowKept
  <1>6. ASSUME NEW r \in Rows, Publish(r) PROVE OwedInv'
    <2>1. tasks' = tasks /\ kills' = kills /\ retried' = retried /\ asked' = asked /\ overridden' = overridden
      BY <1>6 DEF Publish, retryVars
    <2>2. OwedItems'
      BY <1>4, <2>1 DEF Unfinished
    <2>3. rows[r].status = "NONE" /\ rows'[r].status = "PENDING" /\ rows'[r].attempts = rows[r].attempts
      BY <1>0, <1>6 DEF Publish, Row
    <2>4. OwedRow(r)'
      BY <1>0, <1>1, <1>3, <2>1, <2>3 DEF OwedRow
    <2>5. ASSUME NEW s \in Rows \ {r} PROVE OwedRow(s)'
      <3>1. rows'[s] = rows[s]
        BY <1>0, <1>6 DEF Publish
      <3> QED
        BY <1>5, <2>1, <3>1
    <2> QED
      BY <2>2, <2>4, <2>5 DEF OwedInv
  <1>7. ASSUME NEW w \in Workers, Claim(w) PROVE OwedInv'
    <2>1. PICK claimed \in SUBSET Due :
              /\ rows' = [r \in Rows |-> IF r \in claimed
                                         THEN [rows[r] EXCEPT !.status = "PROCESSING",
                                                              !.attempts = @ + 1,
                                                              !.lease = Lease + 1]
                                         ELSE rows[r]]
              /\ tasks' = [tasks EXCEPT ![w] =
                     [stage |-> "next", item |-> NoItem, left |-> TimeLimit,
                      batch |-> {[row |-> r, attempt |-> rows[r].attempts + 1] : r \in claimed}]]
      BY <1>7 DEF Claim
    <2>2. /\ Unfinished(w)' = {[row |-> r, attempt |-> rows[r].attempts + 1] : r \in claimed}
          /\ \A v \in Workers \ {w} : Unfinished(v)' = Unfinished(v)
      BY <1>0, <2>1 DEF Unfinished
    <2>3. kills' = kills /\ retried' = retried /\ asked' = asked /\ overridden' = overridden
      BY <1>7 DEF Claim, retryVars
    <2>4. Unfinished(w) = {}
      BY <1>0, <1>7 DEF Claim, Running, TaskShapes, Unfinished
    <2>5. \A r \in claimed : r \in Rows /\ rows[r].status = "PENDING"
      BY DEF Due
    <2>6. ASSUME NEW r \in claimed
          PROVE  OwedRow(r)' /\ (retried[r] > 0 => rows[r].attempts + 1 > MaxAttempts)
      <3>1. rows'[r] = [rows[r] EXCEPT !.status = "PROCESSING", !.attempts = @ + 1, !.lease = Lease + 1]
        BY <2>1, <2>5
      <3>2. rows'[r].status = "PROCESSING" /\ rows'[r].attempts = rows[r].attempts + 1
        BY <1>0, <2>5, <3>1 DEF Row
      <3>3. ~Free(r)'
        <4>1. [row |-> r, attempt |-> rows[r].attempts + 1] \in Unfinished(w)'
          BY <2>2
        <4> QED
          BY <3>2, <4>1 DEF Free
      <3>4. /\ rows[r].attempts <= MaxAttempts - 1 + kills + retried[r]
            /\ retried[r] > 0 => rows[r].attempts >= MaxAttempts
            /\ asked[r] > 0 => retried[r] > 0
            /\ r \in overridden => retried[r] > 0
        BY <1>0, <1>3, <2>5 DEF OwedRow
      <3>5. r \in Rows /\ rows[r].attempts \in Nat /\ retried[r] \in Nat
        BY <1>0, <1>1, <2>5
      <3> QED
        BY <1>0, <2>3, <3>2, <3>3, <3>4, <3>5 DEF OwedRow
    <2>7. ASSUME NEW r \in Rows, r \notin claimed PROVE OwedRow(r)'
      <3>1. rows'[r] = rows[r]
        BY <2>1, <2>7
      <3>2. Free(r)' => Free(r)
        BY <2>2, <2>4, <3>1 DEF Free
      <3> QED
        BY <1>0, <1>3, <2>3, <3>1, <3>2, OwedRowKept
    <2>8. OwedItems'
      BY <1>2, <2>2, <2>3, <2>6 DEF OwedItems
    <2> QED
      BY <2>6, <2>7, <2>8 DEF OwedInv
  <1>8. ASSUME NEW w \in Workers, Work(w) PROVE OwedInv'
    <2>1. PICK i \in tasks[w].batch, outcome \in {"returned", "raised"} :
              tasks' = [tasks EXCEPT ![w].stage = outcome, ![w].item = i, ![w].batch = @ \ {i}]
      BY <1>8 DEF Work
    <2>2. tasks[w].item = NoItem /\ tasks[w] \in Task /\ i \in Items
      BY <1>0, <1>8 DEF Work, TaskShapes, Task
    <2>3. /\ tasks'[w].item = i /\ tasks'[w].batch = tasks[w].batch \ {i}
          /\ \A v \in Workers \ {w} : tasks'[v] = tasks[v]
      BY <1>0, <2>1, <2>2 DEF Task
    <2>4. NoItem \notin Items
      BY DEF NoItem, Items
    <2>5. \A v \in Workers : Unfinished(v)' = Unfinished(v)
      BY <2>2, <2>3, <2>4 DEF Unfinished
    <2>6. rows' = rows /\ kills' = kills /\ retried' = retried /\ asked' = asked /\ overridden' = overridden
      BY <1>8 DEF Work, retryVars
    <2>7. ASSUME NEW r \in Rows PROVE OwedRow(r)'
      <3>1. Free(r)' => Free(r)
        BY <2>5, <2>6 DEF Free
      <3> QED
        BY <1>0, <1>3, <2>6, <3>1, OwedRowKept
    <2> QED
      BY <1>4, <2>5, <2>6, <2>7 DEF OwedInv
  \* Marking drops the item marked, and settles or postpones its row.
  <1>9. ASSUME NEW w \in Workers, NEW q \in Rows, q = tasks[w].item.row, AfterMark(w), tasks[w].stage \in {"returned", "raised"},
               kills' = kills, retried' = retried, asked' = asked, overridden' = overridden,
               \A r \in Rows : r # q => rows'[r] = rows[r],
               OwedRow(q)'
        PROVE  OwedInv'
    <2>1. \A v \in Workers \ {w} : Unfinished(v)' = Unfinished(v)
      BY <1>0, <1>9 DEF AfterMark, Unfinished
    <2>2. tasks[w].item \in Items /\ Unfinished(w) = tasks[w].batch \cup {tasks[w].item}
      BY <1>0, <1>9 DEF Unfinished, TaskShapes, NoItem, Items
    <2>3. Unfinished(w)' = tasks[w].batch
      <3>1. CASE tasks[w].batch = {}
        BY <1>0, <1>9, <3>1 DEF AfterMark, Unfinished, IdleTask
      <3>2. CASE tasks[w].batch # {}
        <4>1. tasks'[w] = [tasks[w] EXCEPT !.stage = "next", !.item = NoItem]
          BY <1>0, <1>9, <3>2 DEF AfterMark
        <4>2. tasks'[w].item = NoItem /\ tasks'[w].batch = tasks[w].batch
          BY <1>0, <4>1 DEF Task
        <4> QED
          BY <4>2 DEF Unfinished
      <3> QED
        BY <3>1, <3>2
    <2>4. ASSUME NEW r \in Rows, r # q PROVE OwedRow(r)'
      <3>1. rows'[r] = rows[r]
        BY <1>9, <2>4
      <3>2. Free(r)' => Free(r)
        BY <1>9, <2>1, <2>2, <2>3, <2>4, <3>1 DEF Free
      <3>3. kills' = kills /\ retried' = retried /\ asked' = asked /\ overridden' = overridden
        BY <1>9
      <3> QED
        BY <1>0, <1>3, <3>1, <3>2, <3>3, OwedRowKept
    <2>5. OwedItems'
      BY <1>4, <1>9, <2>1, <2>2, <2>3
    <2> QED
      BY <1>9, <2>4, <2>5 DEF OwedInv
  <1>10. ASSUME NEW w \in Workers, tasks[w].stage \in {"returned", "raised"}
         PROVE  tasks[w].item \in Unfinished(w) /\ tasks[w].item.row \in Rows
    <2>1. tasks[w].item \in Unfinished(w)
      BY <1>0, <1>10 DEF Unfinished, TaskShapes, NoItem, Items
    <2> QED
      BY <1>2, <2>1
  <1>11. ASSUME NEW w \in Workers, MarkProcessed(w) PROVE OwedInv'
    <2>1. /\ tasks[w].stage = "returned" /\ AfterMark(w) /\ kills' = kills
          /\ retried' = retried /\ asked' = asked /\ overridden' = overridden
          /\ rows' = [rows EXCEPT ![tasks[w].item.row].status = "PROCESSED", ![tasks[w].item.row].lease = 0]
      BY <1>11 DEF MarkProcessed, retryVars
    <2>2. PICK r \in Rows : r = tasks[w].item.row
      BY <1>10, <2>1
    <2>3. rows'[r].status = "PROCESSED" /\ rows'[r].attempts = rows[r].attempts
      BY <1>0, <2>1, <2>2 DEF Row
    <2>4. \A s \in Rows : s # r => rows'[s] = rows[s]
      BY <1>0, <2>1, <2>2
    \* A row a request has loaded and no request saved is not worked on.
    <2>5. asked[r] > 0 => retried[r] > 0
      BY <1>0, <1>2, <1>3, <1>10, <2>1, <2>2 DEF OwedRow
    <2>6. /\ rows[r].attempts <= MaxAttempts + kills + retried[r]
          /\ retried[r] > 0 => rows[r].attempts >= MaxAttempts
          /\ r \in overridden => retried[r] > 0
      BY <1>3, <2>2 DEF OwedRow
    <2>7. retried[r] \in Nat
      BY <1>0, <2>2
    <2>8. OwedRow(r)'
      BY <2>1, <2>3, <2>5, <2>6, <2>7 DEF OwedRow
    <2> QED
      BY <1>9, <2>1, <2>2, <2>4, <2>8
  <1>12. ASSUME NEW w \in Workers, MarkFailed(w) PROVE OwedInv'
    <2>1. /\ tasks[w].stage = "raised" /\ AfterMark(w) /\ kills' = kills
          /\ retried' = retried /\ asked' = asked /\ overridden' = overridden
      BY <1>12 DEF MarkFailed, retryVars
    <2>2. PICK r \in Rows : r = tasks[w].item.row
      BY <1>10, <2>1
    <2>3. tasks[w].item \in Unfinished(w)
      BY <1>10, <2>1
    <2>4. PICK n \in Nat : n = tasks[w].item.attempt
      BY <1>2, <2>3
    <2>5. rows' = [rows EXCEPT ![r] =
                       IF n >= MaxAttempts
                       THEN [rows[r] EXCEPT !.status = "FAILED", !.lease = 0]
                       ELSE [rows[r] EXCEPT !.status = "PENDING", !.lease = 0, !.wait = Backoff(n)]]
      BY <1>12, <2>2, <2>4 DEF MarkFailed
    <2>6. /\ rows'[r].status = IF n >= MaxAttempts THEN "FAILED" ELSE "PENDING"
          /\ rows'[r].attempts = rows[r].attempts
      BY <1>0, <2>5 DEF Row
    <2>7. \A s \in Rows : s # r => rows'[s] = rows[s]
      BY <1>0, <2>5
    <2>8. asked[r] > 0 => retried[r] > 0
      BY <1>0, <1>2, <1>3, <2>2, <2>3 DEF OwedRow
    <2>9. /\ rows[r].attempts <= MaxAttempts + kills + retried[r]
          /\ r \in overridden => retried[r] > 0
          /\ retried[r] > 0 => rows[r].attempts >= MaxAttempts /\ n > MaxAttempts
          /\ r \notin overridden => rows[r].attempts = n
          /\ n <= rows[r].attempts
      BY <1>2, <1>3, <2>2, <2>3, <2>4 DEF OwedRow
    <2>10. retried[r] \in Nat /\ rows[r].attempts \in Nat
      BY <1>0, <1>1
    \* A retry makes the item one that dead-letters, so a postponed row is as
    \* the item says, below MAX_ATTEMPTS.
    <2>11. OwedRow(r)'
      <3>1. CASE n >= MaxAttempts
        BY <2>1, <2>6, <2>8, <2>9, <2>10, <3>1 DEF OwedRow
      <3>2. CASE ~(n >= MaxAttempts)
        <4>1. retried[r] = 0 /\ r \notin overridden /\ rows[r].attempts = n
          BY <2>9, <2>10, <3>2
        <4>2. ~(asked[r] > 0) /\ rows'[r].status = "PENDING"
          BY <2>6, <2>8, <3>2, <4>1
        <4> QED
          BY <1>0, <2>1, <2>6, <3>2, <4>1, <4>2 DEF OwedRow
      <3> QED
        BY <3>1, <3>2
    <2> QED
      BY <1>9, <2>1, <2>2, <2>7, <2>11
  <1>13. ASSUME NEW w \in Workers, Kill(w) PROVE OwedInv'
    <2>1. rows' = rows /\ kills' = kills + 1 /\ retried' = retried /\ asked' = asked /\ overridden' = overridden
      BY <1>13 DEF Kill, retryVars
    <2>2. ASSUME NEW r \in Rows PROVE OwedRow(r)'
      <3>1. rows[r].attempts \in Nat /\ retried[r] \in Nat
        BY <1>0, <1>1
      <3> QED
        BY <1>0, <1>3, <2>1, <3>1 DEF OwedRow
    <2>3. \A v \in Workers : Unfinished(v)' \subseteq Unfinished(v)
      BY <1>0, <1>13 DEF Kill, Unfinished, IdleTask
    <2> QED
      BY <1>4, <2>1, <2>2, <2>3 DEF OwedInv
  <1>14. ASSUME Reap PROVE OwedInv'
    <2>1. tasks' = tasks /\ kills' = kills /\ retried' = retried /\ asked' = asked /\ overridden' = overridden
      BY <1>14 DEF Reap, retryVars
    <2>2. PICK reclaimed \in SUBSET Expired :
              rows' = [r \in Rows |-> IF r \in reclaimed
                                      THEN [rows[r] EXCEPT !.status = "PENDING", !.wait = 0]
                                      ELSE rows[r]]
      BY <1>14 DEF Reap
    <2>3. ASSUME NEW r \in reclaimed PROVE OwedRow(r)'
      <3>1. r \in Rows /\ rows[r].status = "PROCESSING" /\ rows[r].lease = 0
        BY DEF Expired
      \* A task on its current attempt would still hold the lease.
      <3>2. Free(r)
        <4> SUFFICES ASSUME NEW w \in Workers, NEW i \in Unfinished(w), i.row = r, i.attempt = rows[r].attempts
                     PROVE  FALSE
          BY DEF Free
        <4>1. rows[r].lease > tasks[w].left
          BY <1>0, <3>1 DEF LeasesOutliveTasks
        <4>2. tasks[w].left \in Nat
          BY <1>0 DEF Task
        <4> QED
          BY <3>1, <4>1, <4>2
      <3>3. rows'[r].status = "PENDING" /\ rows'[r].attempts = rows[r].attempts
        BY <1>0, <2>2, <3>1 DEF Row
      <3>4. rows[r].attempts \in Nat /\ retried[r] \in Nat
        BY <1>0, <1>1, <3>1
      <3> QED
        BY <1>0, <1>3, <2>1, <3>1, <3>2, <3>3, <3>4 DEF OwedRow
    <2>4. ASSUME NEW r \in Rows, r \notin reclaimed PROVE OwedRow(r)'
      <3>1. rows'[r] = rows[r]
        BY <2>2, <2>4
      <3> QED
        BY <1>5, <2>1, <3>1
    <2>5. OwedItems'
      BY <1>4, <2>1 DEF Unfinished
    <2> QED
      BY <2>3, <2>4, <2>5 DEF OwedInv
  <1>15. ASSUME Tick PROVE OwedInv'
    <2>1. kills' = kills /\ retried' = retried /\ asked' = asked /\ overridden' = overridden
      BY <1>15 DEF Tick, retryVars
    <2>2. ASSUME NEW v \in Workers PROVE Unfinished(v)' = Unfinished(v)
      <3>1. tasks[v] \in Task /\ tasks'[v] = [tasks[v] EXCEPT !.left = Less(@)]
        BY <1>0, <1>15 DEF Tick
      <3>2. tasks'[v].batch = tasks[v].batch /\ tasks'[v].item = tasks[v].item
        BY <3>1 DEF Task
      <3> QED
        BY <3>2 DEF Unfinished
    <2>3. ASSUME NEW r \in Rows PROVE OwedRow(r)'
      <3>1. rows[r] \in Row /\ rows'[r] = [rows[r] EXCEPT !.wait = Less(@), !.lease = Less(@)]
        BY <1>0, <1>15 DEF Tick
      <3>2. rows'[r].status = rows[r].status /\ rows'[r].attempts = rows[r].attempts
        BY <3>1 DEF Row
      <3>3. Free(r)' => Free(r)
        BY <2>2, <3>2 DEF Free
      <3> QED
        BY <1>0, <1>3, <2>1, <3>2, <3>3, OwedRowKept
    <2> QED
      BY <1>4, <2>1, <2>2, <2>3 DEF OwedInv
  <1>16. ASSUME NEW r \in Rows, LoadFailed(r) PROVE OwedInv'
    <2>1. /\ rows' = rows /\ tasks' = tasks /\ kills' = kills /\ retried' = retried /\ overridden' = overridden
          /\ rows[r].status = "FAILED" /\ \A s \in Rows \ {r} : asked'[s] = asked[s]
      BY <1>0, <1>16 DEF LoadFailed
    <2>2. ASSUME NEW s \in Rows \ {r} PROVE OwedRow(s)'
      BY <1>5, <2>1
    <2>3. OwedRow(r)'
      BY <1>3, <2>1 DEF OwedRow
    <2>4. OwedItems'
      BY <1>4, <2>1 DEF Unfinished
    <2> QED
      BY <2>2, <2>3, <2>4 DEF OwedInv
  <1>17. ASSUME NEW r \in Rows, RetryNotification(r) PROVE OwedInv'
    <2>1. /\ tasks' = tasks /\ kills' = kills /\ asked[r] > 0 /\ retried'[r] = retried[r] + 1
          /\ overridden' = IF rows[r].status = "FAILED" THEN overridden ELSE overridden \cup {r}
          /\ \A s \in Rows \ {r} : asked'[s] = asked[s] /\ retried'[s] = retried[s] /\ rows'[s] = rows[s]
      BY <1>0, <1>17 DEF RetryNotification
    <2>2. rows'[r].status = "PENDING" /\ rows'[r].attempts = rows[r].attempts
      BY <1>0, <1>17 DEF RetryNotification, Row
    <2>3. retried[r] \in Nat /\ rows[r].attempts \in Nat /\ asked[r] \in Nat
      BY <1>0, <1>1
    <2>4. /\ rows[r].attempts <= MaxAttempts + kills + retried[r]
          /\ rows[r].attempts >= MaxAttempts
          /\ retried[r] = 0 => rows[r].status = "FAILED" /\ r \notin overridden
      BY <1>3, <2>1, <2>3 DEF OwedRow
    <2>5. OwedRow(r)'
      BY <1>0, <2>1, <2>2, <2>3, <2>4 DEF OwedRow
    <2>6. ASSUME NEW s \in Rows \ {r} PROVE OwedRow(s)'
      BY <1>5, <2>1, <2>6
    \* The first retry of a row finds no task on it.
    <2>7. ASSUME NEW w \in Workers, NEW i \in Unfinished(w)', retried'[i.row] > 0 PROVE i.attempt > MaxAttempts
      <3>1. i \in Unfinished(w) /\ i.row \in Rows
        BY <1>2, <2>1 DEF Unfinished
      <3>2. retried[i.row] > 0
        BY <1>0, <1>2, <2>1, <2>3, <2>4, <2>7, <3>1
      <3> QED
        BY <1>2, <3>1, <3>2
    <2> QED
      BY <2>5, <2>6, <2>7 DEF OwedInv, OwedItems
  <1>18. CASE UNCHANGED vars
    BY <1>18 DEF vars, OwedInv, OwedItems, OwedRow, Free, Unfinished
  <1> QED
    BY <1>6, <1>7, <1>8, <1>11, <1>12, <1>13, <1>14, <1>15, <1>16, <1>17, <1>18 DEF Next, TaskStep

\* A settled row is claimed by no task, so nothing but a retry writes it and
\* nothing sends for it; and what a task takes from its batch was not sent yet.
Settles ==
    \A r \in Rows :
        /\ rows[r].status \in {"PROCESSED", "FAILED"} /\ r \notin overridden' =>
              /\ sent'[r] = sent[r]
              /\ \/ rows'[r].status = rows[r].status
                 \/ /\ rows[r].status = "FAILED" /\ rows'[r].status = "PENDING"
                    /\ rows'[r].wait = 0 /\ rows'[r].attempts = rows[r].attempts
                    /\ asked[r] > asked'[r]
        /\ \A w \in Workers : tasks[w].stage = "next" /\ tasks'[w].stage \in {"returned", "raised"}
               /\ tasks'[w].item.row = r => tasks'[w].item.attempt \notin sent[r]

\* Every step leaves the settled rows alone, or retries one that failed.
LEMMA SettleStep ==
    ASSUME WorkInv, SentWhenDone, [Next]_vars
    PROVE  Settles
  <1>0. /\ TypeOK /\ TaskShapes /\ ClaimsAreExclusive
        /\ rows \in [Rows -> Row] /\ sent \in [Rows -> SUBSET Nat] /\ tasks \in [Workers -> Task]
    BY DEF WorkInv, TypeOK
  <1>1. \A w \in Workers : \A i \in Unfinished(w) : i.row \in Rows /\ (i.row \notin overridden => rows[i.row].status = "PROCESSING")
    BY <1>0, TaskTypes DEF ClaimsAreExclusive
  <1>2. \A w \in Workers : tasks[w].stage \in {"returned", "raised"} => tasks[w].item \in Unfinished(w)
    BY <1>0 DEF Unfinished, TaskShapes, NoItem, Items
  \* Settled rows keep their status if only other rows change it.
  <1> DEFINE Settled(r) == rows[r].status \in {"PROCESSED", "FAILED"}
             Kept == \A r \in Rows : Settled(r) /\ r \notin overridden' => rows'[r].status = rows[r].status
             NothingTaken == \A w \in Workers : ~(tasks[w].stage = "next" /\ tasks'[w].stage \in {"returned", "raised"})
  <1>3. ASSUME Kept, NothingTaken, sent' = sent PROVE Settles
    BY <1>3 DEF Settles
  <1>4. ASSUME NEW r \in Rows, Publish(r) PROVE Settles
    <2>1. Kept
      BY <1>0, <1>4 DEF Publish
    <2> QED
      BY <1>3, <1>4, <2>1 DEF Publish
  <1>5. ASSUME NEW w \in Workers, Claim(w) PROVE Settles
    <2>1. Kept
      <3>1. PICK claimed \in SUBSET Due :
                rows' = [r \in Rows |-> IF r \in claimed
                                       THEN [rows[r] EXCEPT !.status = "PROCESSING",
                                                            !.attempts = @ + 1,
                                                            !.lease = Lease + 1]
                                       ELSE rows[r]]
        BY <1>5 DEF Claim
      <3>2. \A r \in Rows : Settled(r) => r \notin claimed
        BY DEF Due
      <3> QED
        BY <3>1, <3>2
    <2>2. NothingTaken
      <3>1. ~Running(w)
        BY <1>5 DEF Claim
      <3>2. PICK t : tasks' = [tasks EXCEPT ![w] = t]
        BY <1>5 DEF Claim
      <3> QED
        BY <1>0, <3>1, <3>2 DEF Running
    <2>3. sent' = sent
      BY <1>5 DEF Claim
    <2> QED
      BY <1>3, <2>1, <2>2, <2>3
  <1>6. ASSUME NEW w \in Workers, Work(w) PROVE Settles
    <2>1. PICK i \in tasks[w].batch, outcome \in {"returned", "raised"}, effect \in BOOLEAN :
              /\ sent' = IF effect THEN [sent EXCEPT ![i.row] = @ \cup {i.attempt}] ELSE sent
              /\ tasks' = [tasks EXCEPT ![w].stage = outcome, ![w].item = i, ![w].batch = @ \ {i}]
      BY <1>6 DEF Work
    <2>2. /\ tasks'[w].item = i
          /\ \A v \in Workers \ {w} : tasks'[v] = tasks[v]
      BY <1>0, <2>1 DEF Task
    <2>3. i.row \in Rows /\ (i.row \notin overridden => rows[i.row].status = "PROCESSING")
      BY <1>1 DEF Unfinished
    <2>4. i.attempt \notin sent[i.row]
      BY DEF SentWhenDone
    <2>5. \A r \in Rows \ {i.row} : sent'[r] = sent[r]
      BY <1>0, <2>1
    <2>6. rows' = rows /\ overridden' = overridden
      BY <1>6 DEF Work, retryVars
    <2> QED
      BY <2>2, <2>3, <2>4, <2>5, <2>6 DEF Settles
  <1>7. ASSUME NEW w \in Workers, AfterMark(w) PROVE NothingTaken
    <2>1. \A v \in Workers \ {w} : tasks'[v] = tasks[v]
      BY <1>0, <1>7 DEF AfterMark
    <2>2. tasks'[w].stage \notin {"returned", "raised"}
      <3>1. CASE tasks[w].batch = {}
        BY <1>0, <1>7, <3>1 DEF AfterMark, IdleTask
      <3>2. CASE tasks[w].batch # {}
        BY <1>0, <1>7, <3>2 DEF AfterMark, Task
      <3> QED
        BY <3>1, <3>2
    <2> QED
      BY <2>1, <2>2
  <1>8. ASSUME NEW w \in Workers, MarkProcessed(w) PROVE Settles
    <2>1. /\ tasks[w].item.row \in Rows
          /\ tasks[w].item.row \notin overridden => rows[tasks[w].item.row].status = "PROCESSING"
      BY <1>1, <1>2, <1>8 DEF MarkProcessed
    <2>2. Kept
      BY <1>0, <1>8, <2>1 DEF MarkProcessed, retryVars
    <2> QED
      BY <1>3, <1>7, <1>8, <2>2 DEF MarkProcessed
  <1>9. ASSUME NEW w \in Workers, MarkFailed(w) PROVE Settles
    <2>1. /\ tasks[w].item.row \in Rows
          /\ tasks[w].item.row \notin overridden => rows[tasks[w].item.row].status = "PROCESSING"
      BY <1>1, <1>2, <1>9 DEF MarkFailed
    <2>2. Kept
      BY <1>0, <1>9, <2>1 DEF MarkFailed, retryVars
    <2> QED
      BY <1>3, <1>7, <1>9, <2>2 DEF MarkFailed
  <1>10. ASSUME NEW w \in Workers, Kill(w) PROVE Settles
    BY <1>0, <1>3, <1>10 DEF Kill, IdleTask
  <1>11. ASSUME Reap PROVE Settles
    <2>1. Kept
      BY <1>0, <1>11 DEF Reap, Expired
    <2> QED
      BY <1>3, <1>11, <2>1 DEF Reap
  <1>12. ASSUME Tick PROVE Settles
    <2>1. Kept
      BY <1>0, <1>12 DEF Tick, Row
    <2>2. NothingTaken
      BY <1>0, <1>12 DEF Tick, Task
    <2> QED
      BY <1>3, <1>12, <2>1, <2>2 DEF Tick
  <1>13. ASSUME NEW r \in Rows, LoadFailed(r) PROVE Settles
    BY <1>3, <1>13 DEF LoadFailed
  <1>14. ASSUME NEW r \in Rows, RetryNotification(r) PROVE Settles
    <2>1. /\ sent' = sent /\ NothingTaken
          /\ rows[r].status = "FAILED" \/ r \in overridden'
          /\ asked[r] \in Nat /\ asked'[r] = asked[r] - 1
      BY <1>0, <1>14 DEF RetryNotification, TypeOK
    <2>2. rows'[r].status = "PENDING" /\ rows'[r].wait = 0 /\ rows'[r].attempts = rows[r].attempts
      BY <1>0, <1>14 DEF RetryNotification, Row
    <2>3. \A s \in Rows \ {r} : rows'[s] = rows[s]
      BY <1>0, <1>14 DEF RetryNotification
    <2>4. asked[r] > asked'[r]
      BY <2>1
    <2> QED
      BY <2>1, <2>2, <2>3, <2>4 DEF Settles
  <1>15. CASE UNCHANGED vars
    BY <1>3, <1>15 DEF vars
  <1> QED
    BY <1>4, <1>5, <1>6, <1>8, <1>9, <1>10, <1>11, <1>12, <1>13, <1>14, <1>15 DEF Next, TaskStep

\* The parts of the invariant hold together.
LEMMA WorkIsRecorded == Spec => [](WorkInv /\ SentWhenDone /\ OwedInv)
  <1>1. Init => SentWhenDone
    BY DEF Init, SentWhenDone, IdleTask
  <1>2. Init => OwedInv
    <2> SUFFICES ASSUME Init PROVE OwedInv
      OBVIOUS
    <2>1. \A w \in Workers : Unfinished(w) = {}
      BY DEF Init, IdleTask, Unfinished
    <2>2. \A r \in Rows : /\ rows[r].status = "NONE" /\ rows[r].attempts = 0 /\ kills = 0
                          /\ retried[r] = 0 /\ asked[r] = 0 /\ r \notin overridden
      BY DEF Init
    <2>3. MaxAttempts \in Nat \ {0}
      OBVIOUS
    <2>4. \A r \in Rows : OwedRow(r)
      BY <2>2, <2>3 DEF OwedRow
    <2> QED
      BY <2>1, <2>4 DEF OwedInv, OwedItems
  <1>3. WorkInv /\ WorkInv' /\ SentWhenDone /\ [Next]_vars => SentWhenDone'
    BY SentStep
  <1>4. WorkInv /\ WorkInv' /\ OwedInv /\ [Next]_vars => OwedInv'
    BY OwedStep
  <1> QED
    BY WorkInvariant, <1>1, <1>2, <1>3, <1>4, PTL DEF Spec

\* A row that says PROCESSED had its work done, in the attempt it records
\* unless a retry was saved over it; no attempt does it that was never claimed;
\* and beyond MAX_ATTEMPTS there is at most one attempt per killed task and per
\* retry.
THEOREM AttemptsStayOwed == Spec => []AttemptsAreOwed
  <1>1. SentWhenDone /\ OwedInv => AttemptsAreOwed
    BY DEF SentWhenDone, OwedInv, OwedRow, AttemptsAreOwed
  <1> QED
    BY WorkIsRecorded, <1>1, PTL

\* What mark_processed and mark_failed settle stays settled, whoever was killed
\* or reclaimed meanwhile, until an administrator retries a row that failed;
\* and no attempt's side effect takes place twice.
THEOREM SettledStaysUntilRetried == Spec => SettledUntilRetried
  <1>1. WorkInv /\ SentWhenDone /\ [Next]_vars => [Settles]_vars
    BY SettleStep
  <1>2. Spec => [][Settles]_vars
    BY WorkIsRecorded, <1>1, PTL DEF Spec
  <1> QED
    BY <1>2 DEF SettledUntilRetried, Settles
=============================================================================
