--------------------------- MODULE Records_proofs ---------------------------
(* Theorems about the components of Records, one section for each: its        *)
(* invariant, the steps that keep it, and what follows for the component by   *)
(* itself (X!Spec) and for the composition (RecordsSpec).                     *)
EXTENDS Records, FiniteSetTheorems, TLAPS

USE NoneAssumption

-----------------------------------------------------------------------------
(* Attendance: the register                                                *)

Pages == [Students -> {"NOT_MARKED", "PRESENT", "ABSENT", None}]
RegisterCall == [op : {"idle", "opening", "loaded"}, roster : SUBSET Students, seen : Pages \cup {None}]

(* The types, with the rows of the requests as records; a request that opens the  *)
(* register brings a roster of students; nothing is signed before submission.     *)
RegisterTyped ==
    /\ enrolled \subseteq Students /\ announced \subseteq Students
    /\ session \in {None, "OPEN", "SUBMITTED"}
    /\ records \in Pages
    /\ calls \in [Workers -> RegisterCall]
    /\ roster \subseteq Students
    /\ signed \in IF session = "SUBMITTED" THEN Pages ELSE {None}
    /\ trail \in IF session = "SUBMITTED" THEN Pages ELSE {None}

(* Before the register is opened it is empty.                                     *)
RegisterInv == RegisterTyped /\ Register!RegisterStands /\ (session = None => roster = {})

\* The invariant holds at first.
LEMMA RegisterInit == Register!Init => RegisterInv
  <1> SUFFICES ASSUME Register!Init PROVE RegisterInv
    OBVIOUS
  <1>1. Register!Idle \in RegisterCall
    BY DEF Register!Idle, RegisterCall
  <1>2. RegisterTyped
    BY <1>1 DEF Register!Init, RegisterTyped, Pages
  <1> QED
    BY <1>2 DEF Register!Init, RegisterInv, Register!RegisterStands

\* Enrolments, loaded pages and ended requests leave the register as it is.
LEMMA RegisterRests ==
    ASSUME RegisterInv, UNCHANGED <<session, records, announced, roster, signed, trail>>,
           enrolled' \subseteq Students,
           calls' \in [Workers -> RegisterCall]
    PROVE  RegisterInv'
  BY DEF RegisterInv, RegisterTyped, Pages, Register!RegisterStands

\* Opening inserts the roster that was read, or finds the register another request opened.
LEMMA OpenSessionStep ==
    ASSUME RegisterInv, NEW w \in Workers, Register!OpenSession(w)
    PROVE  RegisterInv'
  <1>1. calls' = [calls EXCEPT ![w] = Register!Idle] /\ Register!Idle \in RegisterCall
    BY DEF Register!OpenSession, Register!Idle, RegisterCall
  <1>2. calls' \in [Workers -> RegisterCall]
    BY <1>1 DEF RegisterInv, RegisterTyped
  <1>3. CASE session # None
    BY <1>2, <1>3, RegisterRests DEF Register!OpenSession, RegisterInv, RegisterTyped
  <1>4. CASE session = None
    <2>1. PICK listed \in SUBSET Students : listed = calls[w].roster
      BY DEF RegisterInv, RegisterTyped, RegisterCall
    <2>2. /\ session' = "OPEN" /\ roster' = listed
          /\ records' = [s \in Students |-> IF s \in listed THEN "NOT_MARKED" ELSE None]
          /\ UNCHANGED <<enrolled, announced, signed, trail>>
      BY <1>4, <2>1 DEF Register!OpenSession
    <2>3. RegisterTyped'
      BY <1>2, <1>4, <2>2 DEF RegisterInv, RegisterTyped, Pages
    <2>4. Register!RegisterStands'
      BY <2>2 DEF RegisterInv, RegisterTyped, Register!RegisterStands
    <2> QED
      BY <2>2, <2>3, <2>4 DEF RegisterInv
  <1> QED
    BY <1>3, <1>4

\* Recording marks nobody without a record, announces the new absences and audits what it
\* changes in a submitted register.
LEMMA RecordAttendanceStep ==
    ASSUME RegisterInv, NEW w \in Workers, NEW some \in SUBSET Students,
           NEW marks \in [some -> Register!Statuses], Register!RecordAttendance(w, marks)
    PROVE  RegisterInv'
  <1>1. calls' = [calls EXCEPT ![w] = Register!Idle] /\ Register!Idle \in RegisterCall
    BY DEF Register!RecordAttendance, Register!Idle, RegisterCall
  <1>2. /\ DOMAIN marks = some /\ \A s \in some : marks[s] \in {"NOT_MARKED", "PRESENT", "ABSENT"}
        /\ \A s \in some : records[s] # None
        /\ records' = [s \in Students |-> IF s \in some THEN marks[s] ELSE records[s]]
        /\ announced' = announced \cup {s \in some : records[s] # "ABSENT" /\ marks[s] = "ABSENT"}
        /\ trail' = IF session = "SUBMITTED"
                    THEN [s \in Students |-> IF s \in some /\ records[s] # "NOT_MARKED" /\ records[s] # marks[s]
                                             THEN marks[s] ELSE trail[s]]
                    ELSE trail
        /\ UNCHANGED <<enrolled, session, roster, signed>>
    BY DEF Register!RecordAttendance, Register!Statuses, Register!Announces, Register!Audited
  <1>3. RegisterTyped'
    BY <1>1, <1>2 DEF RegisterInv, RegisterTyped, Pages
  <1>4. Register!RegisterStands'
    BY <1>2 DEF RegisterInv, RegisterTyped, Pages, Register!RegisterStands
  <1> QED
    BY <1>2, <1>3, <1>4 DEF RegisterInv

\* A register is submitted complete, and signed as it is.
LEMMA SubmitSessionStep ==
    ASSUME RegisterInv, NEW w \in Workers, Register!SubmitSession(w)
    PROVE  RegisterInv'
  <1>1. calls' = [calls EXCEPT ![w] = Register!Idle] /\ Register!Idle \in RegisterCall
    BY DEF Register!SubmitSession, Register!Idle, RegisterCall
  <1>2. /\ session' = "SUBMITTED" /\ signed' = records /\ trail' = records
        /\ \A s \in Students : records[s] # "NOT_MARKED"
        /\ UNCHANGED <<enrolled, records, announced, roster>>
    BY DEF Register!SubmitSession, Register!Complete
  <1> QED
    BY <1>1, <1>2 DEF RegisterInv, RegisterTyped, Register!RegisterStands

\* Every step keeps the invariant.
LEMMA RegisterStep == RegisterInv /\ [Register!Next]_(Register!vars) => RegisterInv'
  <1> SUFFICES ASSUME RegisterInv, [Register!Next]_(Register!vars) PROVE RegisterInv'
    OBVIOUS
  <1>1. CASE UNCHANGED Register!vars
    BY <1>1, RegisterRests DEF Register!vars, RegisterInv, RegisterTyped
  <1>2. ASSUME NEW s \in Students, Register!ChangeEnrolment(s) PROVE RegisterInv'
    BY <1>2, RegisterRests DEF Register!ChangeEnrolment, RegisterInv, RegisterTyped
  <1>3. ASSUME NEW w \in Workers, Register!ResolveRoster(w) \/ Register!LoadSession(w) \/ Register!Abandon(w) PROVE RegisterInv'
    <2>1. PICK call \in RegisterCall : calls' = [calls EXCEPT ![w] = call]
      BY <1>3 DEF Register!ResolveRoster, Register!LoadSession, Register!Abandon, Register!Idle, RegisterCall,
                  RegisterInv, RegisterTyped
    <2>2. UNCHANGED <<enrolled, session, records, announced, roster, signed, trail>>
      BY <1>3 DEF Register!ResolveRoster, Register!LoadSession, Register!Abandon
    <2> QED
      BY <2>1, <2>2, RegisterRests DEF RegisterInv, RegisterTyped
  <1> QED
    BY <1>1, <1>2, <1>3, OpenSessionStep, RecordAttendanceStep, SubmitSessionStep
       DEF Register!Next, Register!OpenRequests, Register!RecordRequests, Register!SubmitRequests

\* What the invariant says.
LEMMA RegisterSays == RegisterInv => Register!TypeOK /\ Register!RegisterStands
  BY DEF RegisterInv, RegisterTyped, RegisterCall, Pages, Register!TypeOK, Register!Statuses

\* It holds of the component as one of Records.
LEMMA RegisterWithin == RecordsSpec => [](part = "attendance" => RegisterInv)
  <1>1. RecordsInit => (part = "attendance" => RegisterInv)
    BY RegisterInit DEF RecordsInit
  <1>2. (part = "attendance" => RegisterInv) /\ [RecordsNext]_recordsVars => (part = "attendance" => RegisterInv)'
    BY RegisterStep DEF RecordsNext, recordsVars, recordRows, sharedRows, Register!vars, registerRows
  <1> QED
    BY <1>1, <1>2, PTL DEF RecordsSpec

(* The register lists whom it was opened with; a submitted one was complete and   *)
(* is what was signed with the audited corrections applied, but for students whom *)
(* the last of them set back to NOT_MARKED; and every absence is announced, for   *)
(* any class and any number of requests (open_attendance_session,                 *)
(* record_attendance_bulk, submit_attendance_session).                            *)
THEOREM RegisterKept ==
    /\ Register!Spec => [](Register!TypeOK /\ Register!RegisterStands)
    /\ RecordsSpec => []RegisterStands
  <1>1. RegisterInv /\ [Register!Next]_(Register!vars) => RegisterInv'
    BY RegisterStep
  <1>2. Register!Spec => [](Register!TypeOK /\ Register!RegisterStands)
    BY <1>1, RegisterInit, RegisterSays, PTL DEF Register!Spec
  <1>3. (part = "attendance" => RegisterInv) => RegisterStands
    BY RegisterSays DEF RegisterStands
  <1>4. RecordsSpec => []RegisterStands
    BY <1>3, RegisterWithin, PTL
  <1> QED
    BY <1>2, <1>4

-----------------------------------------------------------------------------
(* Timetable: periods and lessons                                          *)

TimetableCall ==
    [op : {"idle", "adding", "editing", "changing", "booking"}, period : Periods \cup {None}, bells : Timetable!Bells \cup {None},
     given : SUBSET {"from", "to"}, teaching : BOOLEAN \cup {None}, stale : BOOLEAN]
TimetableTyped ==
    /\ periods \in [Periods -> Timetable!Rows \cup {None, Gone}]
    /\ \A p \in Periods : Timetable!Rung(p) => periods[p].from < periods[p].to
    /\ entries \subseteq Timetable!Lessons
    /\ calls \in [Workers -> TimetableCall]
    /\ raced \subseteq Periods

\* Periods written from true views do not overlap.
PeriodsApart ==
    \A p, q \in Periods \ raced :
        p # q /\ Timetable!Rung(p) /\ Timetable!Rung(q) => ~Timetable!Overlapping(Timetable!BellsOf(p), Timetable!BellsOf(q))

\* What the unique constraints say of the lessons of one period.
LessonsApart ==
    \A e, o \in entries :
        e # o /\ e.period = o.period => /\ e.class # o.class /\ e.teacher # o.teacher
                                        /\ e.room # None => e.room # o.room

\* A lesson stands in a period that is there, and that is taught in unless it raced.
LessonsStand ==
    \A e \in entries : periods[e.period] \in Timetable!Rows /\ (periods[e.period].teaching \/ e.period \in raced)

\* What a request has checked, and still finds true unless it is stale.
Requested(c) ==
    /\ c.op = "adding" => c.bells \in Timetable!Bells
    /\ c.op = "changing" => c.bells \in Timetable!Bells /\ c.period \in Periods
    /\ c.op = "editing" => c.period \in Periods /\ periods[c.period] # None
    /\ c.op = "booking" => c.period \in Periods /\ periods[c.period] # None
CheckedView(c) ==
    /\ c.op = "adding" => Timetable!Clear(None, c.bells)
    /\ c.op = "changing" =>
           /\ ~Timetable!Referenced(c.period)
           /\ c.given # {} => Timetable!Clear(c.period, c.bells)
           /\ c.given # {} /\ Timetable!Rung(c.period) =>
                  /\ ("from" \notin c.given => c.bells[1] = periods[c.period].from)
                  /\ ("to" \notin c.given => c.bells[2] = periods[c.period].to)
    /\ c.op = "editing" /\ Timetable!Rung(c.period) => c.bells = Timetable!BellsOf(c.period)
    /\ c.op = "booking" /\ Timetable!Rung(c.period) => c.teaching = periods[c.period].teaching

TimetableInv ==
    /\ TimetableTyped /\ PeriodsApart /\ LessonsApart /\ LessonsStand
    /\ \A w \in Workers : Requested(calls[w]) /\ (~calls[w].stale => CheckedView(calls[w]))

\* The invariant holds at first.
LEMMA TimetableInit == Timetable!Init => TimetableInv
  <1> SUFFICES ASSUME Timetable!Init PROVE TimetableInv
    OBVIOUS
  <1>1. Timetable!Idle \in TimetableCall /\ Timetable!Idle.op = "idle"
    BY DEF Timetable!Idle, TimetableCall
  <1>2. calls \in [Workers -> TimetableCall] /\ \A w \in Workers : calls[w].op = "idle"
    BY <1>1 DEF Timetable!Init
  <1> QED
    BY <1>2 DEF Timetable!Init, TimetableInv, TimetableTyped, PeriodsApart, LessonsApart, LessonsStand, Requested,
                CheckedView, Timetable!Rung

\* The two lessons of a class, a teacher or a room are apart, by their periods or their hours.
LEMMA TimetableSays == TimetableInv => Timetable!TypeOK /\ Timetable!NoDoubleBooking
  <1> SUFFICES ASSUME TimetableInv PROVE Timetable!TypeOK /\ Timetable!NoDoubleBooking
    OBVIOUS
  <1>1. Timetable!TypeOK
    BY DEF TimetableInv, TimetableTyped, TimetableCall, Timetable!TypeOK
  <1>2. ASSUME NEW e \in entries, NEW o \in entries \ {e},
               o.class = e.class \/ o.teacher = e.teacher \/ (o.room = e.room /\ e.room # None),
               {o.period, e.period} \cap raced = {}
        PROVE  \/ Timetable!BellsOf(e.period)[2] <= Timetable!BellsOf(o.period)[1]
               \/ Timetable!BellsOf(o.period)[2] <= Timetable!BellsOf(e.period)[1]
    <2>1. e.period # o.period
      BY <1>2 DEF TimetableInv, LessonsApart
    <2>2. PICK p \in Periods, q \in Periods : p = e.period /\ q = o.period
      BY DEF TimetableInv, TimetableTyped, Timetable!Lessons
    <2>3. periods[p] \in Timetable!Rows /\ periods[q] \in Timetable!Rows
      BY <2>2 DEF TimetableInv, LessonsStand
    <2>4. ~Timetable!Overlapping(Timetable!BellsOf(p), Timetable!BellsOf(q))
      BY <1>2, <2>1, <2>2, <2>3 DEF TimetableInv, PeriodsApart, Timetable!Rung, Timetable!Rows
    <2> QED
      BY <2>2, <2>3, <2>4 DEF Timetable!Overlapping, Timetable!BellsOf, Timetable!Rows
  <1>3. ASSUME NEW e \in entries, NEW o \in entries \ {e},
               o.class = e.class \/ o.teacher = e.teacher \/ (o.room = e.room /\ e.room # None)
        PROVE  o.period # e.period
    BY <1>3 DEF TimetableInv, LessonsApart
  <1> QED
    BY <1>1, <1>2, <1>3 DEF TimetableInv, LessonsStand, Timetable!NoDoubleBooking

\* What the others have read is outdated by a write, w's own request ends.
LEMMA TimetableOutdates ==
    ASSUME TimetableInv, NEW w \in Workers, NEW vs, Timetable!Outdates(w, vs)
    PROVE  /\ calls' \in [Workers -> TimetableCall]
           /\ \A v \in Workers : Requested(calls'[v])
           /\ \A v \in Workers : ~calls'[v].stale /\ calls'[v].op # "idle" =>
                  calls'[v] = calls[v] /\ v # w /\ v \notin vs
  <1>1. Timetable!Idle \in TimetableCall /\ Timetable!Idle.op = "idle"
    BY DEF Timetable!Idle, TimetableCall
  <1>2. ASSUME NEW v \in Workers
        PROVE  /\ calls'[v] \in TimetableCall /\ Requested(calls'[v])
               /\ ~calls'[v].stale /\ calls'[v].op # "idle" =>
                      calls'[v] = calls[v] /\ v # w /\ v \notin vs
    <2>1. PICK c \in TimetableCall : c = calls[v] /\ Requested(c)
      BY DEF TimetableInv, TimetableTyped
    <2>2. PICK d : d = [c EXCEPT !.stale = TRUE]
      OBVIOUS
    <2>3. d \in TimetableCall /\ d.stale /\ Requested(d)
      BY <2>1, <2>2 DEF TimetableCall, Requested
    <2>4. calls'[v] = IF v = w THEN Timetable!Idle ELSE IF v \in vs THEN d ELSE c
      BY <2>1, <2>2 DEF Timetable!Outdates
    <2>5. Requested(Timetable!Idle)
      BY <1>1 DEF Requested
    <2> QED
      BY <1>1, <2>1, <2>3, <2>4, <2>5
  <1> QED
    BY <1>2 DEF Timetable!Outdates

\* A view that was true stays so when its rows do.
LEMMA ViewsKept ==
    ASSUME TimetableInv, calls' \in [Workers -> TimetableCall], raced \subseteq raced', raced' \subseteq Periods,
           UNCHANGED <<periods, entries>>,
           \A v \in Workers : Requested(calls'[v]),
           \A v \in Workers : ~calls'[v].stale /\ calls'[v].op # "idle" => CheckedView(calls'[v])
    PROVE  TimetableInv'
  <1>1. TimetableTyped' /\ PeriodsApart' /\ LessonsApart' /\ LessonsStand'
    BY DEF TimetableInv, TimetableTyped, PeriodsApart, LessonsApart, LessonsStand, Timetable!Rung, Timetable!BellsOf,
           Timetable!Overlapping, Timetable!Rows, Timetable!Lessons
  <1>2. ASSUME NEW v \in Workers PROVE Requested(calls[v])' /\ (~calls[v].stale => CheckedView(calls[v]))'
    <2>1. Requested(calls'[v])
      OBVIOUS
    <2>2. ~calls'[v].stale => CheckedView(calls'[v])
      BY DEF CheckedView
    <2>3. PICK c : c = calls'[v]
      OBVIOUS
    <2>4. (~c.stale => CheckedView(c)) => (~c.stale => CheckedView(c))'
      BY DEF CheckedView, Timetable!Clear, Timetable!Rung, Timetable!BellsOf, Timetable!Overlapping, Timetable!Referenced
    <2>5. Requested(c) => Requested(c)'
      BY DEF Requested, Timetable!Bells
    <2> QED
      BY <2>1, <2>2, <2>3, <2>4, <2>5
         DEF Requested, CheckedView, Timetable!Clear, Timetable!Rung, Timetable!BellsOf, Timetable!Overlapping,
             Timetable!Referenced, Timetable!Bells
  <1> QED
    BY <1>1, <1>2 DEF TimetableInv

\* The checks of the two period requests, the load of a period and the end of a request.
LEMMA TimetableReads ==
    ASSUME TimetableInv, NEW w \in Workers,
           \/ \E bells \in Timetable!Bells : Timetable!CheckPeriod(w, bells)
           \/ \E bells \in Timetable!Bells, given \in SUBSET {"from", "to"} : Timetable!CheckUpdate(w, bells, given)
           \/ \E p \in Periods : Timetable!EditPeriod(w, p)
           \/ \E p \in Periods : Timetable!LoadPeriod(w, p)
           \/ Timetable!Abandon(w)
    PROVE  TimetableInv'
  <1> DEFINE Taken(c) == /\ c \in TimetableCall /\ Requested(c) /\ (~c.stale /\ c.op # "idle" => CheckedView(c))
                         /\ calls' = [calls EXCEPT ![w] = c] /\ UNCHANGED <<periods, entries, raced>>
  <1>1. ASSUME NEW bells \in Timetable!Bells, Timetable!CheckPeriod(w, bells) PROVE \E c : Taken(c)
    <2>1. PICK c : c = [Timetable!Idle EXCEPT !.op = "adding", !.bells = bells]
      OBVIOUS
    <2>2. c \in TimetableCall /\ c.op = "adding" /\ c.bells = bells
      BY <2>1 DEF Timetable!Idle, TimetableCall
    <2> QED
      BY <1>1, <2>1, <2>2 DEF Timetable!CheckPeriod, Requested, CheckedView
  <1>2. ASSUME NEW bells \in Timetable!Bells, NEW given \in SUBSET {"from", "to"}, Timetable!CheckUpdate(w, bells, given)
        PROVE  \E c : Taken(c)
    <2>1. /\ calls[w] \in TimetableCall /\ calls[w].op = "editing" /\ calls[w].period \in Periods
          /\ ~calls[w].stale => CheckedView(calls[w])
      BY <1>2 DEF TimetableInv, TimetableTyped, Timetable!CheckUpdate, Requested
    <2>2. PICK p \in Periods : p = calls[w].period
      BY <2>1
    <2>3. PICK misled \in BOOLEAN : misled = (calls[w].stale /\ given \in {{"from"}, {"to"}})
      BY <2>1 DEF TimetableCall
    <2>4. PICK c : c = [Timetable!Idle EXCEPT !.op = "changing", !.period = p, !.bells = bells, !.given = given, !.stale = misled]
      OBVIOUS
    <2>5. c \in TimetableCall /\ c.op = "changing" /\ c.period = p /\ c.bells = bells /\ c.given = given /\ c.stale = misled
      BY <2>4 DEF Timetable!Idle, TimetableCall
    <2>6. /\ calls' = [calls EXCEPT ![w] = c] /\ UNCHANGED <<periods, entries, raced>> /\ ~Timetable!Referenced(p)
          /\ given # {} => Timetable!Clear(p, bells)
          /\ "from" \notin given => bells[1] = calls[w].bells[1]
          /\ "to" \notin given => bells[2] = calls[w].bells[2]
      BY <1>2, <2>2, <2>3, <2>4 DEF Timetable!CheckUpdate
    <2>7. ASSUME ~misled, given # {}, Timetable!Rung(p)
          PROVE  /\ ("from" \notin given => bells[1] = periods[p].from)
                 /\ ("to" \notin given => bells[2] = periods[p].to)
      <3>1. CASE given = {"from", "to"}
        BY <3>1
      <3>2. CASE given \in {{"from"}, {"to"}}
        <4>1. calls[w].bells = Timetable!BellsOf(p)
          BY <2>1, <2>2, <2>3, <2>7, <3>2 DEF CheckedView
        <4> QED
          BY <2>6, <4>1 DEF Timetable!BellsOf
      <3>3. given = {"from", "to"} \/ given \in {{"from"}, {"to"}}
        <4>1. given \subseteq {"from", "to"} /\ given # {}
          BY <2>7
        <4>2. CASE "from" \notin given
          <5>1. given = {"to"}
            BY <4>1, <4>2
          <5> QED
            BY <5>1
        <4>3. CASE "to" \notin given
          <5>1. given = {"from"}
            BY <4>1, <4>3
          <5> QED
            BY <5>1
        <4>4. CASE "from" \in given /\ "to" \in given
          <5>1. given = {"from", "to"}
            BY <4>1, <4>4
          <5> QED
            BY <5>1
        <4> QED
          BY <4>2, <4>3, <4>4
      <3> QED
        BY <3>1, <3>2, <3>3
    <2> QED
      BY <2>5, <2>6, <2>7 DEF Requested, CheckedView
  <1>3. ASSUME NEW p \in Periods, Timetable!EditPeriod(w, p) PROVE \E c : Taken(c)
    <2>1. Timetable!Rung(p) /\ Timetable!BellsOf(p) \in Timetable!Bells
      BY <1>3 DEF TimetableInv, TimetableTyped, Timetable!EditPeriod, Timetable!Rung, Timetable!Rows, Timetable!BellsOf,
                  Timetable!Bells
    <2>2. PICK bells \in Timetable!Bells : bells = Timetable!BellsOf(p)
      BY <2>1
    <2>3. PICK c : c = [Timetable!Idle EXCEPT !.op = "editing", !.period = p, !.bells = bells]
      OBVIOUS
    <2>4. c \in TimetableCall /\ c.op = "editing" /\ c.period = p /\ c.bells = bells
      BY <2>3 DEF Timetable!Idle, TimetableCall
    <2> QED
      BY <1>3, <2>1, <2>2, <2>3, <2>4 DEF Timetable!EditPeriod, Timetable!Rung, Requested, CheckedView
  <1>4. ASSUME NEW p \in Periods, Timetable!LoadPeriod(w, p) PROVE \E c : Taken(c)
    <2>1. periods[p] \in Timetable!Rows
      BY <1>4 DEF TimetableInv, TimetableTyped, Timetable!LoadPeriod, Timetable!Rung
    <2>2. PICK flag \in BOOLEAN : flag = periods[p].teaching
      BY <2>1 DEF Timetable!Rows
    <2>3. PICK c : c = [Timetable!Idle EXCEPT !.op = "booking", !.period = p, !.teaching = flag]
      OBVIOUS
    <2>4. c \in TimetableCall /\ c.op = "booking" /\ c.period = p
      BY <2>3 DEF Timetable!Idle, TimetableCall
    <2>5. c.teaching = flag
      BY <2>3 DEF Timetable!Idle
    <2> QED
      BY <1>4, <2>2, <2>3, <2>4, <2>5 DEF Timetable!LoadPeriod, Timetable!Rung, Requested, CheckedView
  <1>5. ASSUME Timetable!Abandon(w) PROVE \E c : Taken(c)
    <2>1. Timetable!Idle \in TimetableCall /\ Timetable!Idle.op = "idle"
      BY DEF Timetable!Idle, TimetableCall
    <2> QED
      BY <1>5, <2>1 DEF Timetable!Abandon, Requested
  <1>6. \E c : Taken(c)
    BY <1>1, <1>2, <1>3, <1>4, <1>5
  <1>7. PICK c : Taken(c)
    BY <1>6
  <1> QED
    BY <1>7, ViewsKept DEF TimetableInv, TimetableTyped

\* A row written from a true view overlaps no other, and leaves no other view of it true.
LEMMA PeriodSaved ==
    ASSUME TimetableInv, NEW w \in Workers, NEW p \in Periods, NEW from \in 0 .. LastBell, NEW to \in 0 .. LastBell,
           NEW teaching \in BOOLEAN, from < to,
           periods' = [periods EXCEPT ![p] = [from |-> from, to |-> to, teaching |-> teaching]],
           UNCHANGED entries, Timetable!Records(w, p),
           periods[p] # Gone, periods[p] = None => ~Timetable!Referenced(p),
           ~calls[w].stale => ~Timetable!Referenced(p),
           \/ calls[w].stale
           \/ Timetable!Clear(p, <<from, to>>)
           \/ Timetable!Rung(p) /\ Timetable!BellsOf(p) = <<from, to>>,
           \/ Timetable!Outdates(w, Timetable!Readers(p) \cup Timetable!Checked)
           \/ periods[p] = None /\ Timetable!Outdates(w, Timetable!Checked)
           \/ /\ Timetable!Rung(p) /\ Timetable!BellsOf(p) = <<from, to>>
              /\ Timetable!Outdates(w, Timetable!Readers(p))
    PROVE  TimetableInv'
  <1>1. PICK new : new = [from |-> from, to |-> to, teaching |-> teaching]
    OBVIOUS
  <1>2. new \in Timetable!Rows /\ new.from = from /\ new.to = to /\ periods' = [periods EXCEPT ![p] = new]
    BY <1>1 DEF Timetable!Rows
  <1>3. raced' = IF calls[w].stale THEN raced \cup {p} ELSE raced
    BY DEF Timetable!Records
  <1>4. /\ calls' \in [Workers -> TimetableCall] /\ \A v \in Workers : Requested(calls'[v])
        /\ \A v \in Workers : ~calls'[v].stale /\ calls'[v].op # "idle" => calls'[v] = calls[v] /\ v # w
    BY TimetableOutdates
  <1>5. TimetableTyped'
    BY <1>2, <1>3, <1>4 DEF TimetableInv, TimetableTyped, Timetable!Rung, Timetable!Rows, Timetable!Lessons
  <1>6. LessonsApart'
    BY DEF TimetableInv, LessonsApart
  <1>7. LessonsStand'
    BY <1>2, <1>3 DEF TimetableInv, TimetableTyped, LessonsStand, Timetable!Referenced, Timetable!Rows
  <1>8. Timetable!BellsOf(p)' = <<from, to>> /\ Timetable!Rung(p)'
    BY <1>2 DEF TimetableInv, TimetableTyped, Timetable!BellsOf, Timetable!Rung
  <1>9. ASSUME NEW q \in Periods \ {p}
        PROVE  periods'[q] = periods[q] /\ Timetable!BellsOf(q)' = Timetable!BellsOf(q) /\ (Timetable!Rung(q)' <=> Timetable!Rung(q))
    BY <1>2, <1>9 DEF TimetableInv, TimetableTyped, Timetable!BellsOf, Timetable!Rung
  <1>10. ASSUME NEW q \in Periods \ {p}, p \notin raced', q \notin raced', Timetable!Rung(q)
         PROVE  /\ ~Timetable!Overlapping(<<from, to>>, Timetable!BellsOf(q))
                /\ ~Timetable!Overlapping(Timetable!BellsOf(q), <<from, to>>)
    <2>1. ~calls[w].stale /\ p \notin raced /\ q \notin raced
      BY <1>3, <1>10
    <2>2. CASE Timetable!Clear(p, <<from, to>>)
      BY <1>10, <2>2 DEF Timetable!Clear, Timetable!Overlapping
    <2>3. CASE Timetable!Rung(p) /\ Timetable!BellsOf(p) = <<from, to>>
      BY <1>10, <2>1, <2>3 DEF TimetableInv, PeriodsApart
    <2> QED
      BY <2>1, <2>2, <2>3
  <1>11. PeriodsApart'
    <2> SUFFICES ASSUME NEW a \in Periods \ raced', NEW b \in Periods \ raced', a # b, Timetable!Rung(a)', Timetable!Rung(b)'
                 PROVE  ~Timetable!Overlapping(Timetable!BellsOf(a)', Timetable!BellsOf(b)')
      BY DEF PeriodsApart, Timetable!Overlapping
    <2>1. CASE a = p
      BY <1>8, <1>9, <1>10, <2>1
    <2>2. CASE b = p
      BY <1>8, <1>9, <1>10, <2>2
    <2>3. CASE a # p /\ b # p
      BY <1>3, <1>9, <2>3 DEF TimetableInv, PeriodsApart
    <2> QED
      BY <2>1, <2>2, <2>3
  <1>12. ASSUME NEW v \in Workers PROVE Requested(calls[v])' /\ (~calls[v].stale => CheckedView(calls[v]))'
    <2>1. PICK c \in TimetableCall : c = calls'[v] /\ Requested(c)
      BY <1>4
    <2>2. Requested(c)'
      BY <1>2, <2>1 DEF Requested, TimetableInv, TimetableTyped, Timetable!Bells
    <2>3. ASSUME ~c.stale, c.op # "idle" PROVE CheckedView(c)'
      <3>1. c = calls[v] /\ v # w /\ CheckedView(c) /\ c.period \in Periods \cup {None}
        BY <1>4, <2>1, <2>3 DEF TimetableInv, TimetableCall
      <3>2. c.op \in {"adding", "editing", "changing", "booking"}
        BY <2>3 DEF TimetableCall
      <3>3. ASSUME NEW vs, Timetable!Outdates(w, vs) PROVE v \notin vs
        BY <2>1, <2>3, <3>3, TimetableOutdates
      <3>4. CASE Timetable!Outdates(w, Timetable!Readers(p) \cup Timetable!Checked)
        <4>1. v \notin Timetable!Readers(p) /\ v \notin Timetable!Checked
          BY <3>4, <3>3
        <4>2. c.op \in {"editing", "booking"} /\ c.period \in Periods \ {p}
          BY <2>1, <3>1, <3>2, <4>1 DEF Timetable!Readers, Timetable!Checked, Requested
        <4> QED
          BY <1>9, <3>1, <4>2 DEF CheckedView
      <3>5. CASE periods[p] = None /\ Timetable!Outdates(w, Timetable!Checked)
        <4>1. v \notin Timetable!Checked
          BY <3>5, <3>3
        <4>2. c.op \in {"editing", "booking"}
          BY <3>1, <3>2, <4>1 DEF Timetable!Checked
        <4>3. c.period \in Periods \ {p}
          BY <2>1, <3>5, <4>2 DEF Requested
        <4> QED
          BY <1>9, <3>1, <4>2, <4>3 DEF CheckedView
      <3>6. CASE /\ Timetable!Rung(p) /\ Timetable!BellsOf(p) = <<from, to>>
                 /\ Timetable!Outdates(w, Timetable!Readers(p))
        <4>1. c.period # p
          <5>1. v \notin Timetable!Readers(p)
            BY <3>6, <3>3
          <5> QED
            BY <3>1, <5>1 DEF Timetable!Readers
        <4>2. \A q \in Periods : Timetable!BellsOf(q)' = Timetable!BellsOf(q) /\ (Timetable!Rung(q)' <=> Timetable!Rung(q))
          BY <1>8, <1>9, <3>6
        <4>3. ASSUME NEW x, NEW bells, Timetable!Clear(x, bells) PROVE Timetable!Clear(x, bells)'
          BY <4>2, <4>3 DEF Timetable!Clear, Timetable!Overlapping
        <4>4. CASE c.op = "adding"
          BY <3>1, <4>3, <4>4 DEF CheckedView
        <4>5. CASE c.op \in {"editing", "changing", "booking"}
          <5>1. c.period \in Periods \ {p}
            BY <2>1, <4>1, <4>5 DEF Requested
          <5> QED
            BY <1>9, <3>1, <4>3, <4>5, <5>1 DEF CheckedView, Timetable!Referenced
        <4> QED
          BY <3>2, <4>4, <4>5
      <3> QED
        BY <3>4, <3>5, <3>6
    <2>4. c.op = "idle" => CheckedView(c)'
      BY DEF CheckedView
    <2> QED
      BY <2>1, <2>2, <2>3, <2>4
  <1> QED
    BY <1>5, <1>6, <1>7, <1>11, <1>12 DEF TimetableInv

\* create_period's insert and update_period's save write what was checked, or race.
LEMMA PeriodWrites ==
    ASSUME TimetableInv, NEW w \in Workers, NEW teaching \in BOOLEAN,
           Timetable!SavePeriod(w, teaching) \/ \E p \in Periods : Timetable!InsertPeriod(w, p, teaching)
    PROVE  TimetableInv'
  <1>1. Requested(calls[w]) /\ (~calls[w].stale => CheckedView(calls[w])) /\ calls[w] \in TimetableCall
    BY DEF TimetableInv, TimetableTyped
  <1>2. ASSUME NEW p \in Periods, Timetable!InsertPeriod(w, p, teaching) PROVE TimetableInv'
    <2>1. calls[w].op = "adding" /\ periods[p] = None /\ calls[w].bells \in Timetable!Bells
      BY <1>1, <1>2 DEF Timetable!InsertPeriod, Requested
    <2>2. PICK from \in 0 .. LastBell, to \in 0 .. LastBell : from < to /\ calls[w].bells = <<from, to>>
      BY <2>1 DEF Timetable!Bells
    <2>3. periods' = [periods EXCEPT ![p] = [from |-> from, to |-> to, teaching |-> teaching]]
      BY <1>2, <2>2 DEF Timetable!InsertPeriod
    <2>4. ~Timetable!Referenced(p) /\ periods[p] # Gone
      BY <2>1 DEF TimetableInv, LessonsStand, Timetable!Referenced, Timetable!Rows
    <2>5. ~calls[w].stale => Timetable!Clear(p, <<from, to>>)
      BY <1>1, <2>1, <2>2 DEF CheckedView, Timetable!Clear
    <2> QED
      <3>1. UNCHANGED entries /\ Timetable!Records(w, p) /\ Timetable!Outdates(w, Timetable!Checked)
        BY <1>2 DEF Timetable!InsertPeriod
      <3> QED
        BY <2>1, <2>2, <2>3, <2>4, <2>5, <3>1, PeriodSaved
  <1>3. ASSUME Timetable!SavePeriod(w, teaching) PROVE TimetableInv'
    <2>1. PICK p \in Periods : p = calls[w].period
      BY <1>1, <1>3 DEF Timetable!SavePeriod, Requested
    <2>2. calls[w].op = "changing" /\ Timetable!Rung(p) /\ calls[w].bells \in Timetable!Bells /\ periods[p] \in Timetable!Rows
      BY <1>1, <1>3, <2>1 DEF Timetable!SavePeriod, Requested, TimetableInv, TimetableTyped, Timetable!Rung
    <2>3. PICK given \in SUBSET {"from", "to"} : given = calls[w].given
      BY <1>1 DEF TimetableCall
    <2>4. PICK from \in 0 .. LastBell, to \in 0 .. LastBell :
              /\ from = IF "from" \in given THEN calls[w].bells[1] ELSE periods[p].from
              /\ to = IF "to" \in given THEN calls[w].bells[2] ELSE periods[p].to
      BY <2>2 DEF Timetable!Bells, Timetable!Rows
    <2>5. /\ from < to /\ periods' = [periods EXCEPT ![p] = [from |-> from, to |-> to, teaching |-> teaching]]
          /\ UNCHANGED entries /\ Timetable!Records(w, p)
          /\ given = {} => Timetable!Outdates(w, Timetable!Readers(p))
          /\ given # {} => Timetable!Outdates(w, Timetable!Readers(p) \cup Timetable!Checked)
      BY <1>3, <2>1, <2>3, <2>4 DEF Timetable!SavePeriod
    <2>6. given = {} => Timetable!BellsOf(p) = <<from, to>>
      BY <2>4 DEF Timetable!BellsOf
    <2>7. ~calls[w].stale => /\ ~Timetable!Referenced(p)
                             /\ given # {} => Timetable!Clear(p, <<from, to>>)
      <3>1. ~calls[w].stale /\ given # {} => from = calls[w].bells[1] /\ to = calls[w].bells[2]
        BY <1>1, <2>1, <2>2, <2>3, <2>4 DEF CheckedView
      <3>2. calls[w].bells = <<calls[w].bells[1], calls[w].bells[2]>>
        BY <2>2 DEF Timetable!Bells
      <3> QED
        BY <1>1, <2>1, <2>2, <2>3, <3>1, <3>2 DEF CheckedView
    <2>8. periods[p] \notin {None, Gone}
      BY <2>2 DEF Timetable!Rung
    <2>9. CASE given = {}
      BY <2>2, <2>5, <2>6, <2>7, <2>8, <2>9, PeriodSaved
    <2>10. CASE given # {}
      BY <2>2, <2>5, <2>7, <2>8, <2>10, PeriodSaved
    <2> QED
      BY <2>9, <2>10
  <1> QED
    BY <1>2, <1>3

\* delete_period takes no period a lesson stands in, and no other.
LEMMA DeletePeriodStep ==
    ASSUME TimetableInv, NEW p \in Periods, Timetable!DeletePeriod(p)
    PROVE  TimetableInv'
  <1>1. periods' = [periods EXCEPT ![p] = Gone] /\ UNCHANGED <<entries, calls, raced>> /\ ~Timetable!Referenced(p)
    BY DEF Timetable!DeletePeriod
  <1>2. \A q \in Periods : /\ q # p => periods'[q] = periods[q] /\ Timetable!BellsOf(q)' = Timetable!BellsOf(q)
                           /\ Timetable!Rung(q)' <=> Timetable!Rung(q) /\ q # p
    BY <1>1 DEF TimetableInv, TimetableTyped, Timetable!BellsOf, Timetable!Rung
  <1>3. TimetableTyped'
    BY <1>1, <1>2 DEF TimetableInv, TimetableTyped, Timetable!Rows, Timetable!Lessons
  <1>4. PeriodsApart' /\ LessonsApart'
    BY <1>1, <1>2 DEF TimetableInv, PeriodsApart, LessonsApart, Timetable!Overlapping
  <1>5. LessonsStand'
    BY <1>1, <1>2 DEF TimetableInv, TimetableTyped, LessonsStand, Timetable!Referenced, Timetable!Lessons, Timetable!Rows
  <1>6. ASSUME NEW v \in Workers PROVE Requested(calls[v])' /\ (~calls[v].stale => CheckedView(calls[v]))'
    <2>1. PICK c : c = calls[v] /\ c = calls'[v] /\ Requested(c) /\ (~c.stale => CheckedView(c))
      BY <1>1 DEF TimetableInv
    <2>2. Requested(c)'
      BY <1>1, <2>1 DEF Requested, Timetable!Bells, TimetableInv, TimetableTyped
    <2>3. ASSUME NEW x, NEW bells, Timetable!Clear(x, bells) PROVE Timetable!Clear(x, bells)'
      BY <1>2, <2>3 DEF Timetable!Clear, Timetable!Overlapping
    <2>4. ASSUME CheckedView(c) PROVE CheckedView(c)'
      <3>1. CASE c.op = "adding"
        BY <2>3, <2>4, <3>1 DEF CheckedView
      <3>2. CASE c.op \in {"editing", "changing", "booking"}
        <4>1. PICK q \in Periods : q = c.period
          BY <2>1, <3>2 DEF Requested
        <4> QED
          BY <1>1, <1>2, <2>3, <2>4, <3>2, <4>1 DEF CheckedView, Timetable!Referenced
      <3> QED
        BY <3>1, <3>2 DEF CheckedView
    <2> QED
      BY <2>1, <2>2, <2>4
  <1> QED
    BY <1>1, <1>3, <1>4, <1>5, <1>6 DEF TimetableInv

\* A lesson is booked in a period whose loaded row was taught in; the constraints keep it
\* apart from the others of its period.
LEMMA CreateEntryStep ==
    ASSUME TimetableInv, NEW w \in Workers, NEW a \in Assigned, NEW room \in Rooms \cup {None},
           Timetable!CreateTimetableEntry(w, a, room)
    PROVE  TimetableInv'
  <1>1. Requested(calls[w]) /\ (~calls[w].stale => CheckedView(calls[w])) /\ calls[w].op = "booking"
    BY DEF TimetableInv, Timetable!CreateTimetableEntry
  <1>2. PICK p \in Periods : p = calls[w].period /\ Timetable!Rung(p)
    BY <1>1 DEF Requested, Timetable!CreateTimetableEntry
  <1>3. PICK e : e = [class |-> a[2], teacher |-> a[1], room |-> room, period |-> p]
    OBVIOUS
  <1>4. e \in Timetable!Lessons /\ e.period = p
    BY <1>3 DEF Timetable!Lessons
  <1>5. /\ entries' = entries \cup {e} /\ (e \in entries \/ Timetable!SlotFree(e, entries))
        /\ Timetable!Outdates(w, Timetable!Checked \cap Timetable!Readers(p)) /\ Timetable!Records(w, p) /\ UNCHANGED periods
        /\ calls[w].teaching = TRUE
    BY <1>2, <1>3 DEF Timetable!CreateTimetableEntry
  <1>6. raced' = IF calls[w].stale THEN raced \cup {p} ELSE raced
    BY <1>5 DEF Timetable!Records
  <1>7. periods[p] \in Timetable!Rows /\ (~calls[w].stale => periods[p].teaching = TRUE)
    BY <1>1, <1>2, <1>5 DEF CheckedView, TimetableInv, TimetableTyped, Timetable!Rung
  <1>8. TimetableTyped' /\ PeriodsApart'
    BY <1>4, <1>5, <1>6, TimetableOutdates
       DEF TimetableInv, TimetableTyped, PeriodsApart, Timetable!Rung, Timetable!Rows, Timetable!BellsOf, Timetable!Overlapping, Timetable!Lessons
  <1>9. LessonsApart'
    BY <1>4, <1>5 DEF TimetableInv, LessonsApart, Timetable!SlotFree
  <1>10. LessonsStand'
    BY <1>4, <1>5, <1>6, <1>7 DEF TimetableInv, LessonsStand, Timetable!Rows
  <1>11. ASSUME NEW v \in Workers PROVE Requested(calls[v])' /\ (~calls[v].stale => CheckedView(calls[v]))'
    <2>1. PICK c : /\ c = calls'[v] /\ Requested(c)
                   /\ ~c.stale /\ c.op # "idle" => c = calls[v] /\ ~(c.op = "changing" /\ c.period = p)
      BY <1>5, TimetableOutdates DEF Timetable!Checked, Timetable!Readers
    <2>2. Requested(c)'
      BY <1>5, <2>1 DEF Requested, Timetable!Bells
    <2>3. ASSUME ~c.stale, c.op # "idle" PROVE CheckedView(c)'
      <3>1. CheckedView(c) /\ (c.op = "changing" => c.period # p)
        BY <2>1, <2>3 DEF TimetableInv
      <3> QED
        BY <1>4, <1>5, <3>1 DEF CheckedView, Timetable!Clear, Timetable!Rung, Timetable!BellsOf, Timetable!Overlapping,
                                Timetable!Referenced
    <2>4. c.op = "idle" => CheckedView(c)'
      BY DEF CheckedView
    <2> QED
      BY <2>1, <2>2, <2>3, <2>4
  <1> QED
    BY <1>8, <1>9, <1>10, <1>11 DEF TimetableInv

\* A lesson corrected or deleted keeps the others apart, and refers to no other period.
LEMMA CorrectionStep ==
    ASSUME TimetableInv, Timetable!CorrectionRequests
    PROVE  TimetableInv'
  <1>1. PICK e \in entries :
            \/ Timetable!DeleteTimetableEntry(e)
            \/ \E a \in Assigned, room \in Rooms \cup {None} : Timetable!UpdateTimetableEntry(e, a, room)
    BY DEF Timetable!CorrectionRequests
  <1>2. /\ UNCHANGED <<periods, calls, raced>>
        /\ \/ entries' = entries \ {e}
           \/ \E new \in Timetable!Lessons : /\ new.period = e.period /\ new.class = e.class
                                             /\ Timetable!SlotFree(new, entries \ {e})
                                             /\ entries' = (entries \ {e}) \cup {new}
    <2>1. CASE Timetable!DeleteTimetableEntry(e)
      BY <2>1 DEF Timetable!DeleteTimetableEntry
    <2>2. ASSUME NEW a \in Assigned, NEW room \in Rooms \cup {None}, Timetable!UpdateTimetableEntry(e, a, room)
          PROVE  /\ UNCHANGED <<periods, calls, raced>>
                 /\ \E new \in Timetable!Lessons : /\ new.period = e.period /\ new.class = e.class
                                                   /\ Timetable!SlotFree(new, entries \ {e})
                                                   /\ entries' = (entries \ {e}) \cup {new}
      <3>1. PICK old \in Timetable!Lessons : old = e
        BY DEF TimetableInv, TimetableTyped
      <3>2. PICK new : new = [old EXCEPT !.teacher = a[1], !.room = room]
        OBVIOUS
      <3>3. new \in Timetable!Lessons /\ new.period = old.period /\ new.class = old.class
        BY <3>2 DEF Timetable!Lessons
      <3> QED
        BY <2>2, <3>1, <3>2, <3>3 DEF Timetable!UpdateTimetableEntry
    <2> QED
      BY <1>1, <2>1, <2>2
  <1>3. \A p : Timetable!Referenced(p)' => Timetable!Referenced(p)
    BY <1>2 DEF Timetable!Referenced
  <1>4. TimetableTyped' /\ PeriodsApart'
    BY <1>2 DEF TimetableInv, TimetableTyped, PeriodsApart, Timetable!Rung, Timetable!Rows, Timetable!BellsOf, Timetable!Overlapping,
                Timetable!Lessons
  <1>5. LessonsApart' /\ LessonsStand'
    BY <1>2 DEF TimetableInv, LessonsApart, LessonsStand, Timetable!SlotFree, Timetable!Rows
  <1>6. ASSUME NEW v \in Workers PROVE Requested(calls[v])' /\ (~calls[v].stale => CheckedView(calls[v]))'
    <2>1. PICK c : c = calls[v] /\ c = calls'[v] /\ Requested(c) /\ (~c.stale => CheckedView(c))
      BY <1>2 DEF TimetableInv
    <2>2. Requested(c)' /\ (CheckedView(c) => CheckedView(c)')
      BY <1>2, <1>3, <2>1 DEF Requested, CheckedView, Timetable!Bells, Timetable!Clear, Timetable!Rung, Timetable!BellsOf,
                              Timetable!Overlapping
    <2> QED
      BY <2>1, <2>2
  <1> QED
    BY <1>2, <1>4, <1>5, <1>6 DEF TimetableInv

\* Every step keeps the invariant.
LEMMA TimetableStep == TimetableInv /\ [Timetable!Next]_(Timetable!vars) => TimetableInv'
  <1> SUFFICES ASSUME TimetableInv, [Timetable!Next]_(Timetable!vars) PROVE TimetableInv'
    OBVIOUS
  <1>1. CASE UNCHANGED Timetable!vars
    <2>1. UNCHANGED <<periods, entries, calls, raced>>
      BY <1>1 DEF Timetable!vars
    <2> QED
      BY <2>1, ViewsKept DEF TimetableInv, TimetableTyped
  <1>2. ASSUME NEW w \in Workers, Timetable!PeriodRequests(w) PROVE TimetableInv'
    BY <1>2, TimetableReads, PeriodWrites DEF Timetable!PeriodRequests
  <1>3. ASSUME NEW w \in Workers, Timetable!EntryRequests(w) \/ Timetable!Abandon(w) PROVE TimetableInv'
    BY <1>3, TimetableReads, CreateEntryStep DEF Timetable!EntryRequests
  <1> QED
    BY <1>1, <1>2, <1>3, DeletePeriodStep, CorrectionStep DEF Timetable!Next

\* It holds of the component as one of Records.
LEMMA TimetableWithin == RecordsSpec => [](part = "timetable" => TimetableInv)
  <1>1. RecordsInit => (part = "timetable" => TimetableInv)
    BY TimetableInit DEF RecordsInit
  <1>2. (part = "timetable" => TimetableInv) /\ [RecordsNext]_recordsVars => (part = "timetable" => TimetableInv)'
    BY TimetableStep DEF RecordsNext, recordsVars, recordRows, sharedRows, Timetable!vars, timetableRows
  <1> QED
    BY <1>1, <1>2, PTL DEF RecordsSpec

(* Two lessons of one class, teacher or room never meet at the same time, and     *)
(* every lesson stands in a period that is taught in, unless a period was written *)
(* or booked from an outdated view; for any periods, lessons and requests         *)
(* (create_period, update_period, delete_period, create_timetable_entry,          *)
(* update_timetable_entry and the unique constraints of TimetableEntry).          *)
THEOREM LessonsNeverMeet ==
    /\ Timetable!Spec => [](Timetable!TypeOK /\ Timetable!NoDoubleBooking)
    /\ RecordsSpec => []NoDoubleBooking
  <1>1. TimetableInv /\ [Timetable!Next]_(Timetable!vars) => TimetableInv'
    BY TimetableStep
  <1>2. Timetable!Spec => [](Timetable!TypeOK /\ Timetable!NoDoubleBooking)
    BY <1>1, TimetableInit, TimetableSays, PTL DEF Timetable!Spec
  <1>3. (part = "timetable" => TimetableInv) => NoDoubleBooking
    BY TimetableSays DEF NoDoubleBooking
  <1>4. RecordsSpec => []NoDoubleBooking
    BY <1>3, TimetableWithin, PTL
  <1> QED
    BY <1>2, <1>4

-----------------------------------------------------------------------------
(* Staff: employees and the memberships of their accounts                  *)

Memberships == [active : BOOLEAN, campus : Campuses \cup {None}]
StaffCall ==
    [op : {"idle", "linking", "moving"}, employee : Employees \cup {None}, account : Accounts \cup {None},
     campus : Campuses \cup {None}, stale : BOOLEAN]
StaffTyped ==
    /\ employees \in [Employees -> Staff!Rows \cup {None}]
    /\ memberships \in [Accounts -> Memberships]
    /\ calls \in [Workers -> StaffCall]
    /\ outdated \subseteq Employees /\ ended \subseteq Employees
    /\ \A e \in ended : employees[e] # None

\* A row lock has one holder.
EmployeesLocked ==
    \A v, w \in Workers : calls[v].employee = calls[w].employee /\ calls[v].employee # None => v = w

\* What a transaction has checked of the row it holds, and of a membership it does not.
StaffCallFits(c) ==
    LET e == c.employee
        a == employees[e].account
    IN
    /\ IF c.op = "idle" THEN e = None ELSE e \in Employees /\ employees[e] # None
    /\ c.op = "linking" =>
           /\ c.account \in Accounts /\ a = None
           /\ ~c.stale => memberships[c.account].active /\ Staff!InScope(memberships[c.account], employees[e].campus)
    /\ c.op = "moving" /\ a # None /\ e \notin outdated /\ memberships[a].active => Staff!InScope(memberships[a], c.campus)

StaffInv ==
    /\ StaffTyped /\ Staff!LinkedWithinScope /\ EmployeesLocked
    /\ \A w \in Workers : StaffCallFits(calls[w])

\* What LinkedWithinScope says of one employee.
SoundEmployee(e) ==
    employees[e] # None =>
        LET a == employees[e].account IN
        /\ a # None /\ e \notin outdated =>
               memberships[a].active /\ memberships[a].campus \in {None, employees[e].campus}
        /\ a # None => \A o \in Employees \ {e} : employees[o] = None \/ employees[o].account # a
        /\ employees[e].birth = None \/ employees[e].birth < employees[e].hire
        /\ e \in ended => employees[e].status = "TERMINATED"

\* The idle call holds nothing.
LEMMA StaffIdle == Staff!Idle \in StaffCall /\ Staff!Idle.op = "idle" /\ Staff!Idle.employee = None
  BY DEF Staff!Idle, StaffCall

\* The invariant holds at first.
LEMMA StaffInit == Staff!Init => StaffInv
  <1> SUFFICES ASSUME Staff!Init PROVE StaffInv
    OBVIOUS
  <1>1. calls \in [Workers -> StaffCall] /\ \A w \in Workers : calls[w] = Staff!Idle
    BY StaffIdle DEF Staff!Init
  <1>2. StaffTyped
    BY <1>1 DEF Staff!Init, StaffTyped, Memberships
  <1>3. \A w \in Workers : StaffCallFits(calls[w])
    BY <1>1, StaffIdle DEF StaffCallFits
  <1> QED
    BY <1>1, <1>2, <1>3, StaffIdle DEF Staff!Init, StaffInv, Staff!LinkedWithinScope, EmployeesLocked

\* A call that takes a row nobody holds, or ends.
LEMMA StaffCallTaken ==
    ASSUME StaffInv, NEW w \in Workers, NEW c \in StaffCall, calls' = [calls EXCEPT ![w] = c],
           UNCHANGED <<employees, memberships, outdated, ended>>, StaffCallFits(c),
           c.employee # None => \A v \in Workers : calls[v].employee # c.employee
    PROVE  StaffInv'
  <1>1. StaffTyped'
    BY DEF StaffInv, StaffTyped, Staff!Rows
  <1>2. Staff!LinkedWithinScope'
    BY DEF StaffInv, Staff!LinkedWithinScope
  <1>3. EmployeesLocked'
    BY DEF StaffInv, StaffTyped, EmployeesLocked
  <1>4. ASSUME NEW v \in Workers PROVE StaffCallFits(calls[v])'
    BY DEF StaffInv, StaffTyped, StaffCallFits, Staff!InScope
  <1> QED
    BY <1>1, <1>2, <1>3, <1>4 DEF StaffInv

\* The checks of a link and of a move, and the end of a transaction.
LEMMA StaffChecks ==
    ASSUME StaffInv, NEW w \in Workers,
           \/ \E e \in Employees, a \in Accounts : Staff!CheckLink(w, e, a)
           \/ \E e \in Employees, campus \in Campuses \cup {None} : Staff!CheckMove(w, e, campus)
           \/ Staff!Abandon(w)
    PROVE  StaffInv'
  <1>1. ASSUME NEW e \in Employees, NEW a \in Accounts, Staff!CheckLink(w, e, a) PROVE StaffInv'
    <2>1. PICK c : c = [Staff!Idle EXCEPT !.op = "linking", !.employee = e, !.account = a]
      OBVIOUS
    <2>2. c \in StaffCall /\ c.op = "linking" /\ c.employee = e /\ c.account = a
      BY <2>1 DEF Staff!Idle, StaffCall
    <2>3. StaffCallFits(c)
      BY <1>1, <2>2 DEF StaffCallFits, Staff!CheckLink, Staff!Lockable
    <2> QED
      BY <1>1, <2>1, <2>2, <2>3, StaffCallTaken DEF Staff!CheckLink, Staff!Lockable
  <1>2. ASSUME NEW e \in Employees, NEW campus \in Campuses \cup {None}, Staff!CheckMove(w, e, campus) PROVE StaffInv'
    <2>1. PICK c : c = [Staff!Idle EXCEPT !.op = "moving", !.employee = e, !.campus = campus]
      OBVIOUS
    <2>2. c \in StaffCall /\ c.op = "moving" /\ c.employee = e /\ c.campus = campus
      BY <2>1 DEF Staff!Idle, StaffCall
    <2>3. StaffCallFits(c)
      BY <1>2, <2>2 DEF StaffCallFits, Staff!CheckMove, Staff!Lockable
    <2> QED
      BY <1>2, <2>1, <2>2, <2>3, StaffCallTaken DEF Staff!CheckMove, Staff!Lockable
  <1>3. CASE Staff!Abandon(w)
    BY <1>3, StaffIdle, StaffCallTaken DEF Staff!Abandon, StaffCallFits
  <1> QED
    BY <1>1, <1>2, <1>3

\* What a write of an employee's row leaves as it is, and what the new row has to say.
WrittenOnly(e, new) ==
    /\ employees' = [employees EXCEPT ![e] = new] /\ memberships' = memberships
    /\ outdated' \subseteq Employees /\ ended' \subseteq Employees
    /\ \A o \in Employees \ {e} : (o \in outdated' <=> o \in outdated) /\ (o \in ended' <=> o \in ended)
SoundRow(e, new) ==
    /\ new.account # None /\ e \notin outdated' =>
           memberships[new.account].active /\ memberships[new.account].campus \in {None, new.campus}
    /\ new.account # None => \A o \in Employees \ {e} : employees[o] = None \/ employees[o].account # new.account
    /\ new.birth = None \/ new.birth < new.hire
    /\ e \in ended' => new.status = "TERMINATED"

\* An employee's row written by the transaction that holds it, or while nobody does.
LEMMA EmployeeSaved ==
    ASSUME StaffInv, NEW e \in Employees, NEW new \in Staff!Rows, WrittenOnly(e, new), SoundRow(e, new),
           calls' \in [Workers -> StaffCall],
           \A v \in Workers : calls'[v] = Staff!Idle \/ (calls'[v] = calls[v] /\ calls[v].employee # e)
    PROVE  StaffInv'
  <1>1. /\ employees'[e] = new /\ new # None
        /\ \A o \in Employees \ {e} : employees'[o] = employees[o]
    BY DEF StaffInv, StaffTyped, Staff!Rows, Staff!EmployeeTransitions, Staff!Days, WrittenOnly
  <1>2. StaffTyped'
    <2>1. \A o \in ended' : employees'[o] # None
      BY <1>1 DEF StaffInv, StaffTyped, WrittenOnly
    <2> QED
      BY <2>1 DEF StaffInv, StaffTyped, WrittenOnly
  <1>3. Staff!LinkedWithinScope'
    <2> SUFFICES ASSUME NEW o \in Employees PROVE SoundEmployee(o)'
      BY DEF Staff!LinkedWithinScope, SoundEmployee
    <2>1. CASE o = e
      BY <1>1, <2>1 DEF WrittenOnly, SoundRow, SoundEmployee
    <2>2. CASE o # e
      <3>1. /\ employees'[o] = employees[o] /\ memberships' = memberships
            /\ o \in outdated' <=> o \in outdated
            /\ o \in ended' <=> o \in ended
        BY <1>1, <2>2 DEF WrittenOnly
      <3>2. employees[o] # None /\ employees[o].account # None =>
                \A p \in Employees \ {o} : employees'[p] = None \/ employees'[p].account # employees[o].account
        BY <1>1, <2>2, <3>1 DEF StaffInv, Staff!LinkedWithinScope, SoundRow
      <3> QED
        BY <3>1, <3>2 DEF StaffInv, Staff!LinkedWithinScope, SoundEmployee
    <2> QED
      BY <2>1, <2>2
  <1>4. EmployeesLocked'
    BY StaffIdle DEF StaffInv, StaffTyped, EmployeesLocked
  <1>5. ASSUME NEW v \in Workers PROVE StaffCallFits(calls[v])'
    <2>1. PICK c \in StaffCall : c = calls'[v] /\ (c = Staff!Idle \/ (c = calls[v] /\ c.employee # e))
      OBVIOUS
    <2>2. CASE c = Staff!Idle
      BY <2>1, <2>2, StaffIdle DEF StaffCallFits
    <2>3. CASE c = calls[v] /\ c.employee # e
      <3>1. StaffCallFits(c)
        BY <2>3 DEF StaffInv
      <3>2. StaffCallFits(c)'
        BY <1>1, <2>3, <3>1 DEF StaffCallFits, Staff!InScope, StaffCall, WrittenOnly
      <3> QED
        BY <2>1, <3>2 DEF StaffCallFits, Staff!InScope
    <2> QED
      BY <2>1, <2>2, <2>3
  <1> QED
    BY <1>2, <1>3, <1>4, <1>5 DEF StaffInv

\* A link saves the account it checked, and a move the campus.
LEMMA StaffSaves ==
    ASSUME StaffInv, NEW w \in Workers, Staff!SaveLink(w) \/ Staff!SaveMove(w)
    PROVE  StaffInv'
  <1>1. PICK c \in StaffCall : c = calls[w] /\ StaffCallFits(c) /\ c.op # "idle"
    BY DEF StaffInv, StaffTyped, Staff!SaveLink, Staff!SaveMove
  <1>2. PICK e \in Employees : e = c.employee /\ employees[e] \in Staff!Rows
    BY <1>1 DEF StaffCallFits, StaffInv, StaffTyped
  <1>3. PICK old \in Staff!Rows : old = employees[e]
    BY <1>2
  <1>4. /\ calls' = [calls EXCEPT ![w] = Staff!Idle] /\ calls' \in [Workers -> StaffCall]
        /\ \A v \in Workers : calls'[v] = Staff!Idle \/ (calls'[v] = calls[v] /\ calls[v].employee # e)
    BY <1>1, <1>2, StaffIdle DEF StaffInv, StaffTyped, EmployeesLocked, Staff!SaveLink, Staff!SaveMove
  <1>5. /\ old.account # None /\ e \notin outdated =>
               memberships[old.account].active /\ memberships[old.account].campus \in {None, old.campus}
        /\ old.account # None => \A o \in Employees \ {e} : employees[o] = None \/ employees[o].account # old.account
        /\ old.birth = None \/ old.birth < old.hire
        /\ e \in ended => old.status = "TERMINATED"
        /\ old # None
    BY <1>1, <1>2, <1>3 DEF StaffInv, Staff!LinkedWithinScope, StaffCallFits
  <1>6. CASE Staff!SaveLink(w)
    <2>1. PICK a \in Accounts : a = c.account /\ c.op = "linking"
      BY <1>1, <1>6 DEF StaffCallFits, Staff!SaveLink
    <2>2. PICK new : new = [old EXCEPT !.account = a]
      OBVIOUS
    <2>3. /\ new \in Staff!Rows /\ new.account = a /\ new.campus = old.campus /\ new.birth = old.birth
          /\ new.hire = old.hire /\ new.status = old.status
      BY <2>2 DEF Staff!Rows
    <2>4. /\ employees' = [employees EXCEPT ![e] = new]
          /\ outdated' = (IF c.stale THEN outdated \cup {e} ELSE outdated \ {e}) /\ UNCHANGED <<memberships, ended>>
          /\ \A o \in Employees \ {e} : employees[o] # None => employees[o].account # a
      BY <1>1, <1>2, <1>3, <1>6, <2>1, <2>2 DEF Staff!SaveLink, StaffInv, StaffTyped
    <2>5. ~c.stale => memberships[a].active /\ memberships[a].campus \in {None, new.campus}
      BY <1>1, <1>2, <1>3, <2>1, <2>3 DEF StaffCallFits, Staff!InScope
    <2>6. outdated' \subseteq Employees /\ ended' \subseteq Employees
      BY <2>4 DEF StaffInv, StaffTyped
    <2>7. e \notin outdated' => ~c.stale
      BY <2>4
    <2>8. WrittenOnly(e, new)
      BY <2>4, <2>6 DEF WrittenOnly, StaffInv, StaffTyped
    <2>9. SoundRow(e, new)
      BY <1>5, <2>3, <2>4, <2>5, <2>7 DEF SoundRow
    <2> QED
      BY <1>4, <2>3, <2>8, <2>9, EmployeeSaved
  <1>7. CASE Staff!SaveMove(w)
    <2>1. PICK campus \in Campuses \cup {None} : campus = c.campus /\ c.op = "moving"
      BY <1>1, <1>7 DEF StaffCall, Staff!SaveMove
    <2>2. PICK new : new = [old EXCEPT !.campus = campus]
      OBVIOUS
    <2>3. /\ new \in Staff!Rows /\ new.account = old.account /\ new.campus = campus /\ new.birth = old.birth
          /\ new.hire = old.hire /\ new.status = old.status
      BY <2>2 DEF Staff!Rows
    <2>4. employees' = [employees EXCEPT ![e] = new] /\ UNCHANGED <<memberships, outdated, ended>>
      BY <1>1, <1>2, <1>3, <1>7, <2>1, <2>2 DEF Staff!SaveMove, StaffInv, StaffTyped
    <2>5. old.account # None /\ e \notin outdated =>
              memberships[old.account].active /\ memberships[old.account].campus \in {None, campus}
      BY <1>1, <1>2, <1>3, <1>5, <2>1 DEF StaffCallFits, Staff!InScope
    <2>6. WrittenOnly(e, new)
      BY <2>4 DEF WrittenOnly, StaffInv, StaffTyped
    <2>7. SoundRow(e, new)
      BY <1>5, <2>3, <2>4, <2>5 DEF SoundRow
    <2> QED
      BY <1>4, <2>3, <2>6, <2>7, EmployeeSaved
  <1> QED
    BY <1>6, <1>7

\* The calls that check and write under the row's lock in one step.
LEMMA StaffWrites ==
    ASSUME StaffInv, NEW e \in Employees,
           \/ Staff!UnlinkUserAccount(e)
           \/ \E birth \in Staff!Days \cup {None}, hire \in Staff!Days : Staff!Lockable(e) /\ Staff!UpdateDates(e, birth, hire)
           \/ \E status \in DOMAIN Staff!EmployeeTransitions : Staff!ChangeEmploymentStatus(e, status)
    PROVE  StaffInv'
  <1>1. /\ employees[e] # None /\ \A v \in Workers : calls[v].employee # e
        /\ UNCHANGED <<memberships, calls>>
    BY DEF Staff!UnlinkUserAccount, Staff!UpdateDates, Staff!ChangeEmploymentStatus, Staff!Lockable
  <1>2. PICK old \in Staff!Rows : old = employees[e]
    BY <1>1 DEF StaffInv, StaffTyped
  <1>3. /\ old.account # None /\ e \notin outdated =>
               memberships[old.account].active /\ memberships[old.account].campus \in {None, old.campus}
        /\ old.account # None => \A o \in Employees \ {e} : employees[o] = None \/ employees[o].account # old.account
        /\ old.birth = None \/ old.birth < old.hire
        /\ e \in ended => old.status = "TERMINATED"
    BY <1>1, <1>2 DEF StaffInv, Staff!LinkedWithinScope
  <1>4. calls' \in [Workers -> StaffCall] /\ \A v \in Workers : calls'[v] = calls[v] /\ calls[v].employee # e
    BY <1>1 DEF StaffInv, StaffTyped
  <1>5. CASE Staff!UnlinkUserAccount(e)
    <2>1. PICK new : new = [old EXCEPT !.account = None]
      OBVIOUS
    <2>2. /\ new \in Staff!Rows /\ new.account = None /\ new.birth = old.birth
          /\ new.hire = old.hire /\ new.status = old.status
      BY <2>1 DEF Staff!Rows
    <2>3. employees' = [employees EXCEPT ![e] = new] /\ outdated' = outdated \ {e} /\ UNCHANGED ended
      BY <1>2, <1>5, <2>1 DEF Staff!UnlinkUserAccount, StaffInv, StaffTyped
    <2>4. WrittenOnly(e, new)
      BY <1>1, <2>3 DEF WrittenOnly, StaffInv, StaffTyped
    <2>5. SoundRow(e, new)
      BY <1>1, <1>3, <2>2, <2>3 DEF SoundRow
    <2> QED
      BY <1>4, <2>2, <2>4, <2>5, EmployeeSaved
  <1>6. ASSUME NEW birth \in Staff!Days \cup {None}, NEW hire \in Staff!Days, Staff!UpdateDates(e, birth, hire)
        PROVE  StaffInv'
    <2>1. PICK new : new = [old EXCEPT !.birth = birth, !.hire = hire]
      OBVIOUS
    <2>2. /\ new \in Staff!Rows /\ new.account = old.account /\ new.campus = old.campus /\ new.birth = birth
          /\ new.hire = hire /\ new.status = old.status
      BY <2>1 DEF Staff!Rows
    <2>3. /\ employees' = [employees EXCEPT ![e] = new] /\ UNCHANGED <<outdated, ended>>
          /\ birth = None \/ birth < hire
      BY <1>2, <1>6, <2>1 DEF Staff!UpdateDates, Staff!ValidDates, StaffInv, StaffTyped
    <2>4. WrittenOnly(e, new)
      BY <1>1, <2>3 DEF WrittenOnly, StaffInv, StaffTyped
    <2>5. SoundRow(e, new)
      BY <1>1, <1>3, <2>2, <2>3 DEF SoundRow
    <2> QED
      BY <1>4, <2>2, <2>4, <2>5, EmployeeSaved
  <1>7. ASSUME NEW status \in DOMAIN Staff!EmployeeTransitions, Staff!ChangeEmploymentStatus(e, status) PROVE StaffInv'
    <2>1. PICK new : new = [old EXCEPT !.status = status]
      OBVIOUS
    <2>2. /\ new \in Staff!Rows /\ new.account = old.account /\ new.campus = old.campus /\ new.birth = old.birth
          /\ new.hire = old.hire /\ new.status = status
      BY <2>1 DEF Staff!Rows
    <2>3. /\ employees' = [employees EXCEPT ![e] = new] /\ UNCHANGED outdated
          /\ ended' = IF status = "TERMINATED" THEN ended \cup {e} ELSE ended
          /\ status \in Staff!EmployeeTransitions[old.status]
      BY <1>2, <1>7, <2>1 DEF Staff!ChangeEmploymentStatus, StaffInv, StaffTyped
    <2>4. old.status # "TERMINATED"
      BY <2>3 DEF Staff!EmployeeTransitions
    <2>5. WrittenOnly(e, new)
      BY <1>1, <2>3 DEF WrittenOnly, StaffInv, StaffTyped
    <2>6. SoundRow(e, new)
      BY <1>1, <1>3, <2>2, <2>3, <2>4 DEF SoundRow
    <2> QED
      BY <1>4, <2>2, <2>5, <2>6, EmployeeSaved
  <1> QED
    BY <1>5, <1>6, <1>7

\* A new employee has no account.
LEMMA CreateEmployeeStep ==
    ASSUME StaffInv, NEW e \in Employees, NEW campus \in Campuses \cup {None},
           NEW birth \in Staff!Days \cup {None}, NEW hire \in Staff!Days, Staff!CreateEmployee(e, campus, birth, hire)
    PROVE  StaffInv'
  <1>1. PICK new : new = [status |-> "ACTIVE", campus |-> campus, account |-> None, birth |-> birth, hire |-> hire]
    OBVIOUS
  <1>2. new \in Staff!Rows /\ new.account = None /\ new.birth = birth /\ new.hire = hire
    BY <1>1 DEF Staff!Rows, Staff!EmployeeTransitions
  <1>3. /\ employees[e] = None /\ (birth = None \/ birth < hire)
        /\ employees' = [employees EXCEPT ![e] = new] /\ UNCHANGED <<memberships, calls, outdated, ended>>
    BY <1>1 DEF Staff!CreateEmployee, Staff!ValidDates
  <1>4. WrittenOnly(e, new)
    BY <1>3 DEF WrittenOnly, StaffInv, StaffTyped
  <1>5. SoundRow(e, new)
    BY <1>2, <1>3 DEF SoundRow, StaffInv, StaffTyped
  <1>6. calls' \in [Workers -> StaffCall]
    BY <1>3 DEF StaffInv, StaffTyped
  <1>7. ASSUME NEW v \in Workers PROVE calls'[v] = calls[v] /\ calls[v].employee # e
    BY <1>3 DEF StaffInv, StaffTyped, StaffCall, StaffCallFits
  <1> QED
    BY <1>2, <1>4, <1>5, <1>6, <1>7, EmployeeSaved

\* Tenancy changes a membership: the employee it belongs to is outdated, the calls that
\* read it are stale.
LEMMA ChangeMembershipStep ==
    ASSUME StaffInv, NEW a \in Accounts, NEW m \in Memberships, Staff!ChangeMembership(a, m)
    PROVE  StaffInv'
  <1>1. /\ memberships' = [memberships EXCEPT ![a] = m] /\ UNCHANGED <<employees, ended>>
        /\ outdated' = outdated \cup {e \in Employees : employees[e] # None /\ employees[e].account = a}
    BY DEF Staff!ChangeMembership
  <1>2. ASSUME NEW w \in Workers
        PROVE  /\ calls'[w] \in StaffCall
               /\ calls'[w].op = calls[w].op /\ calls'[w].employee = calls[w].employee
               /\ calls'[w].account = calls[w].account /\ calls'[w].campus = calls[w].campus
               /\ ~calls'[w].stale => ~calls[w].stale /\ calls[w].account # a
    <2>1. PICK c \in StaffCall : c = calls[w]
      BY DEF StaffInv, StaffTyped
    <2>2. PICK d : d = [c EXCEPT !.stale = TRUE]
      OBVIOUS
    <2>3. /\ d \in StaffCall /\ d.op = c.op /\ d.employee = c.employee /\ d.account = c.account
          /\ d.campus = c.campus
      BY <2>2 DEF StaffCall
    <2>4. d.stale = TRUE
      BY <2>2 DEF StaffCall
    <2>5. calls'[w] = IF c.account = a THEN d ELSE c
      BY <2>1, <2>2 DEF Staff!ChangeMembership
    <2>6. CASE c.account = a
      BY <2>1, <2>3, <2>4, <2>5, <2>6
    <2>7. CASE c.account # a
      BY <2>1, <2>5, <2>7
    <2> QED
      BY <2>6, <2>7
  <1>3. calls' \in [Workers -> StaffCall]
    BY <1>2 DEF Staff!ChangeMembership
  <1>4. StaffTyped'
    BY <1>1, <1>3 DEF StaffInv, StaffTyped, Staff!Rows
  <1>5. Staff!LinkedWithinScope'
    <2> SUFFICES ASSUME NEW e \in Employees PROVE SoundEmployee(e)'
      BY DEF Staff!LinkedWithinScope, SoundEmployee
    <2>1. SoundEmployee(e)
      BY DEF StaffInv, Staff!LinkedWithinScope, SoundEmployee
    <2>2. employees[e] # None => employees[e] \in Staff!Rows
      BY DEF StaffInv, StaffTyped
    <2>3. employees[e] # None /\ employees[e].account # None /\ e \notin outdated' =>
              memberships'[employees[e].account] = memberships[employees[e].account] /\ e \notin outdated
      BY <1>1, <2>2 DEF Staff!Rows, StaffInv, StaffTyped
    <2> QED
      BY <1>1, <2>1, <2>3 DEF SoundEmployee
  <1>6. EmployeesLocked'
    BY <1>2 DEF StaffInv, EmployeesLocked
  <1>7. ASSUME NEW w \in Workers PROVE StaffCallFits(calls[w])'
    <2>1. PICK c \in StaffCall : c = calls[w] /\ StaffCallFits(c)
      BY DEF StaffInv, StaffTyped
    <2>2. PICK d \in StaffCall : /\ d = calls'[w] /\ d.op = c.op /\ d.employee = c.employee /\ d.account = c.account
                                 /\ d.campus = c.campus /\ (~d.stale => ~c.stale /\ c.account # a)
      BY <1>2, <2>1
    <2>3. StaffCallFits(d)'
      BY <1>1, <1>4, <2>1, <2>2 DEF StaffCallFits, Staff!InScope, StaffTyped, StaffInv, Staff!Rows
    <2> QED
      BY <2>2, <2>3
  <1> QED
    BY <1>4, <1>5, <1>6, <1>7 DEF StaffInv

\* Every step keeps the invariant.
LEMMA StaffStep == StaffInv /\ [Staff!Next]_(Staff!vars) => StaffInv'
  <1> SUFFICES ASSUME StaffInv, [Staff!Next]_(Staff!vars) PROVE StaffInv'
    OBVIOUS
  <1>1. CASE UNCHANGED Staff!vars
    <2>1. UNCHANGED <<employees, memberships, calls, outdated, ended>>
      BY <1>1 DEF Staff!vars
    <2> QED
      BY <2>1 DEF StaffInv, StaffTyped, Staff!LinkedWithinScope, EmployeesLocked, StaffCallFits, Staff!InScope, Staff!Rows
  <1>2. ASSUME NEW w \in Workers, Staff!EmployeeRequests(w) PROVE StaffInv'
    <2>1. PICK e \in Employees :
              \/ \E campus \in Campuses \cup {None} : Staff!CheckMove(w, e, campus)
              \/ \E birth \in Staff!Days \cup {None}, hire \in Staff!Days : Staff!Lockable(e) /\ Staff!UpdateDates(e, birth, hire)
              \/ \E birth \in Staff!Days \cup {None}, hire \in Staff!Days, campus \in Campuses \cup {None} :
                    Staff!CreateEmployee(e, campus, birth, hire)
      BY <1>2 DEF Staff!EmployeeRequests
    <2> QED
      BY <2>1, StaffChecks, StaffWrites, CreateEmployeeStep
  <1>3. ASSUME NEW w \in Workers, Staff!LinkRequests(w) PROVE StaffInv'
    BY <1>3, StaffChecks, StaffWrites DEF Staff!LinkRequests
  <1>4. ASSUME NEW w \in Workers, Staff!SaveLink(w) \/ Staff!SaveMove(w) PROVE StaffInv'
    BY <1>4, StaffSaves
  <1>5. ASSUME NEW w \in Workers, Staff!Abandon(w) PROVE StaffInv'
    BY <1>5, StaffChecks
  <1>6. ASSUME NEW e \in Employees, NEW status \in DOMAIN Staff!EmployeeTransitions, Staff!ChangeEmploymentStatus(e, status)
        PROVE  StaffInv'
    BY <1>6, StaffWrites
  <1>7. ASSUME NEW a \in Accounts, NEW m \in Memberships, Staff!ChangeMembership(a, m) PROVE StaffInv'
    BY <1>7, ChangeMembershipStep
  <1> QED
    BY <1>1, <1>2, <1>3, <1>4, <1>5, <1>6, <1>7 DEF Staff!Next, Memberships

\* What the invariant says.
LEMMA StaffSays == StaffInv => Staff!TypeOK /\ Staff!LinkedWithinScope
  BY DEF StaffInv, StaffTyped, StaffCall, Memberships, Staff!TypeOK

\* It holds of the component as one of Records.
LEMMA StaffWithin == RecordsSpec => [](part = "staff" => StaffInv)
  <1>1. RecordsInit => (part = "staff" => StaffInv)
    BY StaffInit DEF RecordsInit
  <1>2. (part = "staff" => StaffInv) /\ [RecordsNext]_recordsVars => (part = "staff" => StaffInv)'
    BY StaffStep DEF RecordsNext, recordsVars, recordRows, sharedRows, Staff!vars, staffRows
  <1> QED
    BY <1>1, <1>2, PTL DEF RecordsSpec

(* An account belongs to one employee, its membership is active and reaches the   *)
(* employee's campus unless tenancy changed it after staff read it, dates of      *)
(* birth come before dates of hire and a dismissal stays; for any employees,      *)
(* accounts, campuses and requests (create_employee, link_user_account,           *)
(* unlink_user_account, update_employee_details, change_employment_status).       *)
THEOREM LinksStayInScope ==
    /\ Staff!Spec => [](Staff!TypeOK /\ Staff!LinkedWithinScope)
    /\ RecordsSpec => []LinkedWithinScope
  <1>1. StaffInv /\ [Staff!Next]_(Staff!vars) => StaffInv'
    BY StaffStep
  <1>2. Staff!Spec => [](Staff!TypeOK /\ Staff!LinkedWithinScope)
    BY <1>1, StaffInit, StaffSays, PTL DEF Staff!Spec
  <1>3. (part = "staff" => StaffInv) => LinkedWithinScope
    BY StaffSays DEF LinkedWithinScope
  <1>4. RecordsSpec => []LinkedWithinScope
    BY <1>3, StaffWithin, PTL
  <1> QED
    BY <1>2, <1>4

-----------------------------------------------------------------------------
(* Admissions: the application, and the student it becomes                 *)

AdmissionCall ==
    [object : Applications!Objects \cup {None},
     seen : Applications!ApplicationStatuses \cup Applications!StudentStatuses \cup {None}]
AdmissionsTyped ==
    /\ application \in Applications!ApplicationStatuses
    /\ students \in [Students -> Applications!StudentStatuses \cup {None}]
    /\ enrollments \subseteq Students \X Years
    /\ calls \in [Workers -> AdmissionCall]
    /\ admitted \subseteq Students
    /\ departures \in [Students -> SUBSET Applications!Terminal]
    /\ overwritten \subseteq Applications!Objects

\* A request holds a status that its object can have.
Seen(c) ==
    /\ c.object = "application" => c.seen \in Applications!ApplicationStatuses
    /\ c.object \in Students => c.seen \in Applications!StudentStatuses

\* One application, one student, unless it was saved over.
OneStudent ==
    "application" \notin overwritten =>
        /\ admitted = {} \/ \E s \in Students : admitted = {s}
        /\ admitted # {} => application = "ENROLLED"
\* A departure is the student's status, unless the student was saved over.
DepartureStands(s) == s \notin overwritten /\ departures[s] # {} => departures[s] = {students[s]}
\* An admitted student has a place.
Placed(s) == students[s] # None /\ \E year \in Years : <<s, year>> \in enrollments

AdmissionsInv ==
    /\ AdmissionsTyped /\ OneStudent
    /\ \A s \in Students : DepartureStands(s)
    /\ \A s \in admitted : Placed(s)
    /\ \A w \in Workers : Seen(calls[w])

\* The invariant holds at first.
LEMMA AdmissionsInit == Applications!Init => AdmissionsInv
  BY DEF Applications!Init, Applications!Idle, AdmissionsInv, AdmissionsTyped, AdmissionCall, OneStudent, DepartureStands,
         Placed, Seen, Applications!Objects, Applications!ApplicationStatuses, Applications!StudentStatuses,
         Applications!AllowedTransitions, Applications!StudentTransitions

\* A set that is empty, or that of one element, has at most one.
LEMMA AtMostOne ==
    ASSUME NEW S, NEW x, S = {} \/ S = {x}
    PROVE  Cardinality(S) <= 1
  <1>1. Cardinality({}) = 0 /\ Cardinality({x}) = 1
    BY FS_EmptySet, FS_Singleton
  <1>2. CASE S = {}
    BY <1>1, <1>2
  <1>3. CASE S = {x}
    BY <1>1, <1>3
  <1> QED
    BY <1>2, <1>3

\* The size of a set is what the component calls it.
LEMMA AdmissionsSize == \A S : Applications!Cardinality(S) = Cardinality(S)
  BY DEF Applications!Cardinality, Cardinality

\* The invariant says what AdmittedOnce does.
LEMMA AdmissionsSay == AdmissionsInv => Applications!TypeOK /\ Applications!AdmittedOnce
  <1> SUFFICES ASSUME AdmissionsInv PROVE Applications!TypeOK /\ Applications!AdmittedOnce
    OBVIOUS
  <1>1. Applications!TypeOK
    BY DEF AdmissionsInv, AdmissionsTyped, AdmissionCall, Applications!TypeOK
  <1>2. "application" \notin overwritten => Cardinality(admitted) <= 1
    BY AtMostOne DEF AdmissionsInv, OneStudent
  <1>3. ASSUME NEW s \in Students \ overwritten
        PROVE  Cardinality(departures[s]) <= 1 /\ (departures[s] # {} => {students[s]} = departures[s])
    <2>1. departures[s] = {} \/ departures[s] = {students[s]}
      BY DEF AdmissionsInv, DepartureStands
    <2> QED
      BY <2>1, AtMostOne
  <1>4. /\ "application" \notin overwritten => (admitted # {} => application = "ENROLLED")
        /\ \A s \in admitted : students[s] # None /\ \E year \in Years : <<s, year>> \in enrollments
    BY DEF AdmissionsInv, OneStudent, Placed
  <1>5. Applications!AdmittedOnce
    BY <1>2, <1>3, <1>4, AdmissionsSize DEF Applications!AdmittedOnce
  <1> QED
    BY <1>1, <1>5

\* Loading an object, or letting it go, changes no row.
LEMMA ObjectLoaded ==
    ASSUME AdmissionsInv, NEW w \in Workers, NEW c \in AdmissionCall, Seen(c), calls' = [calls EXCEPT ![w] = c],
           UNCHANGED <<application, students, enrollments, admitted, departures, overwritten>>
    PROVE  AdmissionsInv'
  <1>1. AdmissionsTyped' /\ OneStudent'
    BY DEF AdmissionsInv, AdmissionsTyped, OneStudent
  <1>2. (\A s \in Students : DepartureStands(s)') /\ \A s \in admitted' : Placed(s)'
    BY DEF AdmissionsInv, DepartureStands, Placed
  <1>3. \A v \in Workers : Seen(calls[v])'
    BY DEF AdmissionsInv, AdmissionsTyped, Seen
  <1> QED
    BY <1>1, <1>2, <1>3 DEF AdmissionsInv

\* The steps that only load or refuse.
LEMMA AdmissionReads ==
    ASSUME AdmissionsInv, NEW w \in Workers,
           Applications!LoadApplication(w) \/ Applications!Abandon(w) \/ \E s \in Students : Applications!LoadStudent(w, s)
    PROVE  AdmissionsInv'
  <1>1. CASE Applications!LoadApplication(w)
    <2>1. PICK c : c = [object |-> "application", seen |-> application]
      OBVIOUS
    <2>2. c \in AdmissionCall /\ Seen(c)
      BY <2>1 DEF AdmissionsInv, AdmissionsTyped, AdmissionCall, Seen, Applications!Objects
    <2> QED
      BY <1>1, <2>1, <2>2, ObjectLoaded DEF Applications!LoadApplication
  <1>2. CASE Applications!Abandon(w)
    <2>1. Applications!Idle \in AdmissionCall /\ Seen(Applications!Idle)
      BY DEF AdmissionCall, Seen, Applications!Idle
    <2> QED
      BY <1>2, <2>1, ObjectLoaded DEF Applications!Abandon, Applications!Ends
  <1>3. ASSUME NEW s \in Students, Applications!LoadStudent(w, s) PROVE AdmissionsInv'
    <2>1. PICK c : c = [object |-> s, seen |-> students[s]]
      OBVIOUS
    <2>2. c \in AdmissionCall /\ Seen(c)
      BY <1>3, <2>1 DEF AdmissionsInv, AdmissionsTyped, AdmissionCall, Seen, Applications!Objects, Applications!LoadStudent
    <2> QED
      BY <1>3, <2>1, <2>2, ObjectLoaded DEF Applications!LoadStudent
  <1> QED
    BY <1>1, <1>2, <1>3

\* A request that ends leaves the others theirs.
LEMMA AdmissionEnds ==
    ASSUME AdmissionsInv, NEW w \in Workers, Applications!Ends(w)
    PROVE  calls' \in [Workers -> AdmissionCall] /\ \A v \in Workers : Seen(calls[v])'
  <1>1. Applications!Idle \in AdmissionCall /\ Seen(Applications!Idle)
    BY DEF AdmissionCall, Seen, Applications!Idle
  <1> QED
    BY <1>1 DEF AdmissionsInv, AdmissionsTyped, Applications!Ends, Seen

\* An enrolled application moves no further, unless it is saved over.
LEMMA TransitionStep ==
    ASSUME AdmissionsInv, NEW w \in Workers, NEW status \in Applications!ApplicationStatuses,
           Applications!TransitionApplication(w, status)
    PROVE  AdmissionsInv'
  <1>1. /\ application' = status /\ UNCHANGED <<students, enrollments, admitted, departures>>
        /\ status \in Applications!AllowedTransitions[calls[w].seen] /\ Applications!Ends(w)
        /\ overwritten' = IF calls[w].seen = application THEN overwritten ELSE overwritten \cup {"application"}
    BY DEF Applications!TransitionApplication, Applications!Overwrites
  <1>2. AdmissionsTyped'
    BY <1>1, AdmissionEnds DEF AdmissionsInv, AdmissionsTyped, Applications!Objects
  <1>3. OneStudent'
    <2>1. Applications!AllowedTransitions["ENROLLED"] = {}
      BY DEF Applications!AllowedTransitions
    <2> QED
      BY <1>1, <2>1 DEF AdmissionsInv, OneStudent
  <1>4. (\A s \in Students : DepartureStands(s)') /\ \A s \in admitted' : Placed(s)'
    BY <1>1 DEF AdmissionsInv, DepartureStands, Placed
  <1> QED
    BY <1>1, <1>2, <1>3, <1>4, AdmissionEnds DEF AdmissionsInv

\* Enrolment finds the application ACCEPTED under its lock: nobody was admitted.
LEMMA EnrollApplicationStep ==
    ASSUME AdmissionsInv, NEW w \in Workers, NEW s \in Students, NEW year \in Years,
           Applications!EnrollApplication(w, s, year)
    PROVE  AdmissionsInv'
  <1>1. /\ application = "ACCEPTED" /\ students[s] = None /\ Applications!Ends(w)
        /\ students' = [students EXCEPT ![s] = "ACTIVE"] /\ enrollments' = enrollments \cup {<<s, year>>}
        /\ application' = "ENROLLED" /\ admitted' = admitted \cup {s} /\ UNCHANGED <<departures, overwritten>>
    BY DEF Applications!EnrollApplication, Applications!StatusToEnroll
  <1>2. AdmissionsTyped'
    BY <1>1, AdmissionEnds DEF AdmissionsInv, AdmissionsTyped, Applications!ApplicationStatuses,
          Applications!AllowedTransitions, Applications!StudentStatuses, Applications!StudentTransitions
  <1>3. OneStudent'
    BY <1>1 DEF AdmissionsInv, OneStudent
  <1>4. ASSUME NEW o \in Students PROVE DepartureStands(o)'
    <2>1. CASE o = s
      BY <1>1, <2>1 DEF AdmissionsInv, AdmissionsTyped, DepartureStands, Applications!Terminal
    <2>2. CASE o # s
      BY <1>1, <2>2 DEF AdmissionsInv, AdmissionsTyped, DepartureStands
    <2> QED
      BY <2>1, <2>2
  <1>5. ASSUME NEW o \in admitted' PROVE Placed(o)'
    <2>1. CASE o = s
      BY <1>1, <2>1 DEF AdmissionsInv, AdmissionsTyped, Placed
    <2>2. CASE o # s
      BY <1>1, <2>2 DEF AdmissionsInv, AdmissionsTyped, Placed
    <2> QED
      BY <2>1, <2>2
  <1> QED
    BY <1>1, <1>2, <1>3, <1>4, <1>5, AdmissionEnds DEF AdmissionsInv

\* A place for another year.
LEMMA EnrollStudentStep ==
    ASSUME AdmissionsInv, NEW s \in Students, NEW year \in Years, Applications!EnrollStudent(s, year)
    PROVE  AdmissionsInv'
  <1>1. /\ UNCHANGED <<application, students, calls, admitted, departures, overwritten>>
        /\ enrollments' = enrollments \cup {<<s, year>>}
    BY DEF Applications!EnrollStudent
  <1>2. AdmissionsTyped' /\ OneStudent'
    BY <1>1 DEF AdmissionsInv, AdmissionsTyped, OneStudent
  <1>3. ASSUME NEW o \in Students PROVE DepartureStands(o)'
    BY <1>1 DEF AdmissionsInv, DepartureStands
  <1>4. ASSUME NEW o \in admitted' PROVE Placed(o)'
    BY <1>1 DEF AdmissionsInv, Placed
  <1>5. ASSUME NEW w \in Workers PROVE Seen(calls[w])'
    BY <1>1 DEF AdmissionsInv, Seen
  <1> QED
    BY <1>1, <1>2, <1>3, <1>4, <1>5 DEF AdmissionsInv

\* A student who left has no status to move to, unless it is saved over.
LEMMA StudentStatusStep ==
    ASSUME AdmissionsInv, NEW w \in Workers, NEW status \in Applications!StudentStatuses,
           Applications!ChangeStudentStatus(w, status)
    PROVE  AdmissionsInv'
  <1>1. PICK s \in Students : s = calls[w].object
    BY DEF Applications!ChangeStudentStatus
  <1>2. /\ status \in Applications!StudentTransitions[calls[w].seen] /\ calls[w].seen \in Applications!StudentStatuses
        /\ students' = [students EXCEPT ![s] = status] /\ UNCHANGED <<application, enrollments, admitted>>
        /\ departures' = IF status \in Applications!Terminal THEN [departures EXCEPT ![s] = @ \cup {status}] ELSE departures
        /\ overwritten' = IF calls[w].seen = students[s] THEN overwritten ELSE overwritten \cup {s}
        /\ Applications!Ends(w)
    BY <1>1 DEF Applications!ChangeStudentStatus, Applications!MayBecome, Applications!Overwrites, AdmissionsInv, Seen
  <1>3. AdmissionsTyped'
    <2>1. /\ students' \in [Students -> Applications!StudentStatuses \cup {None}]
          /\ departures' \in [Students -> SUBSET Applications!Terminal]
      BY <1>2 DEF AdmissionsInv, AdmissionsTyped
    <2> QED
      BY <1>2, <2>1, AdmissionEnds DEF AdmissionsInv, AdmissionsTyped, Applications!Objects
  <1>4. OneStudent'
    BY <1>2 DEF AdmissionsInv, OneStudent
  <1>5. ASSUME NEW o \in Students PROVE DepartureStands(o)'
    <2>1. CASE o = s
      <3>1. calls[w].seen \notin Applications!Terminal
        BY <1>2 DEF Applications!StudentTransitions, Applications!StudentStatuses, Applications!Terminal
      <3>2. o \notin overwritten' => departures[s] = {}
        BY <1>2, <2>1, <3>1 DEF AdmissionsInv, AdmissionsTyped, DepartureStands
      <3>3. /\ students'[s] = status
            /\ departures'[s] = IF status \in Applications!Terminal THEN departures[s] \cup {status} ELSE departures[s]
        BY <1>2 DEF AdmissionsInv, AdmissionsTyped
      <3> QED
        BY <2>1, <3>2, <3>3 DEF DepartureStands
    <2>2. CASE o # s
      BY <1>2, <2>2 DEF AdmissionsInv, AdmissionsTyped, DepartureStands
    <2> QED
      BY <2>1, <2>2
  <1>6. ASSUME NEW o \in admitted' PROVE Placed(o)'
    <2>1. status # None
      BY DEF Applications!StudentStatuses, Applications!StudentTransitions
    <2> QED
      BY <1>2, <2>1 DEF AdmissionsInv, AdmissionsTyped, Placed
  <1> QED
    BY <1>2, <1>3, <1>4, <1>5, <1>6, AdmissionEnds DEF AdmissionsInv

\* Every step keeps the invariant.
LEMMA AdmissionsStep == AdmissionsInv /\ [Applications!Next]_(Applications!vars) => AdmissionsInv'
  <1> SUFFICES ASSUME AdmissionsInv, [Applications!Next]_(Applications!vars) PROVE AdmissionsInv'
    OBVIOUS
  <1>1. CASE UNCHANGED Applications!vars
    <2>1. UNCHANGED <<application, students, enrollments, calls, admitted, departures, overwritten>>
      BY <1>1 DEF Applications!vars
    <2> QED
      BY <2>1 DEF AdmissionsInv, AdmissionsTyped, OneStudent, DepartureStands, Placed, Seen
  <1>2. ASSUME NEW w \in Workers, Applications!EnrollRequests(w) \/ Applications!Abandon(w) PROVE AdmissionsInv'
    BY <1>2, AdmissionReads, EnrollApplicationStep DEF Applications!EnrollRequests
  <1>3. ASSUME NEW w \in Workers, NEW status \in Applications!ApplicationStatuses,
               Applications!TransitionApplication(w, status)
        PROVE  AdmissionsInv'
    BY <1>3, TransitionStep
  <1>4. ASSUME NEW w \in Workers, NEW s \in Students, Applications!LoadStudent(w, s) PROVE AdmissionsInv'
    BY <1>4, AdmissionReads
  <1>5. ASSUME NEW w \in Workers, NEW status \in Applications!StudentStatuses, Applications!ChangeStudentStatus(w, status)
        PROVE  AdmissionsInv'
    BY <1>5, StudentStatusStep
  <1>6. ASSUME NEW s \in Students, NEW year \in Years, Applications!EnrollStudent(s, year) PROVE AdmissionsInv'
    BY <1>6, EnrollStudentStep
  <1> QED
    BY <1>1, <1>2, <1>3, <1>4, <1>5, <1>6 DEF Applications!Next

\* It holds of the component as one of Records.
LEMMA AdmissionsWithin == RecordsSpec => [](part = "admissions" => AdmissionsInv)
  <1>1. RecordsInit => (part = "admissions" => AdmissionsInv)
    BY AdmissionsInit DEF RecordsInit
  <1>2. (part = "admissions" => AdmissionsInv) /\ [RecordsNext]_recordsVars => (part = "admissions" => AdmissionsInv)'
    BY AdmissionsStep DEF RecordsNext, recordsVars, recordRows, sharedRows, Applications!vars, admissionsRows
  <1> QED
    BY <1>1, <1>2, PTL DEF RecordsSpec

(* An application becomes at most one student, who has a place in a class, and    *)
(* stays ENROLLED, and a student who left stays so, for one reason, but for       *)
(* objects saved over by a request that had loaded them earlier; for any students *)
(* and requests (transition_application, enroll_application,                      *)
(* change_student_status).                                                        *)
THEOREM ApplicantsAdmittedOnce ==
    /\ Applications!Spec => [](Applications!TypeOK /\ Applications!AdmittedOnce)
    /\ RecordsSpec => []AdmittedOnce
  <1>1. AdmissionsInv /\ [Applications!Next]_(Applications!vars) => AdmissionsInv'
    BY AdmissionsStep
  <1>2. Applications!Spec => [](Applications!TypeOK /\ Applications!AdmittedOnce)
    BY <1>1, AdmissionsInit, AdmissionsSay, PTL DEF Applications!Spec
  <1>3. (part = "admissions" => AdmissionsInv) => AdmittedOnce
    BY AdmissionsSay DEF AdmittedOnce
  <1>4. RecordsSpec => []AdmittedOnce
    BY <1>3, AdmissionsWithin, PTL
  <1> QED
    BY <1>2, <1>4

-----------------------------------------------------------------------------
(* Fees: the structure, its assignments and their invoices                 *)

Invoices == [status : {"DRAFT", "ISSUED"}, lines : SUBSET Items]
FeeCall ==
    [op : {"idle", "adding", "invoicing", "next", "generating", "issuing"},
     pending : SUBSET Students, matched : SUBSET Students, student : Students \cup {None},
     issue : BOOLEAN, draft : BOOLEAN, had : BOOLEAN, done : SUBSET Students, failures : SUBSET Students]
FeesTyped ==
    /\ structure \in [lines : SUBSET Items, approved : BOOLEAN]
    /\ assigned \subseteq Students
    /\ invoices \in [Students -> Invoices \cup {None}]
    /\ debited \in [Students -> (SUBSET Items) \cup {None}]
    /\ calls \in [Workers -> FeeCall]
    /\ signed \in (SUBSET Items) \cup {None} /\ late \subseteq Items

\* Students are assigned an approved structure, which has the lines that were approved
\* and those added late.
ApprovedLines ==
    /\ assigned # {} => structure.approved
    /\ structure.approved => signed \subseteq structure.lines /\ structure.lines \ signed \subseteq late
\* An invoice bills an assigned student such lines; its debit is its issue.
Billed(s) ==
    /\ invoices[s] = None => debited[s] = None
    /\ invoices[s] # None =>
           /\ s \in assigned
           /\ signed \subseteq invoices[s].lines /\ invoices[s].lines \ signed \subseteq late
           /\ debited[s] = IF invoices[s].status = "ISSUED" THEN invoices[s].lines ELSE None
\* A student has an invoice, and an issued one where that was asked for.
Served(s, issued) == invoices[s] # None /\ (issued => invoices[s].status = "ISSUED")
\* What a request or bulk run has learnt stays true.
FeeCallFits(c) ==
    /\ c.pending # {} => structure.approved
    /\ c.op \in {"invoicing", "generating", "issuing"} => c.student \in assigned
    /\ c.op = "issuing" => Served(c.student, ~c.draft)
    /\ \A s \in c.done : Served(s, c.issue)

FeesInv ==
    /\ FeesTyped /\ ApprovedLines
    /\ \A s \in Students : Billed(s)
    /\ \A w \in Workers : FeeCallFits(calls[w])

\* The idle call knows nothing.
LEMMA FeesIdle ==
    Fees!Idle \in FeeCall /\ Fees!Idle.op = "idle" /\ Fees!Idle.pending = {} /\ Fees!Idle.done = {}
  BY DEF Fees!Idle, FeeCall

\* The invariant holds at first.
LEMMA FeesInit == Fees!Init => FeesInv
  <1> SUFFICES ASSUME Fees!Init PROVE FeesInv
    OBVIOUS
  <1>1. calls \in [Workers -> FeeCall] /\ \A w \in Workers : calls[w] = Fees!Idle
    BY FeesIdle DEF Fees!Init
  <1>2. FeesTyped /\ ApprovedLines /\ \A s \in Students : Billed(s)
    BY <1>1 DEF Fees!Init, FeesTyped, ApprovedLines, Billed
  <1>3. \A w \in Workers : FeeCallFits(calls[w])
    BY <1>1, FeesIdle DEF FeeCallFits
  <1> QED
    BY <1>2, <1>3 DEF FeesInv

\* Nothing is taken back: neither an approval nor an assignment, an invoice or its issue.
Onward ==
    /\ structure.approved => structure.approved'
    /\ assigned \subseteq assigned'
    /\ \A s \in Students : invoices[s] # None =>
           invoices'[s] # None /\ (invoices[s].status = "ISSUED" => invoices'[s].status = "ISSUED")

\* So what the calls have learnt stays true, and one of them goes on with a call that fits.
LEMMA FeeCallsKept ==
    ASSUME FeesInv, Onward, NEW w \in Workers, NEW d \in FeeCall, FeeCallFits(d)', calls' = [calls EXCEPT ![w] = d]
    PROVE  calls' \in [Workers -> FeeCall] /\ \A v \in Workers : FeeCallFits(calls[v])'
  <1>1. calls' \in [Workers -> FeeCall]
    BY DEF FeesInv, FeesTyped
  <1>2. ASSUME NEW v \in Workers, v # w PROVE FeeCallFits(calls[v])'
    <2>1. PICK c \in FeeCall : c = calls[v] /\ c = calls'[v] /\ FeeCallFits(c)
      BY <1>2 DEF FeesInv, FeesTyped
    <2>2. c.done \subseteq Students /\ assigned \subseteq Students
      BY <2>1 DEF FeeCall, FeesInv, FeesTyped
    <2>3. FeeCallFits(c)'
      BY <2>1, <2>2 DEF Onward, FeeCallFits, Served
    <2> QED
      BY <2>1, <2>3
  <1>3. calls'[w] = d
    BY DEF FeesInv, FeesTyped
  <1> QED
    BY <1>1, <1>2, <1>3

\* The same where no call changes.
LEMMA FeeCallsRest ==
    ASSUME FeesInv, Onward, calls' = calls
    PROVE  calls' \in [Workers -> FeeCall] /\ \A v \in Workers : FeeCallFits(calls[v])'
  <1>1. calls' \in [Workers -> FeeCall]
    BY DEF FeesInv, FeesTyped
  <1>2. ASSUME NEW v \in Workers PROVE FeeCallFits(calls[v])'
    <2>1. PICK c \in FeeCall : c = calls[v] /\ c = calls'[v] /\ FeeCallFits(c)
      BY DEF FeesInv, FeesTyped
    <2>2. c.done \subseteq Students /\ assigned \subseteq Students
      BY <2>1 DEF FeeCall, FeesInv, FeesTyped
    <2>3. FeeCallFits(c)'
      BY <2>1, <2>2 DEF Onward, FeeCallFits, Served
    <2> QED
      BY <2>1, <2>3
  <1> QED
    BY <1>1, <1>2

\* A step of a call that writes nothing but, perhaps, an assignment.
LEMMA FeeCallStep ==
    ASSUME FeesInv, NEW w \in Workers, NEW d \in FeeCall, FeeCallFits(d)', calls' = [calls EXCEPT ![w] = d],
           UNCHANGED <<structure, invoices, debited, signed, late>>,
           assigned' = assigned \/ (structure.approved /\ \E s \in Students : assigned' = assigned \cup {s})
    PROVE  FeesInv'
  <1>1. Onward /\ assigned' \subseteq Students
    BY DEF Onward, FeesInv, FeesTyped
  <1>2. FeesTyped'
    BY <1>1, FeeCallsKept DEF FeesInv, FeesTyped, Invoices
  <1>3. ApprovedLines'
    BY DEF FeesInv, ApprovedLines
  <1>4. ASSUME NEW s \in Students PROVE Billed(s)'
    BY <1>1 DEF FeesInv, Billed, Onward
  <1> QED
    BY <1>1, <1>2, <1>3, <1>4, FeeCallsKept DEF FeesInv

\* Requests and bulk runs start from what is assigned and approved.
LEMMA FeeStarts ==
    ASSUME FeesInv, NEW w \in Workers,
           \/ Fees!LoadForLine(w) \/ Fees!BulkAssign(w) \/ Fees!BulkGenerate(w) \/ Fees!Ends(w)
           \/ \E s \in Students : Fees!RequestInvoice(w, s)
    PROVE  FeesInv'
  <1>1. CASE Fees!LoadForLine(w)
    <2>1. PICK d : d = [Fees!Idle EXCEPT !.op = "adding"]
      OBVIOUS
    <2>2. d \in FeeCall /\ d.op = "adding" /\ d.pending = {} /\ d.done = {}
      BY <2>1 DEF Fees!Idle, FeeCall
    <2>3. FeeCallFits(d)'
      BY <2>2 DEF FeeCallFits
    <2> QED
      BY <1>1, <2>1, <2>2, <2>3, FeeCallStep DEF Fees!LoadForLine
  <1>2. ASSUME NEW some \in SUBSET Students, NEW issue \in BOOLEAN, Fees!StartBulk(w, some, issue),
               some # {} => structure.approved
        PROVE  FeesInv'
    <2>1. PICK d : d = [Fees!Idle EXCEPT !.op = "next", !.pending = some, !.issue = issue]
      OBVIOUS
    <2>2. d \in FeeCall /\ d.op = "next" /\ d.pending = some /\ d.done = {}
      BY <2>1 DEF Fees!Idle, FeeCall
    <2>3. FeeCallFits(d)'
      BY <1>2, <2>2 DEF FeeCallFits, Fees!StartBulk
    <2> QED
      BY <1>2, <2>1, <2>2, <2>3, FeeCallStep DEF Fees!StartBulk
  <1>3. CASE Fees!BulkAssign(w)
    BY <1>2, <1>3 DEF Fees!BulkAssign
  <1>4. CASE Fees!BulkGenerate(w)
    <2>1. assigned \in SUBSET Students /\ (assigned # {} => structure.approved)
      BY DEF FeesInv, FeesTyped, ApprovedLines
    <2> QED
      BY <1>2, <1>4, <2>1 DEF Fees!BulkGenerate
  <1>5. CASE Fees!Ends(w)
    <2>1. FeeCallFits(Fees!Idle)'
      BY FeesIdle DEF FeeCallFits
    <2> QED
      BY <1>5, <2>1, FeesIdle, FeeCallStep DEF Fees!Ends
  <1>6. ASSUME NEW s \in Students, Fees!RequestInvoice(w, s) PROVE FeesInv'
    <2>1. PICK d : d = [Fees!Idle EXCEPT !.op = "invoicing", !.student = s]
      OBVIOUS
    <2>2. d \in FeeCall /\ d.op = "invoicing" /\ d.student = s /\ d.pending = {} /\ d.done = {}
      BY <2>1 DEF Fees!Idle, FeeCall
    <2>3. FeeCallFits(d)'
      BY <1>6, <2>2 DEF FeeCallFits, Fees!RequestInvoice, Fees!MayInvoice
    <2> QED
      BY <1>6, <2>1, <2>2, <2>3, FeeCallStep DEF Fees!RequestInvoice
  <1> QED
    BY <1>1, <1>3, <1>4, <1>5, <1>6

\* A bulk run takes up its next student, finds or begins the invoice, or reports a failure.
LEMMA BulkAdvances ==
    ASSUME FeesInv, NEW w \in Workers,
           Fees!Generate(w) \/ Fees!Fails(w) \/ \E s \in Students : Fees!NextStudent(w, s)
    PROVE  FeesInv'
  <1>1. PICK c \in FeeCall : c = calls[w] /\ FeeCallFits(c)
    BY DEF FeesInv, FeesTyped
  <1>2. CASE Fees!Generate(w)
    <2>1. c.student \in assigned /\ c.op = "generating"
      BY <1>1, <1>2 DEF Fees!Generate, FeeCallFits
    <2>2. CASE invoices[c.student] = None
      <3>1. PICK d : d = [c EXCEPT !.op = "invoicing"]
        OBVIOUS
      <3>2. /\ d \in FeeCall /\ d.op = "invoicing" /\ d.student = c.student /\ d.pending = c.pending
            /\ d.done = c.done /\ d.issue = c.issue
        BY <3>1 DEF FeeCall
      <3>3. FeeCallFits(d)'
        BY <1>1, <1>2, <2>1, <3>2 DEF FeeCallFits, Served, Fees!Generate
      <3> QED
        BY <1>1, <1>2, <2>2, <3>1, <3>2, <3>3, FeeCallStep DEF Fees!Generate
    <2>3. CASE invoices[c.student] # None
      <3>1. PICK draft \in BOOLEAN : draft = (invoices[c.student].status = "DRAFT")
        OBVIOUS
      <3>2. PICK d : d = [c EXCEPT !.op = "issuing", !.draft = draft]
        OBVIOUS
      <3>3. /\ d \in FeeCall /\ d.op = "issuing" /\ d.student = c.student /\ d.pending = c.pending
            /\ d.done = c.done /\ d.issue = c.issue /\ d.draft = draft
        BY <3>2 DEF FeeCall
      <3>4. Served(c.student, ~draft)
        BY <2>1, <2>3, <3>1 DEF Served, FeesInv, FeesTyped, Invoices
      <3>5. FeeCallFits(d)'
        BY <1>1, <1>2, <2>1, <3>3, <3>4 DEF FeeCallFits, Served, Fees!Generate
      <3>6. calls' = [calls EXCEPT ![w] = d]
        BY <1>1, <1>2, <2>3, <3>1, <3>2 DEF Fees!Generate
      <3> QED
        BY <1>2, <3>3, <3>5, <3>6, FeeCallStep DEF Fees!Generate
    <2> QED
      BY <2>2, <2>3
  <1>3. CASE Fees!Fails(w)
    <2>1. c.student \in Students
      BY <1>1, <1>3 DEF Fees!Fails, FeeCallFits, FeesInv, FeesTyped
    <2>2. PICK d : d = [c EXCEPT !.op = "next", !.failures = c.failures \cup {c.student}]
      OBVIOUS
    <2>3. d \in FeeCall /\ d.op = "next" /\ d.pending = c.pending /\ d.done = c.done /\ d.issue = c.issue
      BY <2>1, <2>2 DEF FeeCall
    <2>4. FeeCallFits(d)'
      BY <1>1, <1>3, <2>3 DEF FeeCallFits, Served, Fees!Fails
    <2>5. calls' = [calls EXCEPT ![w] = d]
      BY <1>1, <1>3, <2>2 DEF Fees!Fails, FeesInv, FeesTyped
    <2> QED
      BY <1>3, <2>3, <2>4, <2>5, FeeCallStep DEF Fees!Fails
  <1>4. ASSUME NEW s \in Students, Fees!NextStudent(w, s) PROVE FeesInv'
    <2>1. PICK had \in BOOLEAN : had = (invoices[s] # None)
      OBVIOUS
    <2>2. PICK d : d = [c EXCEPT !.op = "generating", !.pending = c.pending \ {s}, !.matched = c.matched \cup {s},
                                 !.student = s, !.had = had]
      OBVIOUS
    <2>3. /\ d \in FeeCall /\ d.op = "generating" /\ d.student = s /\ d.pending = c.pending \ {s}
          /\ d.done = c.done /\ d.issue = c.issue
      BY <2>2 DEF FeeCall
    <2>4. structure.approved
      BY <1>1, <1>4 DEF FeeCallFits, Fees!NextStudent
    <2>5. FeeCallFits(d)'
      BY <1>1, <1>4, <2>3, <2>4 DEF FeeCallFits, Served, Fees!NextStudent
    <2>6. calls' = [calls EXCEPT ![w] = d]
      BY <1>1, <1>4, <2>1, <2>2 DEF Fees!NextStudent, FeesInv, FeesTyped
    <2> QED
      BY <1>4, <2>3, <2>4, <2>5, <2>6, FeeCallStep DEF Fees!NextStudent
  <1> QED
    BY <1>2, <1>3, <1>4

\* A line is added: to the approved structure only by a request that loaded it before.
LEMMA AddLineStep ==
    ASSUME FeesInv, NEW w \in Workers, NEW item \in Items, Fees!AddFeeStructureLine(w, item)
    PROVE  FeesInv'
  <1>1. PICK old \in [lines : SUBSET Items, approved : BOOLEAN] : old = structure
    BY DEF FeesInv, FeesTyped
  <1>2. PICK new : new = [old EXCEPT !.lines = old.lines \cup {item}]
    OBVIOUS
  <1>3. /\ new \in [lines : SUBSET Items, approved : BOOLEAN]
        /\ new.lines = old.lines \cup {item} /\ new.approved = old.approved
    BY <1>2
  <1>4. /\ structure' = new /\ late' = IF structure.approved THEN late \cup {item} ELSE late
        /\ calls' = [calls EXCEPT ![w] = Fees!Idle] /\ UNCHANGED <<assigned, invoices, debited, signed>>
    BY <1>1, <1>2 DEF Fees!AddFeeStructureLine
  <1>5. Onward /\ FeeCallFits(Fees!Idle)'
    BY <1>1, <1>3, <1>4, FeesIdle DEF Onward, FeeCallFits
  <1>6. FeesTyped'
    BY <1>3, <1>4, <1>5, FeesIdle, FeeCallsKept DEF FeesInv, FeesTyped, Invoices
  <1>7. ApprovedLines'
    BY <1>1, <1>3, <1>4 DEF FeesInv, ApprovedLines
  <1>8. ASSUME NEW s \in Students PROVE Billed(s)'
    BY <1>4 DEF FeesInv, Billed
  <1> QED
    BY <1>4, <1>5, <1>6, <1>7, <1>8, FeesIdle, FeeCallsKept DEF FeesInv

\* Approval signs the lines of a structure nobody is assigned.
LEMMA ApproveStructureStep ==
    ASSUME FeesInv, Fees!ApproveFeeStructure
    PROVE  FeesInv'
  <1>1. PICK old \in [lines : SUBSET Items, approved : BOOLEAN] : old = structure
    BY DEF FeesInv, FeesTyped
  <1>2. PICK new : new = [old EXCEPT !.approved = TRUE]
    OBVIOUS
  <1>3. new \in [lines : SUBSET Items, approved : BOOLEAN] /\ new.lines = old.lines /\ new.approved
    BY <1>2
  <1>4. /\ structure' = new /\ signed' = old.lines /\ ~structure.approved
        /\ UNCHANGED <<assigned, invoices, debited, calls, late>>
    BY <1>1, <1>2 DEF Fees!ApproveFeeStructure
  <1>5. Onward
    BY <1>3, <1>4 DEF Onward
  <1>6. FeesTyped' /\ ApprovedLines'
    BY <1>1, <1>3, <1>4 DEF FeesInv, FeesTyped, ApprovedLines, Invoices
  <1>7. ASSUME NEW s \in Students PROVE Billed(s)'
    BY <1>4 DEF FeesInv, ApprovedLines, Billed
  <1> QED
    BY <1>4, <1>5, <1>6, <1>7, FeeCallsRest DEF FeesInv

\* A student is assigned the approved structure.
LEMMA AssignStep ==
    ASSUME FeesInv, NEW s \in Students, Fees!AssignFeeStructure(s)
    PROVE  FeesInv'
  <1>1. structure.approved /\ assigned' = assigned \cup {s} /\ UNCHANGED <<structure, invoices, debited, calls, signed, late>>
    BY DEF Fees!AssignFeeStructure
  <1>2. Onward
    BY <1>1 DEF Onward
  <1>3. FeesTyped' /\ ApprovedLines'
    BY <1>1 DEF FeesInv, FeesTyped, ApprovedLines, Invoices
  <1>4. ASSUME NEW o \in Students PROVE Billed(o)'
    BY <1>1 DEF FeesInv, Billed
  <1> QED
    BY <1>1, <1>2, <1>3, <1>4, FeeCallsRest DEF FeesInv

\* The invoice copies the lines as they are now.
LEMMA InsertInvoiceStep ==
    ASSUME FeesInv, NEW w \in Workers, Fees!InsertInvoice(w)
    PROVE  FeesInv'
  <1>1. PICK c \in FeeCall : c = calls[w] /\ FeeCallFits(c) /\ c.op = "invoicing"
    BY DEF FeesInv, FeesTyped, Fees!InsertInvoice
  <1>2. PICK s \in assigned : s = c.student /\ s \in Students
    BY <1>1 DEF FeeCallFits, FeesInv, FeesTyped
  <1>3. PICK new : new = [status |-> "DRAFT", lines |-> structure.lines]
    OBVIOUS
  <1>4. new \in Invoices /\ new.status = "DRAFT" /\ new.lines = structure.lines /\ new # None
    BY <1>3 DEF Invoices, FeesInv, FeesTyped
  <1>5. /\ invoices[s] = None /\ invoices' = [invoices EXCEPT ![s] = new]
        /\ UNCHANGED <<structure, assigned, debited, signed, late>>
    BY <1>1, <1>2, <1>3 DEF Fees!InsertInvoice
  <1>6. invoices'[s] = new /\ \A o \in Students \ {s} : invoices'[o] = invoices[o]
    BY <1>2, <1>5 DEF FeesInv, FeesTyped
  <1>7. Onward
    BY <1>5, <1>6 DEF Onward
  <1>8. PICK e \in FeeCall : e = [c EXCEPT !.op = "issuing", !.draft = TRUE]
    BY DEF FeeCall
  <1>9. PICK d \in FeeCall : d = IF c.matched = {} THEN Fees!Idle ELSE e
    BY FeesIdle
  <1>10. FeeCallFits(d)'
    <2>1. FeeCallFits(Fees!Idle)'
      BY FeesIdle DEF FeeCallFits
    <2>2. /\ e.op = "issuing" /\ e.student = s /\ e.pending = c.pending /\ e.done = c.done /\ e.issue = c.issue
          /\ e.draft = TRUE
      BY <1>2, <1>8 DEF FeeCall
    <2>3. \A o \in c.done : o \in Students /\ Served(o, c.issue)
      BY <1>1 DEF FeeCallFits, FeeCall
    <2>4. \A o \in c.done : Served(o, c.issue)'
      BY <1>7, <2>3 DEF Served, Onward
    <2>5. FeeCallFits(e)'
      BY <1>1, <1>2, <1>4, <1>5, <1>6, <2>2, <2>4 DEF FeeCallFits, Served
    <2> QED
      BY <1>9, <2>1, <2>5
  <1>11. calls' = [calls EXCEPT ![w] = d]
    BY <1>1, <1>8, <1>9 DEF Fees!InsertInvoice
  <1>12. FeesTyped'
    <2>1. invoices' \in [Students -> Invoices \cup {None}]
      BY <1>4, <1>5 DEF FeesInv, FeesTyped
    <2> QED
      BY <1>5, <1>7, <1>10, <1>11, <2>1, FeeCallsKept DEF FeesInv, FeesTyped
  <1>13. ApprovedLines'
    BY <1>5 DEF FeesInv, ApprovedLines
  <1>14. ASSUME NEW o \in Students PROVE Billed(o)'
    <2>1. CASE o = s
      BY <1>2, <1>4, <1>5, <1>6, <2>1 DEF FeesInv, ApprovedLines, Billed
    <2>2. CASE o # s
      BY <1>5, <1>6, <2>2 DEF FeesInv, Billed
    <2> QED
      BY <2>1, <2>2
  <1> QED
    BY <1>7, <1>10, <1>11, <1>12, <1>13, <1>14, FeeCallsKept DEF FeesInv

\* An issued invoice is debited for its lines.
LEMMA Issued ==
    ASSUME FeesInv, NEW s \in Students, Fees!IssueInvoice(s), UNCHANGED <<structure, assigned, signed, late>>
    PROVE  /\ Onward /\ Served(s, TRUE)'
           /\ invoices' \in [Students -> Invoices \cup {None}] /\ debited' \in [Students -> (SUBSET Items) \cup {None}]
           /\ \A o \in Students : Billed(o)'
  <1>1. PICK old \in Invoices : old = invoices[s] /\ old.status = "DRAFT" /\ old # None
    BY DEF Fees!IssueInvoice, Fees!Issuable, FeesInv, FeesTyped
  <1>2. PICK new : new = [old EXCEPT !.status = "ISSUED"]
    OBVIOUS
  <1>3. new \in Invoices /\ new.status = "ISSUED" /\ new.lines = old.lines /\ new # None
    BY <1>2 DEF Invoices
  <1>4. debited[s] = None /\ s \in assigned /\ signed \subseteq old.lines /\ old.lines \ signed \subseteq late
    BY <1>1 DEF FeesInv, Billed
  <1>5. invoices' = [invoices EXCEPT ![s] = new] /\ debited' = [debited EXCEPT ![s] = old.lines]
    BY <1>1, <1>2, <1>4 DEF Fees!IssueInvoice, FeesInv, FeesTyped
  <1>6. /\ invoices'[s] = new /\ debited'[s] = old.lines
        /\ \A o \in Students \ {s} : invoices'[o] = invoices[o] /\ debited'[o] = debited[o]
    BY <1>5 DEF FeesInv, FeesTyped
  <1>7. Onward /\ Served(s, TRUE)'
    BY <1>3, <1>6 DEF Onward, Served
  <1>8. invoices' \in [Students -> Invoices \cup {None}] /\ debited' \in [Students -> (SUBSET Items) \cup {None}]
    BY <1>1, <1>3, <1>5 DEF FeesInv, FeesTyped, Invoices
  <1>9. ASSUME NEW o \in Students PROVE Billed(o)'
    <2>1. CASE o = s
      BY <1>3, <1>4, <1>6, <2>1 DEF Billed
    <2>2. CASE o # s
      BY <1>6, <2>2 DEF FeesInv, Billed
    <2> QED
      BY <2>1, <2>2
  <1> QED
    BY <1>7, <1>8, <1>9

\* A request to issue an invoice.
LEMMA IssueRequestStep ==
    ASSUME FeesInv, NEW s \in Students, Fees!IssueRequest(s)
    PROVE  FeesInv'
  <1>1. Fees!IssueInvoice(s) /\ UNCHANGED <<structure, assigned, calls, signed, late>>
    BY DEF Fees!IssueRequest
  <1>2. /\ Onward /\ \A o \in Students : Billed(o)'
        /\ invoices' \in [Students -> Invoices \cup {None}] /\ debited' \in [Students -> (SUBSET Items) \cup {None}]
    BY <1>1, Issued
  <1>3. FeesTyped' /\ ApprovedLines'
    BY <1>1, <1>2 DEF FeesInv, FeesTyped, ApprovedLines
  <1> QED
    BY <1>1, <1>2, <1>3, FeeCallsRest DEF FeesInv

\* A bulk run issues what it generated, if that was asked for, and counts the student as served.
LEMMA BulkIssues ==
    ASSUME FeesInv, NEW w \in Workers, Fees!IssueStep(w)
    PROVE  FeesInv'
  <1>1. PICK c \in FeeCall : c = calls[w] /\ FeeCallFits(c) /\ c.op = "issuing"
    BY DEF FeesInv, FeesTyped, Fees!IssueStep
  <1>2. PICK s \in assigned : s = c.student /\ s \in Students
    BY <1>1 DEF FeeCallFits, FeesInv, FeesTyped
  <1>3. PICK d : d = [c EXCEPT !.op = "next", !.done = c.done \cup {s}]
    OBVIOUS
  <1>4. d \in FeeCall /\ d.op = "next" /\ d.pending = c.pending /\ d.done = c.done \cup {s} /\ d.issue = c.issue
    BY <1>2, <1>3 DEF FeeCall
  <1>5. UNCHANGED <<structure, assigned, signed, late>> /\ calls' = [calls EXCEPT ![w] = d]
    BY <1>1, <1>2, <1>3 DEF Fees!IssueStep
  <1>6. /\ Onward /\ Served(s, c.issue)' /\ \A o \in Students : Billed(o)'
        /\ invoices' \in [Students -> Invoices \cup {None}] /\ debited' \in [Students -> (SUBSET Items) \cup {None}]
    <2>1. CASE Fees!Attempts(w)
      <3>1. Fees!IssueInvoice(s)
        BY <1>1, <1>2, <2>1 DEF Fees!IssueStep
      <3> QED
        BY <1>2, <1>5, <3>1, Issued DEF Served
    <2>2. CASE ~Fees!Attempts(w)
      <3>1. UNCHANGED <<invoices, debited>> /\ (c.issue => ~c.draft)
        BY <1>1, <2>2 DEF Fees!IssueStep, Fees!Attempts
      <3>2. Served(s, c.issue)
        BY <1>1, <1>2, <3>1 DEF FeeCallFits, Served
      <3>3. Onward /\ Served(s, c.issue)'
        BY <1>5, <3>1, <3>2 DEF Served, Onward
      <3>4. ASSUME NEW o \in Students PROVE Billed(o)'
        BY <1>5, <3>1 DEF FeesInv, Billed
      <3> QED
        BY <3>1, <3>3, <3>4 DEF FeesInv, FeesTyped, Invoices
    <2> QED
      BY <2>1, <2>2
  <1>7. FeeCallFits(d)'
    <2>1. \A o \in c.done : o \in Students /\ Served(o, c.issue)
      BY <1>1 DEF FeeCallFits, FeeCall
    <2>2. \A o \in c.done : Served(o, c.issue)'
      BY <1>6, <2>1 DEF Served, Onward
    <2>3. \A o \in d.done : Served(o, d.issue)'
      BY <1>4, <1>6, <2>2
    <2> QED
      BY <1>1, <1>4, <1>5, <2>3 DEF FeeCallFits
  <1>8. FeesTyped' /\ ApprovedLines'
    BY <1>4, <1>5, <1>6, <1>7, FeeCallsKept DEF FeesInv, FeesTyped, ApprovedLines
  <1> QED
    BY <1>4, <1>5, <1>6, <1>7, <1>8, FeeCallsKept DEF FeesInv

\* Every step keeps the invariant.
LEMMA FeesStep == FeesInv /\ [Fees!Next]_(Fees!vars) => FeesInv'
  <1> SUFFICES ASSUME FeesInv, [Fees!Next]_(Fees!vars) PROVE FeesInv'
    OBVIOUS
  <1>1. CASE UNCHANGED Fees!vars
    <2>1. UNCHANGED <<structure, assigned, invoices, debited, calls, signed, late>>
      BY <1>1 DEF Fees!vars
    <2>2. Onward
      BY <2>1 DEF Onward
    <2> QED
      BY <2>1, <2>2, FeeCallsRest DEF FeesInv, FeesTyped, ApprovedLines, Billed, Invoices
  <1>2. ASSUME NEW w \in Workers, Fees!LineRequests(w) \/ Fees!GenerateRequests(w) \/ Fees!Ends(w) PROVE FeesInv'
    BY <1>2, FeeStarts, AddLineStep, InsertInvoiceStep DEF Fees!LineRequests, Fees!GenerateRequests
  <1>3. ASSUME NEW w \in Workers, Fees!BulkAssign(w) \/ Fees!BulkGenerate(w) PROVE FeesInv'
    BY <1>3, FeeStarts
  <1>4. ASSUME NEW w \in Workers, Fees!BulkStep(w) PROVE FeesInv'
    BY <1>4, BulkAdvances, BulkIssues DEF Fees!BulkStep
  <1>5. ASSUME NEW s \in Students, Fees!AssignFeeStructure(s) \/ Fees!IssueRequest(s) PROVE FeesInv'
    BY <1>5, AssignStep, IssueRequestStep
  <1> QED
    BY <1>1, <1>2, <1>3, <1>4, <1>5, ApproveStructureStep DEF Fees!Next

\* What the invariant says.
LEMMA FeesSay == FeesInv => Fees!TypeOK /\ Fees!BilledAsApproved
  <1> SUFFICES ASSUME FeesInv PROVE Fees!TypeOK /\ Fees!BilledAsApproved
    OBVIOUS
  <1>1. Fees!TypeOK
    BY DEF FeesInv, FeesTyped, FeeCall, Invoices, Fees!TypeOK
  <1>2. \A w \in Workers : \A s \in calls[w].done : Served(s, calls[w].issue)
    BY DEF FeesInv, FeeCallFits
  <1> QED
    BY <1>1, <1>2 DEF FeesInv, FeesTyped, ApprovedLines, Billed, Served, Fees!BilledAsApproved

\* It holds of the component as one of Records.
LEMMA FeesWithin == RecordsSpec => [](part = "fees" => FeesInv)
  <1>1. RecordsInit => (part = "fees" => FeesInv)
    BY FeesInit DEF RecordsInit
  <1>2. (part = "fees" => FeesInv) /\ [RecordsNext]_recordsVars => (part = "fees" => FeesInv)'
    BY FeesStep DEF RecordsNext, recordsVars, recordRows, sharedRows, Fees!vars, feesRows
  <1> QED
    BY <1>1, <1>2, PTL DEF RecordsSpec

(* Only an assigned student of an approved structure is invoiced, for the lines   *)
(* that were approved and those a stale request added since; a student owes what  *)
(* the issued invoice says; and whoever a bulk run counts as served has an        *)
(* invoice, issued when that was asked for; for any items, students and requests  *)
(* (approve_fee_structure, generate_invoice, issue_invoice,                       *)
(* bulk_assign_fee_structure, bulk_generate_invoices_for_term).                   *)
THEOREM StudentsBilledAsApproved ==
    /\ Fees!Spec => [](Fees!TypeOK /\ Fees!BilledAsApproved)
    /\ RecordsSpec => []BilledAsApproved
  <1>1. FeesInv /\ [Fees!Next]_(Fees!vars) => FeesInv'
    BY FeesStep
  <1>2. Fees!Spec => [](Fees!TypeOK /\ Fees!BilledAsApproved)
    BY <1>1, FeesInit, FeesSay, PTL DEF Fees!Spec
  <1>3. (part = "fees" => FeesInv) => BilledAsApproved
    BY FeesSay DEF BilledAsApproved
  <1>4. RecordsSpec => []BilledAsApproved
    BY <1>3, FeesWithin, PTL
  <1> QED
    BY <1>2, <1>4

-----------------------------------------------------------------------------
(* Assessments: from the roster and the bands to the published marks       *)

Stages == {None, "DRAFT", "SUBMITTED", "APPROVED", "PUBLISHED"}
AssessmentRow == [status : Stages, bands : SUBSET BandChoices, amended : BOOLEAN]
AssessmentCall ==
    [op : {"idle", "banding", "creating", "loaded"}, roster : SUBSET Students, band : BandChoices \cup {None},
     seen : SUBSET BandChoices, status : Stages]
ResultRow == [mark : Assessments!Marks, grade : Assessments!Grades]
AssessmentsTyped ==
    /\ enrolled \subseteq Students
    /\ bands \subseteq BandChoices /\ raced \subseteq bands
    /\ assessment \in AssessmentRow
    /\ results \in [Students -> ResultRow \cup {Assessments!NoResult}]
    /\ calls \in [Workers -> AssessmentCall]

\* A band that was checked overlaps none of those seen then.
BandFits(c) ==
    c.op = "banding" => c.band \in BandChoices /\ \A b \in c.seen : ~Assessments!Overlap(c.band, b)
\* A grade is that of a band around the mark, or none.
Graded(mark, grade, scale) ==
    \/ \E b \in scale : b.label = grade /\ mark \in b.min .. b.max
    \/ grade = "" /\ \A b \in scale : mark \notin b.min .. b.max
ResultsGraded ==
    \A s \in Students :
        Assessments!OnRoster(s) /\ results[s].mark \in 0 .. MaxMarks =>
            Graded(results[s].mark, results[s].grade, assessment.bands)
BandsApart ==
    \A x, y \in bands : x # y /\ (x.min .. x.max) \cap (y.min .. y.max) # {} => {x, y} \cap raced # {}
\* Submitted, approved and unamended marks are complete, the approved ones those signed.
MarksStand ==
    /\ assessment.status = "APPROVED" => results = signed
    /\ assessment.status = "PUBLISHED" /\ ~assessment.amended => results = signed
    /\ assessment.status \in {"SUBMITTED", "APPROVED"} => Assessments!Complete
    /\ assessment.status = "PUBLISHED" /\ ~assessment.amended => Assessments!Complete

AssessmentsInv ==
    /\ AssessmentsTyped /\ MarksStand /\ ResultsGraded /\ BandsApart
    /\ \A w \in Workers : BandFits(calls[w])

\* The invariant says what ApprovedMarksStand does.
LEMMA AssessmentsSay == AssessmentsInv => Assessments!TypeOK /\ Assessments!ApprovedMarksStand
  <1> SUFFICES ASSUME AssessmentsInv PROVE Assessments!TypeOK /\ Assessments!ApprovedMarksStand
    OBVIOUS
  <1>1. ASSUME NEW s \in Students PROVE Assessments!OnRoster(s) => results[s] \in ResultRow
    BY DEF AssessmentsInv, AssessmentsTyped, Assessments!OnRoster
  <1>2. ASSUME NEW w \in Workers PROVE calls[w].op \in {"idle", "banding", "creating", "loaded"}
    BY DEF AssessmentsInv, AssessmentsTyped, AssessmentCall
  <1>3. assessment.status \in Stages /\ assessment.bands \subseteq BandChoices /\ assessment.amended \in BOOLEAN
    BY DEF AssessmentsInv, AssessmentsTyped, AssessmentRow
  <1>4. Assessments!TypeOK
    BY <1>1, <1>2, <1>3 DEF AssessmentsInv, AssessmentsTyped, Assessments!TypeOK, Stages, ResultRow
  <1>5. assessment.status \in {"SUBMITTED", "APPROVED"} =>
            \A s \in Students : results[s].mark = Assessments!NotMarked => ~Assessments!OnRoster(s)
    BY DEF AssessmentsInv, MarksStand, Assessments!Complete, Assessments!Marked
  <1>6. Assessments!ApprovedMarksStand
    BY <1>5 DEF AssessmentsInv, MarksStand, ResultsGraded, Graded, BandsApart, Assessments!ApprovedMarksStand
  <1> QED
    BY <1>4, <1>6

\* The idle call holds nothing.
LEMMA AssessmentsIdle == Assessments!Idle \in AssessmentCall /\ BandFits(Assessments!Idle) /\ BandFits(Assessments!Idle)'
  BY DEF Assessments!Idle, AssessmentCall, BandFits, Stages

\* The invariant holds at first.
LEMMA AssessmentsInit == Assessments!Init => AssessmentsInv
  <1> SUFFICES ASSUME Assessments!Init PROVE AssessmentsInv
    OBVIOUS
  <1>1. \A s \in Students : results[s] = Assessments!NoResult
    BY DEF Assessments!Init
  <1>2. AssessmentsTyped
    <2>1. assessment \in AssessmentRow
      BY DEF Assessments!Init, AssessmentRow, Stages
    <2>2. calls \in [Workers -> AssessmentCall]
      BY AssessmentsIdle DEF Assessments!Init
    <2>3. results \in [Students -> ResultRow \cup {Assessments!NoResult}]
      BY DEF Assessments!Init
    <2>4. enrolled \subseteq Students /\ bands \subseteq BandChoices /\ raced \subseteq bands
      BY DEF Assessments!Init
    <2> QED
      BY <2>1, <2>2, <2>3, <2>4 DEF AssessmentsTyped
  <1>3. MarksStand /\ ResultsGraded /\ BandsApart
    <2>1. MarksStand
      BY DEF Assessments!Init, MarksStand
    <2>2. ResultsGraded
      BY <1>1 DEF ResultsGraded, Assessments!OnRoster
    <2>3. BandsApart
      BY DEF Assessments!Init, BandsApart
    <2> QED
      BY <2>1, <2>2, <2>3
  <1>4. \A w \in Workers : BandFits(calls[w])
    BY AssessmentsIdle DEF Assessments!Init
  <1> QED
    BY <1>2, <1>3, <1>4 DEF AssessmentsInv

\* A request goes on or ends.
LEMMA AssessmentCallsKept ==
    ASSUME AssessmentsInv, NEW w \in Workers, NEW c \in AssessmentCall, BandFits(c), Assessments!Becomes(w, c)
    PROVE  calls' \in [Workers -> AssessmentCall] /\ \A v \in Workers : BandFits(calls[v])'
  <1>1. calls' \in [Workers -> AssessmentCall]
    BY DEF AssessmentsInv, AssessmentsTyped, Assessments!Becomes
  <1>2. ASSUME NEW v \in Workers PROVE BandFits(calls[v])'
    <2>1. PICK d : d = calls'[v] /\ BandFits(d)
      BY DEF AssessmentsInv, AssessmentsTyped, Assessments!Becomes
    <2> QED
      BY <2>1 DEF BandFits, Assessments!Overlap
  <1> QED
    BY <1>1, <1>2

\* A call that ends.
LEMMA AssessmentCallEnds ==
    ASSUME AssessmentsInv, NEW w \in Workers, Assessments!Ends(w)
    PROVE  calls' \in [Workers -> AssessmentCall] /\ \A v \in Workers : BandFits(calls[v])'
  BY AssessmentsIdle, AssessmentCallsKept DEF Assessments!Ends

\* Steps that write no row of the assessment, of its results or of the bands.
LEMMA AssessmentsRest ==
    ASSUME AssessmentsInv, UNCHANGED <<bands, assessment, results, signed, raced>>, enrolled' \subseteq Students,
           calls' \in [Workers -> AssessmentCall], \A v \in Workers : BandFits(calls[v])'
    PROVE  AssessmentsInv'
  <1>1. AssessmentsTyped'
    BY DEF AssessmentsInv, AssessmentsTyped, AssessmentRow, ResultRow, Assessments!NoResult, Assessments!Marks,
           Assessments!Grades, Assessments!NotMarked, Assessments!Absent
  <1>2. MarksStand'
    BY DEF AssessmentsInv, MarksStand, Assessments!Complete, Assessments!Marked, Assessments!OnRoster,
           Assessments!NoResult, Assessments!NotMarked
  <1>3. ResultsGraded' /\ BandsApart'
    BY DEF AssessmentsInv, ResultsGraded, BandsApart, Graded, Assessments!OnRoster, Assessments!NoResult,
           Assessments!NotMarked
  <1> QED
    BY <1>1, <1>2, <1>3 DEF AssessmentsInv

\* What requests read, enrolments, and requests that end.
LEMMA AssessmentReads ==
    ASSUME AssessmentsInv,
           \/ \E s \in Students : Assessments!ChangeEnrolment(s)
           \/ \E w \in Workers : \/ Assessments!ResolveRoster(w) \/ Assessments!LoadAssessment(w) \/ Assessments!Abandon(w)
                                 \/ \E b \in BandChoices : Assessments!CheckBand(w, b)
    PROVE  AssessmentsInv'
  <1>1. ASSUME NEW s \in Students, Assessments!ChangeEnrolment(s) PROVE AssessmentsInv'
    <2>1. enrolled' \subseteq Students /\ UNCHANGED <<bands, assessment, results, signed, raced, calls>>
      BY <1>1 DEF Assessments!ChangeEnrolment, AssessmentsInv, AssessmentsTyped
    <2>2. \A v \in Workers : BandFits(calls[v])'
      BY <2>1 DEF AssessmentsInv, BandFits, Assessments!Overlap
    <2> QED
      BY <2>1, <2>2, AssessmentsRest DEF AssessmentsInv, AssessmentsTyped
  <1>2. ASSUME NEW w \in Workers, Assessments!ResolveRoster(w) PROVE AssessmentsInv'
    <2>1. PICK c : c = [Assessments!Idle EXCEPT !.op = "creating", !.roster = enrolled]
      OBVIOUS
    <2>2. c \in AssessmentCall /\ BandFits(c)
      BY <2>1 DEF Assessments!Idle, AssessmentCall, BandFits, Stages, AssessmentsInv, AssessmentsTyped
    <2> QED
      BY <1>2, <2>1, <2>2, AssessmentCallsKept, AssessmentsRest DEF Assessments!ResolveRoster, AssessmentsInv, AssessmentsTyped
  <1>3. ASSUME NEW w \in Workers, Assessments!LoadAssessment(w) PROVE AssessmentsInv'
    <2>1. PICK c : c = [Assessments!Idle EXCEPT !.op = "loaded", !.status = assessment.status]
      OBVIOUS
    <2>2. assessment.status \in Stages
      BY DEF AssessmentsInv, AssessmentsTyped, AssessmentRow
    <2>3. c \in AssessmentCall /\ BandFits(c)
      BY <2>1, <2>2 DEF Assessments!Idle, AssessmentCall, BandFits
    <2> QED
      BY <1>3, <2>1, <2>3, AssessmentCallsKept, AssessmentsRest DEF Assessments!LoadAssessment, AssessmentsInv, AssessmentsTyped
  <1>4. ASSUME NEW w \in Workers, Assessments!Abandon(w) PROVE AssessmentsInv'
    BY <1>4, AssessmentCallEnds, AssessmentsRest DEF Assessments!Abandon, AssessmentsInv, AssessmentsTyped
  <1>5. ASSUME NEW w \in Workers, NEW b \in BandChoices, Assessments!CheckBand(w, b) PROVE AssessmentsInv'
    <2>1. PICK c : c = [Assessments!Idle EXCEPT !.op = "banding", !.band = b, !.seen = bands]
      OBVIOUS
    <2>2. c \in AssessmentCall /\ c.band = b /\ c.seen = bands
      BY <2>1 DEF Assessments!Idle, AssessmentCall, Stages, AssessmentsInv, AssessmentsTyped
    <2>3. BandFits(c)
      BY <1>5, <2>2 DEF BandFits, Assessments!CheckBand
    <2> QED
      BY <1>5, <2>1, <2>2, <2>3, AssessmentCallsKept, AssessmentsRest DEF Assessments!CheckBand, AssessmentsInv, AssessmentsTyped
  <1> QED
    BY <1>1, <1>2, <1>3, <1>4, <1>5

\* A band is inserted: apart from those it was checked against, or raced.
LEMMA InsertBandStep ==
    ASSUME AssessmentsInv, NEW w \in Workers, Assessments!InsertBand(w)
    PROVE  AssessmentsInv'
  <1>1. PICK c \in AssessmentCall : c = calls[w] /\ BandFits(c) /\ c.op = "banding"
    BY DEF AssessmentsInv, AssessmentsTyped, Assessments!InsertBand
  <1>2. PICK b \in BandChoices : b = c.band /\ \A o \in c.seen : ~Assessments!Overlap(b, o)
    BY <1>1 DEF BandFits
  <1>3. /\ bands' = bands \cup {b} /\ raced' = IF bands = c.seen THEN raced ELSE raced \cup {b}
        /\ Assessments!Ends(w) /\ UNCHANGED <<enrolled, assessment, results, signed>>
    BY <1>1, <1>2 DEF Assessments!InsertBand
  <1>4. AssessmentsTyped'
    BY <1>3, AssessmentCallEnds
       DEF AssessmentsInv, AssessmentsTyped, AssessmentRow, ResultRow, Assessments!NoResult, Assessments!Marks,
           Assessments!Grades, Assessments!NotMarked, Assessments!Absent
  <1>5. MarksStand'
    BY <1>3 DEF AssessmentsInv, MarksStand, Assessments!Complete, Assessments!Marked, Assessments!OnRoster,
                Assessments!NoResult, Assessments!NotMarked
  <1>6. ResultsGraded'
    BY <1>3 DEF AssessmentsInv, ResultsGraded, Graded, Assessments!OnRoster, Assessments!NoResult, Assessments!NotMarked
  <1>7. ASSUME NEW x \in bands', NEW y \in bands', x # y, (x.min .. x.max) \cap (y.min .. y.max) # {}
        PROVE  {x, y} \cap raced' # {}
    <2>1. CASE x \in bands /\ y \in bands
      BY <1>3, <1>7, <2>1 DEF AssessmentsInv, BandsApart
    <2>2. CASE ~(x \in bands /\ y \in bands)
      <3>1. PICK o \in bands : {x, y} = {b, o}
        BY <1>3, <1>7, <2>2
      <3>2. PICK m : m \in b.min .. b.max /\ m \in o.min .. o.max
        BY <1>7, <3>1
      <3>3. b.min \in Int /\ b.max \in Int /\ o.min \in Int /\ o.max \in Int
        BY BandAssumption DEF AssessmentsInv, AssessmentsTyped
      <3>4. Assessments!Overlap(b, o)
        BY <3>2, <3>3 DEF Assessments!Overlap
      <3>5. bands # c.seen
        BY <1>2, <3>4
      <3> QED
        BY <1>3, <3>1, <3>5
    <2> QED
      BY <2>1, <2>2
  <1>8. BandsApart'
    BY <1>7 DEF BandsApart
  <1> QED
    BY <1>3, <1>4, <1>5, <1>6, <1>8, AssessmentCallEnds DEF AssessmentsInv

\* The assessment is created in DRAFT, without marks, or was already there.
LEMMA CreateAssessmentStep ==
    ASSUME AssessmentsInv, NEW w \in Workers, Assessments!CreateAssessment(w)
    PROVE  AssessmentsInv'
  <1>1. Assessments!Ends(w) /\ UNCHANGED <<enrolled, bands, signed, raced>>
    BY DEF Assessments!CreateAssessment
  <1>2. CASE assessment.status # None
    BY <1>1, <1>2, AssessmentCallEnds, AssessmentsRest DEF Assessments!CreateAssessment, AssessmentsInv, AssessmentsTyped
  <1>3. CASE assessment.status = None
    <2>1. PICK new : new = [status |-> "DRAFT", bands |-> bands, amended |-> FALSE]
      OBVIOUS
    <2>2. new \in AssessmentRow /\ new.status = "DRAFT"
      BY <2>1 DEF AssessmentRow, Stages, AssessmentsInv, AssessmentsTyped
    <2>3. PICK blank : blank = [mark |-> Assessments!NotMarked, grade |-> ""]
      OBVIOUS
    <2>4. blank \in ResultRow /\ blank.mark \notin 0 .. MaxMarks
      <3>1. Assessments!NotMarked \in Assessments!Marks /\ "" \in Assessments!Grades
        BY DEF Assessments!Marks, Assessments!Grades
      <3>2. Assessments!NotMarked \notin 0 .. MaxMarks
        BY BoundAssumption DEF Assessments!NotMarked
      <3> QED
        BY <2>3, <3>1, <3>2 DEF ResultRow
    <2>5. assessment' = new /\ results' = [s \in Students |-> IF s \in calls[w].roster THEN blank ELSE Assessments!NoResult]
      BY <1>3, <2>1, <2>3 DEF Assessments!CreateAssessment
    <2>6. AssessmentsTyped'
      BY <1>1, <2>2, <2>4, <2>5, AssessmentCallEnds
         DEF AssessmentsInv, AssessmentsTyped, AssessmentRow, ResultRow, Assessments!NoResult, Assessments!Marks,
             Assessments!Grades, Assessments!NotMarked, Assessments!Absent
    <2>7. MarksStand' /\ BandsApart'
      BY <1>1, <2>2, <2>5 DEF AssessmentsInv, MarksStand, BandsApart
    <2>8. ResultsGraded'
      <3>1. ASSUME NEW s \in Students PROVE results'[s] = blank \/ results'[s] = Assessments!NoResult
        BY <2>5
      <3>2. Assessments!NoResult.mark \notin 0 .. MaxMarks
        BY BoundAssumption DEF Assessments!NoResult, Assessments!NotMarked
      <3>3. ASSUME NEW s \in Students PROVE results'[s].mark \notin 0 .. MaxMarks
        BY <2>4, <3>1, <3>2
      <3> QED
        BY <3>3 DEF ResultsGraded
    <2> QED
      BY <1>1, <2>6, <2>7, <2>8, AssessmentCallEnds DEF AssessmentsInv
  <1> QED
    BY <1>2, <1>3

\* An entry gets a mark and a grade; the bands around a score grade it.
LEMMA EntryGraded ==
    ASSUME AssessmentsInv, NEW entry \in Assessments!Entries
    PROVE  entry \in ResultRow /\ (entry.mark \in 0 .. MaxMarks => Graded(entry.mark, entry.grade, assessment.bands))
  <1>1. PICK scale \in SUBSET BandChoices : scale = assessment.bands
    BY DEF AssessmentsInv, AssessmentsTyped, AssessmentRow
  <1>2. CASE \E mark \in {Assessments!NotMarked, Assessments!Absent} : entry = [mark |-> mark, grade |-> ""]
    <2>1. PICK mark \in {Assessments!NotMarked, Assessments!Absent} : entry = [mark |-> mark, grade |-> ""]
      BY <1>2
    <2>2. mark \in Assessments!Marks /\ mark \notin 0 .. MaxMarks
      BY BoundAssumption DEF Assessments!Marks, Assessments!NotMarked, Assessments!Absent
    <2>3. "" \in Assessments!Grades
      BY DEF Assessments!Grades
    <2>4. entry.mark = mark /\ entry \in ResultRow
      BY <2>1, <2>2, <2>3 DEF ResultRow
    <2> QED
      BY <2>2, <2>4
  <1>3. ASSUME NEW mark \in 0 .. MaxMarks, NEW grade \in Assessments!GradesOf(mark, scale),
               entry = [mark |-> mark, grade |-> grade]
        PROVE  entry \in ResultRow /\ Graded(mark, grade, scale)
    <2>1. mark \in Int
      BY BoundAssumption
    <2>2. ASSUME NEW b \in scale PROVE b.min \in Int /\ b.max \in Int
      BY BandAssumption
    <2>3. PICK around : around = {b \in scale : b.min <= mark /\ mark <= b.max}
      OBVIOUS
    <2>4. grade \in IF around = {} THEN {""} ELSE {b.label : b \in around}
      BY <2>3 DEF Assessments!GradesOf
    <2>5. ASSUME NEW b \in scale PROVE b \in around <=> mark \in b.min .. b.max
      BY <2>1, <2>2, <2>3
    <2>6. grade \in Assessments!Grades /\ Graded(mark, grade, scale)
      <3>1. CASE around = {}
        BY <2>4, <2>5, <3>1 DEF Graded, Assessments!Grades
      <3>2. CASE around # {}
        <4>1. PICK b \in around : grade = b.label
          BY <2>4, <3>2
        <4>2. b \in scale /\ b \in BandChoices
          BY <2>3
        <4> QED
          BY <2>5, <4>1, <4>2 DEF Graded, Assessments!Grades
      <3> QED
        BY <3>1, <3>2
    <2> QED
      BY <1>3, <2>6 DEF ResultRow, Assessments!Marks
  <1>4. CASE \E mark \in 0 .. MaxMarks : \E grade \in Assessments!GradesOf(mark, scale) :
                 entry = [mark |-> mark, grade |-> grade]
    <2> PICK mark \in 0 .. MaxMarks : \E grade \in Assessments!GradesOf(mark, scale) :
                 entry = [mark |-> mark, grade |-> grade]
      BY <1>4
    <2>1. PICK grade \in Assessments!GradesOf(mark, scale) : entry = [mark |-> mark, grade |-> grade]
      OBVIOUS
    <2>2. entry \in ResultRow /\ Graded(mark, grade, scale)
      BY <1>3, <2>1
    <2>3. entry.mark = mark /\ entry.grade = grade
      BY <2>1
    <2> QED
      BY <1>1, <2>2, <2>3
  <1>5. \/ entry \in {[mark |-> m, grade |-> ""] : m \in {Assessments!NotMarked, Assessments!Absent}}
        \/ \E m \in 0 .. MaxMarks : entry \in {[mark |-> m, grade |-> g] : g \in Assessments!GradesOf(m, scale)}
    BY <1>1 DEF Assessments!Entries
  <1> QED
    BY <1>2, <1>4, <1>5

\* Marks are recorded: in a draft, or, once published, as an amendment when one changes.
LEMMA RecordMarksStep ==
    ASSUME AssessmentsInv, NEW w \in Workers, Assessments!RecordMarks(w)
    PROVE  AssessmentsInv'
  <1> PICK some \in SUBSET {s \in Students : Assessments!OnRoster(s)} : \E entered \in [some -> Assessments!Entries] :
            /\ results' = [s \in Students |-> IF s \in some THEN entered[s] ELSE results[s]]
            /\ assessment' = [assessment EXCEPT !.amended =
                   @ \/ (assessment.status = "PUBLISHED" /\ \E s \in some : Assessments!Marked(s) /\ entered[s] # results[s])]
    BY DEF Assessments!RecordMarks
  <1>1. PICK entered \in [some -> Assessments!Entries] :
            /\ results' = [s \in Students |-> IF s \in some THEN entered[s] ELSE results[s]]
            /\ assessment' = [assessment EXCEPT !.amended =
                   @ \/ (assessment.status = "PUBLISHED" /\ \E s \in some : Assessments!Marked(s) /\ entered[s] # results[s])]
    OBVIOUS
  <1>3. PICK changed \in BOOLEAN :
            changed = \E s \in some : Assessments!Marked(s) /\ entered[s] # results[s]
    OBVIOUS
  <1>4. PICK row1 \in AssessmentRow : row1 = assessment
    BY DEF AssessmentsInv, AssessmentsTyped
  <1>5. PICK row2 : row2 = [row1 EXCEPT !.amended = @ \/ (row1.status = "PUBLISHED" /\ changed)]
    OBVIOUS
  <1>6. /\ row2 \in AssessmentRow /\ row2.status = row1.status /\ row2.bands = row1.bands
        /\ row2.amended = (row1.amended \/ (row1.status = "PUBLISHED" /\ changed))
    BY <1>5 DEF AssessmentRow
  <1>7. assessment' = row2
    BY <1>1, <1>3, <1>4, <1>5
  <1>8. /\ row1.status \in {"DRAFT", "PUBLISHED"}
        /\ \A s \in some : s \in Students /\ Assessments!OnRoster(s)
        /\ Assessments!Ends(w) /\ UNCHANGED <<enrolled, bands, signed, raced>>
    BY <1>1, <1>4 DEF Assessments!RecordMarks, Assessments!Editable
  <1>9. ASSUME NEW s \in some
        PROVE  /\ entered[s] \in ResultRow
               /\ entered[s].mark \in 0 .. MaxMarks => Graded(entered[s].mark, entered[s].grade, row1.bands)
    BY <1>4, EntryGraded
  <1>10. results' \in [Students -> ResultRow \cup {Assessments!NoResult}]
    BY <1>1, <1>9 DEF AssessmentsInv, AssessmentsTyped
  <1>11. AssessmentsTyped'
    BY <1>6, <1>7, <1>8, <1>10, AssessmentCallEnds
       DEF AssessmentsInv, AssessmentsTyped, AssessmentRow, ResultRow, Assessments!NoResult, Assessments!Marks,
           Assessments!Grades, Assessments!NotMarked, Assessments!Absent
  <1>12. ResultsGraded'
    <2>1. ASSUME NEW s \in Students, (Assessments!OnRoster(s))', (results[s].mark \in 0 .. MaxMarks)'
          PROVE  Graded(results'[s].mark, results'[s].grade, row1.bands)
      <3>1. CASE s \in some
        BY <1>1, <1>9, <2>1, <3>1
      <3>2. CASE s \notin some
        BY <1>1, <1>4, <2>1, <3>2 DEF AssessmentsInv, ResultsGraded, Assessments!OnRoster, Assessments!NoResult,
                                    Assessments!NotMarked
      <3> QED
        BY <3>1, <3>2
    <2> QED
      BY <1>6, <1>7, <2>1 DEF ResultsGraded, Graded
  <1>13. MarksStand'
    <2>1. CASE row1.status = "DRAFT"
      BY <1>6, <1>7, <2>1 DEF MarksStand
    <2>2. CASE row1.status = "PUBLISHED" /\ row2.amended
      BY <1>6, <1>7, <2>2 DEF MarksStand
    <2>3. CASE row1.status = "PUBLISHED" /\ ~row2.amended
      <3>1. ~row1.amended /\ ~changed
        BY <1>4, <1>6, <2>3 DEF AssessmentRow
      <3>2. Assessments!Complete /\ results = signed
        BY <1>4, <2>3, <3>1 DEF AssessmentsInv, MarksStand
      <3>3. ASSUME NEW s \in Students PROVE results'[s] = results[s]
        <4>1. CASE s \in some
          <5>1. Assessments!Marked(s)
            BY <1>8, <3>2, <4>1 DEF Assessments!Complete
          <5> QED
            BY <1>1, <1>3, <3>1, <4>1, <5>1
        <4>2. CASE s \notin some
          BY <1>1, <4>2
        <4> QED
          BY <4>1, <4>2
      <3>4. results' = results
        BY <1>10, <3>3 DEF AssessmentsInv, AssessmentsTyped
      <3>5. Assessments!Complete'
        BY <3>2, <3>4 DEF Assessments!Complete, Assessments!Marked, Assessments!OnRoster, Assessments!NoResult,
                          Assessments!NotMarked
      <3> QED
        BY <1>6, <1>7, <1>8, <2>3, <3>2, <3>4, <3>5 DEF MarksStand
    <2> QED
      BY <1>8, <2>1, <2>2, <2>3
  <1>14. BandsApart'
    BY <1>8 DEF AssessmentsInv, BandsApart
  <1> QED
    BY <1>8, <1>11, <1>12, <1>13, <1>14, AssessmentCallEnds DEF AssessmentsInv

\* The assessment moves to its next status, complete where the code looks for unmarked results.
LEMMA TransitionSteps ==
    ASSUME AssessmentsInv, NEW w \in Workers,
           \/ Assessments!SubmitForApproval(w) \/ Assessments!RejectSubmission(w) \/ Assessments!Approve(w)
           \/ Assessments!ReopenApproved(w) \/ Assessments!Publish(w)
    PROVE  AssessmentsInv'
  <1>1. PICK from \in Stages, to \in Stages :
            /\ Assessments!Transition(w, from, to)
            /\ \/ to = "DRAFT" /\ signed' = signed
               \/ to = "SUBMITTED" /\ Assessments!Complete /\ signed' = signed
               \/ to = "APPROVED" /\ Assessments!Complete /\ signed' = results
               \/ from = "APPROVED" /\ to = "PUBLISHED" /\ Assessments!Complete /\ signed' = signed
    BY DEF Stages, Assessments!SubmitForApproval, Assessments!RejectSubmission, Assessments!Approve,
           Assessments!ReopenApproved, Assessments!Publish
  <1>2. PICK row1 \in AssessmentRow : row1 = assessment
    BY DEF AssessmentsInv, AssessmentsTyped
  <1>3. PICK row2 : row2 = [row1 EXCEPT !.status = to]
    OBVIOUS
  <1>4. row2 \in AssessmentRow /\ row2.status = to /\ row2.bands = row1.bands /\ row2.amended = row1.amended
    BY <1>3 DEF AssessmentRow
  <1>5. /\ assessment' = row2 /\ row1.status = from
        /\ Assessments!Ends(w) /\ UNCHANGED <<enrolled, bands, results, raced>>
    BY <1>1, <1>2, <1>3 DEF Assessments!Transition
  <1>6. AssessmentsTyped'
    BY <1>4, <1>5, AssessmentCallEnds
       DEF AssessmentsInv, AssessmentsTyped, AssessmentRow, ResultRow, Assessments!NoResult, Assessments!Marks,
           Assessments!Grades, Assessments!NotMarked, Assessments!Absent
  <1>7. ResultsGraded'
    BY <1>2, <1>4, <1>5 DEF AssessmentsInv, ResultsGraded, Graded, Assessments!OnRoster, Assessments!NoResult,
                            Assessments!NotMarked
  <1>8. MarksStand'
    <2>1. Assessments!Complete => Assessments!Complete'
      BY <1>5 DEF Assessments!Complete, Assessments!Marked, Assessments!OnRoster, Assessments!NoResult,
                  Assessments!NotMarked
    <2>2. from = "APPROVED" => results = signed
      BY <1>2, <1>5 DEF AssessmentsInv, MarksStand
    <2> QED
      BY <1>1, <1>4, <1>5, <2>1, <2>2 DEF MarksStand
  <1>9. BandsApart'
    BY <1>5 DEF AssessmentsInv, BandsApart
  <1> QED
    BY <1>5, <1>6, <1>7, <1>8, <1>9, AssessmentCallEnds DEF AssessmentsInv

\* Every step keeps the invariant.
LEMMA AssessmentsStep ==
    ASSUME AssessmentsInv, [Assessments!Next]_(Assessments!vars)
    PROVE  AssessmentsInv'
  <1>1. CASE UNCHANGED Assessments!vars
    <2>1. \A v \in Workers : BandFits(calls[v])'
      BY <1>1 DEF Assessments!vars, AssessmentsInv, BandFits, Assessments!Overlap
    <2> QED
      BY <1>1, <2>1, AssessmentsRest DEF Assessments!vars, AssessmentsInv, AssessmentsTyped
  <1>2. ASSUME NEW w \in Workers, Assessments!BandRequests(w) PROVE AssessmentsInv'
    BY <1>2, InsertBandStep, AssessmentReads DEF Assessments!BandRequests
  <1>3. ASSUME NEW w \in Workers, Assessments!OpenRequests(w) PROVE AssessmentsInv'
    BY <1>3, CreateAssessmentStep, AssessmentReads DEF Assessments!OpenRequests
  <1>4. ASSUME NEW w \in Workers, Assessments!RecordMarks(w) PROVE AssessmentsInv'
    BY <1>4, RecordMarksStep
  <1>5. ASSUME NEW w \in Workers, Assessments!TransitionRequests(w) PROVE AssessmentsInv'
    BY <1>5, TransitionSteps, AssessmentReads DEF Assessments!TransitionRequests
  <1> QED
    BY <1>1, <1>2, <1>3, <1>4, <1>5, AssessmentReads DEF Assessments!Next

\* It holds of the component as one of Records.
LEMMA AssessmentsWithin == RecordsSpec => [](part = "assessments" => AssessmentsInv)
  <1>1. RecordsInit => (part = "assessments" => AssessmentsInv)
    BY AssessmentsInit DEF RecordsInit
  <1>2. (part = "assessments" => AssessmentsInv) /\ [RecordsNext]_recordsVars => (part = "assessments" => AssessmentsInv)'
    BY AssessmentsStep DEF RecordsNext, recordsVars, recordRows, sharedRows, Assessments!vars, assessmentsRows
  <1> QED
    BY <1>1, <1>2, PTL DEF RecordsSpec

(* The marks that stand are those approved: ApprovedMarksStand holds for every    *)
(* roster, every choice of bands with numbers for limits and every order of the   *)
(* requests that enter, submit, approve, reopen, publish and amend marks.         *)
THEOREM MarksStandAsApproved ==
    /\ Assessments!Spec => [](Assessments!TypeOK /\ Assessments!ApprovedMarksStand)
    /\ RecordsSpec => []ApprovedMarksStand
  <1>1. AssessmentsInv /\ [Assessments!Next]_(Assessments!vars) => AssessmentsInv'
    BY AssessmentsStep
  <1>2. Assessments!Spec => [](Assessments!TypeOK /\ Assessments!ApprovedMarksStand)
    BY <1>1, AssessmentsInit, AssessmentsSay, PTL DEF Assessments!Spec
  <1>3. (part = "assessments" => AssessmentsInv) => ApprovedMarksStand
    BY AssessmentsSay DEF ApprovedMarksStand
  <1>4. RecordsSpec => []ApprovedMarksStand
    BY <1>3, AssessmentsWithin, PTL
  <1> QED
    BY <1>2, <1>4

-----------------------------------------------------------------------------
(* Documents: the file, the row and the record                             *)

StoreTyped ==
    /\ files \in [Documents -> {"unborn", "fresh", "old", "gone"}]
    /\ rows \in [Documents -> {"none", "kept", "dated", "expired"}]
    /\ references \in [Documents -> {"none", "set", "null"}]
    /\ retention \in BOOLEAN
    /\ job \in [status : {"absent", "PENDING", "PROCESSING", "PROCESSED", "FAILED"}, document : Documents \cup {None}]
    /\ purged \in [Documents -> Nat]
    /\ interrupted \subseteq Documents \X {"delete", "purge"}

\* A key without a file has no row; a record that points to a row has it; what was purged is gone.
DocumentStands(d) ==
    /\ files[d] = "unborn" => rows[d] = "none" /\ purged[d] = 0
    /\ references[d] = "set" => rows[d] # "none"
    /\ purged[d] \in {0, 1}
    /\ purged[d] = 1 => rows[d] = "none" /\ files[d] = "gone"

\* What a call c knows of the documents it works on.
StoreCallStands(c) ==
    /\ c.op = "uploading" => c.doc \in Documents /\ files[c.doc] = "fresh" /\ rows[c.doc] = "none"
    /\ c.op = "deleting" => c.doc \in Documents
    /\ c.op = "purging" =>
           c.left \subseteq c.docs /\ \A d \in c.docs : rows[d] = "expired" /\ (d \in c.left \/ files[d] = "gone")
    /\ c.op = "listing" => \A d \in Documents : rows[d] # "none" /\ files[d] = "old" => d \in c.docs
    /\ c.op = "sweeping" => \A d \in c.left : files[d] \in {"old", "gone"} /\ rows[d] = "none"
\* No two storeCalls upload or purge the same document.
CallsApart(c, e) ==
    /\ c.op = "uploading" /\ e.op = "uploading" => c.doc # e.doc
    /\ c.op = "purging" /\ e.op = "purging" => c.docs \cap e.docs = {}

\* The call c has deleted the file of d, and will delete its row.
Removing(c, d) == (c.op = "deleting" /\ c.doc = d) \/ (c.op = "purging" /\ d \in c.docs \ c.left)
Dangling(d) == Store!Present(d) /\ ~Store!OnDisk(d)
Cut(d) == \E cut \in interrupted : cut[1] = d

StoreInv ==
    /\ StoreTyped
    /\ storeCalls \in [Workers -> Store!Call]
    /\ \A d \in Documents : DocumentStands(d)
    /\ \A w \in Workers : StoreCallStands(storeCalls[w])
    /\ \A v, w \in Workers : v # w => CallsApart(storeCalls[v], storeCalls[w])
    /\ \A d \in Documents : Dangling(d) => Cut(d) \/ \E w \in Workers : Removing(storeCalls[w], d)

\* The invariant says that files and rows agree.
LEMMA StoreSays == StoreInv => Store!TypeOK /\ Store!FilesAndRowsAgree
  <1> SUFFICES ASSUME StoreInv PROVE Store!TypeOK /\ Store!FilesAndRowsAgree
    OBVIOUS
  <1>1. Store!TypeOK
    BY DEF StoreInv, StoreTyped, Store!TypeOK
  <1>2. ASSUME NEW d \in Documents, NEW w \in Workers, Removing(storeCalls[w], d)
        PROVE  \E v \in Workers : \/ storeCalls[v].op = "deleting" /\ storeCalls[v].doc = d
                                  \/ storeCalls[v].op = "purging" /\ d \in storeCalls[v].docs
    BY <1>2 DEF Removing
  <1>3. Store!RowsHaveFiles
    BY <1>2 DEF StoreInv, Dangling, Cut, Store!RowsHaveFiles
  <1>4. Store!PurgedOnce
    BY DEF StoreInv, DocumentStands, Store!PurgedOnce, Store!Present, Store!OnDisk
  <1> QED
    BY <1>1, <1>3, <1>4 DEF Store!FilesAndRowsAgree

\* The idle call knows nothing.
LEMMA StoreIdle ==
    /\ Store!Idle \in Store!Call /\ StoreCallStands(Store!Idle) /\ StoreCallStands(Store!Idle)'
    /\ \A c : CallsApart(Store!Idle, c) /\ CallsApart(c, Store!Idle)
    /\ \A d : ~Removing(Store!Idle, d)
  BY DEF Store!Idle, Store!Call, Store!Ops, StoreCallStands, CallsApart, Removing

\* The invariant holds at first.
LEMMA StoreInit == Store!Init => StoreInv
  <1> SUFFICES ASSUME Store!Init PROVE StoreInv
    OBVIOUS
  <1>1. StoreTyped
    BY DEF Store!Init, StoreTyped
  <1>2. storeCalls \in [Workers -> Store!Call]
    BY StoreIdle DEF Store!Init
  <1>3. \A d \in Documents : DocumentStands(d) /\ ~Dangling(d)
    BY DEF Store!Init, DocumentStands, Dangling, Store!Present
  <1>4. \A w \in Workers : StoreCallStands(storeCalls[w])
    BY StoreIdle DEF Store!Init
  <1>5. \A v, w \in Workers : CallsApart(storeCalls[v], storeCalls[w])
    BY StoreIdle DEF Store!Init
  <1> QED
    BY <1>1, <1>2, <1>3, <1>4, <1>5 DEF StoreInv

\* One call moves on: what it does must leave the documents and the other storeCalls standing.
LEMMA StoreMoves ==
    ASSUME StoreInv, NEW w \in Workers, NEW c \in Store!Call, Store!Becomes(w, c),
           StoreTyped', StoreCallStands(c)',
           \A d \in Documents : DocumentStands(d)',
           \A v \in Workers \ {w} : \A e \in Store!Call :
               e = storeCalls[v] /\ StoreCallStands(e) => StoreCallStands(e)' /\ CallsApart(c, e),
           \A d \in Documents : Dangling(d)' => Cut(d)' \/ Removing(c, d) \/ (Dangling(d) /\ ~Removing(storeCalls[w], d)),
           interrupted \subseteq interrupted'
    PROVE  StoreInv'
  <1>1. storeCalls' \in [Workers -> Store!Call] /\ storeCalls'[w] = c /\ \A v \in Workers \ {w} : storeCalls'[v] = storeCalls[v]
    BY DEF StoreInv, Store!Becomes
  <1>2. ASSUME NEW v \in Workers PROVE StoreCallStands(storeCalls[v])'
    <2>1. PICK e \in Store!Call : e = storeCalls'[v] /\ StoreCallStands(e)'
      BY <1>1 DEF StoreInv
    <2> QED
      BY <2>1 DEF StoreCallStands
  <1>3. ASSUME NEW v \in Workers, NEW u \in Workers, v # u PROVE CallsApart(storeCalls[v], storeCalls[u])'
    <2>1. CASE v # w /\ u # w
      BY <1>1, <1>3, <2>1 DEF StoreInv, CallsApart
    <2>2. CASE v = w
      <3>1. CallsApart(c, storeCalls[u])
        BY <1>3, <2>2 DEF StoreInv
      <3> QED
        BY <1>1, <1>3, <2>2, <3>1 DEF CallsApart
    <2>3. CASE u = w
      <3>1. CallsApart(c, storeCalls[v])
        BY <1>3, <2>3 DEF StoreInv
      <3> QED
        BY <1>1, <1>3, <2>3, <3>1 DEF CallsApart
    <2> QED
      BY <2>1, <2>2, <2>3
  <1>4. ASSUME NEW d \in Documents, Dangling(d)' PROVE Cut(d)' \/ \E v \in Workers : Removing(storeCalls[v], d)'
    <2>1. CASE Cut(d)'
      BY <2>1
    <2>2. CASE Removing(c, d)
      BY <1>1, <2>2 DEF Removing
    <2>3. CASE Dangling(d) /\ ~Removing(storeCalls[w], d)
      <3>1. Cut(d) => Cut(d)'
        BY DEF Cut
      <3>2. CASE \E v \in Workers : Removing(storeCalls[v], d)
        <4>1. PICK v \in Workers : Removing(storeCalls[v], d)
          BY <3>2
        <4> QED
          BY <1>1, <2>3, <4>1 DEF Removing
      <3> QED
        BY <2>3, <3>1, <3>2 DEF StoreInv
    <2> QED
      BY <1>4, <2>1, <2>2, <2>3
  <1> QED
    BY <1>1, <1>2, <1>3, <1>4 DEF StoreInv

\* Steps that write neither a file nor a row.
LEMMA StoreRests ==
    ASSUME StoreInv, UNCHANGED <<files, rows, purged, interrupted>>, StoreTyped',
           \A d \in Documents : references'[d] = "set" => rows[d] # "none",
           \/ UNCHANGED storeCalls
           \/ \E w \in Workers, c \in Store!Call :
                  /\ Store!Becomes(w, c) /\ StoreCallStands(c)
                  /\ \A v \in Workers \ {w} : CallsApart(c, storeCalls[v])
                  /\ \A d \in Documents : ~Removing(storeCalls[w], d)
    PROVE  StoreInv'
  <1>1. \A d \in Documents : DocumentStands(d)' /\ (Dangling(d)' => Dangling(d))
    BY DEF StoreInv, DocumentStands, Dangling, Store!Present, Store!OnDisk
  <1>2. \A c : StoreCallStands(c) => StoreCallStands(c)'
    BY DEF StoreCallStands
  <1>3. CASE UNCHANGED storeCalls
    <2>1. ASSUME NEW w \in Workers PROVE StoreCallStands(storeCalls[w])'
      BY <1>2, <1>3 DEF StoreInv, StoreCallStands
    <2>2. \A v, w \in Workers : v # w => CallsApart(storeCalls[v], storeCalls[w])'
      BY <1>3 DEF StoreInv, CallsApart
    <2>3. ASSUME NEW d \in Documents, Dangling(d)' PROVE Cut(d)' \/ \E w \in Workers : Removing(storeCalls[w], d)'
      BY <1>1, <1>3, <2>3 DEF StoreInv, Cut, Removing
    <2> QED
      BY <1>1, <1>3, <2>1, <2>2, <2>3 DEF StoreInv
  <1>4. ASSUME NEW w \in Workers, NEW c \in Store!Call, Store!Becomes(w, c), StoreCallStands(c),
               \A v \in Workers \ {w} : CallsApart(c, storeCalls[v]), \A d \in Documents : ~Removing(storeCalls[w], d)
        PROVE  StoreInv'
    BY <1>1, <1>2, <1>4, StoreMoves
  <1> QED
    BY <1>3, <1>4

\* Settings, exports, and requests that attach what was uploaded.
LEMMA StoreRecords ==
    ASSUME StoreInv,
           \/ \E dated \in BOOLEAN : Store!ConfigureDocumentSetup(dated)
           \/ Store!RequestReportExport \/ Store!ReapExport
           \/ \E w \in Workers : \/ Store!AttachDocument(w) \/ Store!AttachExport(w) \/ Store!FinishExport(w)
                                 \/ Store!FailExport(w) \/ Store!DeleteRecord(w)
    PROVE  StoreInv'
  <1> DEFINE Jobs == [status : {"absent", "PENDING", "PROCESSING", "PROCESSED", "FAILED"},
                      document : Documents \cup {None}]
  <1>1. \A d \in Documents : references[d] = "set" => rows[d] # "none"
    BY DEF StoreInv, DocumentStands
  <1>2. PICK j \in Jobs : j = job
    BY DEF StoreInv, StoreTyped
  <1>3. ASSUME NEW dated \in BOOLEAN, Store!ConfigureDocumentSetup(dated) PROVE StoreInv'
    BY <1>1, <1>3, StoreRests DEF Store!ConfigureDocumentSetup, StoreInv, StoreTyped
  <1>4. ASSUME Store!RequestReportExport \/ Store!ReapExport PROVE StoreInv'
    <2>1. PICK k : k = [j EXCEPT !.status = "PENDING"]
      OBVIOUS
    <2>2. k \in Jobs
      BY <2>1
    <2>3. job' = k /\ UNCHANGED <<files, rows, references, retention, purged, storeCalls, interrupted>>
      BY <1>2, <1>4, <2>1 DEF Store!RequestReportExport, Store!ReapExport
    <2>4. StoreTyped'
      BY <2>2, <2>3 DEF StoreInv, StoreTyped
    <2> QED
      BY <1>1, <2>3, <2>4, StoreRests
  <1>5. ASSUME NEW w \in Workers, Store!AttachDocument(w) \/ Store!DeleteRecord(w) PROVE StoreInv'
    <2>1. PICK d \in Documents \cup {None}, a \in Store!Call : a = storeCalls[w] /\ d = a.doc
      BY DEF StoreInv, Store!Call
    <2>2. PICK mark \in {"none", "set"} :
              /\ references' = [references EXCEPT ![d] = mark] /\ (mark = "set" => Store!Present(d))
              /\ a.op \in {"attaching", "detaching"}
              /\ Store!Becomes(w, Store!Idle) /\ UNCHANGED <<files, rows, retention, job, purged, interrupted>>
      BY <1>5, <2>1 DEF Store!AttachDocument, Store!DeleteRecord
    <2>3. references' \in [Documents -> {"none", "set", "null"}]
      BY <2>2 DEF StoreInv, StoreTyped
    <2>4. \A e \in Documents : references'[e] = "set" => rows[e] # "none"
      BY <1>1, <2>2 DEF StoreInv, StoreTyped, Store!Present
    <2>5. StoreTyped'
      BY <2>2, <2>3 DEF StoreInv, StoreTyped
    <2>6. \A e \in Documents : ~Removing(storeCalls[w], e)
      BY <2>1, <2>2 DEF Removing
    <2> QED
      BY <2>2, <2>4, <2>5, <2>6, StoreIdle, StoreRests
  <1>6. ASSUME NEW w \in Workers, Store!AttachExport(w) \/ Store!FinishExport(w) \/ Store!FailExport(w) PROVE StoreInv'
    <2>1. PICK a \in Store!Call : a = storeCalls[w]
      BY DEF StoreInv
    <2>2. PICK f : f = [a EXCEPT !.op = "finishing"]
      OBVIOUS
    <2>3. f \in Store!Call /\ f.op = "finishing"
      BY <2>2 DEF Store!Call, Store!Ops
    <2>4. StoreCallStands(f) /\ \A e : CallsApart(f, e)
      BY <2>3 DEF StoreCallStands, CallsApart
    <2>5. a.op \in {"attaching", "finishing", "failing"} /\ UNCHANGED <<files, rows, references, retention, purged, interrupted>>
      BY <1>6, <2>1 DEF Store!AttachExport, Store!FinishExport, Store!FailExport
    <2>6. PICK c \in {f, Store!Idle} : Store!Becomes(w, c)
      BY <1>6, <2>1, <2>2 DEF Store!AttachExport, Store!FinishExport, Store!FailExport
    <2>7. job' \in Jobs
      <3>1. CASE Store!AttachExport(w)
        <4>1. PICK k : k = [j EXCEPT !.document = a.doc]
          OBVIOUS
        <4>2. k \in Jobs
          BY <4>1 DEF Store!Call
        <4> QED
          BY <1>2, <2>1, <3>1, <4>1, <4>2 DEF Store!AttachExport
      <3>2. CASE ~Store!AttachExport(w)
        <4>1. PICK status \in {"PROCESSED", "PENDING", "FAILED"} : job' = [j EXCEPT !.status = status]
          BY <1>2, <1>6, <3>2 DEF Store!FinishExport, Store!FailExport
        <4> QED
          BY <4>1
      <3> QED
        BY <3>1, <3>2
    <2>8. StoreTyped'
      BY <2>5, <2>7 DEF StoreInv, StoreTyped
    <2>9. \A e \in Documents : ~Removing(storeCalls[w], e)
      BY <2>1, <2>5 DEF Removing
    <2> QED
      BY <1>1, <2>3, <2>4, <2>5, <2>6, <2>8, <2>9, StoreIdle, StoreRests
  <1> QED
    BY <1>3, <1>4, <1>5, <1>6

\* The tasks read: a purge claims what no other one has, a sweep lists rows and then files.
LEMMA StoreReads ==
    ASSUME StoreInv, NEW w \in Workers, Store!ClaimExpired(w) \/ Store!ListRows(w) \/ Store!ListFiles(w)
    PROVE  StoreInv'
  <1>1. \A d \in Documents : references[d] = "set" => rows[d] # "none"
    BY DEF StoreInv, DocumentStands
  <1>2. StoreTyped' /\ UNCHANGED <<files, rows, references, purged, interrupted>>
    BY DEF StoreInv, StoreTyped, Store!ClaimExpired, Store!ListRows, Store!ListFiles
  <1>3. CASE Store!ClaimExpired(w)
    <2>1. PICK batch \in SUBSET Documents : batch = Store!Claimable
      BY DEF Store!Claimable
    <2>2. PICK c : c = [Store!Idle EXCEPT !.op = "purging", !.docs = batch, !.left = batch]
      OBVIOUS
    <2>3. c \in Store!Call /\ c.op = "purging" /\ c.docs = batch /\ c.left = batch
      BY <2>2 DEF Store!Idle, Store!Call, Store!Ops
    <2>4. StoreCallStands(c)
      BY <2>1, <2>3 DEF StoreCallStands, Store!Claimable
    <2>5. ASSUME NEW v \in Workers PROVE CallsApart(c, storeCalls[v])
      BY <2>1, <2>3 DEF CallsApart, Store!Claimable, Store!Claimed
    <2>6. Store!Becomes(w, c) /\ \A d \in Documents : ~Removing(storeCalls[w], d)
      BY <1>3, <2>1, <2>2, StoreIdle DEF Store!ClaimExpired
    <2> QED
      BY <1>1, <1>2, <2>3, <2>4, <2>5, <2>6, StoreRests
  <1>4. CASE Store!ListRows(w)
    <2>1. PICK c : c = [Store!Idle EXCEPT !.op = "listing", !.docs = {d \in Documents : Store!Present(d)}]
      OBVIOUS
    <2>2. c \in Store!Call /\ c.op = "listing" /\ c.docs = {d \in Documents : Store!Present(d)}
      BY <2>1 DEF Store!Idle, Store!Call, Store!Ops
    <2>3. StoreCallStands(c) /\ \A e : CallsApart(c, e)
      BY <2>2 DEF StoreCallStands, CallsApart, Store!Present
    <2>4. Store!Becomes(w, c) /\ \A d \in Documents : ~Removing(storeCalls[w], d)
      BY <1>4, <2>1, StoreIdle DEF Store!ListRows
    <2> QED
      BY <1>1, <1>2, <2>2, <2>3, <2>4, StoreRests
  <1>5. CASE Store!ListFiles(w)
    <2>1. PICK a \in Store!Call : a = storeCalls[w] /\ a.op = "listing" /\ StoreCallStands(a)
      BY <1>5 DEF StoreInv, Store!ListFiles
    <2>2. PICK found : found = {d \in Documents : Store!Sweepable(d)} \ a.docs
      OBVIOUS
    <2>3. PICK c : c = [a EXCEPT !.op = "sweeping", !.left = found]
      OBVIOUS
    <2>4. c \in Store!Call /\ c.op = "sweeping" /\ c.left = found
      BY <2>2, <2>3 DEF Store!Call, Store!Ops
    <2>5. StoreCallStands(c) /\ \A e : CallsApart(c, e)
      BY <2>1, <2>2, <2>4 DEF StoreCallStands, CallsApart, Store!Sweepable, StoreInv, StoreTyped
    <2>6. Store!Becomes(w, c) /\ \A d \in Documents : ~Removing(storeCalls[w], d)
      BY <1>5, <2>1, <2>2, <2>3 DEF Store!ListFiles, Removing
    <2> QED
      BY <1>1, <1>2, <2>4, <2>5, <2>6, StoreRests
  <1> QED
    BY <1>3, <1>4, <1>5

\* A file is written under a key that had none.
LEMMA StoreSaves ==
    ASSUME StoreInv, NEW w \in Workers, NEW d \in Documents, Store!SaveFile(w, d) \/ Store!SaveExport(w, d)
    PROVE  StoreInv'
  <1>1. PICK c : c \in {[Store!Idle EXCEPT !.op = "uploading", !.doc = d],
                        [Store!Idle EXCEPT !.op = "uploading", !.doc = d, !.export = TRUE]} /\ Store!Becomes(w, c)
    BY DEF Store!SaveFile, Store!SaveExport
  <1>2. c \in Store!Call /\ c.op = "uploading" /\ c.doc = d
    BY <1>1 DEF Store!Idle, Store!Call, Store!Ops
  <1>3. /\ files[d] = "unborn" /\ files' = [files EXCEPT ![d] = "fresh"]
        /\ UNCHANGED <<rows, references, retention, purged, interrupted>> /\ storeCalls[w] = Store!Idle
    BY DEF Store!SaveFile, Store!SaveExport
  <1>4. job' \in [status : {"absent", "PENDING", "PROCESSING", "PROCESSED", "FAILED"}, document : Documents \cup {None}]
    BY DEF StoreInv, StoreTyped, Store!SaveFile, Store!SaveExport
  <1>5. StoreTyped'
    BY <1>3, <1>4 DEF StoreInv, StoreTyped
  <1>6. rows[d] = "none"
    BY <1>3 DEF StoreInv, DocumentStands
  <1>7. ASSUME NEW e \in Documents
        PROVE  DocumentStands(e)' /\ (Dangling(e)' => Dangling(e))
    BY <1>3, <1>6 DEF StoreInv, StoreTyped, DocumentStands, Dangling, Store!Present, Store!OnDisk
  <1>8. StoreCallStands(c)'
    BY <1>2, <1>3, <1>6 DEF StoreCallStands, StoreInv, StoreTyped
  <1>9. ASSUME NEW e \in Store!Call, StoreCallStands(e) PROVE StoreCallStands(e)' /\ CallsApart(c, e)
    <2>1. StoreCallStands(e)'
      BY <1>3, <1>6, <1>9 DEF StoreInv, StoreTyped, StoreCallStands, Store!Call
    <2>2. CallsApart(c, e)
      BY <1>2, <1>3, <1>9 DEF StoreCallStands, CallsApart
    <2> QED
      BY <2>1, <2>2
  <1> QED
    BY <1>1, <1>2, <1>3, <1>5, <1>7, <1>8, <1>9, StoreIdle, StoreMoves

\* The row of an uploaded file is inserted.
LEMMA StoreCreates ==
    ASSUME StoreInv, NEW w \in Workers, Store!CreateDocument(w)
    PROVE  StoreInv'
  <1>1. PICK a \in Store!Call : a = storeCalls[w] /\ a.op = "uploading" /\ StoreCallStands(a)
    BY DEF StoreInv, Store!CreateDocument
  <1>2. PICK d \in Documents : d = a.doc /\ files[d] = "fresh" /\ rows[d] = "none"
    BY <1>1 DEF StoreCallStands
  <1>3. PICK new \in {"dated", "kept"} : rows' = [rows EXCEPT ![d] = new]
    BY <1>1, <1>2 DEF Store!CreateDocument
  <1>4. PICK c : c = [a EXCEPT !.op = "attaching"]
    OBVIOUS
  <1>5. c \in Store!Call /\ c.op = "attaching"
    BY <1>4 DEF Store!Call, Store!Ops
  <1>6. Store!Becomes(w, c) /\ UNCHANGED <<files, references, retention, job, purged, interrupted>>
    BY <1>1, <1>4 DEF Store!CreateDocument
  <1>7. StoreTyped' /\ StoreCallStands(c)' /\ \A e : CallsApart(c, e)
    BY <1>3, <1>5, <1>6 DEF StoreInv, StoreTyped, StoreCallStands, CallsApart
  <1>8. ASSUME NEW e \in Documents PROVE DocumentStands(e)' /\ (Dangling(e)' => Dangling(e))
    BY <1>2, <1>3, <1>6 DEF StoreInv, StoreTyped, DocumentStands, Dangling, Store!Present, Store!OnDisk
  <1>9. ASSUME NEW v \in Workers \ {w}, NEW e \in Store!Call, e = storeCalls[v], StoreCallStands(e)
        PROVE  StoreCallStands(e)'
    <2>1. e.op = "uploading" => e.doc # d
      BY <1>1, <1>2, <1>9 DEF StoreInv, CallsApart
    <2> QED
      BY <1>2, <1>3, <1>6, <1>9, <2>1 DEF StoreInv, StoreTyped, StoreCallStands, Store!Call
  <1>10. \A e : ~Removing(a, e)
    BY <1>1 DEF Removing
  <1> QED
    BY <1>1, <1>5, <1>6, <1>7, <1>8, <1>9, <1>10, StoreMoves

\* A file is deleted that no other call is uploading: of an upload without a row, of a row
\* that the call is going to delete, or of no row.
LEMMA StoreDeletes ==
    ASSUME StoreInv, NEW w \in Workers, NEW c \in Store!Call, Store!Becomes(w, c), NEW d \in Documents,
           files' = [files EXCEPT ![d] = "gone"], files[d] # "unborn",
           UNCHANGED <<rows, references, retention, purged, interrupted>>, StoreTyped',
           StoreCallStands(c)', \A v \in Workers \ {w} : CallsApart(c, storeCalls[v]),
           \A v \in Workers \ {w} : storeCalls[v].op = "uploading" => storeCalls[v].doc # d,
           rows[d] = "none" \/ Removing(c, d),
           \A e \in Documents : Removing(storeCalls[w], e) => Removing(c, e)
    PROVE  StoreInv'
  <1>1. ASSUME NEW e \in Documents
        PROVE  DocumentStands(e)' /\ (Dangling(e)' => Removing(c, e) \/ Dangling(e))
    BY DEF StoreInv, StoreTyped, DocumentStands, Dangling, Store!Present, Store!OnDisk
  <1>2. ASSUME NEW v \in Workers \ {w}, NEW e \in Store!Call, e = storeCalls[v], StoreCallStands(e)
        PROVE  StoreCallStands(e)'
    BY <1>2 DEF StoreInv, StoreTyped, StoreCallStands, Store!Call
  <1> QED
    BY <1>1, <1>2, StoreMoves

\* The files that uploads, deletions, purges and sweeps delete.
LEMMA StoreRemovesFiles ==
    ASSUME StoreInv, NEW w \in Workers,
           \/ Store!CompensateUpload(w) \/ Store!SweepFile(w)
           \/ \E d \in Documents : Store!DeleteFile(w, d) \/ Store!PurgeFile(w, d)
    PROVE  StoreInv'
  <1>1. PICK a \in Store!Call : a = storeCalls[w] /\ StoreCallStands(a)
    BY DEF StoreInv
  <1>2. ASSUME NEW d \in Documents, files' = [files EXCEPT ![d] = "gone"],
               UNCHANGED <<rows, references, retention, job, purged, interrupted>>
        PROVE  StoreTyped'
    BY <1>2 DEF StoreInv, StoreTyped
  <1>3. ASSUME NEW d \in Documents, NEW v \in Workers, storeCalls[v].op = "uploading", storeCalls[v].doc = d
        PROVE  files[d] = "fresh" /\ rows[d] = "none"
    BY <1>3 DEF StoreInv, StoreCallStands
  <1>4. ASSUME Store!CompensateUpload(w) PROVE StoreInv'
    <2>1. PICK d \in Documents : d = a.doc /\ files[d] = "fresh" /\ rows[d] = "none" /\ a.op = "uploading"
      BY <1>1, <1>4 DEF StoreCallStands, Store!CompensateUpload
    <2>2. PICK f : f = [a EXCEPT !.op = "failing"]
      OBVIOUS
    <2>3. f \in Store!Call /\ f.op = "failing"
      BY <2>2 DEF Store!Call, Store!Ops
    <2>4. PICK c \in {f, Store!Idle} : Store!Becomes(w, c)
      BY <1>1, <1>4, <2>2 DEF Store!CompensateUpload
    <2>5. c \in Store!Call /\ StoreCallStands(c)' /\ \A e : CallsApart(c, e)
      BY <2>3, <2>4, StoreIdle DEF StoreCallStands, CallsApart
    <2>6. files' = [files EXCEPT ![d] = "gone"] /\ UNCHANGED <<rows, references, retention, job, purged, interrupted>>
      BY <1>1, <1>4, <2>1 DEF Store!CompensateUpload
    <2>7. \A v \in Workers \ {w} : storeCalls[v].op = "uploading" => storeCalls[v].doc # d
      BY <1>1, <2>1 DEF StoreInv, CallsApart
    <2>8. \A e : ~Removing(a, e)
      BY <2>1 DEF Removing
    <2> QED
      BY <1>1, <1>2, <2>1, <2>4, <2>5, <2>6, <2>7, <2>8, StoreDeletes
  <1>5. ASSUME NEW d \in Documents, Store!DeleteFile(w, d) PROVE StoreInv'
    <2>1. PICK c : c = [Store!Idle EXCEPT !.op = "deleting", !.doc = d]
      OBVIOUS
    <2>2. c \in Store!Call /\ c.op = "deleting" /\ c.doc = d
      BY <2>1 DEF Store!Idle, Store!Call, Store!Ops
    <2>3. StoreCallStands(c)' /\ Removing(c, d) /\ \A e : CallsApart(c, e)
      BY <2>2 DEF StoreCallStands, CallsApart, Removing
    <2>4. rows[d] # "none" /\ files[d] # "unborn"
      BY <1>5 DEF Store!DeleteFile, StoreInv, DocumentStands
    <2>5. /\ files' = [files EXCEPT ![d] = "gone"] /\ UNCHANGED <<rows, references, retention, job, purged, interrupted>>
          /\ Store!Becomes(w, c) /\ \A e : ~Removing(storeCalls[w], e)
      BY <1>5, <2>1, StoreIdle DEF Store!DeleteFile
    <2>6. \A v \in Workers : storeCalls[v].op = "uploading" => storeCalls[v].doc # d
      BY <1>3, <2>4
    <2> QED
      BY <1>2, <2>2, <2>3, <2>4, <2>5, <2>6, StoreDeletes
  <1>6. ASSUME NEW d \in Documents, Store!PurgeFile(w, d) PROVE StoreInv'
    <2>1. a.op = "purging" /\ d \in a.left /\ a.left \subseteq a.docs
      BY <1>1, <1>6 DEF Store!PurgeFile, StoreCallStands
    <2>2. \A e \in a.docs : rows[e] = "expired" /\ (e \in a.left \/ files[e] = "gone")
      BY <1>1, <2>1 DEF StoreCallStands
    <2>3. PICK c : c = [a EXCEPT !.left = @ \ {d}]
      OBVIOUS
    <2>4. c \in Store!Call /\ c.op = "purging" /\ c.docs = a.docs /\ c.left = a.left \ {d}
      BY <2>1, <2>3 DEF Store!Call
    <2>5. /\ files' = [files EXCEPT ![d] = "gone"] /\ UNCHANGED <<rows, references, retention, job, purged, interrupted>>
          /\ Store!Becomes(w, c)
      BY <1>1, <1>6, <2>3 DEF Store!PurgeFile
    <2>6. rows[d] # "none" /\ files[d] # "unborn"
      BY <2>1, <2>2 DEF StoreInv, DocumentStands
    <2>7. StoreCallStands(c)'
      BY <2>1, <2>2, <2>4, <2>5 DEF StoreCallStands, StoreInv, StoreTyped, Store!Call
    <2>8. \A v \in Workers \ {w} : CallsApart(c, storeCalls[v])
      BY <1>1, <2>1, <2>4 DEF StoreInv, CallsApart
    <2>9. Removing(c, d) /\ \A e : Removing(a, e) => Removing(c, e)
      BY <2>1, <2>4 DEF Removing
    <2>10. \A v \in Workers : storeCalls[v].op = "uploading" => storeCalls[v].doc # d
      BY <1>3, <2>6
    <2> QED
      BY <1>1, <1>2, <2>4, <2>5, <2>6, <2>7, <2>8, <2>9, <2>10, StoreDeletes
  <1>7. ASSUME Store!SweepFile(w) PROVE StoreInv'
    <2>1. a.op = "sweeping" /\ UNCHANGED <<rows, references, retention, job, purged, interrupted>>
      BY <1>1, <1>7 DEF Store!SweepFile
    <2>2. \A e : ~Removing(a, e)
      BY <2>1 DEF Removing
    <2>3. CASE a.left = {}
      <3>1. Store!Becomes(w, Store!Idle) /\ UNCHANGED files
        BY <1>1, <1>7, <2>3 DEF Store!SweepFile
      <3>2. StoreTyped' /\ \A d \in Documents : references[d] = "set" => rows[d] # "none"
        BY <2>1, <3>1 DEF StoreInv, StoreTyped, DocumentStands
      <3> QED
        BY <1>1, <2>1, <2>2, <3>1, <3>2, StoreIdle, StoreRests
    <2>4. CASE a.left # {}
      <3>1. PICK d \in a.left : /\ files' = [files EXCEPT ![d] = "gone"]
                                /\ Store!Becomes(w, [a EXCEPT !.left = @ \ {d}])
        BY <1>1, <1>7, <2>4 DEF Store!SweepFile
      <3>2. PICK c : c = [a EXCEPT !.left = @ \ {d}]
        OBVIOUS
      <3>3. c \in Store!Call /\ c.op = "sweeping" /\ c.left = a.left \ {d} /\ d \in Documents
        BY <2>1, <3>1, <3>2 DEF Store!Call
      <3>4. \A e \in a.left : files[e] \in {"old", "gone"} /\ rows[e] = "none"
        BY <1>1, <2>1 DEF StoreCallStands
      <3>5. StoreCallStands(c)' /\ \A e : CallsApart(c, e)
        BY <2>1, <3>1, <3>3, <3>4 DEF StoreCallStands, CallsApart, StoreInv, StoreTyped, Store!Call
      <3>6. \A v \in Workers : storeCalls[v].op = "uploading" => storeCalls[v].doc # d
        BY <1>3, <3>1, <3>3, <3>4
      <3> QED
        BY <1>1, <1>2, <2>1, <2>2, <3>1, <3>2, <3>3, <3>4, <3>5, <3>6, StoreDeletes
    <2> QED
      BY <2>3, <2>4
  <1> QED
    BY <1>4, <1>5, <1>6, <1>7

\* Rows are deleted that no other call is purging, each with its file gone; the call forgets them.
LEMMA StoreDropsRows ==
    ASSUME StoreInv, NEW w \in Workers, NEW c \in Store!Call, Store!Becomes(w, c), StoreCallStands(c)',
           \A e : CallsApart(c, e),
           NEW batch \in SUBSET Documents, Store!WithoutRows(batch), UNCHANGED <<files, retention, interrupted>>,
           \A v \in Workers \ {w} : storeCalls[v].op = "purging" => storeCalls[v].docs \cap batch = {},
           \A d \in Documents : Removing(storeCalls[w], d) => d \in batch,
           \/ UNCHANGED purged
           \/ /\ purged' = [d \in Documents |-> IF d \in batch THEN purged[d] + 1 ELSE purged[d]]
              /\ \A d \in batch : rows[d] # "none" /\ files[d] = "gone"
    PROVE  StoreInv'
  <1>1. /\ rows' = [d \in Documents |-> IF d \in batch THEN "none" ELSE rows[d]]
        /\ references' = [d \in Documents |-> IF d \in batch /\ references[d] = "set" THEN "null" ELSE references[d]]
    BY DEF Store!WithoutRows
  <1>2. job' \in [status : {"absent", "PENDING", "PROCESSING", "PROCESSED", "FAILED"}, document : Documents \cup {None}]
    BY DEF Store!WithoutRows, StoreInv, StoreTyped
  <1>3. ASSUME NEW d \in Documents
        PROVE  /\ purged'[d] \in {0, 1}
               /\ purged'[d] = 1 => purged[d] = 1 \/ (d \in batch /\ files[d] = "gone")
               /\ files[d] = "unborn" => purged'[d] = 0
    BY DEF StoreInv, StoreTyped, DocumentStands
  <1>4. rows' \in [Documents -> {"none", "kept", "dated", "expired"}] /\ references' \in [Documents -> {"none", "set", "null"}]
    BY <1>1 DEF StoreInv, StoreTyped
  <1>5. purged' \in [Documents -> Nat]
    BY DEF StoreInv, StoreTyped
  <1>6. StoreTyped'
    BY <1>2, <1>4, <1>5 DEF StoreInv, StoreTyped
  <1>7. ASSUME NEW d \in Documents
        PROVE  DocumentStands(d)' /\ (Dangling(d)' => Dangling(d) /\ ~Removing(storeCalls[w], d))
    <2>1. d \in batch => rows'[d] = "none" /\ references'[d] # "set"
      BY <1>1
    <2>2. d \notin batch => rows'[d] = rows[d] /\ references'[d] = references[d]
      BY <1>1
    <2>3. DocumentStands(d)'
      BY <1>3, <2>1, <2>2 DEF StoreInv, DocumentStands
    <2>4. Dangling(d)' => Dangling(d) /\ d \notin batch
      BY <2>1, <2>2 DEF Dangling, Store!Present, Store!OnDisk
    <2> QED
      BY <2>3, <2>4
  <1>8. ASSUME NEW v \in Workers \ {w}, NEW e \in Store!Call, e = storeCalls[v], StoreCallStands(e)
        PROVE  StoreCallStands(e)'
    <2>1. e.op = "purging" => \A d \in e.docs : rows'[d] = rows[d]
      BY <1>1, <1>8 DEF Store!Call
    <2>2. \A d \in Documents : rows'[d] = "none" \/ rows'[d] = rows[d]
      BY <1>1
    <2>3. \A d \in e.left : d \in Documents
      BY DEF Store!Call
    <2> QED
      BY <1>8, <2>1, <2>2, <2>3 DEF StoreCallStands
  <1> QED
    BY <1>6, <1>7, <1>8, StoreMoves

\* A deletion removes its row, a purge the rows of its batch.
LEMMA StoreDropsSteps ==
    ASSUME StoreInv, NEW w \in Workers, Store!DeleteDocumentRow(w) \/ Store!CommitPurge(w)
    PROVE  StoreInv'
  <1>1. PICK a \in Store!Call : a = storeCalls[w] /\ StoreCallStands(a)
    BY DEF StoreInv
  <1>2. CASE Store!DeleteDocumentRow(w)
    <2>1. PICK d \in Documents : d = a.doc /\ a.op = "deleting" /\ d \notin Store!Claimed
      BY <1>1, <1>2 DEF Store!DeleteDocumentRow, StoreCallStands
    <2>2. PICK c : c = [a EXCEPT !.op = "detaching"]
      OBVIOUS
    <2>3. c \in Store!Call /\ c.op = "detaching"
      BY <2>2 DEF Store!Call, Store!Ops
    <2>4. StoreCallStands(c)' /\ \A e : CallsApart(c, e)
      BY <2>3 DEF StoreCallStands, CallsApart
    <2>5. Store!Becomes(w, c) /\ Store!WithoutRows({d}) /\ UNCHANGED <<files, retention, purged, interrupted>>
      BY <1>1, <1>2, <2>1, <2>2 DEF Store!DeleteDocumentRow
    <2>6. \A v \in Workers : storeCalls[v].op = "purging" => storeCalls[v].docs \cap {d} = {}
      BY <2>1 DEF Store!Claimed
    <2>7. \A e \in Documents : Removing(storeCalls[w], e) => e \in {d}
      BY <1>1, <2>1 DEF Removing
    <2>8. {d} \in SUBSET Documents
      BY <2>1
    <2> QED
      BY <2>3, <2>4, <2>5, <2>6, <2>7, <2>8, StoreDropsRows
  <1>3. CASE Store!CommitPurge(w)
    <2>1. PICK batch \in SUBSET Documents : batch = a.docs
      BY DEF Store!Call
    <2>2. a.op = "purging" /\ \A d \in batch : rows[d] = "expired" /\ files[d] = "gone"
      BY <1>1, <1>3, <2>1 DEF Store!CommitPurge, StoreCallStands
    <2>3. /\ Store!Becomes(w, Store!Idle) /\ Store!WithoutRows(batch) /\ UNCHANGED <<files, retention, interrupted>>
          /\ purged' = [d \in Documents |-> IF d \in batch THEN purged[d] + 1 ELSE purged[d]]
      BY <1>1, <1>3, <2>1 DEF Store!CommitPurge
    <2>4. \A v \in Workers \ {w} : storeCalls[v].op = "purging" => storeCalls[v].docs \cap batch = {}
      BY <1>1, <2>1, <2>2 DEF StoreInv, CallsApart
    <2>5. \A e \in Documents : Removing(storeCalls[w], e) => e \in batch
      BY <1>1, <2>1, <2>2 DEF Removing
    <2> QED
      BY <2>2, <2>3, <2>4, <2>5, StoreIdle, StoreDropsRows
  <1> QED
    BY <1>2, <1>3

\* Time passes: a row expires, a file becomes old.
LEMMA StoreAges ==
    ASSUME StoreInv, NEW d \in Documents, Store!Expire(d) \/ Store!AgeFile(d)
    PROVE  StoreInv'
  <1>1. UNCHANGED <<references, retention, job, purged, storeCalls, interrupted>>
    BY DEF Store!Expire, Store!AgeFile
  <1>2. /\ rows[d] = "dated" /\ rows' = [rows EXCEPT ![d] = "expired"] /\ UNCHANGED files
        \/ /\ files[d] = "fresh" /\ files' = [files EXCEPT ![d] = "old"] /\ UNCHANGED rows
           /\ \A w \in Workers : (storeCalls[w].op = "uploading" => storeCalls[w].doc # d) /\ storeCalls[w].op # "listing"
    BY DEF Store!Expire, Store!AgeFile
  <1>3. StoreTyped'
    BY <1>1, <1>2 DEF StoreInv, StoreTyped
  <1>4. ASSUME NEW e \in Documents PROVE DocumentStands(e)' /\ (Dangling(e)' => Dangling(e))
    BY <1>1, <1>2 DEF StoreInv, StoreTyped, DocumentStands, Dangling, Store!Present, Store!OnDisk
  <1>5. ASSUME NEW w \in Workers PROVE StoreCallStands(storeCalls[w])'
    <2>1. PICK e \in Store!Call : e = storeCalls[w] /\ StoreCallStands(e)
      BY DEF StoreInv
    <2>2. e.left \subseteq Documents /\ e.docs \subseteq Documents
      BY DEF Store!Call
    <2>3. StoreCallStands(e)'
      BY <1>2, <2>1, <2>2 DEF StoreInv, StoreTyped, StoreCallStands
    <2> QED
      BY <1>1, <2>1, <2>3 DEF StoreCallStands
  <1>6. \A v, w \in Workers : v # w => CallsApart(storeCalls[v], storeCalls[w])'
    BY <1>1 DEF StoreInv, CallsApart
  <1>7. ASSUME NEW e \in Documents, Dangling(e)' PROVE Cut(e)' \/ \E w \in Workers : Removing(storeCalls[w], e)'
    BY <1>1, <1>4, <1>7 DEF StoreInv, Cut, Removing
  <1> QED
    BY <1>1, <1>3, <1>4, <1>5, <1>6, <1>7 DEF StoreInv

\* A crash remembers the removals it cuts off.
LEMMA StoreCrashes ==
    ASSUME StoreInv, NEW w \in Workers, Store!Crash(w)
    PROVE  StoreInv'
  <1>1. PICK a \in Store!Call : a = storeCalls[w] /\ StoreCallStands(a)
    BY DEF StoreInv
  <1>2. PICK cuts : cuts = CASE a.op = "deleting" -> {<<a.doc, "delete">>}
                            [] a.op = "purging" -> (a.docs \ a.left) \X {"purge"}
                            [] OTHER -> {}
    OBVIOUS
  <1>3. interrupted' = interrupted \cup cuts /\ Store!Becomes(w, Store!Idle)
        /\ UNCHANGED <<files, rows, references, retention, job, purged>>
    BY <1>1, <1>2 DEF Store!Crash
  <1>4. cuts \subseteq Documents \X {"delete", "purge"}
    <2>1. CASE a.op = "deleting"
      BY <1>1, <1>2, <2>1 DEF StoreCallStands
    <2>2. CASE a.op = "purging"
      BY <1>1, <1>2, <2>2 DEF Store!Call
    <2>3. CASE a.op \notin {"deleting", "purging"}
      BY <1>2, <2>3
    <2> QED
      BY <2>1, <2>2, <2>3
  <1>5. ASSUME NEW d \in Documents, Removing(a, d) PROVE \E cut \in cuts : cut[1] = d
    <2>1. CASE a.op = "deleting"
      BY <1>2, <1>5, <2>1 DEF Removing
    <2>2. CASE a.op = "purging"
      <3>1. <<d, "purge">> \in cuts
        BY <1>2, <1>5, <2>2 DEF Removing
      <3> QED
        BY <3>1
    <2> QED
      BY <1>5, <2>1, <2>2 DEF Removing
  <1>6. StoreTyped'
    BY <1>3, <1>4 DEF StoreInv, StoreTyped
  <1>7. ASSUME NEW d \in Documents
        PROVE  DocumentStands(d)' /\ (Dangling(d)' => Dangling(d)) /\ (Removing(a, d) => Cut(d)')
    BY <1>3, <1>5 DEF StoreInv, DocumentStands, Dangling, Cut, Store!Present, Store!OnDisk
  <1>8. \A e : StoreCallStands(e) => StoreCallStands(e)'
    BY <1>3 DEF StoreCallStands
  <1> QED
    BY <1>1, <1>3, <1>6, <1>7, <1>8, StoreIdle, StoreMoves

\* Every step keeps the invariant.
LEMMA StoreStep ==
    ASSUME StoreInv, [Store!Next]_(Store!vars)
    PROVE  StoreInv'
  <1>1. CASE UNCHANGED Store!vars
    <2>1. StoreTyped' /\ \A d \in Documents : references[d] = "set" => rows[d] # "none"
      BY <1>1 DEF Store!vars, StoreInv, StoreTyped, DocumentStands
    <2> QED
      BY <1>1, <2>1, StoreRests DEF Store!vars
  <1>2. ASSUME NEW w \in Workers, Store!Requests(w) PROVE StoreInv'
    BY <1>2, StoreSaves, StoreCreates, StoreRemovesFiles, StoreRecords, StoreDropsSteps DEF Store!Requests
  <1>3. ASSUME NEW w \in Workers, Store!ExportTask(w) PROVE StoreInv'
    BY <1>3, StoreSaves, StoreRecords DEF Store!ExportTask
  <1>4. ASSUME NEW w \in Workers, Store!PurgeTask(w) \/ Store!SweepTask(w) PROVE StoreInv'
    BY <1>4, StoreReads, StoreRemovesFiles, StoreDropsSteps DEF Store!PurgeTask, Store!SweepTask
  <1> QED
    BY <1>1, <1>2, <1>3, <1>4, StoreCrashes, StoreAges, StoreRecords DEF Store!Next

\* It holds of the component as one of Records.
LEMMA StoreWithin == RecordsSpec => [](part = "documents" => StoreInv)
  <1>1. RecordsInit => (part = "documents" => StoreInv)
    BY StoreInit DEF RecordsInit
  <1>2. (part = "documents" => StoreInv) /\ [RecordsNext]_recordsVars => (part = "documents" => StoreInv)'
    BY StoreStep DEF RecordsNext, recordsVars, serviceRows, Store!vars, storeRows
  <1> QED
    BY <1>1, <1>2, PTL DEF RecordsSpec

(* Files and rows agree, for every set of documents and every interleaving of     *)
(* uploads, exports, deletions, purges, sweeps and crashes: a row is without its  *)
(* file only while its removal is under way or was cut off by a crash, and no     *)
(* document is purged twice (FilesAndRowsAgree).                                  *)
THEOREM DocumentsKeepTheirFiles ==
    /\ Store!Spec => [](Store!TypeOK /\ Store!FilesAndRowsAgree)
    /\ RecordsSpec => []FilesAndRowsAgree
  <1>1. StoreInv /\ [Store!Next]_(Store!vars) => StoreInv'
    BY StoreStep
  <1>2. Store!Spec => [](Store!TypeOK /\ Store!FilesAndRowsAgree)
    BY <1>1, StoreInit, StoreSays, PTL DEF Store!Spec
  <1>3. (part = "documents" => StoreInv) => FilesAndRowsAgree
    BY StoreSays DEF FilesAndRowsAgree
  <1>4. RecordsSpec => []FilesAndRowsAgree
    BY <1>3, StoreWithin, PTL
  <1> QED
    BY <1>2, <1>4

-----------------------------------------------------------------------------
(* Notifications: the expansion of an event                                *)

Policies == Pipeline!Policies \cup {None}
PlanRule == [channel : Channels, policy : Policies, text : Pipeline!Texts]
Reach == {book[g][c] : book \in AddressBooks, g \in Guardians, c \in Channels}
Recipient == [guardian : Guardians, contact : Reach]
OutboxRow == [key : Channels \X Reach, channel : Channels, contact : Reach, guardian : Guardians, text : Pipeline!Texts]
Tasks == [step : {"none", "claimed", "between", "rule"}, plan : SUBSET PlanRule, rule : PlanRule \cup {None},
          left : SUBSET Recipient]
Events == [status : {"absent", "PENDING", "PROCESSING", "PROCESSED", "FAILED"}, attempts : 0 .. MaxClaims]

TaskShape(t, e) ==
    /\ t.step = "none" => t = Pipeline!NoTask
    /\ t.step = "rule" => t.rule \in PlanRule
    /\ t # Pipeline!NoTask => e.status = "PROCESSING"
\* Before its first claim an event has no row and no task.
Unclaimed(e, t, box) == e.attempts = 0 => box = {} /\ t = Pipeline!NoTask /\ e.status \in {"absent", "PENDING"}

ConfigTyped ==
    /\ enabled \in BOOLEAN /\ rules \in [Channels -> Pipeline!Rule] /\ contacts \in AddressBooks
    /\ touched \subseteq Channels /\ changes \in 0 .. MaxChanges
RowsTyped == outbox \subseteq OutboxRow /\ \A old \in outbox : old.key = <<old.channel, old.contact>>

RuleOf(c) == [channel |-> c, policy |-> rules[c].policy, text |-> rules[c].text]
Has(c, g) == \E old \in outbox : old.channel = c /\ old.contact = contacts[g][c] /\ old.guardian = g
Reached(c) == \A g \in Pipeline!Audience(c) : Has(c, g)
Due(c) == Pipeline!Serves(c) /\ Pipeline!Distinct(c)
For(c, g) == g \in Pipeline!Audience(c)

\* The rows of a channel say what its rule says, to whom it says it.
RowsTrue(c) ==
    \A old \in outbox : old.channel = c =>
        old.text = rules[c].text /\ For(c, old.guardian) /\ old.contact = contacts[old.guardian][c]
\* The task t holds the channel's rule as it is, and reaches everyone it has not reached yet.
TaskTrue(t, c) ==
    /\ \A rule \in t.plan : rule.channel = c => rule = RuleOf(c)
    /\ t.step = "rule" /\ t.rule.channel = c =>
           /\ t.rule = RuleOf(c)
           /\ \A r \in t.left : For(c, r.guardian) /\ r.contact = contacts[r.guardian][c]
    /\ Due(c) /\ t.step \in {"between", "rule"} =>
           \/ \E rule \in t.plan : rule.channel = c
           \/ Reached(c)
           \/ /\ t.step = "rule" /\ t.rule.channel = c
              /\ \A g \in Pipeline!Audience(c) : [guardian |-> g, contact |-> contacts[g][c]] \in t.left \/ Has(c, g)

PipelineInv ==
    /\ ConfigTyped /\ RowsTyped
    /\ event \in Events /\ task \in Tasks /\ TaskShape(task, event) /\ Unclaimed(event, task, outbox)
    /\ \A c \in Channels \ touched :
           RowsTrue(c) /\ TaskTrue(task, c) /\ (event.status = "PROCESSED" /\ Due(c) => Reached(c))

\* The invariant says that everyone is enqueued.
LEMMA PipelineSays == PipelineInv => Pipeline!TypeOK /\ Pipeline!EveryoneEnqueued
  <1> SUFFICES ASSUME PipelineInv PROVE Pipeline!TypeOK /\ Pipeline!EveryoneEnqueued
    OBVIOUS
  <1>1. \A old \in outbox : old.channel \in Channels /\ old.guardian \in Guardians /\ old.text \in Pipeline!Texts
    BY DEF PipelineInv, RowsTyped, OutboxRow
  <1>2. task.step \in {"none", "claimed", "between", "rule"}
    BY DEF PipelineInv, Tasks
  <1>3. Pipeline!TypeOK
    BY <1>1, <1>2 DEF PipelineInv, ConfigTyped, TaskShape, Events, Pipeline!TypeOK
  <1>4. Pipeline!EveryoneEnqueued
    BY DEF PipelineInv, Due, Reached, Has, Pipeline!EveryoneEnqueued
  <1> QED
    BY <1>3, <1>4

\* No task: nothing is planned, nothing is held.
LEMMA PipelineIdle == Pipeline!NoTask \in Tasks /\ (\A e : TaskShape(Pipeline!NoTask, e)) /\ \A c : TaskTrue(Pipeline!NoTask, c)
  BY DEF Pipeline!NoTask, Tasks, TaskShape, TaskTrue

\* The invariant holds at first.
LEMMA PipelineInit == Pipeline!Init => PipelineInv
  <1> SUFFICES ASSUME Pipeline!Init PROVE PipelineInv
    OBVIOUS
  <1>1. Pipeline!NoRule \in Pipeline!Rule
    BY DEF Pipeline!NoRule, Pipeline!Rule, Pipeline!Texts
  <1>2. ConfigTyped /\ RowsTyped
    BY <1>1, BoundAssumption DEF Pipeline!Init, ConfigTyped, RowsTyped
  <1>3. event \in Events /\ Unclaimed(event, task, outbox) /\ event.status # "PROCESSED"
    BY BoundAssumption DEF Pipeline!Init, Events, Unclaimed
  <1>4. task = Pipeline!NoTask /\ \A c \in Channels : RowsTrue(c)
    BY DEF Pipeline!Init, RowsTrue
  <1> QED
    BY <1>2, <1>3, <1>4, PipelineIdle DEF PipelineInv

\* The configuration changes: a channel whose configuration does is touched, once the event is claimed.
LEMMA PipelineConfigured ==
    ASSUME PipelineInv, UNCHANGED <<event, outbox, task>>, ConfigTyped', touched \subseteq touched',
           event.attempts > 0 =>
               \A c \in Channels \ touched' : rules'[c] = rules[c] /\ enabled' = enabled /\ contacts' = contacts
    PROVE  PipelineInv'
  <1>1. PICK t \in Tasks : t = task
    BY DEF PipelineInv
  <1>2. CASE event.attempts = 0
    <2>1. outbox = {} /\ task = Pipeline!NoTask /\ event.status # "PROCESSED"
      BY <1>2 DEF PipelineInv, Unclaimed
    <2>2. ASSUME NEW c \in Channels PROVE RowsTrue(c)' /\ TaskTrue(task, c)' /\ (event.status = "PROCESSED" => FALSE)'
      BY <2>1 DEF RowsTrue, TaskTrue, Pipeline!NoTask
    <2> QED
      BY <2>2 DEF PipelineInv, RowsTyped
  <1>3. CASE event.attempts > 0
    <2>1. ASSUME NEW c \in Channels \ touched'
          PROVE  RowsTrue(c)' /\ TaskTrue(t, c)' /\ (event.status = "PROCESSED" /\ Due(c) => Reached(c))'
      <3>1. rules'[c] = rules[c] /\ enabled' = enabled /\ contacts' = contacts /\ c \in Channels \ touched
        BY <1>3
      <3>2. Pipeline!Audience(c)' = Pipeline!Audience(c) /\ RuleOf(c)' = RuleOf(c)
        BY <3>1 DEF Pipeline!Audience, RuleOf
      <3>3. (Pipeline!Serves(c)' <=> Pipeline!Serves(c)) /\ (Pipeline!Distinct(c)' <=> Pipeline!Distinct(c))
        BY <3>1, <3>2 DEF Pipeline!Serves, Pipeline!Distinct
      <3>4. /\ (Due(c)' <=> Due(c)) /\ (Reached(c)' <=> Reached(c))
            /\ \A g : (For(c, g)' <=> For(c, g)) /\ (Has(c, g)' <=> Has(c, g))
        BY <3>1, <3>2, <3>3 DEF Due, Reached, Has, For
      <3>5. RowsTrue(c) /\ TaskTrue(t, c) /\ (event.status = "PROCESSED" /\ Due(c) => Reached(c))
        BY <1>1, <3>1 DEF PipelineInv
      <3> QED
        BY <3>1, <3>2, <3>4, <3>5 DEF RowsTrue, TaskTrue
    <2>2. \A c \in Channels \ touched' : TaskTrue(task, c)'
      BY <1>1, <2>1 DEF TaskTrue
    <2> QED
      BY <2>1, <2>2 DEF PipelineInv, RowsTyped
  <1> QED
    BY <1>2, <1>3 DEF PipelineInv, Events

\* The task moves to t and enqueues nothing.
LEMMA PipelineMoves ==
    ASSUME PipelineInv, UNCHANGED <<enabled, rules, contacts, outbox, touched, changes>>,
           NEW t \in Tasks, task' = t, NEW e \in Events, event' = e, TaskShape(t, e), Unclaimed(e, t, outbox),
           \A c \in Channels \ touched : TaskTrue(t, c) /\ (e.status = "PROCESSED" /\ Due(c) => Reached(c))
    PROVE  PipelineInv'
  <1>1. ConfigTyped' /\ RowsTyped'
    BY DEF PipelineInv, ConfigTyped, RowsTyped
  <1>2. ASSUME NEW c \in Channels \ touched
        PROVE  RowsTrue(c)' /\ TaskTrue(task, c)' /\ (event.status = "PROCESSED" /\ Due(c) => Reached(c))'
    <2>1. Pipeline!Audience(c)' = Pipeline!Audience(c) /\ RuleOf(c)' = RuleOf(c)
      BY DEF Pipeline!Audience, RuleOf
    <2>2. (Pipeline!Serves(c)' <=> Pipeline!Serves(c)) /\ (Pipeline!Distinct(c)' <=> Pipeline!Distinct(c))
      BY <2>1 DEF Pipeline!Serves, Pipeline!Distinct
    <2>3. /\ (Due(c)' <=> Due(c)) /\ (Reached(c)' <=> Reached(c))
          /\ \A g : (For(c, g)' <=> For(c, g)) /\ (Has(c, g)' <=> Has(c, g))
      BY <2>1, <2>2 DEF Due, Reached, Has, For
    <2>4. RowsTrue(c)
      BY DEF PipelineInv
    <2>5. RowsTrue(c)'
      BY <2>3, <2>4 DEF RowsTrue
    <2>6. TaskTrue(t, c)'
      BY <2>1, <2>3 DEF TaskTrue
    <2> QED
      BY <2>3, <2>5, <2>6 DEF TaskTrue
  <1> QED
    BY <1>1, <1>2 DEF PipelineInv

\* Requests change the configuration, and touch what they change.
LEMMA PipelineConfigures ==
    ASSUME PipelineInv,
           Pipeline!SetupRequests \/ Pipeline!TemplateRequests \/ Pipeline!RuleRequests \/ Pipeline!ChangeContacts
    PROVE  PipelineInv'
  <1>1. ASSUME NEW channels \in SUBSET Channels, Pipeline!Changes(channels)
        PROVE  /\ touched' \subseteq Channels /\ changes' \in 0 .. MaxChanges /\ touched \subseteq touched'
               /\ event.attempts > 0 => channels \subseteq touched'
    BY <1>1, BoundAssumption DEF Pipeline!Changes, PipelineInv, ConfigTyped
  <1>2. ASSUME Pipeline!ConfigureSetup \/ Pipeline!ChangeContacts PROVE PipelineInv'
    <2>1. Pipeline!Changes(Channels) /\ UNCHANGED <<rules, event, outbox, task>>
      BY <1>2 DEF Pipeline!ConfigureSetup, Pipeline!ChangeContacts
    <2>2. enabled' \in BOOLEAN /\ contacts' \in AddressBooks
      BY <1>2 DEF Pipeline!ConfigureSetup, Pipeline!ChangeContacts, PipelineInv, ConfigTyped
    <2>3. ConfigTyped'
      BY <1>1, <2>1, <2>2 DEF PipelineInv, ConfigTyped
    <2> QED
      BY <1>1, <2>1, <2>3, PipelineConfigured
  <1>3. ASSUME NEW c \in Channels, NEW new \in Pipeline!Rule, Pipeline!SetRule(c, new) PROVE PipelineInv'
    <2>1. Pipeline!Changes({c}) /\ rules' = [rules EXCEPT ![c] = new] /\ UNCHANGED <<enabled, contacts, event, outbox, task>>
      BY <1>3 DEF Pipeline!SetRule
    <2>2. rules' \in [Channels -> Pipeline!Rule] /\ \A k \in Channels \ {c} : rules'[k] = rules[k]
      BY <2>1 DEF PipelineInv, ConfigTyped
    <2>3. ConfigTyped' /\ touched \subseteq touched' /\ (event.attempts > 0 => c \in touched')
      BY <1>1, <2>1, <2>2 DEF PipelineInv, ConfigTyped
    <2> QED
      BY <2>1, <2>2, <2>3, PipelineConfigured
  <1>4. ASSUME NEW c \in Channels,
               \/ Pipeline!SetChannelEnabled(c) \/ Pipeline!CreateRule(c) \/ Pipeline!UpdateRule(c) \/ Pipeline!UpdateTemplate(c)
        PROVE  PipelineInv'
    <2>1. PICK r \in Pipeline!Rule : r = rules[c]
      BY DEF PipelineInv, ConfigTyped
    <2>2. PICK on \in BOOLEAN, en \in BOOLEAN, active \in BOOLEAN : on = ~r.on /\ en = ~r.enabled /\ active = ~r.active
      OBVIOUS
    <2>3. /\ [r EXCEPT !.on = on] \in Pipeline!Rule /\ [r EXCEPT !.enabled = en] \in Pipeline!Rule
          /\ [r EXCEPT !.active = active] \in Pipeline!Rule
          /\ \A policy \in Pipeline!Policies : /\ [r EXCEPT !.policy = policy] \in Pipeline!Rule
                                               /\ [r EXCEPT !.enabled = TRUE, !.policy = policy] \in Pipeline!Rule
          /\ \A text \in Pipeline!Texts : [r EXCEPT !.text = text] \in Pipeline!Rule
      BY DEF Pipeline!Rule
    <2>4. \/ Pipeline!SetRule(c, [r EXCEPT !.on = on]) \/ Pipeline!SetRule(c, [r EXCEPT !.enabled = en])
          \/ Pipeline!SetRule(c, [r EXCEPT !.active = active])
          \/ \E policy \in Pipeline!Policies : \/ Pipeline!SetRule(c, [r EXCEPT !.policy = policy])
                                               \/ Pipeline!SetRule(c, [r EXCEPT !.enabled = TRUE, !.policy = policy])
          \/ \E text \in Pipeline!Texts : Pipeline!SetRule(c, [r EXCEPT !.text = text])
      <3>1. ASSUME Pipeline!SetChannelEnabled(c) PROVE Pipeline!SetRule(c, [r EXCEPT !.on = on])
        BY <2>1, <2>2, <3>1 DEF Pipeline!SetChannelEnabled
      <3>2. ASSUME Pipeline!CreateRule(c)
            PROVE  \E policy \in Pipeline!Policies : Pipeline!SetRule(c, [r EXCEPT !.enabled = TRUE, !.policy = policy])
        BY <2>1, <3>2 DEF Pipeline!CreateRule
      <3>3. ASSUME Pipeline!UpdateRule(c)
            PROVE  \/ Pipeline!SetRule(c, [r EXCEPT !.enabled = en])
                   \/ \E policy \in Pipeline!Policies : Pipeline!SetRule(c, [r EXCEPT !.policy = policy])
        BY <2>1, <2>2, <3>3 DEF Pipeline!UpdateRule
      <3>4. ASSUME Pipeline!UpdateTemplate(c)
            PROVE  \/ Pipeline!SetRule(c, [r EXCEPT !.active = active])
                   \/ \E text \in Pipeline!Texts : Pipeline!SetRule(c, [r EXCEPT !.text = text])
        BY <2>1, <2>2, <3>4 DEF Pipeline!UpdateTemplate
      <3> QED
        BY <1>4, <3>1, <3>2, <3>3, <3>4
    <2> QED
      BY <1>3, <2>3, <2>4
  <1> QED
    BY <1>2, <1>4 DEF Pipeline!SetupRequests, Pipeline!TemplateRequests, Pipeline!RuleRequests

\* The event is published, claimed, given up, or its task ends.
LEMMA PipelineEventSteps ==
    ASSUME PipelineInv,
           Pipeline!PublishEvent \/ Pipeline!Claim \/ Pipeline!MarkFailed \/ Pipeline!Crash \/ Pipeline!Reap
    PROVE  PipelineInv'
  <1>1. PICK e \in Events : e = event
    BY DEF PipelineInv
  <1>2. UNCHANGED <<enabled, rules, contacts, outbox, touched, changes>>
    BY DEF Pipeline!PublishEvent, Pipeline!Claim, Pipeline!MarkFailed, Pipeline!Crash, Pipeline!Reap
  <1>3. Unclaimed(e, task, outbox) /\ TaskShape(task, e)
    BY <1>1 DEF PipelineInv
  <1>4. ASSUME NEW status \in {"PENDING", "PROCESSING", "FAILED"}, event' = [e EXCEPT !.status = status],
               task' = Pipeline!NoTask, e.attempts > 0 \/ (status = "PENDING" /\ outbox = {})
        PROVE  PipelineInv'
    <2>1. PICK x \in Events : x = event' /\ x.status = status /\ x.attempts = e.attempts
      BY <1>4 DEF Events
    <2>2. Unclaimed(x, Pipeline!NoTask, outbox)
      BY <1>3, <1>4, <2>1 DEF Unclaimed
    <2> QED
      BY <1>2, <1>4, <2>1, <2>2, PipelineIdle, PipelineMoves
  <1>5. CASE Pipeline!PublishEvent
    <2>1. e.status = "absent" /\ event' = [e EXCEPT !.status = "PENDING"] /\ task' = task
      BY <1>1, <1>5 DEF Pipeline!PublishEvent
    <2>2. task = Pipeline!NoTask
      BY <1>3, <2>1 DEF TaskShape
    <2>3. e.attempts > 0 \/ outbox = {}
      BY <1>3, BoundAssumption DEF Unclaimed, Events
    <2> QED
      BY <1>4, <2>1, <2>2, <2>3
  <1>6. CASE Pipeline!Claim
    <2>1. PICK t : t = [Pipeline!NoTask EXCEPT !.step = "claimed"]
      OBVIOUS
    <2>2. t \in Tasks /\ t.step = "claimed" /\ t.plan = {} /\ t # Pipeline!NoTask
      BY <2>1 DEF Tasks, Pipeline!NoTask
    <2>3. PICK x : x = [status |-> "PROCESSING", attempts |-> e.attempts + 1]
      OBVIOUS
    <2>4. x \in Events /\ x.status = "PROCESSING" /\ x.attempts # 0
      BY <1>1, <1>6, <2>3, BoundAssumption DEF Pipeline!Claim, Events
    <2>5. TaskShape(t, x) /\ Unclaimed(x, t, outbox) /\ \A c : TaskTrue(t, c)
      BY <2>2, <2>4 DEF TaskShape, Unclaimed, TaskTrue
    <2>6. task' = t /\ event' = x
      BY <1>1, <1>6, <2>1, <2>3 DEF Pipeline!Claim
    <2> QED
      BY <1>2, <2>2, <2>4, <2>5, <2>6, PipelineMoves
  <1>7. CASE Pipeline!MarkFailed \/ Pipeline!Crash
    <2>1. task # Pipeline!NoTask /\ task' = Pipeline!NoTask
      BY <1>7 DEF Pipeline!MarkFailed, Pipeline!Crash
    <2>2. e.attempts > 0 /\ e.status = "PROCESSING"
      BY <1>3, <2>1, BoundAssumption DEF Unclaimed, TaskShape, Events
    <2>3. e = [e EXCEPT !.status = "PROCESSING"]
      BY <2>2 DEF Events
    <2>4. PICK status \in {"PENDING", "PROCESSING", "FAILED"} : event' = [e EXCEPT !.status = status]
      BY <1>1, <1>7, <2>3 DEF Pipeline!MarkFailed, Pipeline!Crash
    <2> QED
      BY <1>4, <2>1, <2>2, <2>4
  <1>8. CASE Pipeline!Reap
    <2>1. e.status = "PROCESSING" /\ event' = [e EXCEPT !.status = "PENDING"] /\ task' = task /\ task = Pipeline!NoTask
      BY <1>1, <1>8 DEF Pipeline!Reap, Pipeline!LeaseExpired
    <2>2. e.attempts > 0
      BY <1>3, <2>1, BoundAssumption DEF Unclaimed, Events
    <2> QED
      BY <1>4, <2>1, <2>2
  <1> QED
    BY <1>5, <1>6, <1>7, <1>8

\* The plan has the rule of every channel it serves.
LEMMA PlannedRulesAre ==
    ASSUME PipelineInv
    PROVE  /\ Pipeline!PlannedRules \subseteq PlanRule
           /\ \A rule \in Pipeline!PlannedRules : rule = RuleOf(rule.channel)
           /\ \A c \in Channels : Pipeline!Serves(c) => \E rule \in Pipeline!PlannedRules : rule.channel = c
  <1>1. ASSUME NEW c \in Channels PROVE RuleOf(c) \in PlanRule /\ RuleOf(c).channel = c
    <2>1. rules[c] \in Pipeline!Rule
      BY DEF PipelineInv, ConfigTyped
    <2> QED
      BY <2>1 DEF RuleOf, PlanRule, Policies, Pipeline!Rule
  <1>2. ASSUME NEW rule \in Pipeline!PlannedRules PROVE \E c \in Channels : rule = RuleOf(c)
    BY DEF Pipeline!PlannedRules, RuleOf
  <1>3. ASSUME NEW c \in Channels, Pipeline!Serves(c) PROVE RuleOf(c) \in Pipeline!PlannedRules
    BY <1>3 DEF Pipeline!PlannedRules, Pipeline!Serves, RuleOf
  <1> QED
    BY <1>1, <1>2, <1>3

\* The recipients of a channel's rule are its audience, each with its contact.
LEMMA RecipientsAre ==
    ASSUME PipelineInv, NEW c \in Channels
    PROVE  /\ \A r \in Pipeline!Recipients(RuleOf(c)) : For(c, r.guardian) /\ r.contact = contacts[r.guardian][c]
           /\ \A g \in Pipeline!Audience(c) : [guardian |-> g, contact |-> contacts[g][c]] \in Pipeline!Recipients(RuleOf(c))
  <1>1. RuleOf(c).channel = c /\ RuleOf(c).policy = rules[c].policy
    BY DEF RuleOf
  <1> QED
    BY <1>1 DEF Pipeline!Recipients, Pipeline!Audience, For

\* Recipients are guardians with a contact of the address book.
LEMMA RecipientsTyped ==
    ASSUME PipelineInv, NEW rule \in PlanRule
    PROVE  Pipeline!Recipients(rule) \subseteq Recipient
  <1>1. ASSUME NEW g \in Guardians PROVE [guardian |-> g, contact |-> contacts[g][rule.channel]] \in Recipient
    BY DEF Recipient, Reach, PipelineInv, ConfigTyped, PlanRule
  <1> QED
    BY <1>1 DEF Pipeline!Recipients

\* The task reads the rules, begins one of them, ends it, or is done.
LEMMA PipelineTaskSteps ==
    ASSUME PipelineInv, Pipeline!ReadRules \/ Pipeline!BeginRule \/ Pipeline!FinishRule \/ Pipeline!MarkProcessed
    PROVE  PipelineInv'
  <1>1. PICK t \in Tasks, e \in Events : t = task /\ e = event
    BY DEF PipelineInv
  <1>2. t.step # "none" /\ t # Pipeline!NoTask
    BY <1>1 DEF Pipeline!ReadRules, Pipeline!BeginRule, Pipeline!FinishRule, Pipeline!MarkProcessed, Pipeline!NoTask
  <1>3. e.status = "PROCESSING" /\ e.attempts # 0 /\ (t.step = "rule" => t.rule \in PlanRule)
    BY <1>1, <1>2 DEF PipelineInv, TaskShape, Unclaimed
  <1>4. UNCHANGED <<enabled, rules, contacts, outbox, touched, changes>>
    BY DEF Pipeline!ReadRules, Pipeline!BeginRule, Pipeline!FinishRule, Pipeline!MarkProcessed, Pipeline!EndRule
  <1>5. \A c \in Channels \ touched : TaskTrue(t, c)
    BY <1>1 DEF PipelineInv
  <1>6. CASE Pipeline!ReadRules
    <2>1. PICK plan : plan = Pipeline!PlannedRules
      OBVIOUS
    <2>2. PICK u : u = [t EXCEPT !.step = "between", !.plan = plan]
      OBVIOUS
    <2>3. u \in Tasks /\ u.step = "between" /\ u.plan = plan
      BY <2>1, <2>2, PlannedRulesAre DEF Tasks
    <2>4. ASSUME NEW c \in Channels PROVE TaskTrue(u, c)
      BY <2>1, <2>3, PlannedRulesAre DEF TaskTrue, Due
    <2>5. TaskShape(u, e) /\ Unclaimed(e, u, outbox) /\ task' = u /\ event' = e
      BY <1>1, <1>3, <1>6, <2>1, <2>2, <2>3 DEF TaskShape, Unclaimed, Pipeline!ReadRules
    <2> QED
      BY <1>3, <1>4, <2>3, <2>4, <2>5, PipelineMoves
  <1>7. CASE Pipeline!BeginRule
    <2>1. PICK rule \in t.plan : task' = [step |-> "rule", plan |-> t.plan \ {rule}, rule |-> rule,
                                         left |-> Pipeline!Recipients(rule)]
      BY <1>1, <1>7 DEF Pipeline!BeginRule
    <2>2. rule \in PlanRule /\ t.step = "between"
      BY <1>1, <1>7, <2>1 DEF Tasks, Pipeline!BeginRule
    <2>3. PICK audience : audience = Pipeline!Recipients(rule)
      OBVIOUS
    <2>4. PICK u : u = [step |-> "rule", plan |-> t.plan \ {rule}, rule |-> rule, left |-> audience]
      OBVIOUS
    <2>5. u \in Tasks /\ u.step = "rule" /\ u.plan = t.plan \ {rule} /\ u.rule = rule /\ u.left = audience
      BY <2>2, <2>3, <2>4, RecipientsTyped DEF Tasks
    <2>6. ASSUME NEW c \in Channels \ touched PROVE TaskTrue(u, c)
      <3>1. CASE rule.channel = c
        <4>1. rule = RuleOf(c)
          BY <1>5, <2>1, <3>1 DEF TaskTrue
        <4> QED
          BY <1>5, <2>3, <2>5, <3>1, <4>1, RecipientsAre DEF TaskTrue
      <3>2. CASE rule.channel # c
        BY <1>5, <2>2, <2>5, <3>2 DEF TaskTrue
      <3> QED
        BY <3>1, <3>2
    <2>7. TaskShape(u, e) /\ Unclaimed(e, u, outbox) /\ task' = u /\ event' = e
      BY <1>1, <1>3, <1>7, <2>1, <2>2, <2>3, <2>4, <2>5 DEF TaskShape, Unclaimed, Pipeline!BeginRule
    <2> QED
      BY <1>3, <1>4, <2>5, <2>6, <2>7, PipelineMoves
  <1>8. CASE Pipeline!FinishRule
    <2>1. PICK u : u = [t EXCEPT !.step = "between", !.rule = None, !.left = {}]
      OBVIOUS
    <2>2. u \in Tasks /\ u.step = "between" /\ u.plan = t.plan
      BY <2>1 DEF Tasks
    <2>3. t.step = "rule" /\ t.left = {}
      BY <1>1, <1>8 DEF Pipeline!FinishRule
    <2>4. ASSUME NEW c \in Channels \ touched PROVE TaskTrue(u, c)
      BY <1>5, <2>2, <2>3 DEF TaskTrue, Reached
    <2>5. TaskShape(u, e) /\ Unclaimed(e, u, outbox) /\ task' = u /\ event' = e
      BY <1>1, <1>3, <1>8, <2>1, <2>2 DEF TaskShape, Unclaimed, Pipeline!FinishRule, Pipeline!EndRule
    <2> QED
      BY <1>3, <1>4, <2>2, <2>4, <2>5, PipelineMoves
  <1>9. CASE Pipeline!MarkProcessed
    <2>1. PICK x : x = [e EXCEPT !.status = "PROCESSED"]
      OBVIOUS
    <2>2. x \in Events /\ x.attempts # 0
      BY <1>3, <2>1 DEF Events
    <2>3. t.step = "between" /\ t.plan = {} /\ task' = Pipeline!NoTask /\ event' = x
      BY <1>1, <1>9, <2>1 DEF Pipeline!MarkProcessed
    <2>4. ASSUME NEW c \in Channels \ touched, Due(c) PROVE Reached(c)
      BY <1>5, <2>3, <2>4 DEF TaskTrue
    <2>5. Unclaimed(x, Pipeline!NoTask, outbox)
      BY <2>2 DEF Unclaimed
    <2> QED
      BY <1>4, <2>2, <2>3, <2>4, <2>5, PipelineIdle, PipelineMoves
  <1> QED
    BY <1>6, <1>7, <1>8, <1>9

\* One recipient is enqueued; a collision on its key ends the rule, and can only be of a channel
\* that was touched, whose template is broken, or whose recipients share a contact.
LEMMA PipelineEnqueues ==
    ASSUME PipelineInv, Pipeline!Enqueue
    PROVE  PipelineInv'
  <1>1. PICK t \in Tasks, e \in Events : t = task /\ e = event /\ t.step = "rule"
    BY DEF PipelineInv, Pipeline!Enqueue
  <1>2. e.status = "PROCESSING" /\ e.attempts # 0 /\ t.rule \in PlanRule
    BY <1>1 DEF PipelineInv, TaskShape, Unclaimed, Pipeline!NoTask
  <1>3. PICK k \in Channels : k = t.rule.channel
    BY <1>2 DEF PlanRule
  <1>4. UNCHANGED <<enabled, rules, contacts, event, touched, changes>>
    BY DEF Pipeline!Enqueue
  <1>5. \A c \in Channels \ touched : RowsTrue(c) /\ TaskTrue(t, c)
    BY <1>1 DEF PipelineInv
  <1>6. PICK r \in t.left :
            LET said == [key |-> <<k, r.contact>>, channel |-> k, contact |-> r.contact,
                         guardian |-> r.guardian, text |-> t.rule.text]
            IN  IF t.rule.text # "broken" /\ \A old \in outbox : old.key = said.key => old = said
                THEN outbox' = outbox \cup {said} /\ task' = [t EXCEPT !.left = @ \ {r}]
                ELSE Pipeline!EndRule /\ UNCHANGED outbox
    BY <1>1, <1>3 DEF Pipeline!Enqueue, Pipeline!Key
  <1>7. PICK row1 : row1 = [key |-> <<k, r.contact>>, channel |-> k, contact |-> r.contact,
                            guardian |-> r.guardian, text |-> t.rule.text]
    OBVIOUS
  <1>8. \/ outbox' = outbox \cup {row1} /\ task' = [t EXCEPT !.left = @ \ {r}]
        \/ /\ ~(t.rule.text # "broken" /\ \A old \in outbox : old.key = row1.key => old = row1)
           /\ Pipeline!EndRule /\ outbox' = outbox
    BY <1>6, <1>7
  <1>9. r \in Recipient /\ row1 \in OutboxRow /\ row1.key = <<row1.channel, row1.contact>>
    <2>1. r \in Recipient /\ t.rule.text \in Pipeline!Texts
      BY <1>2 DEF Tasks, PlanRule
    <2> QED
      BY <1>7, <2>1 DEF Recipient, OutboxRow
  <1>10. CASE outbox' = outbox \cup {row1} /\ task' = [t EXCEPT !.left = @ \ {r}]
    <2>1. PICK u : u = [t EXCEPT !.left = @ \ {r}]
      OBVIOUS
    <2>2. u \in Tasks /\ u.step = "rule" /\ u.rule = t.rule /\ u.plan = t.plan /\ u.left = t.left \ {r}
      BY <1>1, <2>1 DEF Tasks
    <2>3. ConfigTyped' /\ RowsTyped'
      BY <1>4, <1>9, <1>10 DEF PipelineInv, ConfigTyped, RowsTyped
    <2>4. TaskShape(u, e) /\ Unclaimed(e, u, outbox')
      BY <1>2, <2>2 DEF TaskShape, Unclaimed, Pipeline!NoTask
    <2>5. ASSUME NEW c \in Channels \ touched
          PROVE  RowsTrue(c)' /\ TaskTrue(u, c)'
      <3>1. Pipeline!Audience(c)' = Pipeline!Audience(c) /\ RuleOf(c)' = RuleOf(c) /\ rules' = rules /\ contacts' = contacts
        BY <1>4 DEF Pipeline!Audience, RuleOf
      <3>2. (Pipeline!Serves(c)' <=> Pipeline!Serves(c)) /\ (Pipeline!Distinct(c)' <=> Pipeline!Distinct(c))
        BY <1>4, <3>1 DEF Pipeline!Serves, Pipeline!Distinct
      <3>3. (Due(c)' <=> Due(c)) /\ \A g : (For(c, g)' <=> For(c, g)) /\ (Has(c, g) => Has(c, g)')
        BY <1>10, <3>1, <3>2 DEF Due, Has, For
      <3>4. Reached(c) => Reached(c)'
        BY <3>1, <3>3 DEF Reached
      <3>5. RowsTrue(c) /\ TaskTrue(t, c)
        BY <1>5
      <3>6. CASE k # c
        <4>1. row1.channel # c
          BY <1>7, <3>6
        <4>2. RowsTrue(c)'
          BY <1>10, <3>1, <3>3, <3>5, <4>1 DEF RowsTrue
        <4>3. TaskTrue(u, c)'
          BY <1>1, <1>3, <2>2, <3>1, <3>3, <3>4, <3>5, <3>6 DEF TaskTrue
        <4> QED
          BY <4>2, <4>3
      <3>7. CASE k = c
        <4>1. t.rule = RuleOf(c) /\ \A x \in t.left : For(c, x.guardian) /\ x.contact = contacts[x.guardian][c]
          BY <1>1, <1>3, <3>5, <3>7 DEF TaskTrue
        <4>2. /\ row1.channel = c /\ row1.text = rules[c].text /\ For(c, row1.guardian)
              /\ row1.contact = contacts[row1.guardian][c]
          BY <1>7, <3>7, <4>1 DEF RuleOf
        <4>3. RowsTrue(c)'
          BY <1>10, <3>1, <3>3, <3>5, <4>2 DEF RowsTrue
        <4>4. ASSUME NEW g, [guardian |-> g, contact |-> contacts[g][c]] \in t.left
              PROVE  [guardian |-> g, contact |-> contacts[g][c]] \in u.left \/ Has(c, g)'
          <5>1. CASE [guardian |-> g, contact |-> contacts[g][c]] = r
            <6>1. r.guardian = g
              BY <5>1
            <6>2. row1.channel = c /\ row1.contact = contacts[g][c] /\ row1.guardian = g
              BY <1>7, <3>7, <4>1, <6>1
            <6> QED
              BY <1>10, <3>1, <6>2 DEF Has
          <5>2. CASE [guardian |-> g, contact |-> contacts[g][c]] # r
            BY <2>2, <4>4, <5>2
          <5> QED
            BY <5>1, <5>2
        <4>5. TaskTrue(u, c)'
          BY <1>1, <1>3, <2>2, <3>1, <3>3, <3>4, <3>5, <3>7, <4>1, <4>4 DEF TaskTrue
        <4> QED
          BY <4>3, <4>5
      <3> QED
        BY <3>6, <3>7
    <2>6. task' = u /\ event' = e /\ touched' = touched
      BY <1>1, <1>4, <1>10, <2>1
    <2>7. ASSUME NEW c \in Channels \ touched PROVE TaskTrue(task, c)'
      BY <2>5, <2>6 DEF TaskTrue
    <2>8. event'.status # "PROCESSED"
      BY <1>2, <2>6
    <2> QED
      BY <2>2, <2>3, <2>4, <2>5, <2>6, <2>7, <2>8 DEF PipelineInv
  <1>11. CASE ~(t.rule.text # "broken" /\ \A old \in outbox : old.key = row1.key => old = row1)
             /\ Pipeline!EndRule /\ outbox' = outbox
    <2>1. PICK u : u = [t EXCEPT !.step = "between", !.rule = None, !.left = {}]
      OBVIOUS
    <2>2. u \in Tasks /\ u.step = "between" /\ u.plan = t.plan
      BY <2>1 DEF Tasks
    <2>3. task' = u /\ event' = e
      BY <1>1, <1>4, <1>11, <2>1 DEF Pipeline!EndRule
    <2>4. ASSUME NEW c \in Channels \ touched PROVE TaskTrue(u, c)
      <3>1. CASE k # c
        BY <1>1, <1>3, <1>5, <2>2, <3>1 DEF TaskTrue
      <3>2. CASE k = c
        <4>1. /\ t.rule = RuleOf(c) /\ For(c, r.guardian) /\ r.contact = contacts[r.guardian][c]
              /\ RowsTrue(c)
          BY <1>1, <1>3, <1>5, <3>2 DEF TaskTrue
        <4>2. ~Due(c)
          <5> SUFFICES ASSUME Due(c) PROVE FALSE
            OBVIOUS
          <5>1. t.rule.text # "broken"
            BY <4>1 DEF Due, Pipeline!Serves, RuleOf
          <5>2. PICK old \in outbox : old.key = row1.key /\ old # row1
            BY <1>11, <5>1
          <5>3. old \in OutboxRow /\ old.key = <<old.channel, old.contact>>
            BY DEF PipelineInv, RowsTyped
          <5>4. old.channel = c /\ old.contact = r.contact
            BY <1>7, <3>2, <5>2, <5>3
          <5>5. old.text = rules[c].text /\ For(c, old.guardian) /\ old.contact = contacts[old.guardian][c]
            BY <4>1, <5>4 DEF RowsTrue
          <5>6. old.guardian = r.guardian
            BY <4>1, <5>4, <5>5 DEF Due, Pipeline!Distinct, For
          <5>7. old.text = t.rule.text
            BY <4>1, <5>5 DEF RuleOf
          <5>8. old = row1
            BY <1>7, <1>9, <3>2, <5>2, <5>3, <5>4, <5>6, <5>7 DEF OutboxRow
          <5> QED
            BY <5>2, <5>8
        <4>3. \A rule \in t.plan : rule.channel = c => rule = RuleOf(c)
          BY <1>5 DEF TaskTrue
        <4> QED
          BY <2>2, <4>2, <4>3 DEF TaskTrue
      <3> QED
        BY <3>1, <3>2
    <2>5. TaskShape(u, e) /\ Unclaimed(e, u, outbox)
      BY <1>2, <2>2 DEF TaskShape, Unclaimed
    <2> QED
      BY <1>2, <1>4, <1>11, <2>2, <2>3, <2>4, <2>5, PipelineMoves
  <1> QED
    BY <1>8, <1>10, <1>11

\* Every step keeps the invariant.
LEMMA PipelineStep ==
    ASSUME PipelineInv, [Pipeline!Next]_(Pipeline!vars)
    PROVE  PipelineInv'
  <1>1. CASE UNCHANGED Pipeline!vars
    <2>1. ConfigTyped' /\ UNCHANGED <<rules, enabled, contacts, event, outbox, task, touched>>
      BY <1>1 DEF Pipeline!vars, PipelineInv, ConfigTyped
    <2> QED
      BY <2>1, PipelineConfigured
  <1> QED
    BY <1>1, PipelineConfigures, PipelineEventSteps, PipelineTaskSteps, PipelineEnqueues
       DEF Pipeline!Next, Pipeline!ExpansionTask, Pipeline!ExpandRules

\* It holds of the component as one of Records.
LEMMA PipelineWithin == RecordsSpec => [](part = "notifications" => PipelineInv)
  <1>1. RecordsInit => (part = "notifications" => PipelineInv)
    BY PipelineInit DEF RecordsInit
  <1>2. (part = "notifications" => PipelineInv) /\ [RecordsNext]_recordsVars => (part = "notifications" => PipelineInv)'
    BY PipelineStep DEF RecordsNext, recordsVars, serviceRows, Pipeline!vars, pipelineRows
  <1> QED
    BY <1>1, <1>2, PTL DEF RecordsSpec

(* Everyone is enqueued, for every set of channels, guardians and address books:  *)
(* an event is processed only when each rule that was left alone since the first  *)
(* claim has reached all its recipients, whatever failures, crashes, repeated     *)
(* attempts and edits of other rules came between (EveryoneEnqueued).             *)
THEOREM EveryoneIsEnqueued ==
    /\ Pipeline!Spec => [](Pipeline!TypeOK /\ Pipeline!EveryoneEnqueued)
    /\ RecordsSpec => []EveryoneEnqueued
  <1>1. PipelineInv /\ [Pipeline!Next]_(Pipeline!vars) => PipelineInv'
    BY PipelineStep
  <1>2. Pipeline!Spec => [](Pipeline!TypeOK /\ Pipeline!EveryoneEnqueued)
    BY <1>1, PipelineInit, PipelineSays, PTL DEF Pipeline!Spec
  <1>3. (part = "notifications" => PipelineInv) => EveryoneEnqueued
    BY PipelineSays DEF EveryoneEnqueued
  <1>4. RecordsSpec => []EveryoneEnqueued
    BY <1>3, PipelineWithin, PTL
  <1> QED
    BY <1>2, <1>4

-----------------------------------------------------------------------------
(* Notifications: the delivery of an outbox row                            *)

DeliveryTyped ==
    /\ channel \in {"IN_APP", "SMS"} /\ supported \in BOOLEAN /\ stale \in BOOLEAN
    /\ row \in [status : Delivery!Statuses, attempts : 0 .. DeliveryClaims]
    /\ tries \in [1 .. DeliveryClaims -> {"none", "PROCESSING", "SENT", "FAILED"}]
    /\ tasks \in [Workers -> [step : Delivery!Steps, number : 0 .. DeliveryClaims]]
    /\ forms \in [Administrators -> Delivery!Statuses \cup {None}]
    /\ inbox \subseteq 1 .. DeliveryClaims /\ sent \subseteq 1 .. DeliveryClaims /\ excused \subseteq 1 .. DeliveryClaims

Active(w) == tasks[w].step # "none"

\* An in-app message is written once.
OneInbox == inbox = {} \/ \E n \in 1 .. DeliveryClaims : inbox = {n}
\* A task that raised, or is about to mark the row as failed, has an excuse; one that
\* holds a claim has its number.
Excuses ==
    \A w \in Workers :
        /\ tasks[w].step \in {"raised", "refused"} => tasks[w].number \in excused
        /\ IF Active(w) THEN tasks[w].number # 0 ELSE tasks[w] = Delivery!NoTask
\* As long as no retry was decided from an outdated row: one task at a time works on the
\* row, under the last claim's number, ...
OneTask ==
    /\ \A w \in Workers : Active(w) => tasks[w].number = row.attempts /\ row.status = "PROCESSING"
    /\ \A v, w \in Workers : Active(v) /\ Active(w) => v = w
\* ... and what it sent is marked in the row, or about to be.
SentOnce ==
    /\ sent \ excused \subseteq {row.attempts}
    /\ sent \ excused # {} =>
           \/ row.status = "PROCESSED"
           \/ \E w \in Workers : tasks[w].step \in {"returned", "recorded"}

DeliveryInv ==
    /\ DeliveryTyped /\ OneInbox /\ Excuses
    /\ ~stale => OneTask /\ SentOnce

\* The size of a set is what the component calls it.
LEMMA DeliverySize == \A S : Delivery!Cardinality(S) = Cardinality(S)
  BY DEF Delivery!Cardinality, Cardinality

\* The invariant says what SentAgainOnlyWithCause does.
LEMMA DeliverySays == DeliveryInv => Delivery!TypeOK /\ Delivery!SentAgainOnlyWithCause
  <1> SUFFICES ASSUME DeliveryInv PROVE Delivery!TypeOK /\ Delivery!SentAgainOnlyWithCause
    OBVIOUS
  <1>1. Delivery!TypeOK
    BY DEF DeliveryInv, DeliveryTyped, Delivery!TypeOK, Delivery!Numbers
  <1>2. Cardinality(inbox) <= 1
    BY AtMostOne DEF DeliveryInv, OneInbox
  <1>3. ASSUME ~stale
        PROVE  /\ Cardinality(sent \ excused) <= 1
               /\ row.status = "PROCESSED" => \A n \in sent \ excused : n = row.attempts
    <2>1. sent \ excused = {} \/ sent \ excused = {row.attempts}
      BY <1>3 DEF DeliveryInv, SentOnce
    <2> QED
      BY <2>1, AtMostOne
  <1>4. Delivery!SentAgainOnlyWithCause
    BY <1>2, <1>3, DeliverySize DEF Delivery!SentAgainOnlyWithCause
  <1> QED
    BY <1>1, <1>4

\* The invariant holds at first.
LEMMA DeliveryInit == Delivery!Init => DeliveryInv
  <1> SUFFICES ASSUME Delivery!Init PROVE DeliveryInv
    OBVIOUS
  <1>1. Delivery!NoTask \in [step : Delivery!Steps, number : 0 .. DeliveryClaims] /\ Delivery!NoTask.step = "none"
    BY BoundAssumption DEF Delivery!NoTask, Delivery!Steps
  <1>2. row \in [status : Delivery!Statuses, attempts : 0 .. DeliveryClaims]
    BY BoundAssumption DEF Delivery!Init, Delivery!Statuses
  <1>3. DeliveryTyped
    BY <1>1, <1>2 DEF Delivery!Init, Delivery!Numbers, DeliveryTyped
  <1>4. \A w \in Workers : tasks[w] = Delivery!NoTask /\ tasks[w].step = "none"
    BY <1>1 DEF Delivery!Init
  <1> QED
    BY <1>3, <1>4 DEF Delivery!Init, DeliveryInv, OneInbox, Excuses, OneTask, SentOnce, Active

\* Configuration and forms touch neither the row nor its tasks.
LEMMA DeliveryRests ==
    ASSUME DeliveryInv, UNCHANGED <<channel, row, tries, tasks, inbox, sent, excused, stale>>,
           supported' \in BOOLEAN, forms' \in [Administrators -> Delivery!Statuses \cup {None}]
    PROVE  DeliveryInv'
  BY DEF DeliveryInv, DeliveryTyped, OneInbox, Excuses, OneTask, SentOnce, Active

\* A claim finds the row PENDING: nobody works on it, and nothing sent is unmarked.
LEMMA DeliveryClaimStep ==
    ASSUME DeliveryInv, NEW w \in Workers, Delivery!Claim(w)
    PROVE  DeliveryInv'
  <1>1. PICK n \in 0 .. DeliveryClaims : n = row.attempts /\ n < DeliveryClaims
    BY DEF DeliveryInv, DeliveryTyped, Delivery!Claim
  <1>2. n + 1 \in 0 .. DeliveryClaims /\ n + 1 # 0
    BY <1>1, BoundAssumption
  <1>3. PICK new : new = [step |-> "claimed", number |-> n + 1]
    OBVIOUS
  <1>4. /\ row.status = "PENDING" /\ row' = [status |-> "PROCESSING", attempts |-> n + 1]
        /\ tasks' = [tasks EXCEPT ![w] = new]
        /\ UNCHANGED <<channel, supported, tries, forms, inbox, sent, excused, stale>>
    BY <1>1, <1>3 DEF Delivery!Claim
  <1>5. new.step = "claimed" /\ new.number = n + 1 /\ new \in [step : Delivery!Steps, number : 0 .. DeliveryClaims]
    BY <1>2, <1>3 DEF Delivery!Steps
  <1>6. tasks'[w] = new /\ \A v \in Workers \ {w} : tasks'[v] = tasks[v]
    BY <1>4 DEF DeliveryInv, DeliveryTyped
  <1>7. DeliveryTyped'
    BY <1>2, <1>4, <1>5 DEF DeliveryInv, DeliveryTyped, Delivery!Statuses
  <1>8. OneInbox' /\ Excuses'
    BY <1>2, <1>4, <1>5, <1>6 DEF DeliveryInv, OneInbox, Excuses, Active
  <1>9. ASSUME ~stale' PROVE OneTask' /\ SentOnce'
    <2>1. \A v \in Workers : ~Active(v)
      BY <1>4, <1>9 DEF DeliveryInv, OneTask
    <2>2. sent \ excused = {}
      BY <1>4, <1>9, <2>1 DEF DeliveryInv, SentOnce, Active
    <2> QED
      BY <1>4, <1>5, <1>6, <2>1, <2>2 DEF OneTask, SentOnce, Active
  <1> QED
    BY <1>7, <1>8, <1>9 DEF DeliveryInv

\* A task goes on under its number.
LEMMA TaskGoesOn ==
    ASSUME DeliveryInv, NEW w \in Workers, Active(w), NEW step \in Delivery!Steps \ {"none"}, Delivery!Step(w, step)
    PROVE  /\ tasks' \in [Workers -> [step : Delivery!Steps, number : 0 .. DeliveryClaims]]
           /\ tasks'[w].step = step /\ tasks'[w].number = tasks[w].number
           /\ \A v \in Workers \ {w} : tasks'[v] = tasks[v]
           /\ \A v \in Workers : Active(v)' <=> Active(v)
  <1>1. PICK old \in [step : Delivery!Steps, number : 0 .. DeliveryClaims] : old = tasks[w]
    BY DEF DeliveryInv, DeliveryTyped
  <1>2. PICK new : new = [old EXCEPT !.step = step]
    OBVIOUS
  <1>3. new \in [step : Delivery!Steps, number : 0 .. DeliveryClaims] /\ new.step = step /\ new.number = old.number
    BY <1>2
  <1>4. tasks' = [tasks EXCEPT ![w] = new]
    BY <1>1, <1>2 DEF Delivery!Step
  <1> QED
    BY <1>1, <1>3, <1>4 DEF DeliveryInv, DeliveryTyped, Active

\* The attempt is opened, and recorded.
LEMMA AttemptSteps ==
    ASSUME DeliveryInv, NEW w \in Workers, Delivery!OpenAttempt(w) \/ Delivery!RecordAttempt(w)
    PROVE  DeliveryInv'
  <1>1. Active(w) /\ tasks[w].number \in 1 .. DeliveryClaims
    BY DEF Delivery!OpenAttempt, Delivery!RecordAttempt, Active, DeliveryInv, DeliveryTyped, Excuses
  <1>2. /\ UNCHANGED <<channel, supported, row, forms, inbox, sent, excused, stale>>
        /\ tries' \in [1 .. DeliveryClaims -> {"none", "PROCESSING", "SENT", "FAILED"}]
    BY <1>1 DEF Delivery!OpenAttempt, Delivery!RecordAttempt, DeliveryInv, DeliveryTyped
  <1>3. PICK step \in Delivery!Steps \ {"none"} :
            /\ Delivery!Step(w, step)
            /\ step = "refused" => tasks[w].step = "raised"
            /\ tasks[w].step \in {"returned", "recorded"} => step = "recorded"
            /\ step # "raised"
    BY DEF Delivery!OpenAttempt, Delivery!RecordAttempt, Delivery!Steps
  <1>4. /\ tasks' \in [Workers -> [step : Delivery!Steps, number : 0 .. DeliveryClaims]]
        /\ tasks'[w].step = step /\ tasks'[w].number = tasks[w].number
        /\ \A v \in Workers \ {w} : tasks'[v] = tasks[v]
        /\ \A v \in Workers : Active(v)' <=> Active(v)
    BY <1>1, <1>3, TaskGoesOn
  <1>5. DeliveryTyped'
    BY <1>2, <1>4 DEF DeliveryInv, DeliveryTyped
  <1>6. OneInbox' /\ Excuses'
    BY <1>1, <1>2, <1>3, <1>4 DEF DeliveryInv, OneInbox, Excuses
  <1>7. ASSUME ~stale' PROVE OneTask' /\ SentOnce'
    <2>1. ~stale /\ OneTask /\ SentOnce
      BY <1>2, <1>7 DEF DeliveryInv
    <2>2. OneTask'
      BY <1>2, <1>4, <2>1 DEF OneTask
    <2>3. SentOnce'
      BY <1>2, <1>3, <1>4, <2>1 DEF SentOnce
    <2> QED
      BY <2>2, <2>3
  <1> QED
    BY <1>5, <1>6, <1>7 DEF DeliveryInv

\* The gateway is called once per attempt; an exception excuses the attempt.
LEMMA SendStep ==
    ASSUME DeliveryInv, NEW w \in Workers, Delivery!Send(w)
    PROVE  DeliveryInv'
  <1>1. PICK n \in 1 .. DeliveryClaims : n = tasks[w].number
    BY DEF Delivery!Send, Active, DeliveryInv, DeliveryTyped, Excuses
  <1>2. Active(w) /\ tasks[w].step = "opened"
    BY DEF Delivery!Send, Active
  <1>3. PICK out \in {"returned", "raised"} :
            /\ Delivery!Step(w, out)
            /\ excused' = IF out = "raised" THEN excused \cup {n} ELSE excused
            /\ sent' \subseteq sent \cup {n}
            /\ inbox' = inbox \/ (inbox = {} /\ inbox' = {n})
            /\ UNCHANGED <<channel, supported, row, tries, forms, stale>>
    BY <1>1 DEF Delivery!Send, Delivery!Writes
  <1>4. /\ tasks' \in [Workers -> [step : Delivery!Steps, number : 0 .. DeliveryClaims]]
        /\ tasks'[w].step = out /\ tasks'[w].number = tasks[w].number
        /\ \A v \in Workers \ {w} : tasks'[v] = tasks[v]
        /\ \A v \in Workers : Active(v)' <=> Active(v)
    BY <1>2, <1>3, TaskGoesOn DEF Delivery!Steps
  <1>5. DeliveryTyped' /\ OneInbox'
    BY <1>3, <1>4 DEF DeliveryInv, DeliveryTyped, OneInbox
  <1>6. ASSUME NEW v \in Workers
        PROVE  /\ tasks'[v].step \in {"raised", "refused"} => tasks'[v].number \in excused'
               /\ IF Active(v)' THEN tasks'[v].number # 0 ELSE tasks'[v] = Delivery!NoTask
    <2>1. CASE v = w
      BY <1>1, <1>2, <1>3, <1>4, <2>1
    <2>2. CASE v # w
      BY <1>3, <1>4, <2>2 DEF DeliveryInv, Excuses
    <2> QED
      BY <2>1, <2>2
  <1>7. ASSUME ~stale' PROVE OneTask' /\ SentOnce'
    <2>1. ~stale /\ OneTask /\ SentOnce
      BY <1>3, <1>7 DEF DeliveryInv
    <2>2. OneTask'
      BY <1>3, <1>4, <2>1 DEF OneTask
    <2>3. n = row.attempts /\ row.status = "PROCESSING" /\ sent \ excused = {}
      BY <1>1, <1>2, <2>1 DEF OneTask, SentOnce, Active
    <2>4. SentOnce'
      BY <1>3, <1>4, <2>3 DEF SentOnce
    <2> QED
      BY <2>2, <2>4
  <1> QED
    BY <1>5, <1>6, <1>7 DEF DeliveryInv, Excuses

\* A task ends: the row is marked, or the process died.
LEMMA TaskEnds ==
    ASSUME DeliveryInv, NEW w \in Workers,
           Delivery!MarkProcessed(w) \/ Delivery!MarkFailed(w) \/ Delivery!Crash(w)
    PROVE  DeliveryInv'
  <1>1. /\ tasks' = [tasks EXCEPT ![w] = Delivery!NoTask]
        /\ UNCHANGED <<channel, supported, tries, forms, inbox, sent, stale>>
    BY DEF Delivery!MarkProcessed, Delivery!MarkFailed, Delivery!Crash
  <1>2. /\ Delivery!NoTask \in [step : Delivery!Steps, number : 0 .. DeliveryClaims]
        /\ Delivery!NoTask.step = "none"
    BY BoundAssumption DEF Delivery!NoTask, Delivery!Steps
  <1>3. /\ tasks' \in [Workers -> [step : Delivery!Steps, number : 0 .. DeliveryClaims]]
        /\ tasks'[w] = Delivery!NoTask /\ tasks'[w].step = "none" /\ \A v \in Workers \ {w} : tasks'[v] = tasks[v]
    BY <1>1, <1>2 DEF DeliveryInv, DeliveryTyped
  <1>4. PICK old \in [status : Delivery!Statuses, attempts : 0 .. DeliveryClaims] : old = row
    BY DEF DeliveryInv, DeliveryTyped
  <1>5. /\ row' \in [status : Delivery!Statuses, attempts : 0 .. DeliveryClaims] /\ row'.attempts = row.attempts
        /\ excused \subseteq excused' /\ excused' \subseteq 1 .. DeliveryClaims
    <2>1. CASE Delivery!MarkProcessed(w) \/ Delivery!MarkFailed(w)
      <3>1. PICK status \in Delivery!Statuses : row' = [old EXCEPT !.status = status]
        BY <1>4, <2>1 DEF Delivery!MarkProcessed, Delivery!MarkFailed, Delivery!Statuses
      <3> QED
        BY <1>4, <2>1, <3>1 DEF Delivery!MarkProcessed, Delivery!MarkFailed, DeliveryInv, DeliveryTyped
    <2>2. CASE Delivery!Crash(w)
      <3>1. Active(w)
        BY <2>2 DEF Delivery!Crash, DeliveryInv, Excuses
      <3>2. tasks[w].number \in 1 .. DeliveryClaims
        BY <3>1, BoundAssumption DEF DeliveryInv, DeliveryTyped, Excuses
      <3>3. excused \subseteq 1 .. DeliveryClaims
        BY DEF DeliveryInv, DeliveryTyped
      <3> QED
        BY <1>4, <2>2, <3>2, <3>3 DEF Delivery!Crash
    <2> QED
      BY <2>1, <2>2
  <1>6. DeliveryTyped' /\ OneInbox'
    BY <1>1, <1>3, <1>5 DEF DeliveryInv, DeliveryTyped, OneInbox
  <1>7. Excuses'
    BY <1>3, <1>5 DEF DeliveryInv, Excuses, Active
  <1>8. ASSUME ~stale' PROVE OneTask' /\ SentOnce'
    <2>1. ~stale /\ OneTask /\ SentOnce /\ Excuses
      BY <1>1, <1>8 DEF DeliveryInv
    <2>2. Active(w) /\ \A v \in Workers \ {w} : ~Active(v)
      <3>1. Active(w)
        BY <2>1 DEF Delivery!MarkProcessed, Delivery!MarkFailed, Delivery!Crash, Active, Excuses
      <3> QED
        BY <2>1, <3>1 DEF OneTask
    <2>3. \A v \in Workers : ~Active(v)'
      BY <1>3, <2>2 DEF Active
    <2>4. sent' \ excused' \subseteq {row'.attempts}
      BY <1>1, <1>5, <2>1 DEF SentOnce
    <2>5. sent' \ excused' # {} => row'.status = "PROCESSED"
      <3>1. CASE Delivery!MarkProcessed(w)
        BY <1>4, <3>1 DEF Delivery!MarkProcessed
      <3>2. CASE Delivery!MarkFailed(w) \/ Delivery!Crash(w)
        <4>1. tasks[w].number = row.attempts /\ row.attempts \in excused'
          BY <2>1, <2>2, <3>2 DEF OneTask, Excuses, Delivery!MarkFailed, Delivery!Crash
        <4> QED
          BY <1>5, <2>4, <4>1
      <3> QED
        BY <3>1, <3>2
    <2> QED
      BY <2>3, <2>4, <2>5 DEF OneTask, SentOnce
  <1> QED
    BY <1>6, <1>7, <1>8 DEF DeliveryInv

\* A lease is reaped once its task has gone; a retry finds the row failed, or is stale.
LEMMA RowReopened ==
    ASSUME DeliveryInv, Delivery!Reap \/ \E a \in Administrators : Delivery!RetryNotification(a)
    PROVE  DeliveryInv'
  <1>1. /\ UNCHANGED <<channel, supported, tries, tasks, inbox, sent, excused>>
        /\ forms' \in [Administrators -> Delivery!Statuses \cup {None}]
        /\ stale' \in BOOLEAN /\ (~stale' => ~stale)
    BY DEF Delivery!Reap, Delivery!RetryNotification, DeliveryInv, DeliveryTyped
  <1>2. PICK old \in [status : Delivery!Statuses, attempts : 0 .. DeliveryClaims] : old = row
    BY DEF DeliveryInv, DeliveryTyped
  <1>3. PICK new : new = [old EXCEPT !.status = "PENDING"]
    OBVIOUS
  <1>4. /\ new \in [status : Delivery!Statuses, attempts : 0 .. DeliveryClaims]
        /\ new.status = "PENDING" /\ new.attempts = old.attempts
    BY <1>3 DEF Delivery!Statuses
  <1>5. row' = new \/ row' = old
    BY <1>2, <1>3 DEF Delivery!Reap, Delivery!RetryNotification
  <1>6. DeliveryTyped' /\ OneInbox' /\ Excuses'
    BY <1>1, <1>2, <1>4, <1>5 DEF DeliveryInv, DeliveryTyped, OneInbox, Excuses, Active
  <1>7. ASSUME ~stale' PROVE OneTask' /\ SentOnce'
    <2>1. ~stale /\ OneTask /\ SentOnce
      BY <1>1, <1>7 DEF DeliveryInv
    <2>2. CASE row' = old
      BY <1>1, <1>2, <2>1, <2>2 DEF OneTask, SentOnce, Active
    <2>3. CASE row' # old
      <3>1. row' = new /\ row.status # "PROCESSED" /\ \A w \in Workers : ~Active(w)
        <4>1. CASE Delivery!Reap
          BY <1>2, <1>5, <2>1, <2>3, <4>1 DEF Delivery!Reap, OneTask
        <4>2. ASSUME NEW a \in Administrators, Delivery!RetryNotification(a)
              PROVE  row' = new /\ row.status # "PROCESSED" /\ \A w \in Workers : ~Active(w)
          <5>1. row.status = "FAILED"
            BY <1>2, <1>7, <2>3, <4>2 DEF Delivery!RetryNotification, Delivery!Retryable
          <5> QED
            BY <1>5, <2>1, <2>3, <5>1 DEF OneTask
        <4> QED
          BY <4>1, <4>2
      <3>2. sent \ excused = {}
        BY <2>1, <3>1 DEF SentOnce, Active
      <3> QED
        BY <1>1, <3>1, <3>2 DEF OneTask, SentOnce, Active
    <2> QED
      BY <2>2, <2>3
  <1> QED
    BY <1>6, <1>7 DEF DeliveryInv

\* Every step keeps the invariant.
LEMMA DeliveryStep == DeliveryInv /\ [Delivery!Next]_(Delivery!vars) => DeliveryInv'
  <1> SUFFICES ASSUME DeliveryInv, [Delivery!Next]_(Delivery!vars) PROVE DeliveryInv'
    OBVIOUS
  <1>1. CASE UNCHANGED Delivery!vars
    <2>1. UNCHANGED <<channel, supported, row, tries, tasks, forms, inbox, sent, excused, stale>>
      BY <1>1 DEF Delivery!vars
    <2> QED
      BY <2>1, DeliveryRests DEF DeliveryInv, DeliveryTyped
  <1>2. CASE Delivery!ConfigureProvider
    <2>1. supported' \in BOOLEAN
      BY <1>2, Zenon DEF Delivery!ConfigureProvider
    <2> QED
      BY <1>2, <2>1, DeliveryRests DEF Delivery!ConfigureProvider, DeliveryInv, DeliveryTyped
  <1>3. ASSUME NEW a \in Administrators, Delivery!LoadForRetry(a) PROVE DeliveryInv'
    <2>1. forms' \in [Administrators -> Delivery!Statuses \cup {None}]
      BY <1>3 DEF Delivery!LoadForRetry, DeliveryInv, DeliveryTyped
    <2> QED
      BY <1>3, <2>1, DeliveryRests DEF Delivery!LoadForRetry, DeliveryInv, DeliveryTyped
  <1>4. ASSUME NEW w \in Workers, Delivery!DispatchTask(w) \/ Delivery!Crash(w) PROVE DeliveryInv'
    BY <1>4, DeliveryClaimStep, AttemptSteps, SendStep, TaskEnds DEF Delivery!DispatchTask
  <1> QED
    BY <1>1, <1>2, <1>3, <1>4, RowReopened DEF Delivery!Next, Delivery!RetryRequests

\* It holds of the component as one of Records.
LEMMA DeliveryWithin == RecordsSpec => [](part = "delivery" => DeliveryInv)
  <1>1. RecordsInit => (part = "delivery" => DeliveryInv)
    BY DeliveryInit DEF RecordsInit
  <1>2. (part = "delivery" => DeliveryInv) /\ [RecordsNext]_recordsVars => (part = "delivery" => DeliveryInv)'
    BY DeliveryStep DEF RecordsNext, recordsVars, serviceRows, Delivery!vars, deliveryRows
  <1> QED
    BY <1>1, <1>2, PTL DEF RecordsSpec

(* A message leaves a second time only after an attempt whose outcome did not     *)
(* reach the row, or a retry decided from an outdated row, and an in-app message  *)
(* appears once; for any workers, administrators and number of claims             *)
(* (claim, dispatch, retry_notification, the gateways' send, reaped leases).      *)
THEOREM SentAgainForACause ==
    /\ Delivery!Spec => [](Delivery!TypeOK /\ Delivery!SentAgainOnlyWithCause)
    /\ RecordsSpec => []SentAgainOnlyWithCause
  <1>1. DeliveryInv /\ [Delivery!Next]_(Delivery!vars) => DeliveryInv'
    BY DeliveryStep
  <1>2. Delivery!Spec => [](Delivery!TypeOK /\ Delivery!SentAgainOnlyWithCause)
    BY <1>1, DeliveryInit, DeliverySays, PTL DEF Delivery!Spec
  <1>3. (part = "delivery" => DeliveryInv) => SentAgainOnlyWithCause
    BY DeliverySays DEF SentAgainOnlyWithCause
  <1>4. RecordsSpec => []SentAgainOnlyWithCause
    BY <1>3, DeliveryWithin, PTL
  <1> QED
    BY <1>2, <1>4

-----------------------------------------------------------------------------
(* All of them                                                             *)

(* The rows, files, tasks and requests of every component keep their types. *)
THEOREM RecordsTyped == RecordsSpec => []AllTypesOK
  <1>1. (part = "attendance" => RegisterInv) => (part = "attendance" => Register!TypeOK)
    BY RegisterSays
  <1>2. (part = "timetable" => TimetableInv) => (part = "timetable" => Timetable!TypeOK)
    BY TimetableSays
  <1>3. (part = "staff" => StaffInv) => (part = "staff" => Staff!TypeOK)
    BY StaffSays
  <1>4. (part = "admissions" => AdmissionsInv) => (part = "admissions" => Applications!TypeOK)
    BY AdmissionsSay
  <1>5. (part = "fees" => FeesInv) => (part = "fees" => Fees!TypeOK)
    BY FeesSay
  <1>6. (part = "assessments" => AssessmentsInv) => (part = "assessments" => Assessments!TypeOK)
    BY AssessmentsSay
  <1>7. (part = "documents" => StoreInv) => (part = "documents" => Store!TypeOK)
    BY StoreSays
  <1>8. (part = "notifications" => PipelineInv) => (part = "notifications" => Pipeline!TypeOK)
    BY PipelineSays
  <1>9. (part = "delivery" => DeliveryInv) => (part = "delivery" => Delivery!TypeOK)
    BY DeliverySays
  <1>10. AllTypesOK <=>
        /\ part = "attendance" => Register!TypeOK
        /\ part = "timetable" => Timetable!TypeOK
        /\ part = "staff" => Staff!TypeOK
        /\ part = "admissions" => Applications!TypeOK
        /\ part = "fees" => Fees!TypeOK
        /\ part = "assessments" => Assessments!TypeOK
        /\ part = "documents" => Store!TypeOK
        /\ part = "notifications" => Pipeline!TypeOK
        /\ part = "delivery" => Delivery!TypeOK
    BY DEF AllTypesOK
  <1> QED
    BY <1>1, <1>2, <1>3, <1>4, <1>5, <1>6, <1>7, <1>8, <1>9, <1>10,
       RegisterWithin, TimetableWithin, StaffWithin, AdmissionsWithin,
       FeesWithin, AssessmentsWithin, StoreWithin,
       PipelineWithin, DeliveryWithin, PTL
=============================================================================
