---------------------------- MODULE BellSchedule ----------------------------
(***************************************************************************)
(* apps/timetable: the periods of the school day and the lessons booked in *)
(* them, for one term, one instructional day and one campus. Periods are   *)
(* checked and written without a lock; lessons are kept apart by unique    *)
(* constraints, which compare periods and not times.                       *)
(***************************************************************************)
EXTENDS Integers, FiniteSets

CONSTANTS
    Periods,        \* by id: a deleted one does not come back
    Workers, Rooms, None, Gone,
    LastBell,       \* the bells ring at 0..LastBell
    Assigned        \* TeacherAssignment rows, <<teacher, class>> of one subject

VARIABLES
    periods,    \* Period rows: [from, to, teaching], None before, Gone after
    entries,    \* TimetableEntry rows: [class, teacher, room, period]
    calls,      \* by worker, its request between reading and writing
    raced       \* history: periods written, or booked, from a view that was no longer true

vars == <<periods, entries, calls, raced>>

Bells == {t \in (0 .. LastBell) \X (0 .. LastBell) : t[1] < t[2]}
Rows == [from : 0 .. LastBell, to : 0 .. LastBell, teaching : BOOLEAN]
Lessons == [class : {a[2] : a \in Assigned}, teacher : {a[1] : a \in Assigned},
            room : Rooms \cup {None}, period : Periods]

\* stale: something the request has read was written since.
Idle == [op |-> "idle", period |-> None, bells |-> None, given |-> {}, teaching |-> None, stale |-> FALSE]

Init ==
    /\ periods = [p \in Periods |-> None]
    /\ entries = {}
    /\ calls = [w \in Workers |-> Idle]
    /\ raced = {}

\* The requests that have checked the schedule, and those that have read p.
Checked == {v \in Workers : calls[v].op \in {"adding", "changing"}}
Readers(p) == {v \in Workers : calls[v].period = p}
\* w's request ends; what those of `vs` have read is outdated.
Outdates(w, vs) ==
    calls' = [v \in Workers |-> IF v = w THEN Idle
                                ELSE IF v \in vs THEN [calls[v] EXCEPT !.stale = TRUE] ELSE calls[v]]
Records(w, p) == raced' = IF calls[w].stale THEN raced \cup {p} ELSE raced

MutantOverlapping(a, b) == a = b
Overlapping(a, b) == a[1] < b[2] /\ b[1] < a[2]
BellsOf(p) == <<periods[p].from, periods[p].to>>
Rung(p) == periods[p] \notin {None, Gone}
Clear(p, bells) == \A q \in Periods \ {p} : Rung(q) => ~Overlapping(bells, BellsOf(q))
Referenced(p) == \E e \in entries : e.period = p

\* create_period: the overlap check, and the insert; nothing keeps them together.
CheckPeriod(w, bells) ==
    /\ calls[w] = Idle
    /\ Clear(None, bells)
    /\ calls' = [calls EXCEPT ![w] = [Idle EXCEPT !.op = "adding", !.bells = bells]]
    /\ UNCHANGED <<periods, entries, raced>>

InsertPeriod(w, p, teaching) ==
    /\ calls[w].op = "adding"
    /\ periods[p] = None
    /\ periods' = [periods EXCEPT ![p] = [from |-> calls[w].bells[1], to |-> calls[w].bells[2], teaching |-> teaching]]
    /\ Outdates(w, Checked)
    /\ Records(w, p)
    /\ UNCHANGED entries

\* The view loads the period that is to be changed.
EditPeriod(w, p) ==
    /\ calls[w] = Idle
    /\ Rung(p)
    /\ calls' = [calls EXCEPT ![w] = [Idle EXCEPT !.op = "editing", !.period = p, !.bells = BellsOf(p)]]
    /\ UNCHANGED <<periods, entries, raced>>

\* update_period: the time that is not given is the loaded row's. No bells given: the
\* teaching flag only. An outdated row misleads only who takes one time from it.
CheckUpdate(w, bells, given) ==
    LET read == calls[w] IN
    /\ read.op = "editing"
    /\ ~Referenced(read.period)
    /\ "from" \notin given => bells[1] = read.bells[1]
    /\ "to" \notin given => bells[2] = read.bells[2]
    /\ given # {} => Clear(read.period, bells)
    /\ calls' = [calls EXCEPT ![w] = [Idle EXCEPT !.op = "changing", !.period = read.period, !.bells = bells, !.given = given,
                                                  !.stale = read.stale /\ given \in {{"from"}, {"to"}}]]
    /\ UNCHANGED <<periods, entries, raced>>

\* Only the fields given are saved.
SavePeriod(w, teaching) ==
    LET p == calls[w].period
        given == calls[w].given
        row == [from |-> IF "from" \in given THEN calls[w].bells[1] ELSE periods[p].from,
                to |-> IF "to" \in given THEN calls[w].bells[2] ELSE periods[p].to,
                teaching |-> teaching]
    IN
    /\ calls[w].op = "changing"
    /\ Rung(p)
    /\ row.from < row.to        \* CheckConstraint period_start_before_end
    /\ periods' = [periods EXCEPT ![p] = row]
    /\ Outdates(w, IF given = {} THEN Readers(p) ELSE Readers(p) \cup Checked)
    /\ Records(w, p)
    /\ UNCHANGED entries

\* delete_period: a lesson protects its period, in the check and in the database.
DeletePeriod(p) ==
    /\ Rung(p)
    /\ ~Referenced(p)
    /\ periods' = [periods EXCEPT ![p] = Gone]
    /\ UNCHANGED <<entries, calls, raced>>

\* The view loads the period a lesson is to be booked in.
LoadPeriod(w, p) ==
    /\ calls[w] = Idle
    /\ Rung(p)
    /\ calls' = [calls EXCEPT ![w] = [Idle EXCEPT !.op = "booking", !.period = p, !.teaching = periods[p].teaching]]
    /\ UNCHANGED <<periods, entries, raced>>

MutantSlotFree(e, others) == \A o \in others : o.period = e.period => o.class # e.class /\ (e.room # None => o.room # e.room)
\* unique_class_slot_per_term, unique_teacher_slot_per_term, unique_room_slot_per_term_campus.
SlotFree(e, others) ==
    \A o \in others : o.period = e.period => /\ o.class # e.class
                                             /\ o.teacher # e.teacher
                                             /\ e.room # None => o.room # e.room

\* create_timetable_entry: the loaded row says whether lessons are taught in the period;
\* a repeated request finds its lesson, and SlotFree refuses a different one.
CreateTimetableEntry(w, a, room) ==
    LET e == [class |-> a[2], teacher |-> a[1], room |-> room, period |-> calls[w].period] IN
    /\ calls[w].op = "booking"
    /\ calls[w].teaching = TRUE
    /\ Rung(e.period)
    /\ e \in entries \/ SlotFree(e, entries)
    /\ entries' = entries \cup {e}
    /\ Outdates(w, Checked \cap Readers(e.period))
    /\ Records(w, e.period)
    /\ UNCHANGED periods

\* update_timetable_entry, under the row's lock.
UpdateTimetableEntry(e, a, room) ==
    LET new == [e EXCEPT !.teacher = a[1], !.room = room] IN
    /\ e \in entries
    /\ a[2] = e.class
    /\ new # e
    /\ SlotFree(new, entries \ {e})
    /\ entries' = (entries \ {e}) \cup {new}
    /\ UNCHANGED <<periods, calls, raced>>

DeleteTimetableEntry(e) ==
    /\ e \in entries
    /\ entries' = entries \ {e}
    /\ UNCHANGED <<periods, calls, raced>>

\* The write was refused by a constraint, or the client went away.
Abandon(w) ==
    /\ calls[w] # Idle
    /\ calls' = [calls EXCEPT ![w] = Idle]
    /\ UNCHANGED <<periods, entries, raced>>

PeriodRequests(w) ==
    \/ \E bells \in Bells :
          \/ CheckPeriod(w, bells)
          \/ \E given \in SUBSET {"from", "to"} : CheckUpdate(w, bells, given)
    \/ \E p \in Periods : EditPeriod(w, p)
    \/ \E teaching \in BOOLEAN : SavePeriod(w, teaching) \/ \E p \in Periods : InsertPeriod(w, p, teaching)

EntryRequests(w) ==
    \/ \E p \in Periods : LoadPeriod(w, p)
    \/ \E a \in Assigned, room \in Rooms \cup {None} : CreateTimetableEntry(w, a, room)

CorrectionRequests ==
    \E e \in entries :
        \/ DeleteTimetableEntry(e)
        \/ \E a \in Assigned, room \in Rooms \cup {None} : UpdateTimetableEntry(e, a, room)

Next ==
    \/ \E w \in Workers : PeriodRequests(w) \/ EntryRequests(w) \/ Abandon(w)
    \/ \E p \in Periods : DeletePeriod(p)
    \/ CorrectionRequests

Spec == Init /\ [][Next]_vars

----------------------------------------------------------------------------
(* Properties *)

(* The types of the periods, the lessons and the requests. *)
TypeOK ==
    /\ \A p \in Periods : periods[p] \in Rows \cup {None, Gone}
    /\ entries \subseteq Lessons
    /\ \A w \in Workers :
          /\ calls[w].op \in {"idle", "adding", "editing", "changing", "booking"}
          /\ calls[w].period \in Periods \cup {None} /\ calls[w].bells \in Bells \cup {None}
          /\ calls[w].given \subseteq {"from", "to"} /\ calls[w].stale \in BOOLEAN
    /\ raced \subseteq Periods

(* Two lessons of the same class, teacher or room never meet at the same time,
   and every lesson stands in a period lessons are taught in; unless a period
   was written, or booked, from a view another request had outdated. *)
NoDoubleBooking ==
    \A e \in entries :
        /\ periods[e.period] \in Rows
        /\ periods[e.period].teaching \/ e.period \in raced
        /\ \A o \in entries \ {e} :
              (o.class = e.class \/ o.teacher = e.teacher \/ (o.room = e.room /\ e.room # None))
              => \/ BellsOf(e.period)[2] <= BellsOf(o.period)[1]
                 \/ BellsOf(o.period)[2] <= BellsOf(e.period)[1]
                 \/ o.period # e.period /\ {o.period, e.period} \cap raced # {}
=============================================================================
