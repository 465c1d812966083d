--------------------------- MODULE StaffPlacement ---------------------------
(***************************************************************************)
(* apps/staff: an employee has a campus, an employment status and at most  *)
(* one user account, whose membership may be confined to a campus. Changes *)
(* of an employee lock its row; the membership they compare it with is     *)
(* read without a lock, and apps/tenancy changes it without asking staff.  *)
(***************************************************************************)
EXTENDS Integers, FiniteSets

CONSTANTS
    Employees,      \* by employee number, unique per tenant
    Accounts, Campuses, Workers, None,
    LastDay         \* birth and hire dates are days 1..LastDay

VARIABLES
    employees,      \* Employee rows: [status, campus, account, birth, hire], None without one
    memberships,    \* by account, its Membership: [active, campus], campus None = every campus
    calls,          \* by worker, the transaction that holds an employee's row
    outdated,       \* history: linked employees whose account's membership changed after it was read
    ended           \* history: employees who have been TERMINATED

vars == <<employees, memberships, calls, outdated, ended>>

EmployeeTransitions ==
    [ACTIVE |-> {"SUSPENDED", "TERMINATED"}, SUSPENDED |-> {"ACTIVE", "TERMINATED"}, TERMINATED |-> {}]
Days == 1 .. LastDay
Rows == [status : DOMAIN EmployeeTransitions, campus : Campuses \cup {None}, account : Accounts \cup {None},
         birth : Days \cup {None}, hire : Days]
Idle == [op |-> "idle", employee |-> None, account |-> None, campus |-> None, stale |-> FALSE]

Init ==
    /\ employees = [e \in Employees |-> None]
    /\ memberships \in [Accounts -> [active : {TRUE}, campus : Campuses \cup {None}]]
    /\ calls = [w \in Workers |-> Idle]
    /\ outdated = {} /\ ended = {}

\* _require_campus_scope: of a membership and an employee's campus.
InScope(m, campus) == m.campus = None \/ m.campus = campus
\* _validate_dates
ValidDates(birth, hire) == birth # None => birth < hire

MutantLockable(e) == employees[e] # None
\* select_for_update on the employee's row.
Lockable(e) == employees[e] # None /\ \A w \in Workers : calls[w].employee # e

CreateEmployee(e, campus, birth, hire) ==
    /\ employees[e] = None
    /\ ValidDates(birth, hire)
    /\ employees' = [employees EXCEPT ![e] = [status |-> "ACTIVE", campus |-> campus, account |-> None,
                                              birth |-> birth, hire |-> hire]]
    /\ UNCHANGED <<memberships, calls, outdated, ended>>

\* link_user_account, up to the check of the account's membership.
CheckLink(w, e, a) ==
    /\ calls[w] = Idle
    /\ Lockable(e)
    /\ employees[e].account = None
    /\ memberships[a].active /\ InScope(memberships[a], employees[e].campus)
    /\ calls' = [calls EXCEPT ![w] = [Idle EXCEPT !.op = "linking", !.employee = e, !.account = a]]
    /\ UNCHANGED <<employees, memberships, outdated, ended>>

\* Its save; an account of another employee is refused by the one-to-one key.
SaveLink(w) ==
    LET e == calls[w].employee
        a == calls[w].account
    IN
    /\ calls[w].op = "linking"
    /\ \A o \in Employees \ {e} : employees[o] # None => employees[o].account # a
    /\ employees' = [employees EXCEPT ![e].account = a]
    /\ outdated' = IF calls[w].stale THEN outdated \cup {e} ELSE outdated \ {e}
    /\ calls' = [calls EXCEPT ![w] = Idle]
    /\ UNCHANGED <<memberships, ended>>

UnlinkUserAccount(e) ==
    /\ Lockable(e)
    /\ employees[e].account # None
    /\ employees' = [employees EXCEPT ![e].account = None]
    /\ outdated' = outdated \ {e}
    /\ UNCHANGED <<memberships, calls, ended>>

\* update_employee_details with a campus: an active membership of the employee's account
\* must reach it.
CheckMove(w, e, campus) ==
    LET a == employees[e].account IN
    /\ calls[w] = Idle
    /\ Lockable(e)
    /\ campus # employees[e].campus
    /\ a # None /\ memberships[a].active => InScope(memberships[a], campus)
    /\ calls' = [calls EXCEPT ![w] = [Idle EXCEPT !.op = "moving", !.employee = e, !.campus = campus]]
    /\ UNCHANGED <<employees, memberships, outdated, ended>>

SaveMove(w) ==
    /\ calls[w].op = "moving"
    /\ employees' = [employees EXCEPT ![calls[w].employee].campus = calls[w].campus]
    /\ calls' = [calls EXCEPT ![w] = Idle]
    /\ UNCHANGED <<memberships, outdated, ended>>

\* ... with dates, one or both: the one that is not given is the locked row's.
UpdateDates(e, birth, hire) ==
    /\ Lockable(e)
    /\ ValidDates(birth, hire)
    /\ employees' = [employees EXCEPT ![e].birth = birth, ![e].hire = hire]
    /\ UNCHANGED <<memberships, calls, outdated, ended>>

ChangeEmploymentStatus(e, status) ==
    /\ Lockable(e)
    /\ status \in EmployeeTransitions[employees[e].status]
    /\ employees' = [employees EXCEPT ![e].status = status]
    /\ ended' = IF status = "TERMINATED" THEN ended \cup {e} ELSE ended
    /\ UNCHANGED <<memberships, calls, outdated>>

\* apps/tenancy: update_membership, activate_membership, deactivate_membership.
ChangeMembership(a, m) ==
    /\ memberships[a] # m
    /\ memberships' = [memberships EXCEPT ![a] = m]
    /\ outdated' = outdated \cup {e \in Employees : employees[e] # None /\ employees[e].account = a}
    /\ calls' = [w \in Workers |-> IF calls[w].account = a THEN [calls[w] EXCEPT !.stale = TRUE] ELSE calls[w]]
    /\ UNCHANGED <<employees, ended>>

\* The save failed, or the transaction rolled back.
Abandon(w) ==
    /\ calls[w] # Idle
    /\ calls' = [calls EXCEPT ![w] = Idle]
    /\ UNCHANGED <<employees, memberships, outdated, ended>>

EmployeeRequests(w) ==
    \E e \in Employees :
        \/ \E campus \in Campuses \cup {None} : Lockable(e) /\ CheckMove(w, e, campus)
        \/ \E birth \in Days \cup {None}, hire \in Days :
              \/ Lockable(e) /\ UpdateDates(e, birth, hire)
              \/ \E campus \in Campuses \cup {None} : CreateEmployee(e, campus, birth, hire)
LinkRequests(w) ==
    \E e \in Employees : UnlinkUserAccount(e) \/ \E a \in Accounts : CheckLink(w, e, a)

Next ==
    \/ \E w \in Workers : EmployeeRequests(w) \/ LinkRequests(w) \/ SaveLink(w) \/ SaveMove(w) \/ Abandon(w)
    \/ \E e \in Employees, status \in DOMAIN EmployeeTransitions : ChangeEmploymentStatus(e, status)
    \/ \E a \in Accounts, m \in [active : BOOLEAN, campus : Campuses \cup {None}] : ChangeMembership(a, m)

Spec == Init /\ [][Next]_vars

----------------------------------------------------------------------------
(* Properties *)

(* The types of the employees, the memberships and the transactions. *)
TypeOK ==
    /\ \A e \in Employees : employees[e] \in Rows \cup {None}
    /\ memberships \in [Accounts -> [active : BOOLEAN, campus : Campuses \cup {None}]]
    /\ calls \in [Workers -> [op : {"idle", "linking", "moving"}, employee : Employees \cup {None},
                              account : Accounts \cup {None}, campus : Campuses \cup {None}, stale : BOOLEAN]]
    /\ outdated \subseteq Employees /\ ended \subseteq Employees

(* Whatever is linked, moved, corrected and dismissed at the same time: an
   account belongs to one employee, its membership is active and reaches the
   employee's campus unless tenancy changed it after staff read it; an employee
   is born before being hired, and one who was dismissed stays so. *)
LinkedWithinScope ==
    \A e \in Employees : employees[e] # None =>
        LET a == employees[e].account IN
        /\ a # None /\ e \notin outdated =>
               memberships[a].active /\ memberships[a].campus \in {None, employees[e].campus}
        /\ a # None => \A o \in Employees \ {e} : employees[o] = None \/ employees[o].account # a
        /\ employees[e].birth = None \/ employees[e].birth < employees[e].hire
        /\ e \in ended => employees[e].status = "TERMINATED"
=============================================================================
