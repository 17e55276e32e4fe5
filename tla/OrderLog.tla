------------------------------ MODULE OrderLog ------------------------------
(***************************************************************************)
(* What hangs on one repair order - where it is picked up and delivered,   *)
(* whom it is assigned to, and its problems - and the log of its changes,  *)
(* repair_order_change_histories.  Each updater reads what there is,       *)
(* writes its rows and logs what it takes them to have become, in one      *)
(* transaction that locks no more than the rows it writes.                 *)
(*                                                                         *)
(* Assignments the telephony and the statuses make are not logged and are  *)
(* not part of the module.  Initial problems and final problems are        *)
(* handled alike, as are pickups and deliveries.                           *)
(***************************************************************************)
EXTENDS Integers, FiniteSets

CONSTANTS
    Routes,      \* rows of repair_order_pickups and repair_order_deliveries
    Couriers,
    Notes,       \* values of a route's other fields
    Unset,
    Admins,      \* to whom the order may be assigned
    Faults,      \* problem categories
    Updaters,    \* requests served at a time
    MaxUpdates   \* bound on the requests

ASSUME OrderLogAssumption ==
    /\ Unset \notin Couriers \cup Notes
    /\ MaxUpdates \in Nat
    /\ Routes \cap Admins = {} /\ "problems" \notin Routes \cup Admins

VARIABLES
    route,      \* its row
    staff,      \* repair_order_assign_admins
    faults,     \* rows of the problems: which request inserted them
    log,        \* what the log tells, replayed
    updater,    \* what each request is doing
    updates,    \* requests so far
    unlogged    \* history: admins, routes and problems about which the log errs

logVars == <<route, staff, faults, log, updater, updates, unlogged>>

NoRoute == [standing |-> "absent", courier |-> Unset, note |-> Unset]

AtEase == [pc |-> "rest"]

LogInit ==
    /\ route = [t \in Routes |-> NoRoute]
    /\ staff \in SUBSET Admins
    /\ faults = {}
    /\ log = [route |-> route, staff |-> staff, faults |-> {}]
    /\ updater = [w \in Updaters |-> AtEase]
    /\ updates = 0
    /\ unlogged = {}

Turn(w, d) ==
    /\ updater[w] = AtEase
    /\ updates < MaxUpdates /\ updates' = updates + 1
    /\ updater' = [updater EXCEPT ![w] = d]
    /\ UNCHANGED <<route, staff, faults, log, unlogged>>

Leave(w) == updater' = [updater EXCEPT ![w] = AtEase] /\ UNCHANGED updates

(***************************************************************************)
(* Pickups and deliveries.                                                 *)
(***************************************************************************)
CreateRoute(w, t, courier, note) ==
    /\ route[t] = NoRoute
    /\ \A x \in Updaters : updater[x].pc = "insert" => updater[x].row # t
    /\ Turn(w, [pc |-> "insert", row |-> t, courier |-> courier, note |-> note])

InsertRoute(w) ==
    LET d == updater[w]
    IN  /\ d.pc = "insert"
        /\ route' = [route EXCEPT ![d.row] =
                        [standing |-> "Open", courier |-> d.courier, note |-> d.note]]
        /\ log' = [log EXCEPT !.route[d.row] = route'[d.row]]
        /\ Leave(w)
        /\ UNCHANGED <<staff, faults, unlogged>>

\* A field that is not given keeps the value that was read.
UpdateRoute(w, t, courier, note) ==
    /\ route[t].standing = "Open"
    /\ Turn(w, [pc |-> "rewrite", row |-> t, old |-> route[t], new |->
                    [standing |-> "Open",
                     courier |-> IF courier = Unset THEN route[t].courier ELSE courier,
                     note |-> IF note = Unset THEN route[t].note ELSE note]])

\* The fields are written by id: a row deleted since stays deleted, though
\* the log then tells of one that is there.
WriteRoute(w) ==
    LET d == updater[w]
        t == d.row
    IN  /\ d.pc = "rewrite"
        /\ route' = [route EXCEPT ![t] = [d.new EXCEPT !.standing = route[t].standing]]
        /\ log' = IF d.new = d.old THEN log ELSE [log EXCEPT !.route[t] = d.new]
        /\ unlogged' = CASE d.new # d.old /\ route[t].standing = "Open" -> unlogged \ {t}
                          [] route[t] = d.old /\ d.new = d.old -> unlogged
                          [] OTHER -> unlogged \cup {t}
        /\ Leave(w)
        /\ UNCHANGED <<staff, faults>>

DeleteRoute(w, t) ==
    /\ route[t].standing = "Open"
    /\ Turn(w, [pc |-> "remove", row |-> t])

\* Mutant: the log keeps the row that was read.
EraseRouteUnlogged(w) ==
    LET t == updater[w].row
    IN  /\ updater[w].pc = "remove"
        /\ route' = [route EXCEPT ![t].standing = "Deleted"]
        /\ Leave(w)
        /\ UNCHANGED <<staff, faults, log, unlogged>>

EraseRoute(w) ==
    LET t == updater[w].row
    IN  /\ updater[w].pc = "remove"
        /\ route' = [route EXCEPT ![t].standing = "Deleted"]
        /\ log' = [log EXCEPT !.route[t] = NoRoute]
        /\ unlogged' = unlogged \ {t}
        /\ Leave(w)
        /\ UNCHANGED <<staff, faults>>

(***************************************************************************)
(* Assigned admins.                                                        *)
(***************************************************************************)
\* Those already assigned are left out; nobody at all removes everybody.
AssignAdmins(w, ids) ==
    /\ IF ids = {} THEN staff # {} ELSE ~(ids \subseteq staff)
    /\ Turn(w, IF ids = {} THEN [pc |-> "clear", ids |-> staff]
               ELSE [pc |-> "assign", ids |-> ids \ staff])

InsertAdmins(w) ==
    /\ updater[w].pc = "assign"
    /\ staff' = staff \cup updater[w].ids
    /\ log' = [log EXCEPT !.staff = @ \cup updater[w].ids]
    /\ unlogged' = unlogged \ updater[w].ids
    /\ Leave(w)
    /\ UNCHANGED <<route, faults>>

\* Whoever was assigned since goes as well, and is not logged.
ClearAdmins(w) ==
    /\ updater[w].pc = "clear"
    /\ staff' = {}
    /\ log' = [log EXCEPT !.staff = @ \ updater[w].ids]
    /\ unlogged' = unlogged \cup (staff \ updater[w].ids)
    /\ Leave(w)
    /\ UNCHANGED <<route, faults>>

\* One statement, logged when it removes any of them.
RemoveAdmins(ids) ==
    /\ ids \cap staff # {}
    /\ updates < MaxUpdates /\ updates' = updates + 1
    /\ staff' = staff \ ids
    /\ log' = [log EXCEPT !.staff = @ \ ids]
    /\ unlogged' = unlogged \ ids
    /\ UNCHANGED <<route, faults, updater>>

(***************************************************************************)
(* Problems: all rows are deleted and the new ones inserted.               *)
(***************************************************************************)
Categories(rows) == {r.of : r \in rows}

\* getProblemSnapshot, before.
UpdateProblems(w, some) ==
    Turn(w, [pc |-> "delete", set |-> some, old |-> Categories(faults), stamp |-> updates + 1,
             passed |-> FALSE])

\* The DELETE finds the rows there are now; rows another request is deleting
\* it waits for.
FindRows(w) ==
    /\ updater[w].pc = "delete"
    /\ updater' = [updater EXCEPT ![w] = [pc |-> "replace", set |-> @.set, old |-> @.old,
                                          stamp |-> @.stamp, found |-> faults, passed |-> @.passed]]
    /\ UNCHANGED <<route, staff, faults, log, updates, unlogged>>

Deleting(w) == IF updater[w].pc = "logged" THEN updater[w].gone ELSE {}

\* The snapshot after sees what others committed since.
ReplaceRows(w) ==
    LET d == updater[w]
        gone == d.found \cap faults
        new == {[of |-> f, by |-> d.stamp] : f \in d.set}
        current == Categories((faults \ gone) \cup new)
    IN  /\ d.pc = "replace"
        /\ \A x \in Updaters : Deleting(x) \cap gone = {}
        /\ updater' = [updater EXCEPT ![w] =
                [pc |-> "logged", gone |-> gone, new |-> new, passed |-> d.passed,
                 note |-> IF d.set = {} THEN {} ELSE current,
                 logs |-> d.old # IF d.set = {} THEN {} ELSE current]]
        /\ UNCHANGED <<route, staff, faults, log, updates, unlogged>>

CommitRows(w) ==
    LET d == updater[w]
    IN  /\ d.pc = "logged"
        /\ faults' = (faults \ d.gone) \cup d.new
        /\ log' = IF d.logs THEN [log EXCEPT !.faults = d.note] ELSE log
        /\ unlogged' = CASE d.passed -> unlogged \cup {"problems"}
                          [] d.logs /\ ~d.passed -> unlogged \ {"problems"}
                          [] OTHER -> unlogged
        /\ updater' = [x \in Updaters |->
                IF x = w THEN AtEase
                ELSE IF updater[x].pc \in {"delete", "replace", "logged"}
                THEN [updater[x] EXCEPT !.passed = TRUE] ELSE updater[x]]
        /\ UNCHANGED <<route, staff, updates>>

\* A check fails or the server stops.
RollBack(w) ==
    /\ updater[w] # AtEase
    /\ Leave(w)
    /\ UNCHANGED <<route, staff, faults, log, unlogged>>

LogNext ==
    \/ \E w \in Updaters :
        \/ \E t \in Routes :
            \/ \E c \in Couriers \cup {Unset}, n \in Notes \cup {Unset} :
                CreateRoute(w, t, c, n) \/ UpdateRoute(w, t, c, n)
            \/ DeleteRoute(w, t)
        \/ InsertRoute(w) \/ WriteRoute(w) \/ EraseRoute(w)
        \/ \E ids \in SUBSET Admins : AssignAdmins(w, ids)
        \/ InsertAdmins(w) \/ ClearAdmins(w)
        \/ \E some \in SUBSET Faults : UpdateProblems(w, some)
        \/ FindRows(w) \/ ReplaceRows(w) \/ CommitRows(w)
        \/ RollBack(w)
    \/ \E ids \in SUBSET Admins : RemoveAdmins(ids)

LogSpec == LogInit /\ [][LogNext]_logVars

(***************************************************************************)
(* Properties.                                                             *)
(***************************************************************************)
LogTypeOK ==
    /\ \A t \in Routes : route[t] \in [standing : {"absent", "Open", "Deleted"},
                                       courier : Couriers \cup {Unset}, note : Notes \cup {Unset}]
    /\ staff \subseteq Admins
    /\ Categories(faults) \subseteq Faults
    /\ DOMAIN updater = Updaters /\ updates \in 0 .. MaxUpdates
    /\ unlogged \subseteq Routes \cup Admins \cup {"problems"}

\* The last thing the log tells of a route, of an admin's assignment and of
\* the problems is what the rows hold, except: of a route that was
\* deleted while it was updated, or updated while an update wrote what it
\* had been; of an admin assigned while a request
\* was removing everybody; of the problems after two overlapping updates.
LogTellsTheRows ==
    /\ \A t \in Routes \ unlogged :
        log.route[t] = IF route[t].standing = "Open" THEN route[t] ELSE NoRoute
    /\ \A a \in Admins \ unlogged : a \in log.staff <=> a \in staff
    /\ "problems" \notin unlogged => log.faults = Categories(faults)
=============================================================================
