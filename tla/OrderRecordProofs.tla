-------------------------- MODULE OrderRecordProofs --------------------------
(***************************************************************************)
(* What an order's log, the comments made from its history and the row of  *)
(* its customer promise, what its employees may do with it, the papers     *)
(* printed for it and the notices sent of it: whatever requests run beside *)
(* each other and wherever they stop.                                      *)
(***************************************************************************)
EXTENDS OrderLog, OrderComments, Customers, OrderGates, OrderPapers, OrderNotices,
        FiniteSetTheorems, WellFoundedInduction, TLAPS

-----------------------------------------------------------------------------
(* The log (OrderLog).                                                     *)

RouteRow == [standing : {"absent", "Open", "Deleted"},
             courier : Couriers \cup {Unset}, note : Notes \cup {Unset}]

\* Rows of the problems: a category and the request that inserted it.
FaultRow == [of : Faults, by : Nat]

\* What a request has in hand.
Errands ==
    [pc : {"insert"}, row : Routes, courier : Couriers \cup {Unset}, note : Notes \cup {Unset}]
    \cup [pc : {"rewrite"}, row : Routes, old : RouteRow, new : RouteRow]
    \cup [pc : {"remove"}, row : Routes]
    \cup [pc : {"clear", "assign"}, ids : SUBSET Admins]
    \cup [pc : {"delete"}, set : SUBSET Faults, old : SUBSET Faults, stamp : Nat, passed : BOOLEAN]
    \cup [pc : {"replace"}, set : SUBSET Faults, old : SUBSET Faults, stamp : Nat,
          found : SUBSET FaultRow, passed : BOOLEAN]
    \cup [pc : {"logged"}, gone : SUBSET FaultRow, new : SUBSET FaultRow, passed : BOOLEAN,
          note : SUBSET Faults, logs : BOOLEAN]

\* Both rows of a rewrite are open ones.
LogTyped ==
    /\ route \in [Routes -> RouteRow]
    /\ staff \subseteq Admins /\ faults \subseteq FaultRow
    /\ log \in [route : [Routes -> RouteRow], staff : SUBSET Admins, faults : SUBSET Faults]
    /\ updater \in [Updaters -> {AtEase} \cup Errands]
    /\ \A w \in Updaters : updater[w].pc = "rewrite" =>
          updater[w].old.standing = "Open" /\ updater[w].new.standing = "Open"
    /\ updates \in 0 .. MaxUpdates
    /\ unlogged \subseteq Routes \cup Admins \cup {"problems"}

\* What a request that replaces the problems has read is still so, unless
\* another one has committed since.
ProblemsRead(w) ==
    LET d == updater[w]
    IN  /\ d.pc = "delete" /\ ~d.passed => d.old = Categories(faults)
        /\ d.pc = "replace" /\ ~d.passed => d.old = Categories(faults) /\ d.found = faults
        /\ d.pc = "logged" /\ ~d.passed =>
              /\ d.gone = faults /\ d.note = Categories(d.new)
              /\ d.logs = (Categories(faults) # d.note)

LogInv == LogTyped /\ LogTellsTheRows /\ \A w \in Updaters : ProblemsRead(w)

\* What is committed without a word about the problems.
LEMMA ProblemsUntouched ==
    ASSUME LogInv, faults' = faults, log'.faults = log.faults,
           "problems" \in unlogged' <=> "problems" \in unlogged,
           \A w \in Updaters : \/ updater'[w] = updater[w]
                               \/ updater'[w].pc \notin {"delete", "replace", "logged"}
    PROVE  /\ \A w \in Updaters : ProblemsRead(w)'
           /\ "problems" \notin unlogged' => log'.faults = Categories(faults')
<1>1. Categories(faults') = Categories(faults)
  OBVIOUS
<1>2. \A w \in Updaters : ProblemsRead(w)'
  <2> SUFFICES ASSUME NEW w \in Updaters PROVE ProblemsRead(w)'
    OBVIOUS
  <2>1. ProblemsRead(w)
    BY DEF LogInv
  <2>2. CASE updater'[w] = updater[w]
    BY <1>1, <2>1, <2>2 DEF ProblemsRead
  <2>3. CASE updater'[w].pc \notin {"delete", "replace", "logged"}
    BY <2>3 DEF ProblemsRead
  <2> QED
    BY <2>2, <2>3
<1>3. "problems" \notin unlogged => log.faults = Categories(faults)
  BY DEF LogInv, LogTellsTheRows
<1> QED
  BY <1>1, <1>2, <1>3

\* A request by what it is at.
LEMMA ErrandsAre ==
    ASSUME LogTyped, NEW w \in Updaters
    PROVE  LET d == updater[w]
           IN  /\ d.pc = "insert" => d.row \in Routes /\ d.courier \in Couriers \cup {Unset}
                                     /\ d.note \in Notes \cup {Unset}
               /\ d.pc = "rewrite" => /\ d.row \in Routes /\ d.old \in RouteRow /\ d.new \in RouteRow
                                      /\ d.old.standing = "Open" /\ d.new.standing = "Open"
               /\ d.pc = "remove" => d.row \in Routes
               /\ d.pc \in {"clear", "assign"} => d.ids \in SUBSET Admins
               /\ d.pc = "delete" => /\ d.set \in SUBSET Faults /\ d.old \in SUBSET Faults
                                     /\ d.stamp \in Nat /\ d.passed \in BOOLEAN
               /\ d.pc = "replace" => /\ d.set \in SUBSET Faults /\ d.old \in SUBSET Faults
                                      /\ d.stamp \in Nat /\ d.passed \in BOOLEAN
                                      /\ d.found \in SUBSET FaultRow
               /\ d.pc = "logged" => /\ d.gone \in SUBSET FaultRow /\ d.new \in SUBSET FaultRow
                                     /\ d.passed \in BOOLEAN /\ d.note \in SUBSET Faults
                                     /\ d.logs \in BOOLEAN
<1> DEFINE d == updater[w]
<1>1. d \in {AtEase} \cup Errands /\ AtEase.pc = "rest"
  BY DEF LogTyped, AtEase
<1>2. d.pc = "rewrite" => d.old.standing = "Open" /\ d.new.standing = "Open"
  BY DEF LogTyped
<1> HIDE DEF d
<1>3. d.pc = "insert" => d.row \in Routes /\ d.courier \in Couriers \cup {Unset}
                         /\ d.note \in Notes \cup {Unset}
  BY <1>1 DEF Errands
<1>4. d.pc = "rewrite" => d.row \in Routes /\ d.old \in RouteRow /\ d.new \in RouteRow
  BY <1>1 DEF Errands
<1>5. d.pc = "remove" => d.row \in Routes
  BY <1>1 DEF Errands
<1>6. d.pc \in {"clear", "assign"} => d.ids \in SUBSET Admins
  BY <1>1 DEF Errands
<1>7. d.pc = "delete" => /\ d.set \in SUBSET Faults /\ d.old \in SUBSET Faults
                         /\ d.stamp \in Nat /\ d.passed \in BOOLEAN
  BY <1>1 DEF Errands
<1>8. d.pc = "replace" => /\ d.set \in SUBSET Faults /\ d.old \in SUBSET Faults
                          /\ d.stamp \in Nat /\ d.passed \in BOOLEAN
                          /\ d.found \in SUBSET FaultRow
  BY <1>1 DEF Errands
<1>9. d.pc = "logged" => /\ d.gone \in SUBSET FaultRow /\ d.new \in SUBSET FaultRow
                         /\ d.passed \in BOOLEAN /\ d.note \in SUBSET Faults
                         /\ d.logs \in BOOLEAN
  BY <1>1 DEF Errands
<1> QED
  BY <1>2, <1>3, <1>4, <1>5, <1>6, <1>7, <1>8, <1>9 DEF d

LEMMA CategoriesAre == \A rows \in SUBSET FaultRow : Categories(rows) \in SUBSET Faults
BY DEF Categories, FaultRow

\* A request begins: nothing else has changed.
LEMMA TurnKeeps ==
    ASSUME LogInv, NEW w \in Updaters, NEW d \in Errands, Turn(w, d),
           d.pc = "rewrite" => d.old.standing = "Open" /\ d.new.standing = "Open",
           d.pc \notin {"replace", "logged"},
           d.pc = "delete" => d.old = Categories(faults)
    PROVE  LogInv'
<1>1. /\ UNCHANGED <<route, staff, faults, log, unlogged>>
      /\ updater' = [updater EXCEPT ![w] = d] /\ updates' \in 0 .. MaxUpdates
  BY OrderLogAssumption DEF Turn, LogInv, LogTyped
<1>2. updater'[w] = d /\ \A x \in Updaters \ {w} : updater'[x] = updater[x]
  BY <1>1 DEF LogInv, LogTyped
<1>3. updater' \in [Updaters -> {AtEase} \cup Errands]
  BY <1>1 DEF LogInv, LogTyped
<1>4. LogTyped'
  BY <1>1, <1>2, <1>3 DEF LogInv, LogTyped
<1>5. LogTellsTheRows'
  BY <1>1 DEF LogInv, LogTellsTheRows, Categories
<1>6. Categories(faults') = Categories(faults)
  BY <1>1
<1>7. ASSUME NEW x \in Updaters PROVE ProblemsRead(x)'
  <2>1. ProblemsRead(x)
    BY DEF LogInv
  <2>2. CASE x = w
    BY <1>2, <1>6, <2>2 DEF ProblemsRead
  <2>3. CASE x # w
    BY <1>1, <1>2, <1>6, <2>1, <2>3 DEF ProblemsRead
  <2> QED
    BY <2>2, <2>3
<1> QED
  BY <1>4, <1>5, <1>7 DEF LogInv

\* It ends and leaves the problems alone.
LEMMA LeaveKeeps ==
    ASSUME LogInv, NEW w \in Updaters, Leave(w), faults' = faults, log'.faults = log.faults,
           "problems" \in unlogged' <=> "problems" \in unlogged,
           route' \in [Routes -> RouteRow], staff' \subseteq Admins,
           log' \in [route : [Routes -> RouteRow], staff : SUBSET Admins, faults : SUBSET Faults],
           unlogged' \subseteq Routes \cup Admins \cup {"problems"},
           \A t \in Routes \ unlogged' :
              log'.route[t] = IF route'[t].standing = "Open" THEN route'[t] ELSE NoRoute,
           \A a \in Admins \ unlogged' : a \in log'.staff <=> a \in staff'
    PROVE  LogInv'
<1>1. updater' = [updater EXCEPT ![w] = AtEase] /\ updates' = updates /\ AtEase.pc = "rest"
  BY DEF Leave, AtEase
<1>2. updater'[w] = AtEase /\ \A x \in Updaters \ {w} : updater'[x] = updater[x]
  BY <1>1 DEF LogInv, LogTyped
<1>3. updater' \in [Updaters -> {AtEase} \cup Errands]
  BY <1>1 DEF LogInv, LogTyped
<1>4. LogTyped'
  BY <1>1, <1>2, <1>3 DEF LogInv, LogTyped
<1>5. /\ \A x \in Updaters : ProblemsRead(x)'
      /\ "problems" \notin unlogged' => log'.faults = Categories(faults)
  BY <1>1, <1>2, ProblemsUntouched
<1>6. Categories(faults') = Categories(faults)
  OBVIOUS
<1>7. LogTellsTheRows'
  BY <1>5, <1>6 DEF LogTellsTheRows
<1> QED
  BY <1>4, <1>5, <1>7 DEF LogInv

LEMMA NoRouteIs == NoRoute \in RouteRow /\ NoRoute.standing = "absent"
BY DEF NoRoute, RouteRow

\* Requests that begin.
LEMMA BeginKeeps ==
    ASSUME LogInv, NEW w \in Updaters,
           \/ \E t \in Routes :
                \/ \E c \in Couriers \cup {Unset}, n \in Notes \cup {Unset} :
                     CreateRoute(w, t, c, n) \/ UpdateRoute(w, t, c, n)
                \/ DeleteRoute(w, t)
           \/ \E ids \in SUBSET Admins : AssignAdmins(w, ids)
           \/ \E some \in SUBSET Faults : UpdateProblems(w, some)
    PROVE  LogInv'
<1>1. ASSUME NEW t \in Routes, NEW c \in Couriers \cup {Unset}, NEW n \in Notes \cup {Unset},
             CreateRoute(w, t, c, n)
      PROVE  LogInv'
  <2> DEFINE d == [pc |-> "insert", row |-> t, courier |-> c, note |-> n]
  <2>1. d \in Errands /\ d.pc = "insert"
    BY DEF Errands
  <2>2. Turn(w, d)
    BY <1>1 DEF CreateRoute
  <2> HIDE DEF d
  <2> QED
    BY <2>1, <2>2, TurnKeeps
<1>2. ASSUME NEW t \in Routes, NEW c \in Couriers \cup {Unset}, NEW n \in Notes \cup {Unset},
             UpdateRoute(w, t, c, n)
      PROVE  LogInv'
  <2> DEFINE new == [standing |-> "Open",
                     courier |-> IF c = Unset THEN route[t].courier ELSE c,
                     note |-> IF n = Unset THEN route[t].note ELSE n]
             d == [pc |-> "rewrite", row |-> t, old |-> route[t], new |-> new]
  <2>1. route[t] \in RouteRow /\ route[t].standing = "Open"
    BY <1>2 DEF LogInv, LogTyped, UpdateRoute
  <2>2. new \in RouteRow /\ new.standing = "Open"
    BY <2>1 DEF RouteRow
  <2>3. Turn(w, d)
    BY <1>2 DEF UpdateRoute
  <2> HIDE DEF new
  <2>4. d \in Errands /\ d.pc = "rewrite" /\ d.old.standing = "Open" /\ d.new.standing = "Open"
    BY <2>1, <2>2 DEF Errands
  <2> HIDE DEF d
  <2> QED
    BY <2>3, <2>4, TurnKeeps
<1>3. ASSUME NEW t \in Routes, DeleteRoute(w, t) PROVE LogInv'
  <2> DEFINE d == [pc |-> "remove", row |-> t]
  <2>1. d \in Errands /\ d.pc = "remove"
    BY DEF Errands
  <2>2. Turn(w, d)
    BY <1>3 DEF DeleteRoute
  <2> HIDE DEF d
  <2> QED
    BY <2>1, <2>2, TurnKeeps
<1>4. ASSUME NEW ids \in SUBSET Admins, AssignAdmins(w, ids) PROVE LogInv'
  <2> DEFINE d == IF ids = {} THEN [pc |-> "clear", ids |-> staff]
                  ELSE [pc |-> "assign", ids |-> ids \ staff]
  <2>0. staff \in SUBSET Admins
    BY DEF LogInv, LogTyped
  <2>1. d \in Errands /\ d.pc \in {"clear", "assign"}
    BY <2>0 DEF Errands
  <2>2. Turn(w, d)
    BY <1>4 DEF AssignAdmins
  <2> HIDE DEF d
  <2> QED
    BY <2>1, <2>2, TurnKeeps
<1>5. ASSUME NEW some \in SUBSET Faults, UpdateProblems(w, some) PROVE LogInv'
  <2> DEFINE old == Categories(faults)
             d == [pc |-> "delete", set |-> some, old |-> old, stamp |-> updates + 1,
                   passed |-> FALSE]
  <2>1. old \in SUBSET Faults /\ updates + 1 \in Nat
    BY CategoriesAre, OrderLogAssumption DEF LogInv, LogTyped
  <2>2. Turn(w, d)
    BY <1>5 DEF UpdateProblems
  <2> HIDE DEF old
  <2>3. d \in Errands /\ d.pc = "delete" /\ d.old = old
    BY <2>1 DEF Errands
  <2> HIDE DEF d
  <2> QED
    BY <2>2, <2>3, TurnKeeps DEF old
<1> QED
  BY <1>1, <1>2, <1>3, <1>4, <1>5

\* Pickups and deliveries are written.
LEMMA RouteKeeps ==
    ASSUME LogInv, NEW w \in Updaters, InsertRoute(w) \/ WriteRoute(w) \/ EraseRoute(w)
    PROVE  LogInv'
<1> DEFINE d == updater[w]
           t == d.row
<1>1. /\ route \in [Routes -> RouteRow] /\ staff \subseteq Admins
      /\ log \in [route : [Routes -> RouteRow], staff : SUBSET Admins, faults : SUBSET Faults]
      /\ unlogged \subseteq Routes \cup Admins \cup {"problems"}
      /\ \A u \in Routes \ unlogged :
            log.route[u] = IF route[u].standing = "Open" THEN route[u] ELSE NoRoute
      /\ \A a \in Admins \ unlogged : a \in log.staff <=> a \in staff
  BY DEF LogInv, LogTyped, LogTellsTheRows
<1>2. /\ d.pc = "insert" => t \in Routes /\ d.courier \in Couriers \cup {Unset}
                            /\ d.note \in Notes \cup {Unset}
      /\ d.pc = "rewrite" => /\ t \in Routes /\ d.old \in RouteRow /\ d.new \in RouteRow
                             /\ d.old.standing = "Open" /\ d.new.standing = "Open"
      /\ d.pc = "remove" => t \in Routes
  BY ErrandsAre DEF LogInv
<1>3. Leave(w) /\ staff' = staff /\ faults' = faults
  BY DEF InsertRoute, WriteRoute, EraseRoute
<1> DEFINE OneRoute(new, shown) ==
             /\ t \in Routes /\ new \in RouteRow /\ shown \in RouteRow
             /\ route' = [route EXCEPT ![t] = new]
             /\ log' = [log EXCEPT !.route[t] = shown]
<1>4. ASSUME NEW new, NEW shown, OneRoute(new, shown),
             unlogged' \in {unlogged, unlogged \cup {t}, unlogged \ {t}},
             t \notin unlogged' => shown = IF new.standing = "Open" THEN new ELSE NoRoute
      PROVE  LogInv'
  <2>1. /\ route' \in [Routes -> RouteRow] /\ route'[t] = new
        /\ \A u \in Routes \ {t} : route'[u] = route[u]
    BY <1>1, <1>4
  <2>2. /\ log' \in [route : [Routes -> RouteRow], staff : SUBSET Admins, faults : SUBSET Faults]
        /\ log'.staff = log.staff /\ log'.faults = log.faults /\ log'.route[t] = shown
        /\ \A u \in Routes \ {t} : log'.route[u] = log.route[u]
    <3> DEFINE routes == [log.route EXCEPT ![t] = shown]
    <3>1. log' = [log EXCEPT !.route = routes]
      BY <1>4
    <3>2. /\ routes \in [Routes -> RouteRow] /\ routes[t] = shown
          /\ \A u \in Routes \ {t} : routes[u] = log.route[u]
      BY <1>1, <1>4
    <3> HIDE DEF routes
    <3> QED
      BY <1>1, <3>1, <3>2
  <2>3. /\ t \notin Admins /\ t # "problems" /\ unlogged' \subseteq Routes \cup Admins \cup {"problems"}
    BY <1>1, <1>4, OrderLogAssumption
  <2>4. ASSUME NEW u \in Routes \ unlogged'
        PROVE  log'.route[u] = IF route'[u].standing = "Open" THEN route'[u] ELSE NoRoute
    BY <1>1, <1>4, <2>1, <2>2
  <2>5. ASSUME NEW a \in Admins \ unlogged' PROVE a \in log'.staff <=> a \in staff'
    BY <1>1, <1>3, <1>4, <2>2, <2>3
  <2>6. "problems" \in unlogged' <=> "problems" \in unlogged
    BY <1>4, <2>3
  <2> QED
    BY <1>1, <1>3, <2>1, <2>2, <2>3, <2>4, <2>5, <2>6, LeaveKeeps
<1>5. CASE InsertRoute(w)
  <2> DEFINE new == [standing |-> "Open", courier |-> d.courier, note |-> d.note]
  <2>1. d.pc = "insert" /\ route' = [route EXCEPT ![t] = new] /\ unlogged' = unlogged
        /\ log' = [log EXCEPT !.route[t] = route'[t]]
    BY <1>5 DEF InsertRoute
  <2>2. new \in RouteRow /\ new.standing = "Open"
    BY <1>2, <2>1 DEF RouteRow
  <2> HIDE DEF new
  <2>3. route'[t] = new
    BY <1>1, <1>2, <2>1
  <2> QED
    BY <1>2, <1>4, <2>1, <2>2, <2>3
<1>6. CASE WriteRoute(w)
  <2> DEFINE new == [d.new EXCEPT !.standing = route[t].standing]
             shown == IF d.new = d.old THEN log.route[t] ELSE d.new
  <2>1. /\ d.pc = "rewrite" /\ route' = [route EXCEPT ![t] = new]
        /\ log' = IF d.new = d.old THEN log ELSE [log EXCEPT !.route[t] = d.new]
        /\ unlogged' = CASE d.new # d.old /\ route[t].standing = "Open" -> unlogged \ {t}
                          [] route[t] = d.old /\ d.new = d.old -> unlogged
                          [] OTHER -> unlogged \cup {t}
    BY <1>6 DEF WriteRoute
  <2>2. /\ t \in Routes /\ route[t] \in RouteRow /\ d.new \in RouteRow /\ d.new.standing = "Open"
        /\ log.route[t] \in RouteRow /\ d.old.standing = "Open"
    BY <1>1, <1>2, <2>1
  <2>3. new \in RouteRow /\ new.standing = route[t].standing
    BY <2>2 DEF RouteRow
  <2>4. route[t].standing = "Open" => new = d.new
    BY <2>2 DEF RouteRow
  <2>5. log' = [log EXCEPT !.route[t] = shown]
    <3>1. [log.route EXCEPT ![t] = log.route[t]] = log.route
      BY <1>1
    <3>2. [log EXCEPT !.route = log.route] = log
      BY <1>1
    <3> QED
      BY <2>1, <3>1, <3>2
  <2> HIDE DEF new
  <2>6. shown \in RouteRow
    BY <2>2
  <2>7. CASE d.new # d.old /\ route[t].standing = "Open"
    <3>1. shown = new /\ new.standing = "Open" /\ unlogged' = unlogged \ {t}
      BY <2>1, <2>2, <2>4, <2>7
    <3> QED
      BY <1>4, <2>1, <2>2, <2>3, <2>5, <2>6, <3>1
  <2>8. CASE route[t] = d.old /\ d.new = d.old
    <3>1. shown = log.route[t] /\ new = route[t] /\ unlogged' = unlogged
      BY <2>1, <2>2, <2>4, <2>8
    <3> HIDE DEF shown
    <3> QED
      BY <1>1, <1>4, <2>1, <2>2, <2>3, <2>5, <2>6, <3>1
  <2>9. CASE ~(d.new # d.old /\ route[t].standing = "Open") /\ ~(route[t] = d.old /\ d.new = d.old)
    <3>1. unlogged' = unlogged \cup {t}
      BY <2>1, <2>9
    <3> HIDE DEF shown
    <3> QED
      BY <1>4, <2>1, <2>2, <2>3, <2>5, <2>6, <3>1
  <2> QED
    BY <2>7, <2>8, <2>9
<1>7. CASE EraseRoute(w)
  <2> DEFINE new == [route[t] EXCEPT !.standing = "Deleted"]
  <2>1. d.pc = "remove" /\ route' = [route EXCEPT ![t].standing = "Deleted"]
        /\ unlogged' = unlogged \ {t} /\ log' = [log EXCEPT !.route[t] = NoRoute]
    BY <1>7 DEF EraseRoute
  <2>2. t \in Routes /\ new \in RouteRow /\ new.standing = "Deleted"
    <3>1. t \in Routes /\ route[t] \in RouteRow
      BY <1>1, <1>2, <2>1
    <3> QED
      BY <3>1 DEF RouteRow
  <2>3. route' = [route EXCEPT ![t] = new]
    BY <2>1
  <2> HIDE DEF new
  <2> QED
    BY <1>4, <2>1, <2>2, <2>3, NoRouteIs
<1> QED
  BY <1>5, <1>6, <1>7

\* Admins are assigned and removed.
LEMMA StaffKeeps ==
    ASSUME LogInv, NEW w \in Updaters, InsertAdmins(w) \/ ClearAdmins(w)
    PROVE  LogInv'
<1> DEFINE ids == updater[w].ids
<1>1. /\ route \in [Routes -> RouteRow] /\ staff \subseteq Admins
      /\ log \in [route : [Routes -> RouteRow], staff : SUBSET Admins, faults : SUBSET Faults]
      /\ unlogged \subseteq Routes \cup Admins \cup {"problems"}
      /\ \A u \in Routes \ unlogged :
            log.route[u] = IF route[u].standing = "Open" THEN route[u] ELSE NoRoute
      /\ \A a \in Admins \ unlogged : a \in log.staff <=> a \in staff
  BY DEF LogInv, LogTyped, LogTellsTheRows
<1>2. ids \in SUBSET Admins /\ Leave(w) /\ route' = route /\ faults' = faults
  BY ErrandsAre DEF InsertAdmins, ClearAdmins, LogInv
<1>3. \A a \in Admins : a \notin Routes /\ a # "problems"
  BY OrderLogAssumption
<1> HIDE DEF ids
<1>4. CASE InsertAdmins(w)
  <2>1. /\ staff' = staff \cup ids /\ unlogged' = unlogged \ ids
        /\ log' = [log EXCEPT !.staff = log.staff \cup ids]
    BY <1>4 DEF InsertAdmins, ids
  <2>2. /\ log' \in [route : [Routes -> RouteRow], staff : SUBSET Admins, faults : SUBSET Faults]
        /\ log'.staff = log.staff \cup ids /\ log'.faults = log.faults /\ log'.route = log.route
    BY <1>1, <1>2, <2>1
  <2>3. "problems" \in unlogged' <=> "problems" \in unlogged
    BY <1>2, <1>3, <2>1
  <2>4. \A u \in Routes \ unlogged' : u \notin unlogged
    BY <1>2, <1>3, <2>1
  <2>5. \A a \in Admins \ unlogged' : a \in log'.staff <=> a \in staff'
    BY <1>1, <2>1, <2>2
  <2> QED
    BY <1>1, <1>2, <2>1, <2>2, <2>3, <2>4, <2>5, LeaveKeeps
<1>5. CASE ClearAdmins(w)
  <2>1. /\ staff' = {} /\ unlogged' = unlogged \cup (staff \ ids)
        /\ log' = [log EXCEPT !.staff = log.staff \ ids]
    BY <1>5 DEF ClearAdmins, ids
  <2>2. /\ log' \in [route : [Routes -> RouteRow], staff : SUBSET Admins, faults : SUBSET Faults]
        /\ log'.staff = log.staff \ ids /\ log'.faults = log.faults /\ log'.route = log.route
    BY <1>1, <1>2, <2>1
  <2>3. "problems" \in unlogged' <=> "problems" \in unlogged
    BY <1>1, <1>3, <2>1
  <2>4. \A u \in Routes \ unlogged' : u \notin unlogged
    BY <2>1
  <2>5. \A a \in Admins \ unlogged' : a \in log'.staff <=> a \in staff'
    BY <1>1, <2>1, <2>2
  <2> QED
    BY <1>1, <1>2, <2>1, <2>2, <2>3, <2>4, <2>5, LeaveKeeps
<1> QED
  BY <1>4, <1>5

LEMMA RemovalKeeps ==
    ASSUME LogInv, NEW ids \in SUBSET Admins, RemoveAdmins(ids) PROVE LogInv'
<1>1. /\ staff \subseteq Admins /\ unlogged \subseteq Routes \cup Admins \cup {"problems"}
      /\ log \in [route : [Routes -> RouteRow], staff : SUBSET Admins, faults : SUBSET Faults]
      /\ \A u \in Routes \ unlogged :
            log.route[u] = IF route[u].standing = "Open" THEN route[u] ELSE NoRoute
      /\ \A a \in Admins \ unlogged : a \in log.staff <=> a \in staff
  BY DEF LogInv, LogTyped, LogTellsTheRows
<1>2. /\ staff' = staff \ ids /\ unlogged' = unlogged \ ids /\ updates' \in 0 .. MaxUpdates
      /\ log' = [log EXCEPT !.staff = log.staff \ ids]
      /\ UNCHANGED <<route, faults, updater>>
  BY OrderLogAssumption DEF RemoveAdmins, LogInv, LogTyped
<1>3. \A a \in Admins : a \notin Routes /\ a # "problems"
  BY OrderLogAssumption
<1>4. /\ log' \in [route : [Routes -> RouteRow], staff : SUBSET Admins, faults : SUBSET Faults]
      /\ log'.staff = log.staff \ ids /\ log'.faults = log.faults /\ log'.route = log.route
  BY <1>1, <1>2
<1>5. LogTyped'
  BY <1>1, <1>2, <1>4 DEF LogInv, LogTyped
<1>6. "problems" \in unlogged' <=> "problems" \in unlogged
  BY <1>2, <1>3
<1>7. \A u \in Routes \ unlogged' : u \notin unlogged
  BY <1>2, <1>3
<1>8. \A a \in Admins \ unlogged' : a \in log'.staff <=> a \in staff'
  BY <1>1, <1>2, <1>4
<1>9. /\ \A x \in Updaters : ProblemsRead(x)'
      /\ "problems" \notin unlogged' => log'.faults = Categories(faults)
  BY <1>2, <1>4, <1>6, ProblemsUntouched
<1>10. Categories(faults') = Categories(faults)
  BY <1>2
<1>11. LogTellsTheRows'
  BY <1>1, <1>2, <1>4, <1>7, <1>8, <1>9, <1>10 DEF LogTellsTheRows
<1> QED
  BY <1>5, <1>9, <1>11 DEF LogInv

\* The problems are found and replaced, still for the request's eyes only.
LEMMA ReplacingKeeps ==
    ASSUME LogInv, NEW w \in Updaters, FindRows(w) \/ ReplaceRows(w) PROVE LogInv'
<1> DEFINE d == updater[w]
<1>1. UNCHANGED <<route, staff, faults, log, updates, unlogged>>
  BY DEF FindRows, ReplaceRows
<1>2. faults \in SUBSET FaultRow /\ Categories(faults) \in SUBSET Faults
  BY CategoriesAre DEF LogInv, LogTyped
<1>3. ProblemsRead(w)
  BY DEF LogInv
<1>4. ASSUME NEW i \in Errands, updater' = [updater EXCEPT ![w] = i], i.pc \in {"replace", "logged"},
             i.pc = "replace" /\ ~i.passed => i.old = Categories(faults) /\ i.found = faults,
             i.pc = "logged" /\ ~i.passed => /\ i.gone = faults /\ i.note = Categories(i.new)
                                             /\ i.logs = (Categories(faults) # i.note)
      PROVE  LogInv'
  <2>1. updater'[w] = i /\ \A x \in Updaters \ {w} : updater'[x] = updater[x]
    BY <1>4 DEF LogInv, LogTyped
  <2>2. updater' \in [Updaters -> {AtEase} \cup Errands]
    BY <1>4 DEF LogInv, LogTyped
  <2>3. LogTyped'
    BY <1>1, <1>4, <2>1, <2>2 DEF LogInv, LogTyped
  <2>4. LogTellsTheRows'
    BY <1>1 DEF LogInv, LogTellsTheRows, Categories
  <2>5. Categories(faults') = Categories(faults)
    BY <1>1
  <2>6. ASSUME NEW x \in Updaters PROVE ProblemsRead(x)'
    <3>1. ProblemsRead(x)
      BY DEF LogInv
    <3>2. CASE x = w
      BY <1>1, <1>4, <2>1, <2>5, <3>2 DEF ProblemsRead
    <3>3. CASE x # w
      BY <1>1, <2>1, <2>5, <3>1, <3>3 DEF ProblemsRead
    <3> QED
      BY <3>2, <3>3
  <2> QED
    BY <2>3, <2>4, <2>6 DEF LogInv
<1>5. CASE FindRows(w)
  <2> DEFINE i == [pc |-> "replace", set |-> d.set, old |-> d.old, stamp |-> d.stamp,
                   found |-> faults, passed |-> d.passed]
  <2>1. d.pc = "delete" /\ updater' = [updater EXCEPT ![w] = i]
    BY <1>5 DEF FindRows
  <2>2. d.set \in SUBSET Faults /\ d.old \in SUBSET Faults /\ d.stamp \in Nat /\ d.passed \in BOOLEAN
    BY <2>1, ErrandsAre DEF LogInv
  <2>3. i \in Errands /\ i.pc = "replace" /\ i.passed = d.passed /\ i.old = d.old /\ i.found = faults
    BY <1>2, <2>2 DEF Errands
  <2>4. ~d.passed => d.old = Categories(faults)
    BY <1>3, <2>1 DEF ProblemsRead
  <2> HIDE DEF i
  <2> QED
    BY <1>4, <2>1, <2>3, <2>4
<1>6. CASE ReplaceRows(w)
  <2> DEFINE gone == d.found \cap faults
             new == {[of |-> f, by |-> d.stamp] : f \in d.set}
             current == Categories((faults \ gone) \cup new)
             note == IF d.set = {} THEN {} ELSE current
             logs == d.old # note
             i == [pc |-> "logged", gone |-> gone, new |-> new, passed |-> d.passed,
                   note |-> note, logs |-> logs]
  <2>1. d.pc = "replace" /\ updater' = [updater EXCEPT ![w] = i]
    BY <1>6 DEF ReplaceRows
  <2>2. /\ d.set \in SUBSET Faults /\ d.old \in SUBSET Faults /\ d.stamp \in Nat
        /\ d.passed \in BOOLEAN /\ d.found \in SUBSET FaultRow
    BY <2>1, ErrandsAre DEF LogInv
  <2>3. new \in SUBSET FaultRow /\ gone \in SUBSET FaultRow
    BY <1>2, <2>2 DEF FaultRow
  <2>4. note \in SUBSET Faults /\ logs \in BOOLEAN
    <3>1. (faults \ gone) \cup new \in SUBSET FaultRow
      BY <1>2, <2>3
    <3>2. current \in SUBSET Faults
      BY <3>1, CategoriesAre
    <3> QED
      BY <3>2
  <2>5. ~d.passed => gone = faults /\ note = Categories(new) /\ d.old = Categories(faults)
    <3> SUFFICES ASSUME ~d.passed
                 PROVE  gone = faults /\ note = Categories(new) /\ d.old = Categories(faults)
      OBVIOUS
    <3>1. d.found = faults /\ d.old = Categories(faults)
      BY <1>3, <2>1 DEF ProblemsRead
    <3>2. gone = faults
      BY <3>1
    <3>3. (faults \ gone) \cup new = new
      BY <3>2
    <3>4. d.set = {} => Categories(new) = {}
      BY DEF Categories
    <3> QED
      BY <3>1, <3>2, <3>3, <3>4
  <2> HIDE DEF gone, new, note, logs
  <2>6. /\ i \in Errands /\ i.pc = "logged" /\ i.passed = d.passed /\ i.gone = gone
        /\ i.new = new /\ i.note = note /\ i.logs = logs
    BY <2>2, <2>3, <2>4 DEF Errands
  <2>7. ~d.passed => logs = (Categories(faults) # note)
    BY <2>5 DEF logs
  <2> HIDE DEF i
  <2> QED
    BY <1>4, <2>1, <2>5, <2>6, <2>7
<1> QED
  BY <1>5, <1>6

\* What is committed is what has been logged, unless somebody else came first.
LEMMA CommitKeeps ==
    ASSUME LogInv, NEW w \in Updaters, CommitRows(w) PROVE LogInv'
<1> DEFINE d == updater[w]
<1>1. /\ route \in [Routes -> RouteRow] /\ staff \subseteq Admins /\ faults \subseteq FaultRow
      /\ log \in [route : [Routes -> RouteRow], staff : SUBSET Admins, faults : SUBSET Faults]
      /\ unlogged \subseteq Routes \cup Admins \cup {"problems"}
      /\ \A u \in Routes \ unlogged :
            log.route[u] = IF route[u].standing = "Open" THEN route[u] ELSE NoRoute
      /\ \A a \in Admins \ unlogged : a \in log.staff <=> a \in staff
      /\ "problems" \notin unlogged => log.faults = Categories(faults)
      /\ updater \in [Updaters -> {AtEase} \cup Errands]
  BY DEF LogInv, LogTyped, LogTellsTheRows
<1>2. /\ d.pc = "logged" /\ faults' = (faults \ d.gone) \cup d.new
      /\ log' = IF d.logs THEN [log EXCEPT !.faults = d.note] ELSE log
      /\ unlogged' = CASE d.passed -> unlogged \cup {"problems"}
                        [] d.logs /\ ~d.passed -> unlogged \ {"problems"}
                        [] OTHER -> unlogged
      /\ updater' = [x \in Updaters |->
              IF x = w THEN AtEase
              ELSE IF updater[x].pc \in {"delete", "replace", "logged"}
              THEN [updater[x] EXCEPT !.passed = TRUE] ELSE updater[x]]
      /\ UNCHANGED <<route, staff, updates>>
  BY DEF CommitRows
<1>3. /\ d.gone \in SUBSET FaultRow /\ d.new \in SUBSET FaultRow
      /\ d.passed \in BOOLEAN /\ d.note \in SUBSET Faults /\ d.logs \in BOOLEAN
  BY <1>2, ErrandsAre DEF LogInv
<1>4. ~d.passed => d.gone = faults /\ d.note = Categories(d.new) /\ d.logs = (Categories(faults) # d.note)
  BY <1>2 DEF LogInv, ProblemsRead
<1>5. /\ log' \in [route : [Routes -> RouteRow], staff : SUBSET Admins, faults : SUBSET Faults]
      /\ log'.staff = log.staff /\ log'.route = log.route
      /\ log'.faults = IF d.logs THEN d.note ELSE log.faults
  BY <1>1, <1>2, <1>3
<1>6. /\ unlogged' \subseteq unlogged \cup {"problems"} /\ unlogged \ {"problems"} \subseteq unlogged'
      /\ d.passed => "problems" \in unlogged'
      /\ ~d.passed /\ ~d.logs => unlogged' = unlogged
  BY <1>2, <1>3
<1>7. "problems" \notin unlogged' => log'.faults = Categories(faults')
  <2> SUFFICES ASSUME "problems" \notin unlogged' PROVE log'.faults = Categories(faults')
    OBVIOUS
  <2>1. ~d.passed
    BY <1>6
  <2>2. faults' = d.new
    BY <1>2, <1>4, <2>1
  <2>3. d.note = Categories(faults')
    BY <1>4, <2>1, <2>2
  <2>4. CASE d.logs
    BY <1>5, <2>3, <2>4
  <2>5. CASE ~d.logs
    BY <1>1, <1>4, <1>5, <1>6, <2>1, <2>3, <2>5
  <2> QED
    BY <2>4, <2>5
<1>8. \A e \in Routes \cup Admins : e \notin unlogged' => e \notin unlogged
  BY <1>6, OrderLogAssumption
<1>9. LogTellsTheRows'
  BY <1>1, <1>2, <1>5, <1>7, <1>8 DEF LogTellsTheRows
<1>10. ASSUME NEW x \in Updaters
       PROVE  /\ updater'[x] \in {AtEase} \cup Errands
              /\ updater'[x].pc = "rewrite" => updater'[x] = updater[x]
              /\ updater'[x].pc \in {"delete", "replace", "logged"} => updater'[x].passed
  <2>1. AtEase.pc = "rest"
    BY DEF AtEase
  <2>2. CASE x = w
    BY <1>2, <2>1, <2>2
  <2>3. CASE x # w /\ updater[x].pc \notin {"delete", "replace", "logged"}
    BY <1>1, <1>2, <2>3
  <2>4. CASE x # w /\ updater[x].pc \in {"delete", "replace", "logged"}
    <3> DEFINE e == updater[x]
               i == [e EXCEPT !.passed = TRUE]
    <3>1. updater'[x] = i
      BY <1>2, <2>4
    <3>2. e \in Errands
      BY <1>1, <2>1, <2>4
    <3> HIDE DEF e
    <3>3. i \in Errands /\ i.pc = e.pc /\ i.passed = TRUE
      BY <2>4, <3>2 DEF Errands, e
    <3> HIDE DEF i
    <3> QED
      BY <2>4, <3>1, <3>3 DEF e
  <2> QED
    BY <2>2, <2>3, <2>4
<1>11. updater' \in [Updaters -> {AtEase} \cup Errands]
  BY <1>2, <1>10
<1>12. LogTyped'
  <2>1. faults' \subseteq FaultRow /\ unlogged' \subseteq Routes \cup Admins \cup {"problems"}
    BY <1>1, <1>2, <1>3, <1>6
  <2> QED
    BY <1>1, <1>2, <1>5, <1>10, <1>11, <2>1 DEF LogInv, LogTyped
<1>13. \A x \in Updaters : ProblemsRead(x)'
  BY <1>10 DEF ProblemsRead
<1> QED
  BY <1>9, <1>12, <1>13 DEF LogInv

LEMMA LogStepKeeps == LogInv /\ [LogNext]_logVars => LogInv'
<1> SUFFICES ASSUME LogInv, [LogNext]_logVars PROVE LogInv'
  OBVIOUS
<1>1. CASE UNCHANGED logVars
  BY <1>1 DEF logVars, LogInv, LogTyped, LogTellsTheRows, ProblemsRead, Categories
<1>2. ASSUME NEW w \in Updaters, RollBack(w) PROVE LogInv'
  <2>1. Leave(w) /\ UNCHANGED <<route, staff, faults, log, unlogged>>
    BY <1>2 DEF RollBack
  <2> QED
    BY <2>1, LeaveKeeps DEF LogInv, LogTyped, LogTellsTheRows
<1> QED
  BY <1>1, <1>2, BeginKeeps, RouteKeeps, StaffKeeps, RemovalKeeps, ReplacingKeeps, CommitKeeps
  DEF LogNext

LEMMA LogInitKeeps == LogInit => LogInv
<1> SUFFICES ASSUME LogInit PROVE LogInv
  OBVIOUS
<1>1. Categories({}) = {} /\ AtEase.pc = "rest" /\ 0 \in 0 .. MaxUpdates
  BY OrderLogAssumption DEF Categories, AtEase
<1>2. LogTyped
  BY <1>1, NoRouteIs DEF LogInit, LogTyped
<1>3. LogTellsTheRows
  BY <1>1, NoRouteIs DEF LogInit, LogTellsTheRows
<1>4. \A w \in Updaters : ProblemsRead(w)
  BY <1>1 DEF LogInit, ProblemsRead
<1> QED
  BY <1>2, <1>3, <1>4 DEF LogInv

LEMMA LogIsTyped == LogInv => LogTypeOK
  BY CategoriesAre DEF LogInv, LogTyped, LogTypeOK, RouteRow

\* The last thing repair_order_change_histories tells of each pickup and
\* delivery, of each assignment and of the problems is what the rows hold, but
\* for the races unlogged names.
THEOREM LogTellsTheRowsHolds == LogSpec => []LogTellsTheRows
<1>1. LogInit => LogInv
  BY LogInitKeeps
<1>2. LogInv /\ [LogNext]_logVars => LogInv'
  BY LogStepKeeps
<1>3. LogInv => LogTellsTheRows
  BY DEF LogInv
<1> QED
  BY <1>1, <1>2, <1>3, PTL DEF LogSpec

-----------------------------------------------------------------------------
(* The comments (OrderComments).                                           *)

Moves == {m \in Written : history[m].field = "status_id"}
Settled == {m \in Moves : history[m].owner = Nobody}
AtWork == {w \in Editors : editor[w] # Resting}

RowsUntil(t) == [field : RowFields, at : 0 .. t, to : Statuses, owner : Editors \cup {Nobody},
                 during : SUBSET Statuses]

\* What a handler is at.
EditorWork == [kind : {"move", "change", "comment", "attach"}, to : Statuses,
         during : SUBSET Statuses, mine : SUBSET RowIds]

CommentsTyped ==
    /\ status \in Statuses /\ now \in 0 .. LastTime
    /\ history \in [RowIds -> {NoRow} \cup RowsUntil(now)]
    /\ comments \in [RowIds -> Statuses \cup {NoStatus}]
    /\ \A id \in RowIds : comments[id] # NoStatus => id \in Written /\ Commentable(id)
    /\ editor \in [Editors -> {Resting} \cup EditorWork]
    /\ script \in [step : {"ended", "fetch", "fill"}, batch : SUBSET RowIds,
                   after : {<<>>} \cup (Nat \X Nat)]
    /\ script.batch \subseteq Seen(Nobody)
    /\ expected \subseteq RowIds /\ late \subseteq RowIds

\* Who wrote a row that no one has committed still has it in hand; the rows in
\* hand saw the order's status and the one their handler gives it.
RowsOwned ==
    /\ \A w \in Editors : \A id \in editor[w].mine :
          /\ id \in Written /\ history[id].owner \in {w, Nobody}
          /\ history[id].owner = Nobody <=> editor[w].kind = "attach"
          /\ status \in history[id].during /\ editor[w].to \in history[id].during
    /\ \A id \in Written : history[id].owner # Nobody => id \in editor[history[id].owner].mine

\* One handler moves the order at a time, and writes one row of its status,
\* which is no older than any other.
MovesAlone ==
    /\ \A w \in AtWork : status \in editor[w].during /\ editor[w].to \in editor[w].during
    /\ \A v, w \in AtWork : editor[v].kind = "move" /\ editor[w].kind = "move" => v = w
    /\ \A m \in Moves \ Settled :
          /\ editor[history[m].owner].kind = "move"
          /\ history[m].to = editor[history[m].owner].to
          /\ \A n \in Moves \ {m} : n \in Settled /\ history[n].at <= history[m].at

\* A row saw every status recorded before it, unless another was recorded in
\* between; the last one recorded is the order's.
RowsSaw ==
    /\ \A m \in Moves : history[m].to \in history[m].during
    /\ \A m \in Settled : \/ history[m].to = status
                          \/ \E n \in Settled \ {m} : history[m].at <= history[n].at
    /\ \A id \in Written : status \in history[id].during \/ Settled # {}
    /\ \A id \in Written, m \in Moves : history[m].at < history[id].at =>
          \/ history[m].to \in history[id].during
          \/ \E n \in Settled \ {m} :
                history[m].at <= history[n].at /\ history[n].at <= history[id].at

\* CommentTellsStatus of one comment, in a form that stays when rows are undone
\* and when others are written.
Told(id) ==
    \/ comments[id] \in history[id].during
    \/ id \in late /\ history[id].at < now /\ \A m \in Moves : history[id].at < history[m].at
    \/ \E m \in Moves :
          /\ history[m].owner \in {history[id].owner, Nobody} /\ history[m].at <= history[id].at
          /\ \/ history[m].at = history[id].at /\ comments[id] = history[m].to
             \/ \E n \in Settled \ {m} : history[n].at = history[m].at

RecordInv == CommentsTyped /\ RowsOwned /\ MovesAlone /\ RowsSaw
CommentsInv == RecordInv /\ \A id \in RowIds : comments[id] # NoStatus => Told(id)

\* Where the script will still meet a row it found without a comment.
Ahead(id) ==
    /\ id \in Seen(Nobody) /\ Commentable(id)
    /\ comments[id] = NoStatus =>
          /\ script.step # "ended"
          /\ script.step = "fetch" => Behind(id, script.after)
          /\ script.step = "fill" =>
                \/ id \in script.batch
                \/ /\ Cardinality(script.batch) >= BatchSize
                   /\ \A b \in script.batch : Precedes(b, id)

OrderCommentsInv == CommentsInv /\ \A id \in expected : Ahead(id)

LEMMA RowsAre ==
    ASSUME CommentsTyped, NEW id \in RowIds
    PROVE  /\ id \in Written <=> history[id].field \in RowFields
           /\ id \in Written => /\ history[id] \in RowsUntil(now) /\ history[id].field \in RowFields
                                /\ history[id].at \in 0 .. now
                                /\ history[id].at \in Nat /\ history[id].at <= now
                                /\ history[id].to \in Statuses
                                /\ history[id].owner \in Editors \cup {Nobody}
                                /\ history[id].during \subseteq Statuses
           /\ id \notin Written => history[id] = NoRow /\ comments[id] = NoStatus
<1>1. history[id] \in {NoRow} \cup RowsUntil(now) /\ now \in Nat /\ NoRow.field \notin RowFields
  BY RowIdsAssumption DEF CommentsTyped, NoRow, RowFields
<1>2. id \in Written <=> history[id] # NoRow
  BY DEF Written
<1>3. id \notin Written => comments[id] = NoStatus
  BY DEF CommentsTyped
<1> QED
  BY <1>1, <1>2, <1>3 DEF RowsUntil

LEMMA EditorsAre ==
    ASSUME CommentsTyped, NEW w \in Editors
    PROVE  LET d == editor[w]
           IN  /\ d \in {Resting} \cup EditorWork
               /\ d.mine \subseteq RowIds
               /\ w \notin AtWork => d = Resting /\ d.mine = {} /\ d.kind = "rest"
               /\ w \in AtWork => /\ d \in EditorWork /\ d # Resting /\ d.to \in Statuses
                                  /\ d.kind \in {"move", "change", "comment", "attach"}
                                  /\ d.during \subseteq Statuses
               /\ d.mine # {} => w \in AtWork
               /\ d.kind \in {"move", "change", "comment", "attach"} => w \in AtWork
<1>1. editor[w] \in {Resting} \cup EditorWork /\ Resting.kind = "rest" /\ Resting.mine = {}
  BY DEF CommentsTyped, Resting
<1> QED
  BY <1>1 DEF EditorWork, AtWork

LEMMA WrittenAre == Written \subseteq RowIds /\ Moves \subseteq Written /\ Settled \subseteq Moves
BY DEF Written, Moves, Settled

\* Of several rows one is the first and one the last: were each of them
\* preceded by another, the sets of those before would get smaller forever.
LEMMA HasFirst ==
    ASSUME NEW S \in SUBSET RowIds, S # {}, \A r \in S : history[r].at \in Nat
    PROVE  \E m \in S : \A n \in S \ {m} : Precedes(m, n)
<1> DEFINE Before(m) == {r \in S : Precedes(r, m)}
           T == {Before(m) : m \in S}
<1>1. IsFiniteSet(S) /\ \A Y \in SUBSET S : IsFiniteSet(Y)
  BY RowIdsAssumption, FS_Subset
<1>2. T \subseteq FiniteSubsetsOf(S) /\ T # {}
  BY <1>1 DEF FiniteSubsetsOf
<1>3. IsWellFoundedOn(StrictSubsetOrdering(S), FiniteSubsetsOf(S))
  BY FS_StrictSubsetOrderingWellFounded
<1> HIDE DEF T
<1>4. \E x \in T : \A y \in T : ~(<<y, x>> \in StrictSubsetOrdering(S))
  BY <1>2, <1>3, WFMin
<1>5. PICK m \in S : \A n \in S : ~(<<Before(n), Before(m)>> \in StrictSubsetOrdering(S))
  BY <1>4 DEF T
<1>6. ASSUME NEW n \in S, NEW r \in S PROVE r \in Nat /\ n \in Nat /\ history[r].at \in Nat /\ history[n].at \in Nat
  BY RowIdsAssumption
<1>7. ASSUME NEW n \in S, Precedes(n, m) PROVE FALSE
  <2>1. n \in Before(m) /\ n \notin Before(n)
    BY <1>6, <1>7 DEF Precedes
  <2>2. ASSUME NEW r \in Before(n) PROVE r \in Before(m)
    BY <1>6, <1>7, <2>2 DEF Precedes
  <2>3. Before(n) \in SUBSET S /\ Before(m) \in SUBSET S
    OBVIOUS
  <2> HIDE DEF Before
  <2>4. <<Before(n), Before(m)>> \in StrictSubsetOrdering(S)
    BY <2>1, <2>2, <2>3 DEF StrictSubsetOrdering
  <2> QED
    BY <1>5, <2>4
<1>8. \A n \in S \ {m} : Precedes(m, n)
  BY <1>6, <1>7 DEF Precedes
<1> QED
  BY <1>8

LEMMA HasLast ==
    ASSUME NEW S \in SUBSET RowIds, S # {}, \A r \in S : history[r].at \in Nat
    PROVE  \E m \in S : \A n \in S \ {m} : Precedes(n, m)
<1> DEFINE After(m) == {r \in S : Precedes(m, r)}
           T == {After(m) : m \in S}
<1>1. IsFiniteSet(S) /\ \A Y \in SUBSET S : IsFiniteSet(Y)
  BY RowIdsAssumption, FS_Subset
<1>2. T \subseteq FiniteSubsetsOf(S) /\ T # {}
  BY <1>1 DEF FiniteSubsetsOf
<1>3. IsWellFoundedOn(StrictSubsetOrdering(S), FiniteSubsetsOf(S))
  BY FS_StrictSubsetOrderingWellFounded
<1> HIDE DEF T
<1>4. \E x \in T : \A y \in T : ~(<<y, x>> \in StrictSubsetOrdering(S))
  BY <1>2, <1>3, WFMin
<1>5. PICK m \in S : \A n \in S : ~(<<After(n), After(m)>> \in StrictSubsetOrdering(S))
  BY <1>4 DEF T
<1>6. ASSUME NEW n \in S, NEW r \in S PROVE r \in Nat /\ n \in Nat /\ history[r].at \in Nat /\ history[n].at \in Nat
  BY RowIdsAssumption
<1>7. ASSUME NEW n \in S, Precedes(m, n) PROVE FALSE
  <2>1. n \in After(m) /\ n \notin After(n)
    BY <1>6, <1>7 DEF Precedes
  <2>2. ASSUME NEW r \in After(n) PROVE r \in After(m)
    BY <1>6, <1>7, <2>2 DEF Precedes
  <2>3. After(n) \in SUBSET S /\ After(m) \in SUBSET S
    OBVIOUS
  <2> HIDE DEF After
  <2>4. <<After(n), After(m)>> \in StrictSubsetOrdering(S)
    BY <2>1, <2>2, <2>3 DEF StrictSubsetOrdering
  <2> QED
    BY <1>5, <2>4
<1>8. \A n \in S \ {m} : Precedes(n, m)
  BY <1>6, <1>7 DEF Precedes
<1> QED
  BY <1>8

\* What the comment on a row says.
LEMMA ResolvedIs ==
    ASSUME CommentsTyped, NEW id \in Written, NEW visible \in SUBSET Written, NEW current
    PROVE  LET r == resolveStatusBy(id, visible, current)
               found == {m \in visible : history[m].field = "status_id"
                                          /\ history[m].at <= history[id].at}
           IN  \/ id \in Moves /\ r = history[id].to
               \/ id \notin Moves /\ found = {} /\ r = current
               \/ /\ id \notin Moves
                  /\ \E m \in found : r = history[m].to /\ \A n \in found \ {m} : Precedes(n, m)
<1> DEFINE r == resolveStatusBy(id, visible, current)
           found == {m \in visible : history[m].field = "status_id"
                                      /\ history[m].at <= history[id].at}
           Last(m) == \A n \in found \ {m} : Precedes(n, m)
<1>1. id \in Moves <=> history[id].field = "status_id"
  BY DEF Moves
<1>2. r = CASE history[id].field = "status_id" -> history[id].to
            [] history[id].field # "status_id" /\ found # {} ->
                  history[CHOOSE m \in found : Last(m)].to
            [] OTHER -> current
  BY DEF resolveStatusBy
<1>3. found \in SUBSET RowIds /\ \A m \in found : history[m].at \in Nat
  BY RowsAre DEF Written
<1>4. found # {} => \E m \in found : Last(m)
  BY <1>3, HasLast
<1> HIDE DEF r, found, Last
<1>5. found # {} => (CHOOSE m \in found : Last(m)) \in found /\ Last(CHOOSE m \in found : Last(m))
  BY <1>4
<1>6. CASE id \in Moves
  <2>1. r = history[id].to
    BY <1>1, <1>2, <1>6
  <2> QED
    BY <1>6, <2>1 DEF r
<1>7. CASE id \notin Moves /\ found = {}
  <2>1. r = current
    BY <1>1, <1>2, <1>7
  <2> QED
    BY <1>7, <2>1 DEF r, found
<1>8. CASE id \notin Moves /\ found # {}
  <2> DEFINE m == CHOOSE x \in found : Last(x)
  <2>1. r = history[m].to
    BY <1>1, <1>2, <1>8
  <2>2. m \in found /\ Last(m)
    BY <1>5, <1>8
  <2> HIDE DEF m
  <2> QED
    BY <1>8, <2>1, <2>2 DEF r, found, Last
<1> QED
  BY <1>6, <1>7, <1>8

\* What a step that leaves the script alone does to the rows it has yet to meet.
LEMMA AheadStays ==
    ASSUME CommentsTyped, \A id \in expected : Ahead(id),
           script' = script, expected' = expected,
           \A id \in Seen(Nobody) : /\ history'[id] # NoRow /\ history'[id].owner = Nobody
                                    /\ history'[id].field = history[id].field
                                    /\ history'[id].at = history[id].at,
           \A id \in RowIds : comments[id] # NoStatus /\ id \in Seen(Nobody) => comments'[id] # NoStatus
    PROVE  \A id \in expected' : Ahead(id)'
<1> SUFFICES ASSUME NEW id \in expected PROVE Ahead(id)'
  OBVIOUS
<1>1. Ahead(id)
  OBVIOUS
<1>2. id \in Seen(Nobody) /\ id \in RowIds /\ script.batch \subseteq Seen(Nobody)
  BY <1>1 DEF Ahead, CommentsTyped
<1>3. id \in Seen(Nobody)' /\ (Commentable(id)' <=> Commentable(id))
  BY <1>2 DEF Seen, Written, Commentable
<1>4. \A b \in script.batch : Precedes(b, id)' <=> Precedes(b, id)
  BY <1>2 DEF Precedes
<1>5. Behind(id, script.after)' <=> Behind(id, script.after)
  BY <1>2 DEF Behind
<1>6. comments'[id] = NoStatus => comments[id] = NoStatus
  BY <1>2
<1> QED
  BY <1>1, <1>3, <1>4, <1>5, <1>6 DEF Ahead

LEMMA RowsSame ==
    ASSUME history' = history
    PROVE  /\ Written' = Written /\ Moves' = Moves /\ Settled' = Settled
           /\ \A id : Commentable(id)' <=> Commentable(id)
           /\ Seen(Nobody)' = Seen(Nobody)
BY DEF Written, Moves, Settled, Commentable, Seen

LEMMA AheadSame ==
    ASSUME CommentsTyped, \A id \in expected : Ahead(id),
           UNCHANGED <<history, comments, script, expected>>
    PROVE  \A id \in expected' : Ahead(id)'
BY DEF Ahead, Seen, Written, Commentable, Behind, Precedes

(* Handlers that take up something. *)

LEMMA WorkBeginKeeps ==
    ASSUME OrderCommentsInv, NEW w \in Editors, editor[w] = Resting,
           NEW d \in EditorWork, d.mine = {}, status \in d.during, d.to \in d.during,
           d.kind = "move" => \A v \in Editors : editor[v].kind # "move",
           editor' = [editor EXCEPT ![w] = d],
           UNCHANGED <<status, now, history, comments, script, expected, late>>
    PROVE  OrderCommentsInv'
<1> USE DEF OrderCommentsInv, CommentsInv, RecordInv
<1>1. Written' = Written /\ Moves' = Moves /\ Settled' = Settled /\ Seen(Nobody)' = Seen(Nobody)
      /\ \A id : Commentable(id)' <=> Commentable(id)
  BY RowsSame
<1>2. d # Resting /\ d.kind \in {"move", "change", "comment", "attach"}
  BY DEF EditorWork, Resting
<1>3. Resting.mine = {} /\ Resting.kind = "rest"
  BY DEF Resting
<1>4. editor \in [Editors -> {Resting} \cup EditorWork]
  BY DEF CommentsTyped
<1>5. editor'[w] = d /\ \A v \in Editors \ {w} : editor'[v] = editor[v]
  BY <1>4
<1>6. CommentsTyped'
  <2>1. editor' \in [Editors -> {Resting} \cup EditorWork]
    BY <1>4
  <2> QED
    BY <1>1, <2>1 DEF CommentsTyped
<1>7. \A id \in Written : history[id].owner \in Editors \cup {Nobody}
  BY RowsAre, WrittenAre
<1>8. RowsOwned'
  BY <1>1, <1>3, <1>5, <1>7 DEF RowsOwned
<1>9. MovesAlone'
  <2>1. AtWork' = AtWork \cup {w}
    BY <1>2, <1>5 DEF AtWork
  <2>2. ASSUME NEW m \in Moves \ Settled
        PROVE  history[m].owner \in Editors \ {w}
    BY <1>3, <1>7, WrittenAre DEF MovesAlone, Settled
  <2>3. \A v \in AtWork' : status \in editor'[v].during /\ editor'[v].to \in editor'[v].during
    BY <1>5, <2>1 DEF MovesAlone, AtWork
  <2>4. \A v, u \in AtWork' : editor'[v].kind = "move" /\ editor'[u].kind = "move" => v = u
    BY <1>3, <1>5, <2>1 DEF MovesAlone, AtWork
  <2> QED
    BY <1>1, <1>5, <2>2, <2>3, <2>4 DEF MovesAlone
<1>10. RowsSaw'
  BY <1>1 DEF RowsSaw
<1>11. \A id \in RowIds : comments'[id] # NoStatus => Told(id)'
  BY <1>1 DEF Told
<1>12. \A id \in expected' : Ahead(id)'
  BY AheadSame
<1> QED
  BY <1>6, <1>8, <1>9, <1>10, <1>11, <1>12

LEMMA WorkBegins ==
    ASSUME OrderCommentsInv, NEW w \in Editors,
           \/ \E to \in Statuses : BeginMove(w, to)
           \/ UpdateClientInfo(w) \/ CreateComment(w) \/ ReviseComment(w)
           \/ UploadAttachment(w) \/ DeleteAttachment(w)
    PROVE  OrderCommentsInv'
<1>1. status \in Statuses
  BY DEF OrderCommentsInv, CommentsInv, RecordInv, CommentsTyped
<1>2. ASSUME NEW kind \in {"change", "comment", "attach"}, BeginChange(w, kind)
      PROVE  OrderCommentsInv'
  <2> DEFINE d == [kind |-> kind, to |-> status, during |-> {status}, mine |-> {}]
  <2>1. d \in EditorWork /\ d.mine = {} /\ status \in d.during /\ d.to \in d.during /\ d.kind # "move"
    BY <1>1 DEF EditorWork
  <2>2. editor[w] = Resting /\ editor' = [editor EXCEPT ![w] = d]
        /\ UNCHANGED <<status, now, history, comments, script, expected, late>>
    BY <1>2 DEF BeginChange
  <2> HIDE DEF d
  <2> QED
    BY <2>1, <2>2, WorkBeginKeeps
<1>3. ASSUME NEW to \in Statuses, BeginMove(w, to)
      PROVE  OrderCommentsInv'
  <2> DEFINE d == [kind |-> "move", to |-> to, during |-> {status, to}, mine |-> {}]
  <2>1. d \in EditorWork /\ d.mine = {} /\ status \in d.during /\ d.to \in d.during
    BY <1>1 DEF EditorWork
  <2>2. editor[w] = Resting /\ editor' = [editor EXCEPT ![w] = d]
        /\ (\A v \in Editors : editor[v].kind # "move")
        /\ UNCHANGED <<status, now, history, comments, script, expected, late>>
    BY <1>3 DEF BeginMove
  <2> HIDE DEF d
  <2> QED
    BY <2>1, <2>2, WorkBeginKeeps
<1> QED
  BY <1>2, <1>3 DEF UpdateClientInfo, CreateComment, ReviseComment, UploadAttachment, DeleteAttachment

(* Time, and what the script does without writing. *)

LEMMA QuietKeeps ==
    ASSUME CommentsInv, Tick \/ StartBackfill \/ fetchMissingHistoryRows \/ ScriptFails
    PROVE  CommentsInv'
<1> USE DEF CommentsInv, RecordInv
<1>1. UNCHANGED <<status, history, comments, editor, late>> /\ now' \in {now, now + 1}
      /\ now' \in 0 .. LastTime
  <2>1. now \in 0 .. LastTime /\ LastTime \in Nat
    BY RowIdsAssumption DEF CommentsTyped
  <2> QED
    BY <2>1 DEF Tick, StartBackfill, fetchMissingHistoryRows, ScriptFails
<1>2. Written' = Written /\ Moves' = Moves /\ Settled' = Settled /\ Seen(Nobody)' = Seen(Nobody)
      /\ AtWork' = AtWork /\ \A id : Commentable(id)' <=> Commentable(id)
  BY <1>1, RowsSame DEF AtWork
<1>3. now \in Nat /\ now <= now' /\ now' \in Nat /\ 0 .. now \subseteq 0 .. now'
  BY <1>1, RowIdsAssumption DEF CommentsTyped
<1>4. history' \in [RowIds -> {NoRow} \cup RowsUntil(now')]
  <2>1. RowsUntil(now) \subseteq RowsUntil(now')
    BY <1>3 DEF RowsUntil
  <2> QED
    BY <1>1, <2>1 DEF CommentsTyped
<1>5. script' \in [step : {"ended", "fetch", "fill"}, batch : SUBSET RowIds,
                   after : {<<>>} \cup (Nat \X Nat)]
      /\ script'.batch \subseteq Seen(Nobody) /\ expected' \subseteq RowIds
  <2>1. NoScript \in [step : {"ended", "fetch", "fill"}, batch : SUBSET RowIds,
                      after : {<<>>} \cup (Nat \X Nat)] /\ NoScript.batch = {}
    BY DEF NoScript
  <2>2. CASE Tick
    BY <2>2 DEF Tick, CommentsTyped
  <2>3. CASE StartBackfill
    BY <2>1, <2>3 DEF StartBackfill, Missing, Seen, Written
  <2>4. CASE fetchMissingHistoryRows
    <3> DEFINE rest == {id \in Missing : Behind(id, script.after)}
               first == {id \in rest : Cardinality({r \in rest : Precedes(r, id)}) < BatchSize}
    <3>1. /\ script' = IF first = {} THEN NoScript
                       ELSE [step |-> "fill", batch |-> first, after |-> script.after]
          /\ expected' = expected
      BY <2>4 DEF fetchMissingHistoryRows
    <3>2. first \subseteq Seen(Nobody) /\ Seen(Nobody) \subseteq RowIds
      BY DEF Missing, Seen, Written
    <3> HIDE DEF first
    <3> QED
      BY <2>1, <3>1, <3>2 DEF CommentsTyped
  <2>5. CASE ScriptFails
    BY <2>1, <2>5 DEF ScriptFails
  <2> QED
    BY <2>2, <2>3, <2>4, <2>5
<1>6. CommentsTyped'
  BY <1>1, <1>2, <1>4, <1>5 DEF CommentsTyped
<1>7. RowsOwned' /\ MovesAlone' /\ RowsSaw'
  BY <1>1, <1>2 DEF RowsOwned, MovesAlone, RowsSaw
<1>8. ASSUME NEW id \in RowIds, comments'[id] # NoStatus PROVE Told(id)'
  <2>1. Told(id) /\ id \in Written
    BY <1>1, <1>8 DEF CommentsTyped
  <2>2. history[id].at \in Nat
    BY <2>1, RowsAre
  <2> QED
    BY <1>1, <1>2, <1>3, <2>1, <2>2 DEF Told
<1> QED
  BY <1>6, <1>7, <1>8

(* A handler writes a row. *)

LEMMA LogChangeKeeps ==
    ASSUME OrderCommentsInv, NEW w \in Editors, NEW id \in RowIds, NEW field \in RowFields,
           LogChange(w, id, field)
    PROVE  OrderCommentsInv'
<1> USE DEF OrderCommentsInv, CommentsInv, RecordInv
<1> DEFINE doing == editor[w]
           row == [field |-> field, at |-> now, to |-> doing.to,
                   owner |-> IF doing.kind = "attach" THEN Nobody ELSE w,
                   during |-> doing.during \cup UnderWay]
<1>1. /\ doing # Resting /\ id \notin Written
      /\ \A m \in doing.mine : doing.kind = "move" /\ history[m].field # field
      /\ history' = [history EXCEPT ![id] = row]
      /\ UNCHANGED <<status, now, comments, script, expected, late>>
  BY DEF LogChange, HistoryRow
<1>3. w \in AtWork /\ doing \in EditorWork /\ doing.kind \in {"move", "change", "comment", "attach"}
  BY <1>1, EditorsAre DEF AtWork
<1>2. field = "status_id" => doing.kind = "move"
  <2>1. field \in CASE doing.kind = "move"    -> {"status_id", "other"}
                    [] doing.kind = "comment" -> {"comments"}
                    [] doing.kind \in {"change", "attach"} -> {"other"}
    BY DEF LogChange
  <2> HIDE DEF doing
  <2> QED
    BY <1>3, <2>1
<1>4. /\ editor' \in [Editors -> {Resting} \cup EditorWork]
      /\ \A v \in Editors \ {w} : editor'[v] = editor[v]
      /\ editor'[w] \in EditorWork /\ editor'[w].kind = doing.kind /\ editor'[w].to = doing.to
      /\ editor'[w].during = doing.during /\ editor'[w].mine = doing.mine \cup {id}
  <2>1. editor' = [editor EXCEPT ![w].mine = @ \cup {id}]
    BY DEF LogChange
  <2>2. editor \in [Editors -> {Resting} \cup EditorWork]
    BY DEF CommentsTyped
  <2>3. [doing EXCEPT !.mine = @ \cup {id}] \in EditorWork
    BY <1>3 DEF EditorWork
  <2>4. editor' = [editor EXCEPT ![w] = [doing EXCEPT !.mine = @ \cup {id}]]
    BY <2>1
  <2> QED
    BY <1>3, <2>2, <2>3, <2>4 DEF EditorWork
<1>5. UnderWay \subseteq Statuses
  BY EditorsAre DEF UnderWay, AtWork
<1>6. row \in RowsUntil(now)
  <2>1. now \in 0 .. now
    BY RowIdsAssumption DEF CommentsTyped
  <2> QED
    BY <1>3, <1>5, <2>1 DEF RowsUntil, EditorWork
<1>7. history \in [RowIds -> {NoRow} \cup RowsUntil(now)]
  BY DEF CommentsTyped
<1>8. /\ history' \in [RowIds -> {NoRow} \cup RowsUntil(now)]
      /\ history'[id] = row /\ row # NoRow
      /\ \A x \in RowIds \ {id} : history'[x] = history[x]
  BY <1>1, <1>6, <1>7 DEF NoRow, RowsUntil, RowFields
<1> DEFINE o == row.owner
           u == row.during
<1>9. /\ row.field = field /\ row.at = now /\ row.to = doing.to
      /\ o \in {w, Nobody} /\ (o = Nobody <=> doing.kind = "attach")
      /\ doing.during \subseteq u /\ UnderWay \subseteq u
  BY NoStatusAssumption
<1> HIDE DEF row
<1>10. /\ Written' = Written \cup {id}
       /\ Moves' = IF field = "status_id" THEN Moves \cup {id} ELSE Moves
       /\ Settled' = Settled
  <2>1. Written' = Written \cup {id}
    BY <1>8 DEF Written
  <2>2. Moves' = IF field = "status_id" THEN Moves \cup {id} ELSE Moves
    BY <1>1, <1>8, <1>9, <2>1 DEF Moves, Written
  <2>3. Settled' = Settled
    BY <1>1, <1>2, <1>8, <1>9, <2>2 DEF Settled, Moves, Written
  <2> QED
    BY <2>1, <2>2, <2>3
<1>11. id \notin Moves /\ id \notin Settled /\ Moves \subseteq RowIds /\ Written \subseteq RowIds
       /\ Settled \subseteq Moves /\ Moves \subseteq Written
  BY <1>1, WrittenAre
<1>14. Seen(Nobody) \subseteq Seen(Nobody)'
  BY <1>1, <1>8, <1>10, <1>11 DEF Seen
<1>15. CommentsTyped'
  <2>1. ASSUME NEW x \in RowIds, comments'[x] # NoStatus
        PROVE  x \in Written' /\ Commentable(x)'
    BY <1>1, <1>8, <1>10, <2>1 DEF CommentsTyped, Commentable
  <2> QED
    BY <1>1, <1>4, <1>8, <1>14, <2>1 DEF CommentsTyped
<1>16. \A x \in Written : x # id /\ history'[x] = history[x]
  BY <1>1, <1>8, <1>11
<1>17. status \in doing.during /\ doing.to \in doing.during
  BY <1>3 DEF MovesAlone
<1>18. RowsOwned'
  <2>1. ASSUME NEW v \in Editors, NEW x \in editor'[v].mine
        PROVE  /\ x \in Written' /\ history'[x].owner \in {v, Nobody}
               /\ history'[x].owner = Nobody <=> editor'[v].kind = "attach"
               /\ status \in history'[x].during /\ editor'[v].to \in history'[x].during
    <3>1. CASE x \in editor[v].mine
      BY <1>4, <1>10, <1>16, <3>1 DEF RowsOwned
    <3>2. CASE x \notin editor[v].mine
      <4>1. v = w /\ x = id
        BY <1>4, <2>1, <3>2
      <4> QED
        BY <1>4, <1>8, <1>9, <1>10, <1>17, <4>1
    <3> QED
      BY <3>1, <3>2
  <2>2. ASSUME NEW x \in Written', history'[x].owner # Nobody
        PROVE  x \in editor'[history'[x].owner].mine
    <3>1. CASE x = id
      BY <1>4, <1>8, <1>9, <2>2, <3>1
    <3>2. CASE x # id
      <4>1. x \in Written /\ history'[x].owner = history[x].owner
            /\ history[x].owner \in Editors
        BY <1>10, <1>16, <2>2, <3>2, RowsAre, <1>11
      <4> QED
        BY <1>4, <2>2, <4>1 DEF RowsOwned
    <3> QED
      BY <3>1, <3>2
  <2> QED
    BY <1>1, <2>1, <2>2 DEF RowsOwned
<1>19. \A m \in Moves \ Settled : history[m].owner \in AtWork /\ editor[history[m].owner].kind = "move"
                                  /\ m \in editor[history[m].owner].mine
  <2> SUFFICES ASSUME NEW m \in Moves \ Settled
               PROVE  history[m].owner \in AtWork /\ editor[history[m].owner].kind = "move"
                      /\ m \in editor[history[m].owner].mine
    OBVIOUS
  <2>1. history[m].owner \in Editors
    BY <1>11, RowsAre DEF Settled
  <2>2. m \in editor[history[m].owner].mine
    BY <1>11, <2>1, NoStatusAssumption DEF RowsOwned
  <2> QED
    BY <2>1, <2>2, EditorsAre DEF MovesAlone
<1>20. field = "status_id" => Moves \subseteq Settled
  BY <1>1, <1>2, <1>3, <1>19 DEF MovesAlone, Moves
<1>21. AtWork' = AtWork
  <2>1. editor'[w] # Resting
    BY <1>4 DEF EditorWork, Resting
  <2> QED
    BY <1>3, <1>4, <2>1 DEF AtWork
<1>22. MovesAlone'
  <2>1. ASSUME NEW v \in AtWork' PROVE status \in editor'[v].during /\ editor'[v].to \in editor'[v].during
    BY <1>4, <1>17, <1>21 DEF MovesAlone, AtWork
  <2>2. \A v, x \in AtWork' : editor'[v].kind = "move" /\ editor'[x].kind = "move" => v = x
    BY <1>4, <1>21 DEF MovesAlone, AtWork
  <2>3. ASSUME NEW m \in Moves' \ Settled'
        PROVE  /\ editor'[history'[m].owner].kind = "move"
               /\ history'[m].to = editor'[history'[m].owner].to
               /\ \A n \in Moves' \ {m} : n \in Settled' /\ history'[n].at <= history'[m].at
    <3>1. CASE m = id
      <4>1. field = "status_id" /\ o = w
        BY <1>2, <1>9, <1>10, <1>11, <3>1
      <4>2. \A n \in Moves : n \in Settled /\ history[n].at <= now
        BY <1>11, <1>20, <4>1, RowsAre
      <4> QED
        BY <1>2, <1>4, <1>8, <1>9, <1>10, <1>16, <1>11, <3>1, <4>1, <4>2
    <3>2. CASE m # id
      <4>1. m \in Moves \ Settled
        BY <1>10, <2>3, <3>2
      <4>2. Moves' = Moves
        BY <1>10, <1>20, <4>1
      <4> QED
        BY <1>4, <1>10, <1>11, <1>16, <1>19, <4>1, <4>2 DEF MovesAlone, AtWork
    <3> QED
      BY <3>1, <3>2
  <2> QED
    BY <1>1, <2>1, <2>2, <2>3 DEF MovesAlone
<1>23. RowsSaw'
  <2>1. \A m \in Moves' : history'[m].to \in history'[m].during
    BY <1>8, <1>9, <1>10, <1>11, <1>16, <1>17 DEF RowsSaw
  <2>2. \A m \in Settled' : \/ history'[m].to = status'
                            \/ \E n \in Settled' \ {m} : history'[m].at <= history'[n].at
    BY <1>1, <1>10, <1>11, <1>16 DEF RowsSaw
  <2>3. \A x \in Written' : status' \in history'[x].during \/ Settled' # {}
    BY <1>1, <1>8, <1>9, <1>10, <1>16, <1>17 DEF RowsSaw
  <2>4. ASSUME NEW x \in Written', NEW m \in Moves', history'[m].at < history'[x].at
        PROVE  \/ history'[m].to \in history'[x].during
               \/ \E n \in Settled' \ {m} :
                     history'[m].at <= history'[n].at /\ history'[n].at <= history'[x].at
    <3>1. \A y \in Written : history[y].at \in Nat /\ history[y].at <= now
      BY <1>11, RowsAre
    <3>2. now \in Nat
      BY RowIdsAssumption DEF CommentsTyped
    <3>3. m \in Moves
      BY <1>8, <1>9, <1>10, <1>16, <2>4, <3>1, <3>2
    <3>4. CASE x # id
      BY <1>10, <1>11, <1>16, <2>4, <3>3, <3>4 DEF RowsSaw
    <3>5. CASE x = id /\ m \in Settled
      <4>1. \/ history[m].to = status
            \/ \E n \in Settled \ {m} : history[m].at <= history[n].at
        BY <3>5 DEF RowsSaw
      <4> QED
        BY <1>8, <1>9, <1>10, <1>11, <1>16, <1>17, <3>1, <3>3, <3>5, <4>1
    <3>6. CASE x = id /\ m \notin Settled
      <4>1. history[m].to = editor[history[m].owner].to
        BY <3>3, <3>6 DEF MovesAlone
      <4>2. history[m].to \in UnderWay
        BY <1>19, <3>3, <3>6, <4>1 DEF UnderWay, AtWork
      <4> QED
        BY <1>8, <1>9, <1>11, <1>16, <3>3, <3>6, <4>2
    <3> QED
      BY <3>4, <3>5, <3>6
  <2> QED
    BY <2>1, <2>2, <2>3, <2>4 DEF RowsSaw
<1>24. ASSUME NEW x \in RowIds, comments'[x] # NoStatus PROVE Told(x)'
  <2>1. Told(x) /\ x \in Written
    BY <1>1, <1>24 DEF CommentsTyped
  <2>2. history'[x] = history[x] /\ \A m \in Moves : history'[m] = history[m]
    BY <1>11, <1>16, <2>1
  <2>3. Moves \subseteq Moves' /\ \A m \in Moves' : m \in Moves \/ history'[m].at = now
    BY <1>8, <1>9, <1>10
  <2> QED
    BY <1>1, <1>10, <1>11, <2>1, <2>2, <2>3 DEF Told
<1>25. \A x \in expected' : Ahead(x)'
  <2>1. \A x \in Seen(Nobody) : /\ history'[x] # NoRow /\ history'[x].owner = Nobody
                                /\ history'[x].field = history[x].field
                                /\ history'[x].at = history[x].at
    BY <1>16 DEF Seen, Written
  <2> QED
    BY <1>1, <2>1, AheadStays
<1> QED
  BY <1>15, <1>18, <1>22, <1>23, <1>24, <1>25

(* A comment is written, by a handler or by the script. *)

\* A comment made from the rows of the handler that writes it, or from those
\* that are committed, is about what a status the order had.
LEMMA ResolvedTells ==
    ASSUME RecordInv, NEW id \in Written, NEW w \in Editors \cup {Nobody}, NEW current,
           history[id].owner \in {w, Nobody},
           history[id].owner = Nobody => \A m \in Moves : history[m].owner # w \/ w = Nobody
    PROVE  LET r == resolveStatusBy(id, Seen(w), current)
           IN  \/ r \in history[id].during
               \/ /\ r = current
                  /\ \A m \in Moves : m \in Settled => history[id].at < history[m].at
               \/ \E m \in Moves :
                     /\ history[m].owner \in {history[id].owner, Nobody}
                     /\ history[m].at <= history[id].at
                     /\ \/ history[m].at = history[id].at /\ r = history[m].to
                        \/ \E n \in Settled \ {m} : history[n].at = history[m].at
<1> USE DEF RecordInv
<1> DEFINE r == resolveStatusBy(id, Seen(w), current)
           found == {m \in Seen(w) : history[m].field = "status_id"
                                      /\ history[m].at <= history[id].at}
<1>1. Seen(w) \in SUBSET Written
  BY DEF Seen
<1>2. \/ id \in Moves /\ r = history[id].to
      \/ id \notin Moves /\ found = {} /\ r = current
      \/ id \notin Moves /\ \E m \in found : r = history[m].to /\ \A n \in found \ {m} : Precedes(n, m)
  BY <1>1, ResolvedIs
<1>3. \A x \in Written : history[x].at \in Nat
  BY RowsAre, WrittenAre
<1>4. Settled \subseteq Seen(w) /\ Settled \subseteq Moves /\ Moves \subseteq Written
      /\ (\A m \in Moves : history[m].field = "status_id") /\ found \subseteq Moves
      /\ \A m \in Settled : history[m].owner = Nobody
  BY DEF Seen, Settled, Moves
<1>5. \A m \in found : history[m].owner \in {w, Nobody}
  BY DEF Seen
<1>6. \A m \in found : history[m].at <= history[id].at
  OBVIOUS
<1>7. \A m \in Settled : history[m].at <= history[id].at => m \in found
  BY <1>4
<1> HIDE DEF r, found
<1>8. CASE id \in Moves /\ r = history[id].to
  BY <1>8 DEF RowsSaw, r
<1>9. CASE found = {} /\ r = current
  BY <1>3, <1>4, <1>7, <1>9 DEF r
<1>10. CASE \E m \in found : r = history[m].to /\ \A n \in found \ {m} : Precedes(n, m)
  <2>1. PICK m \in found : r = history[m].to /\ \A n \in found \ {m} : Precedes(n, m)
    BY <1>10
  <2>2. m \in Moves /\ history[m].at <= history[id].at
    BY <1>4, <1>6
  <2>3. history[m].owner \in {history[id].owner, Nobody}
    BY <1>5, <2>2
  <2>4. CASE history[m].at = history[id].at
    BY <2>1, <2>2, <2>3, <2>4 DEF r
  <2>5. CASE history[m].at < history[id].at
    <3>1. \/ history[m].to \in history[id].during
          \/ \E n \in Settled \ {m} :
                history[m].at <= history[n].at /\ history[n].at <= history[id].at
      BY <2>2, <2>5 DEF RowsSaw
    <3>2. ASSUME NEW n \in Settled \ {m},
                 history[m].at <= history[n].at, history[n].at <= history[id].at
          PROVE  history[n].at = history[m].at
      <4>1. Precedes(n, m)
        BY <1>7, <2>1, <3>2
      <4> QED
        BY <1>3, <1>4, <2>2, <3>2, <4>1 DEF Precedes
    <3> QED
      BY <2>1, <2>2, <2>3, <3>1, <3>2 DEF r
  <2> QED
    BY <1>3, <1>4, <2>2, <2>4, <2>5
<1> QED
  BY <1>2, <1>8, <1>9, <1>10

\* Nor does it lack its status.
LEMMA ResolvedIsStatus ==
    ASSUME CommentsTyped, NEW id \in Written, NEW w \in Editors \cup {Nobody},
           NEW current \in Statuses
    PROVE  /\ resolveStatusBy(id, Seen(w), current) \in Statuses
           /\ resolveStatusBy(id, Seen(w), current) # NoStatus
<1>1. Seen(w) \in SUBSET Written
  BY DEF Seen
<1>2. \A m \in Written : history[m].to \in Statuses
  BY RowsAre, WrittenAre
<1> QED
  BY <1>1, <1>2, ResolvedIs, NoStatusAssumption

LEMMA CommentChangeKeeps ==
    ASSUME OrderCommentsInv, NEW w \in Editors, NEW id \in RowIds, CommentChange(w, id)
    PROVE  OrderCommentsInv'
<1> USE DEF OrderCommentsInv, CommentsInv, RecordInv
<1> DEFINE current == IF editor[w].kind = "move" THEN editor[w].to ELSE status
           r == resolveStatusBy(id, Seen(w), current)
<1>1. /\ id \in editor[w].mine /\ Commentable(id) /\ comments[id] = NoStatus
      /\ comments' = [comments EXCEPT ![id] = r]
      /\ UNCHANGED <<status, now, history, editor, script, expected, late>>
  BY DEF CommentChange
<1>2. id \in Written /\ w \in AtWork /\ current \in Statuses
  BY <1>1, EditorsAre DEF RowsOwned, CommentsTyped
<1>3. r \in Statuses /\ r # NoStatus
  BY <1>2, ResolvedIsStatus
<1>4. Written' = Written /\ Moves' = Moves /\ Settled' = Settled /\ Seen(Nobody)' = Seen(Nobody)
      /\ AtWork' = AtWork /\ \A x : Commentable(x)' <=> Commentable(x)
  BY <1>1, RowsSame DEF AtWork
<1>5. /\ history[id].owner \in {w, Nobody}
      /\ history[id].owner = Nobody <=> editor[w].kind = "attach"
      /\ current \in history[id].during
  BY <1>1 DEF RowsOwned
<1>6. ASSUME history[id].owner = Nobody, NEW m \in Moves PROVE history[m].owner # w
  BY <1>5, <1>6, NoStatusAssumption DEF MovesAlone, Settled
<1> HIDE DEF current
<1>7. \/ r \in history[id].during
      \/ \E m \in Moves :
            /\ history[m].owner \in {history[id].owner, Nobody}
            /\ history[m].at <= history[id].at
            /\ \/ history[m].at = history[id].at /\ r = history[m].to
               \/ \E n \in Settled \ {m} : history[n].at = history[m].at
  BY <1>2, <1>5, <1>6, ResolvedTells
<1> HIDE DEF r
<1>8. /\ comments' \in [RowIds -> Statuses \cup {NoStatus}] /\ comments'[id] = r
      /\ \A x \in RowIds \ {id} : comments'[x] = comments[x]
  BY <1>1, <1>3 DEF CommentsTyped
<1>9. CommentsTyped'
  BY <1>1, <1>2, <1>4, <1>8 DEF CommentsTyped
<1>10. RowsOwned' /\ MovesAlone' /\ RowsSaw'
  BY <1>1, <1>4 DEF RowsOwned, MovesAlone, RowsSaw
<1>11. ASSUME NEW x \in RowIds, comments'[x] # NoStatus PROVE Told(x)'
  <2>1. CASE x = id
    BY <1>1, <1>4, <1>7, <1>8, <2>1 DEF Told
  <2>2. CASE x # id
    BY <1>1, <1>4, <1>8, <1>11, <2>2 DEF Told
  <2> QED
    BY <2>1, <2>2
<1>12. \A x \in expected' : Ahead(x)'
  <2>1. \A x \in Seen(Nobody) : /\ history'[x] # NoRow /\ history'[x].owner = Nobody
                                /\ history'[x].field = history[x].field
                                /\ history'[x].at = history[x].at
    BY <1>1 DEF Seen, Written
  <2>2. \A x \in RowIds : comments[x] # NoStatus => comments'[x] # NoStatus
    BY <1>1, <1>8
  <2> QED
    BY <1>1, <2>1, <2>2, AheadStays
<1> QED
  BY <1>9, <1>10, <1>11, <1>12

(* A handler commits, or stops. *)

LEMMA CommitKeepsComments ==
    ASSUME OrderCommentsInv, NEW w \in Editors, Commit(w)
    PROVE  OrderCommentsInv'
<1> USE DEF OrderCommentsInv, CommentsInv, RecordInv
<1> DEFINE doing == editor[w]
           mine == doing.mine
           moved == doing.kind = "move"
           owned == [id \in RowIds |-> IF id \in mine THEN [history[id] EXCEPT !.owner = Nobody]
                                       ELSE history[id]]
           InHand(id) == \E v \in Editors : id \in editor[v].mine
<1>1. /\ mine # {} /\ (moved => \E id \in mine : history[id].field = "status_id")
      /\ status' = IF moved THEN doing.to ELSE status
      /\ history' = IF moved THEN Witness(owned, doing.to) ELSE owned
      /\ editor' = [v \in Editors |->
              CASE v = w -> Resting
                [] v # w /\ editor[v] # Resting -> [editor[v] EXCEPT !.during = @ \cup {status'}]
                [] OTHER -> Resting]
      /\ UNCHANGED <<now, comments, script, expected, late>>
  BY DEF Commit
<1>2. w \in AtWork /\ doing \in EditorWork /\ doing.to \in Statuses /\ mine \subseteq RowIds
      /\ mine \subseteq Written /\ Nobody \in Editors \cup {Nobody}
  BY <1>1, EditorsAre DEF RowsOwned
<1>3. status' \in Statuses
  BY <1>1, <1>2 DEF CommentsTyped
<1>4. ASSUME NEW id \in RowIds, id \notin Written PROVE history'[id] = NoRow
  <2>1. history[id] = NoRow /\ \A v \in Editors : id \notin editor[v].mine
    BY <1>4, RowsAre DEF RowsOwned
  <2> QED
    BY <1>1, <2>1 DEF Witness
<1>5. ASSUME NEW id \in Written
      PROVE  /\ history'[id] \in RowsUntil(now)
             /\ history'[id].field = history[id].field /\ history'[id].at = history[id].at
             /\ history'[id].to = history[id].to
             /\ history'[id].owner = IF id \in mine THEN Nobody ELSE history[id].owner
             /\ history[id].during \subseteq history'[id].during
             /\ moved /\ InHand(id) => doing.to \in history'[id].during
  <2> DEFINE h == history[id]
             g == owned[id]
             o == IF id \in mine THEN Nobody ELSE h.owner
             u == IF moved /\ InHand(id) THEN h.during \cup {doing.to} ELSE h.during
             changed == [field |-> h.field, at |-> h.at, to |-> h.to, owner |-> o, during |-> u]
  <2>1. h \in RowsUntil(now) /\ id \in RowIds
    BY RowsAre, WrittenAre
  <2>2. g = [field |-> h.field, at |-> h.at, to |-> h.to, owner |-> o, during |-> h.during]
    <3>1. CASE id \in mine
      <4>1. g = [h EXCEPT !.owner = Nobody] /\ o = Nobody
        BY <2>1, <3>1
      <4> HIDE DEF h, g, o
      <4> QED
        BY <2>1, <4>1 DEF RowsUntil
    <3>2. CASE id \notin mine
      <4>1. g = h /\ o = h.owner
        BY <2>1, <3>2
      <4> HIDE DEF h, g, o
      <4> QED
        BY <2>1, <4>1 DEF RowsUntil
    <3> QED
      BY <3>1, <3>2
  <2>3. history'[id] = IF moved /\ InHand(id) THEN [g EXCEPT !.during = @ \cup {doing.to}] ELSE g
    BY <1>1, <2>1 DEF Witness
  <2>4. history'[id] = changed
    <3> HIDE DEF g, h, o, InHand
    <3> QED
      BY <2>2, <2>3
  <2>5. h.field \in RowFields /\ h.at \in 0 .. now /\ h.to \in Statuses
        /\ o \in Editors \cup {Nobody} /\ u \in SUBSET Statuses
    BY <1>2, WrittenAre, RowsAre
  <2>6. h.during \subseteq u /\ (moved /\ InHand(id) => doing.to \in u)
    OBVIOUS
  <2>7. /\ changed \in RowsUntil(now) /\ changed.field = h.field /\ changed.at = h.at
        /\ changed.to = h.to /\ changed.owner = o /\ changed.during = u
    <3> HIDE DEF h, o, u
    <3> QED
      BY <2>5 DEF RowsUntil
  <2> HIDE DEF changed, u, g
  <2> QED
    BY <2>4, <2>6, <2>7
<1>6. \A id \in Written : /\ history'[id].field = history[id].field
                          /\ history'[id].at = history[id].at
                          /\ history'[id].to = history[id].to
                          /\ history[id].during \subseteq history'[id].during
  BY <1>5
<1>7. \A id \in Written : history'[id] \in RowsUntil(now)
  BY <1>5
<1>8. history' \in [RowIds -> {NoRow} \cup RowsUntil(now)]
  <2>1. DOMAIN history' = RowIds /\ history' = [id \in RowIds |-> history'[id]]
    BY <1>1 DEF Witness
  <2> QED
    BY <1>4, <1>7, <2>1
<1>9. ASSUME NEW v \in Editors
      PROVE  /\ editor'[v] \in {Resting} \cup EditorWork
             /\ v = w => editor'[v] = Resting
             /\ v # w => editor'[v].kind = editor[v].kind /\ editor'[v].to = editor[v].to
                         /\ editor'[v].mine = editor[v].mine
             /\ v # w /\ v \in AtWork => editor'[v].during = editor[v].during \cup {status'}
                                         /\ editor'[v] # Resting
             /\ v # w /\ v \notin AtWork => editor'[v] = Resting
  <2> DEFINE e == editor[v]
             f == [e EXCEPT !.during = @ \cup {status'}]
  <2>1. CASE v = w
    BY <1>1, <2>1
  <2>2. CASE v # w /\ v \notin AtWork
    BY <1>1, <2>2, EditorsAre DEF AtWork
  <2>3. CASE v # w /\ v \in AtWork
    <3>1. e \in EditorWork /\ e # Resting
      BY <2>3, EditorsAre
    <3>2. editor'[v] = f
      BY <1>1, <2>3, <3>1
    <3> HIDE DEF e
    <3>3. f \in EditorWork /\ f.kind = e.kind /\ f.to = e.to /\ f.mine = e.mine
          /\ f.during = e.during \cup {status'}
      BY <1>3, <3>1 DEF EditorWork
    <3>4. f # Resting
      BY <3>1, <3>3 DEF EditorWork, Resting
    <3> HIDE DEF f
    <3> QED
      BY <2>3, <3>2, <3>3, <3>4 DEF e
  <2> QED
    BY <2>1, <2>2, <2>3
<1>10. editor' \in [Editors -> {Resting} \cup EditorWork] /\ AtWork' = AtWork \ {w}
  <2>1. DOMAIN editor' = Editors /\ editor' = [v \in Editors |-> editor'[v]]
    BY <1>1
  <2> QED
    BY <1>2, <1>9, <2>1 DEF AtWork
<1>11. Resting.mine = {} /\ Resting.kind = "rest"
  BY DEF Resting
<1>12. \A id \in Written : history'[id] # NoRow
  BY <1>7 DEF RowsUntil, NoRow, RowFields
<1> HIDE DEF owned
<1>13. Written' = Written /\ Moves' = Moves
  <2>1. Written' = Written
    BY <1>4, <1>12 DEF Written
  <2> QED
    BY <1>6, <2>1 DEF Moves
<1>14. \A id \in Written : /\ id \in mine => history'[id].owner = Nobody
                           /\ id \notin mine => history'[id].owner = history[id].owner
                           /\ history[id].owner = Nobody => history'[id].owner = Nobody
                           /\ history[id].owner = w => id \in mine
                           /\ id \in mine => history[id].owner \in {w, Nobody}
                           /\ history[id].owner \in Editors \cup {Nobody}
  BY <1>5, RowsAre, WrittenAre, NoStatusAssumption DEF RowsOwned
<1>15. Settled' = Settled \cup (Moves \cap mine) /\ Settled \subseteq Settled'
  BY <1>13, <1>14, WrittenAre DEF Settled
<1>16. \A id \in Written : moved /\ InHand(id) => doing.to \in history'[id].during
  BY <1>5
<1> HIDE DEF InHand
<1>17. CommentsTyped'
  <2>1. Seen(Nobody) \subseteq Seen(Nobody)'
    BY <1>13, <1>14 DEF Seen
  <2>2. \A x \in RowIds : comments'[x] # NoStatus => x \in Written' /\ Commentable(x)'
    BY <1>1, <1>6, <1>13 DEF CommentsTyped, Commentable
  <2> QED
    BY <1>1, <1>3, <1>8, <1>10, <2>1, <2>2 DEF CommentsTyped
<1>18. RowsOwned'
  <2>1. ASSUME NEW v \in Editors, NEW x \in editor'[v].mine
        PROVE  /\ x \in Written' /\ history'[x].owner \in {v, Nobody}
               /\ history'[x].owner = Nobody <=> editor'[v].kind = "attach"
               /\ status' \in history'[x].during /\ editor'[v].to \in history'[x].during
    <3>1. v # w /\ x \in editor[v].mine
      BY <1>9, <1>11, <2>1
    <3>2. x \in Written /\ history[x].owner \in {v, Nobody}
          /\ (history[x].owner = Nobody <=> editor[v].kind = "attach")
          /\ status \in history[x].during /\ editor[v].to \in history[x].during
      BY <3>1 DEF RowsOwned
    <3>3. x \in mine => history[x].owner = Nobody
      BY <3>1, <3>2, NoStatusAssumption DEF RowsOwned
    <3>4. history'[x].owner = history[x].owner
      BY <1>14, <3>2, <3>3
    <3>5. status' \in history'[x].during
      BY <1>1, <1>6, <1>16, <3>1, <3>2 DEF InHand
    <3> QED
      BY <1>6, <1>9, <1>13, <3>1, <3>2, <3>4, <3>5
  <2>2. ASSUME NEW x \in Written', history'[x].owner # Nobody
        PROVE  x \in editor'[history'[x].owner].mine
    BY <1>9, <1>13, <1>14, <2>2 DEF RowsOwned
  <2> QED
    BY <2>1, <2>2 DEF RowsOwned
<1>19. \A m \in Moves \ Settled : history[m].owner \in AtWork /\ editor[history[m].owner].kind = "move"
                                  /\ m \in editor[history[m].owner].mine
  <2> SUFFICES ASSUME NEW m \in Moves \ Settled
               PROVE  history[m].owner \in AtWork /\ editor[history[m].owner].kind = "move"
                      /\ m \in editor[history[m].owner].mine
    OBVIOUS
  <2>1. history[m].owner \in Editors
    BY <1>14, WrittenAre DEF Settled
  <2>2. m \in editor[history[m].owner].mine
    BY <2>1, WrittenAre, NoStatusAssumption DEF RowsOwned
  <2> QED
    BY <2>1, <2>2, EditorsAre DEF MovesAlone
<1>20. MovesAlone'
  <2>1. \A v \in AtWork' : status' \in editor'[v].during /\ editor'[v].to \in editor'[v].during
    BY <1>9, <1>10 DEF MovesAlone, AtWork
  <2>2. \A v, x \in AtWork' : editor'[v].kind = "move" /\ editor'[x].kind = "move" => v = x
    BY <1>9, <1>10 DEF MovesAlone, AtWork
  <2>3. ASSUME NEW m \in Moves' \ Settled'
        PROVE  /\ editor'[history'[m].owner].kind = "move"
               /\ history'[m].to = editor'[history'[m].owner].to
               /\ \A n \in Moves' \ {m} : n \in Settled' /\ history'[n].at <= history'[m].at
    <3>1. m \in Moves \ Settled /\ m \notin mine /\ m \in Written
      BY <1>13, <1>15, <2>3, WrittenAre
    <3>2. history'[m].owner = history[m].owner /\ history[m].owner # w /\ history[m].owner \in Editors
      BY <1>14, <1>19, <3>1 DEF AtWork
    <3>3. \A n \in Moves \ {m} : n \in Settled /\ history[n].at <= history[m].at
      BY <3>1 DEF MovesAlone
    <3>4. editor[history[m].owner].kind = "move" /\ history[m].to = editor[history[m].owner].to
      BY <3>1 DEF MovesAlone
    <3>5. \A n \in Moves' \ {m} : n \in Settled' /\ history'[n].at <= history'[m].at
      BY <1>6, <1>13, <1>15, <3>1, <3>3, WrittenAre
    <3>6. history'[m].to = history[m].to
      BY <1>6, <3>1
    <3> QED
      BY <1>9, <3>2, <3>4, <3>5, <3>6
  <2> QED
    BY <2>1, <2>2, <2>3 DEF MovesAlone
<1>21. RowsSaw'
  <2>0. \A x \in Written : history'[x].at = history[x].at /\ history'[x].to = history[x].to
                           /\ history[x].during \subseteq history'[x].during
    BY <1>6
  <2>1. \A m \in Moves' : history'[m].to \in history'[m].during
    BY <1>13, <2>0, WrittenAre DEF RowsSaw
  <2>2. ASSUME NEW m \in Settled'
        PROVE  \/ history'[m].to = status'
               \/ \E n \in Settled' \ {m} : history'[m].at <= history'[n].at
    <3>1. CASE moved
      <4>1. PICK s \in mine : history[s].field = "status_id"
        BY <1>1, <3>1
      <4>2. s \in Moves \ Settled /\ history[s].owner = w
        BY <1>2, <3>1, <4>1 DEF Moves, Settled, RowsOwned
      <4>3. history[s].to = doing.to /\ \A n \in Moves \ {s} : history[n].at <= history[s].at
        BY <4>2 DEF MovesAlone
      <4>4. s \in Settled' /\ m \in Moves
        BY <1>13, <1>15, <2>2, <4>1, <4>2, WrittenAre
      <4> QED
        BY <1>1, <2>0, <3>1, <4>2, <4>3, <4>4, WrittenAre
    <3>2. CASE ~moved
      <4>1. ASSUME NEW s \in Moves \cap mine PROVE s \in Settled
        <5>1. history[s].owner \in {w, Nobody}
          BY DEF RowsOwned
        <5>2. history[s].owner # w
          BY <3>2, <5>1, <1>19, NoStatusAssumption DEF Settled
        <5> QED
          BY <5>1, <5>2 DEF Settled
      <4>2. Settled' = Settled /\ status' = status
        BY <1>1, <1>15, <3>2, <4>1
      <4> QED
        BY <2>0, <2>2, <4>2, WrittenAre DEF RowsSaw
    <3> QED
      BY <3>1, <3>2
  <2>3. ASSUME NEW x \in Written' PROVE status' \in history'[x].during \/ Settled' # {}
    <3>1. CASE moved
      <4>1. PICK s \in mine : history[s].field = "status_id"
        BY <1>1, <3>1
      <4>2. s \in Settled'
        BY <1>2, <1>15, <4>1 DEF Moves
      <4> QED
        BY <4>2
    <3>2. CASE ~moved
      BY <1>1, <1>13, <1>15, <2>0, <2>3, <3>2 DEF RowsSaw
    <3> QED
      BY <3>1, <3>2
  <2>4. ASSUME NEW x \in Written', NEW m \in Moves', history'[m].at < history'[x].at
        PROVE  \/ history'[m].to \in history'[x].during
               \/ \E n \in Settled' \ {m} :
                     history'[m].at <= history'[n].at /\ history'[n].at <= history'[x].at
    <3>1. x \in Written /\ m \in Moves /\ history[m].at < history[x].at
      BY <1>13, <2>0, <2>4, WrittenAre
    <3>2. \/ history[m].to \in history[x].during
          \/ \E n \in Settled \ {m} :
                history[m].at <= history[n].at /\ history[n].at <= history[x].at
      BY <3>1 DEF RowsSaw
    <3> QED
      BY <1>15, <2>0, <3>1, <3>2, WrittenAre
  <2> QED
    BY <2>1, <2>2, <2>3, <2>4 DEF RowsSaw
<1>22. ASSUME NEW x \in RowIds, comments'[x] # NoStatus PROVE Told(x)'
  <2>1. Told(x) /\ x \in Written
    BY <1>1, <1>22 DEF CommentsTyped
  <2>2. \A y \in Written : history'[y].at = history[y].at /\ history'[y].to = history[y].to
                           /\ history[y].during \subseteq history'[y].during
    BY <1>6
  <2>3. CASE comments[x] \in history[x].during
    BY <1>1, <2>1, <2>2, <2>3 DEF Told
  <2>4. CASE x \in late /\ history[x].at < now /\ \A m \in Moves : history[x].at < history[m].at
    BY <1>1, <1>13, <2>1, <2>2, <2>4, WrittenAre DEF Told
  <2>5. ASSUME NEW m \in Moves,
               history[m].owner \in {history[x].owner, Nobody}, history[m].at <= history[x].at,
               \/ history[m].at = history[x].at /\ comments[x] = history[m].to
               \/ \E n \in Settled \ {m} : history[n].at = history[m].at
        PROVE  Told(x)'
    <3>1. history'[m].owner \in {history'[x].owner, Nobody}
      BY <1>14, <2>1, <2>5, WrittenAre
    <3>2. \/ history'[m].at = history'[x].at /\ comments'[x] = history'[m].to
          \/ \E n \in Settled' \ {m} : history'[n].at = history'[m].at
      BY <1>1, <1>15, <2>1, <2>2, <2>5, WrittenAre
    <3> QED
      BY <1>13, <2>1, <2>2, <2>5, <3>1, <3>2, WrittenAre DEF Told
  <2> QED
    BY <2>1, <2>3, <2>4, <2>5 DEF Told
<1>23. \A x \in expected' : Ahead(x)'
  <2>1. \A x \in Seen(Nobody) : /\ history'[x] # NoRow /\ history'[x].owner = Nobody
                                /\ history'[x].field = history[x].field
                                /\ history'[x].at = history[x].at
    BY <1>6, <1>12, <1>14, NoStatusAssumption DEF Seen
  <2> QED
    BY <1>1, <2>1, AheadStays
<1> QED
  BY <1>17, <1>18, <1>20, <1>21, <1>22, <1>23

LEMMA AbandonKeeps ==
    ASSUME OrderCommentsInv, NEW w \in Editors, Abandon(w)
    PROVE  OrderCommentsInv'
<1> USE DEF OrderCommentsInv, CommentsInv, RecordInv
<1> DEFINE undone == {id \in editor[w].mine : history[id].owner = w}
<1>1. /\ history' = [id \in RowIds |-> IF id \in undone THEN NoRow ELSE history[id]]
      /\ comments' = [id \in RowIds |-> IF id \in undone THEN NoStatus ELSE comments[id]]
      /\ editor' = [editor EXCEPT ![w] = Resting]
      /\ UNCHANGED <<status, now, script, expected, late>>
  BY DEF Abandon
<1>2. \A id \in Written : id \in undone <=> history[id].owner = w
  BY NoStatusAssumption DEF RowsOwned
<1>3. \A id \in undone : history[id].owner = w
  OBVIOUS
<1> HIDE DEF undone
<1>4. /\ \A id \in RowIds \ undone : history'[id] = history[id] /\ comments'[id] = comments[id]
      /\ \A id \in RowIds \cap undone : history'[id] = NoRow /\ comments'[id] = NoStatus
  BY <1>1
<1>5. /\ editor' \in [Editors -> {Resting} \cup EditorWork] /\ editor'[w] = Resting
      /\ \A v \in Editors \ {w} : editor'[v] = editor[v]
      /\ Resting.mine = {} /\ Resting.kind = "rest"
  BY <1>1 DEF CommentsTyped, Resting
<1>6. Written' = Written \ undone /\ Moves' = Moves \ undone
  <2>1. Written' = Written \ undone
    BY <1>4 DEF Written
  <2> QED
    BY <1>4, <2>1, WrittenAre DEF Moves
<1>7. Settled' = Settled /\ \A x \in Settled : x \notin undone
  <2>1. \A x \in Settled : x \notin undone
    BY <1>3, NoStatusAssumption DEF Settled
  <2> QED
    BY <1>4, <1>6, <2>1, WrittenAre DEF Settled
<1>8. \A x \in Written' : history'[x] = history[x] /\ comments'[x] = comments[x]
  BY <1>4, <1>6, WrittenAre
<1>9. \A x \in Seen(Nobody) : x \in Written' /\ x \in Seen(Nobody)'
  BY <1>2, <1>6, <1>8, NoStatusAssumption DEF Seen
<1>10. CommentsTyped'
  <2>1. history' \in [RowIds -> {NoRow} \cup RowsUntil(now)]
        /\ comments' \in [RowIds -> Statuses \cup {NoStatus}]
    BY <1>1 DEF CommentsTyped
  <2>2. \A x \in RowIds : comments'[x] # NoStatus => x \in Written' /\ Commentable(x)'
    BY <1>4, <1>6 DEF CommentsTyped, Commentable
  <2> QED
    BY <1>1, <1>5, <1>9, <2>1, <2>2 DEF CommentsTyped
<1>11. RowsOwned'
  <2>1. ASSUME NEW v \in Editors, NEW x \in editor'[v].mine
        PROVE  /\ x \in Written' /\ history'[x].owner \in {v, Nobody}
               /\ history'[x].owner = Nobody <=> editor'[v].kind = "attach"
               /\ status' \in history'[x].during /\ editor'[v].to \in history'[x].during
    <3>1. v # w /\ x \in editor[v].mine
      BY <1>5, <2>1
    <3>2. x \in Written /\ history[x].owner \in {v, Nobody}
      BY <3>1 DEF RowsOwned
    <3>3. x \in Written'
      BY <1>2, <1>6, <3>1, <3>2, NoStatusAssumption
    <3> QED
      BY <1>1, <1>5, <1>8, <3>1, <3>3 DEF RowsOwned
  <2>2. ASSUME NEW x \in Written', history'[x].owner # Nobody
        PROVE  x \in editor'[history'[x].owner].mine
    <3>1. x \in Written /\ history[x].owner \in Editors \ {w} /\ history'[x] = history[x]
      BY <1>2, <1>6, <1>8, <2>2, RowsAre, WrittenAre
    <3> QED
      BY <1>5, <2>2, <3>1 DEF RowsOwned
  <2> QED
    BY <2>1, <2>2 DEF RowsOwned
<1>12. MovesAlone'
  <2>1. AtWork' = AtWork \ {w}
    BY <1>5 DEF AtWork
  <2>2. ASSUME NEW m \in Moves' \ Settled'
        PROVE  /\ editor'[history'[m].owner].kind = "move"
               /\ history'[m].to = editor'[history'[m].owner].to
               /\ \A n \in Moves' \ {m} : n \in Settled' /\ history'[n].at <= history'[m].at
    <3>1. m \in Moves \ Settled /\ m \in Written' /\ m \in Written
      BY <1>6, <1>7, <2>2, WrittenAre
    <3>2. history[m].owner \in Editors \ {w}
      BY <1>2, <1>6, <3>1, RowsAre, WrittenAre DEF Settled
    <3>3. \A n \in Moves' : n \in Moves /\ history'[n] = history[n]
      BY <1>6, <1>8, WrittenAre
    <3> QED
      BY <1>5, <1>7, <2>2, <3>1, <3>2, <3>3 DEF MovesAlone
  <2> QED
    BY <1>1, <1>5, <2>1, <2>2 DEF MovesAlone, AtWork
<1>13. \A m \in Moves' : m \in Moves /\ history'[m] = history[m]
  BY <1>6, <1>8, WrittenAre
<1>14. \A m \in Settled : history'[m] = history[m] /\ m \in Moves'
  BY <1>6, <1>7, <1>13, WrittenAre
<1>15. RowsSaw'
  <2>1. ASSUME NEW x \in Written', NEW m \in Moves', history'[m].at < history'[x].at
        PROVE  \/ history'[m].to \in history'[x].during
               \/ \E n \in Settled' \ {m} :
                     history'[m].at <= history'[n].at /\ history'[n].at <= history'[x].at
    BY <1>6, <1>7, <1>8, <1>13, <1>14, <2>1 DEF RowsSaw
  <2>2. ASSUME NEW m \in Settled'
        PROVE  \/ history'[m].to = status'
               \/ \E n \in Settled' \ {m} : history'[m].at <= history'[n].at
    <3>1. m \in Settled /\ history'[m] = history[m] /\ status' = status
      BY <1>1, <1>7, <1>14, <2>2
    <3>2. \/ history[m].to = status
          \/ \E n \in Settled \ {m} : history[m].at <= history[n].at
      BY <3>1 DEF RowsSaw
    <3> QED
      BY <1>7, <1>14, <3>1, <3>2
  <2>3. /\ \A m \in Moves' : history'[m].to \in history'[m].during
        /\ \A x \in Written' : status' \in history'[x].during \/ Settled' # {}
    BY <1>1, <1>6, <1>7, <1>8, <1>13 DEF RowsSaw
  <2> QED
    BY <2>1, <2>2, <2>3 DEF RowsSaw
<1>16. ASSUME NEW x \in RowIds, comments'[x] # NoStatus PROVE Told(x)'
  <2>1. x \notin undone /\ Told(x) /\ x \in Written /\ x \in Written' /\ comments'[x] = comments[x]
        /\ history'[x] = history[x]
    BY <1>4, <1>6, <1>16 DEF CommentsTyped
  <2>2. ASSUME NEW m \in Moves, history[m].owner \in {history[x].owner, Nobody}
        PROVE  m \in Moves' /\ history'[m] = history[m]
    <3>1. history[m].owner # w
      BY <1>2, <2>1, <2>2, NoStatusAssumption
    <3> QED
      BY <1>3, <1>6, <1>13, <3>1
  <2>3. CASE \E m \in Moves :
               /\ history[m].owner \in {history[x].owner, Nobody} /\ history[m].at <= history[x].at
               /\ \/ history[m].at = history[x].at /\ comments[x] = history[m].to
                  \/ \E n \in Settled \ {m} : history[n].at = history[m].at
    BY <1>7, <1>14, <2>1, <2>2, <2>3 DEF Told
  <2>4. CASE comments[x] \in history[x].during
    BY <2>1, <2>4 DEF Told
  <2>5. CASE x \in late /\ history[x].at < now /\ \A m \in Moves : history[x].at < history[m].at
    BY <1>1, <1>13, <2>1, <2>5 DEF Told
  <2> QED
    BY <2>1, <2>3, <2>4, <2>5 DEF Told
<1>17. \A x \in expected' : Ahead(x)'
  <2>1. \A x \in Seen(Nobody) : /\ history'[x] # NoRow /\ history'[x].owner = Nobody
                                /\ history'[x].field = history[x].field
                                /\ history'[x].at = history[x].at
    BY <1>8, <1>9, NoStatusAssumption DEF Seen, Written
  <2>2. \A x \in RowIds : comments[x] # NoStatus /\ x \in Seen(Nobody) => comments'[x] # NoStatus
    BY <1>8, <1>9
  <2> QED
    BY <1>1, <2>1, <2>2, AheadStays
<1> QED
  BY <1>10, <1>11, <1>12, <1>15, <1>16, <1>17

(* The script. *)

\* The rows with few before them are the first of all, and as many as asked for
\* unless they are all.
LEMMA FirstRows ==
    ASSUME NEW S \in SUBSET RowIds, \A r \in S : history[r].at \in Nat
    PROVE  LET first == {id \in S : Cardinality({r \in S : Precedes(r, id)}) < BatchSize}
           IN  /\ \A id \in S \ first : \A b \in first : Precedes(b, id)
               /\ S \ first # {} => Cardinality(first) >= BatchSize
<1> DEFINE Before(id) == {r \in S : Precedes(r, id)}
           first == {id \in S : Cardinality(Before(id)) < BatchSize}
<1>1. IsFiniteSet(S) /\ (\A Y \in SUBSET S : IsFiniteSet(Y) /\ Cardinality(Y) \in Nat) /\ BatchSize \in Nat
  BY RowIdsAssumption, FS_Subset, FS_CardinalityType
<1>2. \A Y \in SUBSET S : \A X \in SUBSET Y : Cardinality(X) <= Cardinality(Y)
  BY <1>1, FS_Subset
<1>3. \A r \in S : r \in Nat /\ history[r].at \in Nat
  BY RowIdsAssumption
<1>4. ASSUME NEW id \in S \ first, NEW b \in first PROVE Precedes(b, id)
  <2>0. id \in S /\ b \in S /\ id # b
    OBVIOUS
  <2>1. SUFFICES ASSUME Precedes(id, b) PROVE FALSE
    <3>1. id \in Nat /\ b \in Nat /\ history[id].at \in Nat /\ history[b].at \in Nat /\ id # b
      BY <1>3, <2>0
    <3>2. ~Precedes(id, b) => Precedes(b, id)
      BY <3>1 DEF Precedes
    <3> QED
      BY <3>2
  <2>2. Before(id) \subseteq Before(b)
    BY <1>3, <2>1 DEF Precedes
  <2>3. Cardinality(Before(id)) <= Cardinality(Before(b))
    BY <1>2, <2>2
  <2>4. Cardinality(Before(id)) \in Nat /\ Cardinality(Before(b)) \in Nat
    BY <1>1
  <2>5. ~(Cardinality(Before(id)) < BatchSize) /\ Cardinality(Before(b)) < BatchSize
    OBVIOUS
  <2> QED
    BY <1>1, <2>3, <2>4, <2>5
<1>5. ASSUME S \ first # {} PROVE Cardinality(first) >= BatchSize
  <2>1. S \ first \in SUBSET RowIds /\ \A r \in S \ first : history[r].at \in Nat
    OBVIOUS
  <2>2. PICK m \in S \ first : \A n \in (S \ first) \ {m} : Precedes(m, n)
    BY <1>5, <2>1, HasFirst
  <2>3. ASSUME NEW n \in Before(m), n \notin first PROVE FALSE
    <3>1. n \in S /\ m \in S /\ Precedes(n, m) /\ (n # m => Precedes(m, n))
      BY <2>2, <2>3
    <3> QED
      BY <1>3, <3>1 DEF Precedes
  <2>4. ~(Cardinality(Before(m)) < BatchSize)
    OBVIOUS
  <2>5. Cardinality(Before(m)) <= Cardinality(first) /\ Cardinality(Before(m)) \in Nat
        /\ Cardinality(first) \in Nat
    <3>1. Before(m) \in SUBSET first /\ first \in SUBSET S /\ Before(m) \in SUBSET S
      BY <2>3
    <3> HIDE DEF first, Before
    <3> QED
      BY <1>1, <1>2, <3>1
  <2> QED
    BY <1>1, <2>4, <2>5
<1> QED
  BY <1>4, <1>5

LEMMA FillBatchKeeps ==
    ASSUME OrderCommentsInv, FillBatch
    PROVE  OrderCommentsInv'
<1> USE DEF OrderCommentsInv, CommentsInv, RecordInv
<1> DEFINE todo == {id \in script.batch : comments[id] = NoStatus /\ Commentable(id)}
           last == CHOOSE id \in script.batch : \A r \in script.batch \ {id} : Precedes(r, id)
           Answer(id) == resolveStatusBy(id, Seen(Nobody), status)
<1>1. /\ script.step = "fill"
      /\ comments' = [id \in RowIds |-> IF id \in todo THEN Answer(id) ELSE comments[id]]
      /\ late' = late \cup todo
      /\ script' = IF Cardinality(script.batch) < BatchSize THEN NoScript
                   ELSE [step |-> "fetch", batch |-> {}, after |-> <<history[last].at, last>>]
      /\ UNCHANGED <<status, now, history, editor, expected>>
  BY DEF FillBatch
<1>2. script.batch \subseteq Seen(Nobody) /\ Seen(Nobody) \subseteq Written /\ Written \subseteq RowIds
      /\ \A id \in Seen(Nobody) : history[id].owner = Nobody
  BY WrittenAre DEF CommentsTyped, Seen
<1>3. \A id \in Written : history[id].at \in Nat /\ history[id].at <= now
  BY <1>2, RowsAre
<1>4. todo \subseteq script.batch /\ \A id \in todo : comments[id] = NoStatus /\ Commentable(id)
  OBVIOUS
<1>5. \A id \in script.batch : comments[id] = NoStatus /\ Commentable(id) => id \in todo
  OBVIOUS
<1>6. \A id \in todo : Answer(id) \in Statuses /\ Answer(id) # NoStatus
  <2>1. status \in Statuses
    BY DEF CommentsTyped
  <2> QED
    BY <1>2, <2>1, ResolvedIsStatus
<1>7. Written' = Written /\ Moves' = Moves /\ Settled' = Settled /\ Seen(Nobody)' = Seen(Nobody)
      /\ AtWork' = AtWork /\ \A x : Commentable(x)' <=> Commentable(x)
  BY <1>1, RowsSame DEF AtWork
<1>8. ASSUME Cardinality(script.batch) >= BatchSize
      PROVE  last \in script.batch /\ \A r \in script.batch \ {last} : Precedes(r, last)
  <2>1. script.batch # {}
    <3>1. Cardinality({}) = 0 /\ BatchSize \in Nat /\ BatchSize # 0
      BY FS_EmptySet, RowIdsAssumption
    <3>2. ~(0 >= BatchSize)
      BY <3>1
    <3> QED
      BY <1>8, <3>1, <3>2
  <2>2. script.batch \in SUBSET RowIds /\ \A r \in script.batch : history[r].at \in Nat
    BY <1>2, <1>3
  <2> QED
    BY <2>1, <2>2, HasLast
<1>9. Cardinality(script.batch) \in Nat /\ BatchSize \in Nat \ {0}
  BY <1>2, RowIdsAssumption, FS_Subset, FS_CardinalityType
<1> HIDE DEF last, todo
<1>10. ASSUME NEW id \in todo
       PROVE  \/ Answer(id) \in history[id].during
              \/ history[id].at < now /\ \A m \in Moves : history[id].at < history[m].at
              \/ \E m \in Moves :
                    /\ history[m].owner \in {history[id].owner, Nobody}
                    /\ history[m].at <= history[id].at
                    /\ \/ history[m].at = history[id].at /\ Answer(id) = history[m].to
                       \/ \E n \in Settled \ {m} : history[n].at = history[m].at
  <2>1. id \in Written /\ history[id].owner = Nobody
    BY <1>2, <1>4
  <2>2. \/ Answer(id) \in history[id].during
        \/ /\ Answer(id) = status
           /\ \A m \in Moves : m \in Settled => history[id].at < history[m].at
        \/ \E m \in Moves :
              /\ history[m].owner \in {history[id].owner, Nobody}
              /\ history[m].at <= history[id].at
              /\ \/ history[m].at = history[id].at /\ Answer(id) = history[m].to
                 \/ \E n \in Settled \ {m} : history[n].at = history[m].at
    BY <2>1, ResolvedTells
  <2> HIDE DEF Answer
  <2>3. CASE Answer(id) = status /\ \A m \in Moves : m \in Settled => history[id].at < history[m].at
    <3>1. status \in history[id].during \/ Settled # {}
      BY <2>1 DEF RowsSaw
    <3>2. ASSUME NEW s \in Settled
          PROVE  history[id].at < now /\ \A m \in Moves : history[id].at < history[m].at
      <4>1. history[id].at < history[s].at /\ s \in Moves /\ s \in Written
        BY <2>3, WrittenAre
      <4>2. history[id].at < now
        BY <1>3, <2>1, <4>1, RowIdsAssumption DEF CommentsTyped
      <4>3. ASSUME NEW m \in Moves \ Settled PROVE history[id].at < history[m].at
        <5>1. history[s].at <= history[m].at /\ m \in Written
          BY <4>1, WrittenAre DEF MovesAlone
        <5> QED
          BY <1>3, <2>1, <4>1, <5>1
      <4> QED
        BY <2>3, <4>2, <4>3
    <3> QED
      BY <2>3, <3>1, <3>2
  <2> QED
    BY <2>2, <2>3
<1> HIDE DEF Answer
<1>11. /\ comments' \in [RowIds -> Statuses \cup {NoStatus}]
       /\ \A id \in todo : comments'[id] = Answer(id)
       /\ \A id \in RowIds \ todo : comments'[id] = comments[id]
  BY <1>1, <1>2, <1>4, <1>6 DEF CommentsTyped
<1>12. /\ script' \in [step : {"ended", "fetch", "fill"}, batch : SUBSET RowIds,
                       after : {<<>>} \cup (Nat \X Nat)]
       /\ script'.batch = {}
  <2>1. CASE Cardinality(script.batch) < BatchSize
    BY <1>1, <2>1 DEF NoScript
  <2>2. CASE Cardinality(script.batch) >= BatchSize
    <3>1. last \in Nat /\ history[last].at \in Nat
      BY <1>2, <1>3, <1>8, <2>2, RowIdsAssumption
    <3> QED
      BY <1>1, <1>9, <2>2, <3>1
  <2> QED
    BY <1>9, <2>1, <2>2
<1>13. CommentsTyped'
  <2>1. ASSUME NEW x \in RowIds, comments'[x] # NoStatus PROVE x \in Written' /\ Commentable(x)'
    BY <1>2, <1>4, <1>7, <1>11, <2>1 DEF CommentsTyped
  <2>2. late' \subseteq RowIds
    BY <1>1, <1>2, <1>4 DEF CommentsTyped
  <2> QED
    BY <1>1, <1>7, <1>11, <1>12, <2>1, <2>2 DEF CommentsTyped
<1>14. RowsOwned' /\ MovesAlone' /\ RowsSaw'
  BY <1>1, <1>7 DEF RowsOwned, MovesAlone, RowsSaw
<1>15. ASSUME NEW x \in RowIds, comments'[x] # NoStatus PROVE Told(x)'
  <2>1. CASE x \in todo
    BY <1>1, <1>7, <1>10, <1>11, <2>1 DEF Told
  <2>2. CASE x \notin todo
    BY <1>1, <1>7, <1>11, <1>15, <2>2 DEF Told
  <2> QED
    BY <2>1, <2>2
<1>16. ASSUME NEW x \in expected' PROVE Ahead(x)'
  <2>1. Ahead(x) /\ x \in Seen(Nobody) /\ Commentable(x)
    BY <1>1, <1>16 DEF Ahead
  <2>2. ASSUME comments'[x] = NoStatus
        PROVE  script'.step = "fetch" /\ Behind(x, script.after)'
    <3>1. x \notin todo /\ comments[x] = NoStatus
      BY <1>2, <1>6, <1>11, <2>1, <2>2
    <3>2. x \notin script.batch
      BY <1>5, <2>1, <3>1 DEF todo
    <3>3. Cardinality(script.batch) >= BatchSize /\ \A b \in script.batch : Precedes(b, x)
      BY <1>1, <2>1, <3>1, <3>2 DEF Ahead
    <3>4. script' = [step |-> "fetch", batch |-> {}, after |-> <<history[last].at, last>>]
          /\ Precedes(last, x)
      BY <1>1, <1>8, <1>9, <3>3
    <3>5. script'.after[1] = history[last].at /\ script'.after[2] = last /\ script'.step = "fetch"
      BY <3>4
    <3>6. last \in Nat /\ x \in Nat /\ history[last].at \in Nat /\ history[x].at \in Nat
      BY <1>2, <1>3, <1>8, <2>1, <3>3, RowIdsAssumption
    <3> QED
      BY <1>1, <3>4, <3>5, <3>6 DEF Behind, Precedes
  <2> QED
    BY <1>7, <2>1, <2>2 DEF Ahead
<1> QED
  BY <1>13, <1>14, <1>15, <1>16

LEMMA ScriptKeeps ==
    ASSUME OrderCommentsInv, Tick \/ StartBackfill \/ fetchMissingHistoryRows \/ ScriptFails
    PROVE  OrderCommentsInv'
<1> USE DEF OrderCommentsInv, CommentsInv, RecordInv
<1>1. CommentsInv'
  BY QuietKeeps
<1>2. ASSUME Tick PROVE \A x \in expected' : Ahead(x)'
  BY <1>2, AheadSame DEF Tick
<1>3. ASSUME ScriptFails PROVE \A x \in expected' : Ahead(x)'
  BY <1>3 DEF ScriptFails
<1>4. ASSUME StartBackfill PROVE \A x \in expected' : Ahead(x)'
  <2>1. /\ history' = history /\ comments' = comments
        /\ script'.step = "fetch" /\ script'.after = <<>>
        /\ expected' = {id \in Missing : Commentable(id)}
    BY <1>4 DEF StartBackfill, NoScript
  <2>2. Seen(Nobody)' = Seen(Nobody) /\ \A x : Commentable(x)' <=> Commentable(x)
    BY <2>1, RowsSame
  <2> QED
    BY <2>1, <2>2 DEF Ahead, Missing, Behind
<1>5. ASSUME fetchMissingHistoryRows PROVE \A x \in expected' : Ahead(x)'
  <2> DEFINE rest == {id \in Missing : Behind(id, script.after)}
             first == {id \in rest : Cardinality({r \in rest : Precedes(r, id)}) < BatchSize}
  <2>1. /\ script.step = "fetch"
        /\ script' = IF first = {} THEN NoScript
                     ELSE [step |-> "fill", batch |-> first, after |-> script.after]
        /\ UNCHANGED <<history, comments, expected>>
    BY <1>5 DEF fetchMissingHistoryRows
  <2>2. Seen(Nobody)' = Seen(Nobody) /\ \A x : Commentable(x)' <=> Commentable(x)
    BY <2>1, RowsSame
  <2>3. rest \in SUBSET RowIds /\ \A r \in rest : history[r].at \in Nat
    BY WrittenAre, RowsAre DEF Missing, Seen
  <2>4. /\ \A id \in rest \ first : \A b \in first : Precedes(b, id)
        /\ rest \ first # {} => Cardinality(first) >= BatchSize
    BY <2>3, FirstRows
  <2>5. \A x \in Missing : Behind(x, script.after) => x \in rest
    OBVIOUS
  <2>6. first \subseteq rest
    OBVIOUS
  <2> HIDE DEF first, rest
  <2>7. first = {} => rest = {}
    BY <2>4, <2>6, FS_EmptySet, RowIdsAssumption
  <2> SUFFICES ASSUME NEW x \in expected' PROVE Ahead(x)'
    OBVIOUS
  <2>8. Ahead(x) /\ x \in Seen(Nobody) /\ Commentable(x)
    BY <2>1 DEF Ahead
  <2>9. ASSUME comments[x] = NoStatus
        PROVE  /\ script' = [step |-> "fill", batch |-> first, after |-> script.after]
               /\ \/ x \in first
                  \/ Cardinality(first) >= BatchSize /\ \A b \in first : Precedes(b, x)
    <3>1. x \in rest
      BY <2>1, <2>5, <2>8, <2>9 DEF Ahead, Missing
    <3> QED
      BY <2>1, <2>4, <2>7, <3>1
  <2>10. \A b : Precedes(b, x)' <=> Precedes(b, x)
    BY <2>1 DEF Precedes
  <2> QED
    BY <2>1, <2>2, <2>8, <2>9, <2>10 DEF Ahead
<1> QED
  BY <1>1, <1>2, <1>3, <1>4, <1>5

LEMMA CommentsStepKeeps == OrderCommentsInv /\ [CommentsNext]_commentVars => OrderCommentsInv'
<1> SUFFICES ASSUME OrderCommentsInv, [CommentsNext]_commentVars PROVE OrderCommentsInv'
  OBVIOUS
<1>1. CASE UNCHANGED commentVars
  <2>1. UNCHANGED <<status, now, history, comments, editor, script, expected, late>>
    BY <1>1 DEF commentVars
  <2>2. Written' = Written /\ Moves' = Moves /\ Settled' = Settled /\ Seen(Nobody)' = Seen(Nobody)
        /\ AtWork' = AtWork /\ \A x : Commentable(x)' <=> Commentable(x)
    BY <2>1, RowsSame DEF AtWork
  <2>3. CommentsTyped' /\ RowsOwned' /\ MovesAlone' /\ RowsSaw'
    BY <2>1, <2>2
    DEF OrderCommentsInv, CommentsInv, RecordInv, CommentsTyped, RowsOwned, MovesAlone, RowsSaw
  <2>4. \A id \in RowIds : comments'[id] # NoStatus => Told(id)'
    BY <2>1, <2>2 DEF OrderCommentsInv, CommentsInv, Told
  <2>5. \A id \in expected' : Ahead(id)'
    BY <2>1, AheadSame DEF OrderCommentsInv, CommentsInv, RecordInv
  <2> QED
    BY <2>3, <2>4, <2>5 DEF OrderCommentsInv, CommentsInv, RecordInv
<1>2. CASE CommentsNext
  BY <1>2, WorkBegins, LogChangeKeeps, CommentChangeKeeps, CommitKeepsComments, AbandonKeeps,
     FillBatchKeeps, ScriptKeeps
  DEF CommentsNext
<1> QED
  BY <1>1, <1>2

LEMMA CommentsInitKeeps == CommentsInit => OrderCommentsInv
<1> SUFFICES ASSUME CommentsInit PROVE OrderCommentsInv
  OBVIOUS
<1>1. PICK first \in Statuses, second \in Statuses, old \in OldRows :
         \E fields \in [old -> RowFields] :
            /\ status = second
            /\ Cardinality({id \in old : fields[id] = "status_id"}) = IF first = second THEN 0 ELSE 1
            /\ history = [id \in RowIds |->
                  IF id \in old THEN HistoryRow(fields[id], second, Nobody, {first, second})
                  ELSE NoRow]
  BY DEF CommentsInit
<1>2. PICK fields \in [old -> RowFields] :
         /\ status = second
         /\ history = [id \in RowIds |->
               IF id \in old THEN HistoryRow(fields[id], second, Nobody, {first, second})
               ELSE NoRow]
  BY <1>1
<1>3. /\ now = 0 /\ comments = [id \in RowIds |-> NoStatus]
      /\ editor = [w \in Editors |-> Resting] /\ script = NoScript
      /\ expected = {} /\ late = {} /\ 0 \in 0 .. LastTime /\ 0 \in 0 .. 0
  BY RowIdsAssumption DEF CommentsInit
<1>4. \A id \in RowIds : IF id \in old
         THEN history[id] = [field |-> fields[id], at |-> 0, to |-> second, owner |-> Nobody,
                             during |-> {first, second}]
         ELSE history[id] = NoRow
  BY <1>2, <1>3 DEF HistoryRow
<1>0. \A id \in RowIds \cap old : fields[id] \in RowFields
  OBVIOUS
<1>5. \A id \in RowIds : id \in old => history[id] \in RowsUntil(now) /\ history[id] # NoRow
                                       /\ history[id].at = 0 /\ history[id].owner = Nobody
                                       /\ history[id].to = status /\ status \in history[id].during
  <2> SUFFICES ASSUME NEW id \in RowIds, id \in old
               PROVE  /\ history[id] \in RowsUntil(now) /\ history[id] # NoRow
                      /\ history[id].at = 0 /\ history[id].owner = Nobody
                      /\ history[id].to = status /\ status \in history[id].during
    OBVIOUS
  <2> DEFINE f == fields[id]
  <2>1. f \in RowFields /\ history[id] = [field |-> f, at |-> 0, to |-> second, owner |-> Nobody,
                                          during |-> {first, second}]
    BY <1>0, <1>4
  <2> HIDE DEF f
  <2>2. history[id] \in RowsUntil(0)
    BY <1>3, <2>1 DEF RowsUntil
  <2>3. history[id].field \in RowFields /\ NoRow.field \notin RowFields
    BY <2>1 DEF NoRow, RowFields
  <2> QED
    BY <1>2, <1>3, <2>1, <2>2, <2>3
<1>6. history \in [RowIds -> {NoRow} \cup RowsUntil(now)]
  BY <1>2, <1>4, <1>5
<1>7. \A id \in Written : /\ history[id].at = 0 /\ history[id].owner = Nobody
                          /\ history[id].to = status /\ status \in history[id].during
  BY <1>4, <1>5 DEF Written
<1>8. Resting.mine = {} /\ NoScript \in [step : {"ended", "fetch", "fill"}, batch : SUBSET RowIds,
                                         after : {<<>>} \cup (Nat \X Nat)] /\ NoScript.batch = {}
  BY DEF Resting, NoScript
<1>9. CommentsTyped
  BY <1>2, <1>3, <1>6, <1>8 DEF CommentsTyped
<1>10. RowsOwned
  BY <1>3, <1>7, <1>8 DEF RowsOwned
<1>11. MovesAlone
  BY <1>3, <1>7, WrittenAre DEF MovesAlone, AtWork, Settled
<1>12. RowsSaw
  BY <1>7, WrittenAre DEF RowsSaw
<1> QED
  BY <1>3, <1>9, <1>10, <1>11, <1>12 DEF OrderCommentsInv, CommentsInv, RecordInv

LEMMA CommentsAreTyped == OrderCommentsInv => CommentsTypeOK
<1> SUFFICES ASSUME OrderCommentsInv PROVE CommentsTypeOK
  OBVIOUS
<1>1. CommentsTyped
  BY DEF OrderCommentsInv, CommentsInv, RecordInv
<1>2. \A id \in RowIds : id \in Written => history[id].at \in 0 .. now
  BY <1>1, RowsAre
<1> QED
  BY <1>1, <1>2 DEF CommentsTyped, CommentsTypeOK

\* Rows are of the order's time, every comment belongs to one, and employees'
\* own comments are not commented.
THEOREM CommentsTypeCorrect == CommentsSpec => []CommentsTypeOK
<1>1. CommentsInit => OrderCommentsInv
  BY CommentsInitKeeps
<1>2. OrderCommentsInv /\ [CommentsNext]_commentVars => OrderCommentsInv'
  BY CommentsStepKeeps
<1> QED
  BY <1>1, <1>2, CommentsAreTyped, PTL DEF CommentsSpec

\* The status a comment of the history names is one the order had, or was being
\* given, while the change it is about was made, whoever writes it and however
\* late, but for what CommentTellsStatus excepts.
THEOREM CommentTellsStatusHolds == CommentsSpec => []CommentTellsStatus
<1>1. CommentsInit => OrderCommentsInv
  BY CommentsInitKeeps
<1>2. OrderCommentsInv /\ [CommentsNext]_commentVars => OrderCommentsInv'
  BY CommentsStepKeeps
<1>3. OrderCommentsInv => CommentTellsStatus
  <2> SUFFICES ASSUME OrderCommentsInv, NEW id \in RowIds, comments[id] # NoStatus
               PROVE  LET moves(until) == {m \in Written :
                              history[m].field = "status_id" /\ history[m].at <= until}
                      IN  \/ comments[id] \in history[id].during
                          \/ id \in late /\ moves(history[id].at) = {}
                          \/ \E m \in moves(history[id].at) :
                                \/ history[m].at = history[id].at /\ comments[id] = history[m].to
                                \/ \E n \in moves(history[id].at) \ {m} :
                                      history[m].at = history[n].at
    BY DEF CommentTellsStatus
  <2>1. Told(id) /\ CommentsTyped /\ id \in Written
    BY DEF OrderCommentsInv, CommentsInv, RecordInv, CommentsTyped
  <2> DEFINE found == {m \in Written :
                          history[m].field = "status_id" /\ history[m].at <= history[id].at}
  <2>2. \A m \in Moves : history[m].at <= history[id].at => m \in found
    BY DEF Moves
  <2>3. \A m \in found : m \in Moves /\ history[m].at <= history[id].at
    BY DEF Moves
  <2>4. \A x \in Written : history[x].at \in Nat
    BY <2>1, RowsAre, WrittenAre
  <2> HIDE DEF found
  <2>5. \/ comments[id] \in history[id].during
        \/ id \in late /\ found = {}
        \/ \E m \in found : \/ history[m].at = history[id].at /\ comments[id] = history[m].to
                            \/ \E n \in found \ {m} : history[m].at = history[n].at
    BY <2>1, <2>2, <2>3, <2>4, WrittenAre DEF Told
  <2> QED
    BY <2>5 DEF found
<1> QED
  BY <1>1, <1>2, <1>3, PTL DEF CommentsSpec

\* When the script ends without an error, every row it could comment when it
\* started has its comment, for any size of its batches and any handlers.
THEOREM BackfillCompleteHolds == CommentsSpec => []BackfillComplete
<1>1. CommentsInit => OrderCommentsInv
  BY CommentsInitKeeps
<1>2. OrderCommentsInv /\ [CommentsNext]_commentVars => OrderCommentsInv'
  BY CommentsStepKeeps
<1>3. OrderCommentsInv => BackfillComplete
  BY DEF OrderCommentsInv, Ahead, BackfillComplete
<1> QED
  BY <1>1, <1>2, <1>3, PTL DEF CommentsSpec


-----------------------------------------------------------------------------
(* Customers and the orders opened for them (Customers).                   *)


(***************************************************************************)
(* What is true of a request, by itself, of the rows of users (C) and of   *)
(* the orders (O) there are.                                               *)
(***************************************************************************)
Ticket ==
    [pc : {"free", "rung", "ensure", "insert", "seek", "search", "open", "touch", "link",
           "rewrite", "commit"},
     way : {"none", "webhook", "answered", "application", "employee", "link", "renumber", "info",
            "update", "user"},
     number : Numbers \cup {NoNumber}, user : Customers \cup {NoUser},
     order : Calls \cup {NoCall}, claim : Customers \cup {NoUser},
     standing : {"Open", "Banned"}, before : SUBSET Calls, known : SUBSET Customers,
     shut : SUBSET Calls]

Called == {"webhook", "answered"}

Linking == {"link", "renumber"}

\* Who gets where: an answered call registers nobody, a webhook opens an order
\* for a customer it knows, and a request refused its number knew nobody of it.
Static(d) ==
    /\ d \in Ticket
    /\ d.pc # "free" => d.number \in Numbers
    /\ d.pc \in {"rung", "seek", "touch"} => d.way \in Called
    /\ d.pc = "search" => d.way = "webhook"
    /\ d.pc = "open" => d.way \in Called \cup {"application", "employee"}
    /\ d.pc = "ensure" => d.way \in {"webhook", "application", "employee"} \cup Linking
    /\ d.pc = "insert" => d.way \in {"webhook", "application", "employee", "user"} \cup Linking
    /\ d.pc = "link" => d.way \in Linking /\ d.user # NoUser
    /\ d.way = "webhook" /\ d.pc \in {"seek", "search", "open", "touch"} => d.user # NoUser
    /\ d.claim # NoUser => /\ d.user = d.claim /\ d.way # "answered"
                           /\ d.pc \in {"search", "open", "touch", "link", "commit"}
    /\ d.pc = "touch" \/ d.way \in Linking => d.order \in Calls
    /\ d.pc = "insert" => d.known = {}
    /\ d.pc = "rewrite" /\ d.way # "user" /\ d.user # NoUser => d.known \subseteq {d.user}

\* The row a request has claimed is not there yet and nobody has its number;
\* any other customer it knows is there.
FitsCustomers(d, C) ==
    /\ d.claim # NoUser => /\ C[d.claim].standing = "absent"
                           /\ \A u \in Customers : C[u].number # d.number
    /\ d.user # NoUser => d.user = d.claim \/ C[d.user].standing # "absent"

\* An order of number n that a call has opened and nobody has edited.
Bare(p, n) == p.number = n /\ p.origin \in Called

\* A call about to open an order has seen no other one among the orders it has
\* looked at but those away or deleted; one that has come since and registered
\* its customer is not of this request's customer, and this one registers nobody.
FitsOrders(d, O) ==
    /\ d.way \in Linking => O[d.order].origin # "webhook" /\ O[d.order].state # "absent"
    /\ \A x \in d.before : O[x].state # "absent"
    /\ d.pc = "open" /\ d.way \in Called => \A x \in d.before : Bare(O[x], d.number) => x \in d.shut
    /\ d.pc = "open" /\ d.way = "webhook" =>
         \A x \in Calls \ d.shut : Bare(O[x], d.number) /\ O[x].registers
            => d.claim = NoUser /\ O[x].user # d.user

Apart(d, e) ==
    d.claim # NoUser /\ e.claim # NoUser => d.claim # e.claim /\ d.number # e.number

CustomerRow == [number : Numbers \cup {NoNumber}, standing : Standings]

CustomersFit(C) ==
    /\ C \in [Customers -> CustomerRow]
    /\ \A u \in Customers : C[u].standing = "absent" <=> C[u].number = NoNumber
    /\ \A u, w \in Customers : u # w /\ C[u].number = C[w].number => C[u].number = NoNumber

OrderRow ==
    [state : {"absent", "open", "away", "deleted"}, number : Numbers \cup {NoNumber},
     user : Customers \cup {NoUser}, origin : Origins, registers : BOOLEAN, beside : SUBSET Calls,
     shut : SUBSET Calls]

OrdersFit(O, C) ==
    /\ O \in [Calls -> OrderRow]
    /\ \A x \in Calls :
         /\ O[x].state # "absent" => O[x].number \in Numbers
         /\ O[x].origin \in Called => O[x].state # "absent"
         /\ O[x].origin = "webhook" => O[x].user # NoUser
         /\ O[x].origin = "answered" => ~O[x].registers
         /\ O[x].user # NoUser => C[O[x].user].standing # "absent"

\* Two orders of one number that calls have opened, neither of which was away or
\* deleted when the transaction of the other looked.
PairFits(O, o, x) ==
    /\ x \in O[o].beside \/ o \in O[x].beside
    /\ O[o].registers /\ O[x].origin = "webhook" => ~O[x].registers /\ O[x].user # O[o].user

PairsFit(O) ==
    \A o, x \in Calls : o # x /\ Bare(O[o], O[x].number) /\ Bare(O[x], O[x].number)
              /\ x \notin O[o].shut /\ o \notin O[x].shut
        => PairFits(O, o, x)

CInv ==
    /\ DOMAIN handler = Handlers /\ visits \in 0 .. MaxVisits
    /\ CustomersFit(customer)
    /\ OrdersFit(opened, customer)
    /\ \A h \in Handlers :
         /\ Static(handler[h])
         /\ FitsCustomers(handler[h], customer)
         /\ FitsOrders(handler[h], opened)
    /\ \A h, g \in Handlers : h # g => Apart(handler[h], handler[g])
    /\ PairsFit(opened)

(***************************************************************************)
(* A request that goes on and changes nothing but what it knows.           *)
(***************************************************************************)
\* The desk of a request that has ended fits any rows and orders.
LEMMA DeskFits ==
    ASSUME NEW C, NEW O
    PROVE  /\ Static(AtDesk) /\ FitsCustomers(AtDesk, C) /\ FitsOrders(AtDesk, O)
           /\ AtDesk.claim = NoUser
BY SMTT(30) DEF AtDesk, Static, FitsCustomers, FitsOrders, Ticket, Called, Linking, NoUser, NoCall

\* A request's next state has to fit the rows, the orders and the others.
LEMMA TicketStep ==
    ASSUME CInv, NEW h \in Handlers, NEW d, Go(h, d), UNCHANGED <<customer, opened>>,
           visits' \in 0 .. MaxVisits,
           Static(d), FitsCustomers(d, customer), FitsOrders(d, opened),
           \A g \in Handlers \ {h} : Apart(d, handler[g])
    PROVE  CInv'
<1>1. handler' = [handler EXCEPT ![h] = d] /\ DOMAIN handler = Handlers
    BY DEF CInv, Go
<1>2. handler'[h] = d /\ \A g \in Handlers \ {h} : handler'[g] = handler[g]
    BY <1>1
<1>3. DOMAIN handler' = Handlers
    BY <1>1
<1>4. /\ CustomersFit(customer') /\ OrdersFit(opened', customer') /\ PairsFit(opened')
    BY DEF CInv
<1>5. \A g \in Handlers : /\ Static(handler'[g]) /\ FitsCustomers(handler'[g], customer')
                          /\ FitsOrders(handler'[g], opened')
    BY <1>2 DEF CInv
<1>6. \A g, k \in Handlers : g # k => Apart(handler'[g], handler'[k])
    <2>1. \A g \in Handlers \ {h} : Apart(handler[g], d)
        BY DEF Apart
    <2> QED BY <1>2, <2>1 DEF CInv
<1> QED BY <1>3, <1>4, <1>5, <1>6 DEF CInv

LEMMA ReceiveStep ==
    ASSUME CInv, NEW h \in Handlers, NEW d, Receive(h, d),
           Static(d), FitsCustomers(d, customer), FitsOrders(d, opened), d.claim = NoUser
    PROVE  CInv'
<1>1. visits' \in 0 .. MaxVisits
    BY CustomersAssumption DEF CInv, Receive
<1>2. \A g \in Handlers \ {h} : Apart(d, handler[g])
    BY DEF Apart
<1> QED BY <1>1, <1>2, TicketStep DEF Receive

LEMMA OnwardStep ==
    ASSUME CInv, NEW h \in Handlers, NEW d, Onward(h, d),
           Static(d), FitsCustomers(d, customer), FitsOrders(d, opened),
           \A g \in Handlers \ {h} : Apart(d, handler[g])
    PROVE  CInv'
<1>1. visits' \in 0 .. MaxVisits
    BY DEF CInv, Onward
<1> QED BY <1>1, TicketStep DEF Onward

\* A request may end at any time.
LEMMA LeaveStep ==
    ASSUME CInv, NEW h \in Handlers, Onward(h, AtDesk)
    PROVE  CInv'
<1>1. \A g \in Handlers \ {h} : Apart(AtDesk, handler[g])
    BY DeskFits DEF Apart
<1> QED BY <1>1, DeskFits, OnwardStep

(***************************************************************************)
(* Requests that arrive.                                                   *)
(***************************************************************************)
\* A row that has a number of Numbers is there.
LEMMA BearerIsThere ==
    ASSUME CInv, NEW u \in Customers, customer[u].number \in Numbers
    PROVE  customer[u].standing # "absent"
BY CustomersAssumption DEF CInv, CustomersFit

LEMMA RingStep ==
    ASSUME CInv, NEW h \in Handlers, NEW n \in Numbers, NEW way \in {"webhook", "answered"},
           Ring(h, n, way)
    PROVE  CInv'
<1>1. PICK u \in OneOf(Bearers(n), NoUser) :
        Receive(h, [AtDesk EXCEPT !.pc = "rung", !.way = way, !.number = n, !.user = u])
    BY DEF Ring
<1> DEFINE d == [AtDesk EXCEPT !.pc = "rung", !.way = way, !.number = n, !.user = u]
<1>2. u \in Customers \cup {NoUser} /\ (u # NoUser => customer[u].standing # "absent")
    BY BearerIsThere DEF OneOf, Bearers
<1>3. /\ d \in Ticket /\ d.pc = "rung" /\ d.way = way /\ d.number = n /\ d.user = u
      /\ d.claim = NoUser /\ d.before = {}
    BY <1>2 DEF AtDesk, Ticket, NoUser, NoCall
<1> HIDE DEF d
<1>4. Static(d) /\ FitsCustomers(d, customer) /\ FitsOrders(d, opened)
    BY <1>2, <1>3 DEF Static, FitsCustomers, FitsOrders, Called, Linking
<1> QED BY <1>1, <1>3, <1>4, ReceiveStep DEF d

LEMMA ByNumberStep ==
    ASSUME CInv, NEW h \in Handlers, NEW n \in Numbers, Apply(h, n) \/ CreateByPhone(h, n)
    PROVE  CInv'
<1>1. PICK way \in {"application", "employee"} :
        Receive(h, [AtDesk EXCEPT !.pc = "ensure", !.way = way, !.number = n])
    BY DEF Apply, CreateByPhone
<1> DEFINE d == [AtDesk EXCEPT !.pc = "ensure", !.way = way, !.number = n]
<1>2. /\ d \in Ticket /\ d.pc = "ensure" /\ d.way = way /\ d.number = n /\ d.user = NoUser
      /\ d.claim = NoUser /\ d.before = {}
    BY DEF AtDesk, Ticket, NoUser, NoCall
<1> HIDE DEF d
<1>3. Static(d) /\ FitsCustomers(d, customer) /\ FitsOrders(d, opened)
    BY <1>2 DEF Static, FitsCustomers, FitsOrders, Called, Linking
<1> QED BY <1>1, <1>2, <1>3, ReceiveStep DEF d

LEMMA CreateByUserStep ==
    ASSUME CInv, NEW h \in Handlers, NEW u \in Customers, CreateByUser(h, u)
    PROVE  CInv'
<1> DEFINE d == [AtDesk EXCEPT !.pc = "open", !.way = "employee", !.user = u,
                               !.number = customer[u].number, !.before = Existing]
<1>1. customer[u].standing = "Open" /\ customer[u].number \in Numbers
    BY DEF CreateByUser, CInv, CustomersFit, CustomerRow
<1>2. /\ d \in Ticket /\ d.pc = "open" /\ d.way = "employee" /\ d.number \in Numbers
      /\ d.user = u /\ d.claim = NoUser /\ d.before = Existing
    BY <1>1 DEF AtDesk, Ticket, NoUser, NoCall, Existing
<1> HIDE DEF d
<1>3. Static(d) /\ FitsCustomers(d, customer) /\ FitsOrders(d, opened)
    BY <1>1, <1>2 DEF Static, FitsCustomers, FitsOrders, Called, Linking, Existing
<1>4. Receive(h, d)
    BY DEF CreateByUser, d
<1> QED BY <1>2, <1>3, <1>4, ReceiveStep

\* An order without a customer was not opened by a webhook, and has a number.
LEMMA EnsureUserLinkedStep ==
    ASSUME CInv, NEW h \in Handlers, NEW o \in Calls, EnsureUserLinked(h, o)
    PROVE  CInv'
<1> DEFINE d == [AtDesk EXCEPT !.pc = "ensure", !.way = "link", !.order = o,
                               !.number = opened[o].number]
<1>1. /\ opened[o].state # "absent" /\ opened[o].origin # "webhook"
      /\ opened[o].number \in Numbers
    BY DEF EnsureUserLinked, Editable, CInv, OrdersFit
<1>2. /\ d \in Ticket /\ d.pc = "ensure" /\ d.way = "link" /\ d.number \in Numbers
      /\ d.order = o /\ d.user = NoUser /\ d.claim = NoUser /\ d.before = {}
    BY <1>1 DEF AtDesk, Ticket, NoUser, NoCall
<1> HIDE DEF d
<1>3. Static(d) /\ FitsCustomers(d, customer) /\ FitsOrders(d, opened)
    BY <1>1, <1>2 DEF Static, FitsCustomers, FitsOrders, Called, Linking
<1>4. Receive(h, d)
    BY DEF EnsureUserLinked, d
<1> QED BY <1>2, <1>3, <1>4, ReceiveStep

\* updateClientInfo and update have seen nobody else with the number the order
\* is to have, if the order has a customer whose number changes with it.
LEMMA EditClientStep ==
    ASSUME CInv, NEW h \in Handlers, NEW n \in Numbers, NEW o \in Calls,
           NEW way \in {"info", "update"}, EditClient(h, o, n, way)
    PROVE  CInv'
<1> DEFINE a == [AtDesk EXCEPT !.way = way, !.order = o, !.number = n, !.user = opened[o].user]
           d == [a EXCEPT !.pc = "ensure", !.way = "renumber"]
           e == [a EXCEPT !.pc = "rewrite", !.known = Undeleted(n)]
<1>1. /\ opened[o].state # "absent" /\ opened[o].user \in Customers \cup {NoUser}
      /\ opened[o].user = NoUser => opened[o].origin # "webhook"
      /\ opened[o].user # NoUser => customer[opened[o].user].standing # "absent"
    BY DEF EditClient, Editable, CInv, OrdersFit, OrderRow
<1>2. /\ a \in Ticket /\ a.pc = "free" /\ a.way = way /\ a.number = n /\ a.order = o
      /\ a.user = opened[o].user /\ a.claim = NoUser /\ a.before = {}
    BY <1>1 DEF AtDesk, Ticket, NoUser, NoCall
<1>3. \/ way = "update" /\ a.user = NoUser /\ Receive(h, d)
      \/ /\ a.user # NoUser => (IF way = "info" THEN Bearers(n) ELSE Undeleted(n)) \subseteq {a.user}
         /\ Receive(h, e)
    BY DEF EditClient
<1> HIDE DEF a
<1>4. CASE way = "update" /\ a.user = NoUser /\ Receive(h, d)
    <2>1. /\ d \in Ticket /\ d.pc = "ensure" /\ d.way = "renumber" /\ d.number = n /\ d.order = o
          /\ d.user = NoUser /\ d.claim = NoUser /\ d.before = {}
        BY <1>2, <1>4 DEF Ticket
    <2> HIDE DEF d
    <2>2. Static(d) /\ FitsCustomers(d, customer) /\ FitsOrders(d, opened)
        BY <1>1, <1>2, <1>4, <2>1 DEF Static, FitsCustomers, FitsOrders, Called, Linking
    <2> QED BY <1>4, <2>1, <2>2, ReceiveStep
<1>5. CASE /\ a.user # NoUser => (IF way = "info" THEN Bearers(n) ELSE Undeleted(n)) \subseteq {a.user}
           /\ Receive(h, e)
    <2>1. /\ e \in Ticket /\ e.pc = "rewrite" /\ e.way = way /\ e.number = n /\ e.order = o
          /\ e.user = opened[o].user /\ e.claim = NoUser /\ e.before = {} /\ e.known = Undeleted(n)
        BY <1>2 DEF Ticket, Undeleted, Bearers
    <2>2. e.user # NoUser => e.known \subseteq {e.user}
        BY <1>2, <1>5, <2>1 DEF Undeleted
    <2> HIDE DEF e
    <2>3. Static(e) /\ FitsCustomers(e, customer) /\ FitsOrders(e, opened)
        BY <1>1, <2>1, <2>2 DEF Static, FitsCustomers, FitsOrders, Called, Linking
    <2> QED BY <1>5, <2>1, <2>3, ReceiveStep
<1> QED BY <1>3, <1>4, <1>5

LEMMA UpdateUserStep ==
    ASSUME CInv, NEW h \in Handlers, NEW n \in Numbers, NEW u \in Customers, UpdateUser(h, u, n)
    PROVE  CInv'
<1> DEFINE d == [AtDesk EXCEPT !.pc = "rewrite", !.way = "user", !.number = n, !.user = u]
<1>1. /\ d \in Ticket /\ d.pc = "rewrite" /\ d.way = "user" /\ d.number = n /\ d.user = u
      /\ d.claim = NoUser /\ d.before = {}
    BY DEF AtDesk, Ticket, NoUser, NoCall
<1>2. customer[u].standing # "absent" /\ Receive(h, d)
    BY DEF UpdateUser
<1> HIDE DEF d
<1>3. Static(d) /\ FitsCustomers(d, customer) /\ FitsOrders(d, opened)
    BY <1>1, <1>2 DEF Static, FitsCustomers, FitsOrders, Called, Linking
<1> QED BY <1>1, <1>2, <1>3, ReceiveStep

LEMMA CreateUserStep ==
    ASSUME CInv, NEW h \in Handlers, NEW n \in Numbers, NEW standing \in {"Open", "Banned"},
           CreateUser(h, n, standing)
    PROVE  CInv'
<1> DEFINE d == [AtDesk EXCEPT !.pc = "insert", !.way = "user", !.number = n,
                               !.standing = standing]
<1>1. /\ d \in Ticket /\ d.pc = "insert" /\ d.way = "user" /\ d.number = n /\ d.user = NoUser
      /\ d.claim = NoUser /\ d.before = {} /\ d.known = {}
    BY DEF AtDesk, Ticket, NoUser, NoCall
<1>2. Receive(h, d)
    BY DEF CreateUser
<1> HIDE DEF d
<1>3. Static(d) /\ FitsCustomers(d, customer) /\ FitsOrders(d, opened)
    BY <1>1 DEF Static, FitsCustomers, FitsOrders, Called, Linking
<1> QED BY <1>1, <1>2, <1>3, ReceiveStep

(***************************************************************************)
(* Requests that go on.                                                    *)
(***************************************************************************)
\* What a request that is under way brings along.
LEMMA TicketFits ==
    ASSUME CInv, NEW h \in Handlers
    PROVE  /\ Static(handler[h]) /\ FitsCustomers(handler[h], customer)
           /\ FitsOrders(handler[h], opened)
           /\ \A g \in Handlers \ {h} : Apart(handler[h], handler[g])
BY DEF CInv

LEMMA LookForOrderStep ==
    ASSUME CInv, NEW h \in Handlers, LookForOrder(h)
    PROVE  CInv'
<1> DEFINE d == handler[h]
<1>1. /\ Static(d) /\ FitsCustomers(d, customer) /\ FitsOrders(d, opened)
      /\ d.pc = "rung" /\ d.claim = NoUser
    BY TicketFits DEF LookForOrder, At, Static
<1>2. ASSUME Onward(h, AtDesk) PROVE CInv'
    BY <1>2, LeaveStep
<1>3. ASSUME NEW pc \in {"seek", "ensure"}, Onward(h, [d EXCEPT !.pc = pc]),
             pc = "seek" /\ d.way = "webhook" => d.user # NoUser,
             pc = "ensure" => d.way = "webhook"
      PROVE  CInv'
    <2> DEFINE e == [d EXCEPT !.pc = pc]
    <2>1. /\ e \in Ticket /\ e.pc = pc /\ e.way = d.way /\ e.number = d.number /\ e.user = d.user
          /\ e.order = d.order /\ e.claim = NoUser /\ e.before = d.before
        BY <1>1 DEF Static, Ticket
    <2> HIDE DEF e
    <2>2. Static(e) /\ FitsCustomers(e, customer) /\ FitsOrders(e, opened)
        BY <1>1, <1>3, <2>1 DEF Static, FitsCustomers, FitsOrders, Called, Linking
    <2>3. \A g \in Handlers \ {h} : Apart(e, handler[g])
        BY <2>1 DEF Apart
    <2>4. Onward(h, e)
        BY <1>3 DEF e
    <2> QED BY <2>2, <2>3, <2>4, OnwardStep
<1> QED BY <1>2, <1>3 DEF LookForOrder

\* Whoever is found is there; an order is opened at once only by requests that
\* are not calls.
LEMMA FindCustomerStep ==
    ASSUME CInv, NEW h \in Handlers, FindCustomer(h)
    PROVE  CInv'
<1> DEFINE d == handler[h]
           looked == [d EXCEPT !.before = Existing, !.known = Undeleted(d.number)]
<1>1. /\ Static(d) /\ FitsCustomers(d, customer) /\ FitsOrders(d, opened)
      /\ d.pc = "ensure" /\ d.claim = NoUser /\ d.number \in Numbers
      /\ d.way \in {"webhook", "application", "employee"} \cup Linking
    BY TicketFits DEF FindCustomer, At, Static
<1>2. /\ looked \in Ticket /\ looked.pc = "ensure" /\ looked.way = d.way
      /\ looked.number = d.number /\ looked.user = d.user /\ looked.order = d.order
      /\ looked.claim = NoUser /\ looked.before = Existing /\ looked.known = Undeleted(d.number)
    BY <1>1 DEF Static, Ticket, Existing, Undeleted, Bearers
<1>3. \/ /\ Undeleted(d.number) = {}
         /\ Onward(h, [looked EXCEPT !.pc = "insert"])
      \/ \E u \in Undeleted(d.number) :
            Onward(h, [looked EXCEPT !.pc = NextStage(d.way), !.user = u])
    BY DEF FindCustomer, findUserByPhone, Undeleted
<1> HIDE DEF looked
<1>4. CASE Undeleted(d.number) = {} /\ Onward(h, [looked EXCEPT !.pc = "insert"])
    <2> DEFINE e == [looked EXCEPT !.pc = "insert"]
    <2>1. /\ e \in Ticket /\ e.pc = "insert" /\ e.way = d.way /\ e.number = d.number
          /\ e.user = d.user /\ e.order = d.order /\ e.claim = NoUser /\ e.before = Existing
          /\ e.known = {}
        BY <1>2, <1>4 DEF Ticket
    <2> HIDE DEF e
    <2>2. Static(e) /\ FitsCustomers(e, customer) /\ FitsOrders(e, opened)
        BY <1>1, <2>1 DEF Static, FitsCustomers, FitsOrders, Called, Linking, Existing
    <2>3. \A g \in Handlers \ {h} : Apart(e, handler[g])
        BY <2>1 DEF Apart
    <2>4. Onward(h, e)
        BY <1>4 DEF e
    <2> QED BY <2>2, <2>3, <2>4, OnwardStep
<1>5. ASSUME NEW u \in Undeleted(d.number),
             Onward(h, [looked EXCEPT !.pc = NextStage(d.way), !.user = u])
      PROVE  CInv'
    <2> DEFINE e == [looked EXCEPT !.pc = NextStage(d.way), !.user = u]
    <2>1. NextStage(d.way) \in {"search", "open", "link"}
          /\ (NextStage(d.way) = "search" => d.way = "webhook")
          /\ (NextStage(d.way) = "open" => d.way \in {"application", "employee"})
          /\ (NextStage(d.way) = "link" => d.way \in Linking)
        BY <1>1 DEF NextStage, Linking
    <2>2. u \in Customers /\ customer[u].standing # "absent" /\ u # NoUser
        BY <1>1, BearerIsThere, CustomersAssumption DEF Undeleted, Bearers, NoUser
    <2>3. /\ e \in Ticket /\ e.pc = NextStage(d.way) /\ e.way = d.way /\ e.number = d.number
          /\ e.user = u /\ e.order = d.order /\ e.claim = NoUser /\ e.before = Existing
        BY <1>2, <2>1, <2>2 DEF Ticket
    <2> HIDE DEF e
    <2>4. Static(e) /\ FitsCustomers(e, customer) /\ FitsOrders(e, opened)
        BY <1>1, <2>1, <2>2, <2>3 DEF Static, FitsCustomers, FitsOrders, Called, Linking, Existing
    <2>5. \A g \in Handlers \ {h} : Apart(e, handler[g])
        BY <2>3 DEF Apart
    <2>6. Onward(h, e)
        BY <1>5 DEF e
    <2> QED BY <2>4, <2>5, <2>6, OnwardStep
<1> QED BY <1>3, <1>4, <1>5

\* Two transactions never claim one row or one number.
LEMMA InsertCustomerStep ==
    ASSUME CInv, NEW h \in Handlers, InsertCustomer(h)
    PROVE  CInv'
<1> DEFINE d == handler[h]
<1>1. /\ Static(d) /\ FitsCustomers(d, customer) /\ FitsOrders(d, opened)
      /\ d.pc = "insert" /\ d.claim = NoUser /\ d.number \in Numbers
      /\ d.way \in {"webhook", "application", "employee", "user"} \cup Linking
    BY TicketFits DEF InsertCustomer, At, Static
<1>2. PICK u \in FreeRow(h) : Onward(h, [d EXCEPT !.pc = NextStage(d.way), !.user = u, !.claim = u])
    BY DEF InsertCustomer
<1>3. /\ u \in Customers /\ u # NoUser /\ customer[u].standing = "absent"
      /\ \A g \in Claimed(h) : handler[g].claim # u
    BY CustomersAssumption DEF FreeRow, NoUser
<1>4. /\ \A g \in Claimed(h) : handler[g].number # d.number
      /\ \A w \in Customers : customer[w].number # d.number
    BY DEF InsertCustomer, ClaimedNumber, Bearers
<1> DEFINE e == [d EXCEPT !.pc = NextStage(d.way), !.user = u, !.claim = u]
<1>5. NextStage(d.way) \in {"search", "open", "link", "commit"}
      /\ (NextStage(d.way) = "search" => d.way = "webhook")
      /\ (NextStage(d.way) = "open" => d.way \in {"application", "employee"})
      /\ (NextStage(d.way) = "link" => d.way \in Linking)
    BY <1>1 DEF NextStage, Linking
<1>6. /\ e \in Ticket /\ e.pc = NextStage(d.way) /\ e.way = d.way /\ e.number = d.number
      /\ e.user = u /\ e.order = d.order /\ e.claim = u /\ e.before = d.before
    BY <1>1, <1>3, <1>5 DEF Static, Ticket
<1> HIDE DEF e
<1>7. Static(e) /\ FitsCustomers(e, customer) /\ FitsOrders(e, opened)
    BY <1>1, <1>3, <1>4, <1>5, <1>6 DEF Static, FitsCustomers, FitsOrders, Called, Linking
<1>8. \A g \in Handlers \ {h} : Apart(e, handler[g])
    BY <1>3, <1>4, <1>6 DEF Apart, Claimed
<1>9. Onward(h, e)
    BY <1>2 DEF e
<1> QED BY <1>7, <1>8, <1>9, OnwardStep

\* A call that finds no open order under its number has seen none but those that
\* are away or deleted.
LEMMA SeekOrderStep ==
    ASSUME CInv, NEW h \in Handlers, SeekOrder(h)
    PROVE  CInv'
<1> DEFINE d == Looked(h)
           n == handler[h].number
<1>1. /\ Static(handler[h]) /\ FitsCustomers(handler[h], customer)
      /\ FitsOrders(handler[h], opened) /\ handler[h].pc \in {"seek", "search"}
    BY TicketFits DEF SeekOrder, At
<1>2. /\ d \in Ticket /\ d.pc \in {"seek", "search"} /\ d.way = handler[h].way /\ d.number = n
      /\ d.user = handler[h].user /\ d.order = handler[h].order /\ d.claim = handler[h].claim
      /\ d.before \subseteq Existing
    <2>1. CASE handler[h].pc = "seek"
        BY <1>1, <2>1 DEF Looked, At, Static, Ticket, Existing
    <2>2. CASE handler[h].pc = "search"
        BY <1>1, <2>2 DEF Looked, At, Static, Ticket, FitsOrders, Existing
    <2> QED BY <1>1, <2>1, <2>2
<1>3. d.way \in Called /\ n \in Numbers
    BY <1>1, <1>2 DEF Static, Called, Linking
<1>4. \/ OpenCalls(n) = {} /\ Onward(h, [d EXCEPT !.pc = "open", !.shut = HiddenCalls(n)])
      \/ \E o \in OpenCalls(n) : Onward(h, [d EXCEPT !.pc = "touch", !.order = o])
    BY DEF SeekOrder
<1> HIDE DEF d
<1>5. ASSUME NEW pc \in {"open", "touch"}, NEW o \in Calls \cup {NoCall},
             NEW S \in SUBSET Calls, pc = "touch" => o \in Calls,
             pc = "open" => OpenCalls(n) = {} /\ S = HiddenCalls(n),
             Onward(h, [d EXCEPT !.pc = pc, !.order = o, !.shut = S])
      PROVE  CInv'
    <2> DEFINE e == [d EXCEPT !.pc = pc, !.order = o, !.shut = S]
    <2>1. /\ e \in Ticket /\ e.pc = pc /\ e.way = d.way /\ e.number = n /\ e.user = d.user
          /\ e.order = o /\ e.claim = d.claim /\ e.before = d.before /\ e.shut = S
        BY <1>2 DEF Ticket
    <2> HIDE DEF e
    <2>2. Static(e)
        BY <1>1, <1>2, <1>3, <1>5, <2>1 DEF Static, Called, Linking
    <2>3. FitsCustomers(e, customer)
        BY <1>1, <1>2, <2>1 DEF FitsCustomers
    <2>4. pc = "open" => \A x \in Calls : Bare(opened[x], n) => x \in S
        <3>1. \A x \in Calls : opened[x].origin \in Called => opened[x].state # "absent"
            BY DEF CInv, OrdersFit
        <3> QED BY <1>5, <3>1 DEF OpenCalls, HiddenCalls, Existing, Bare
    <2>5. FitsOrders(e, opened)
        BY <1>2, <1>3, <2>1, <2>4 DEF FitsOrders, Called, Linking, Existing
    <2>6. \A g \in Handlers \ {h} : Apart(e, handler[g])
        BY <1>2, <2>1, TicketFits DEF Apart
    <2>7. Onward(h, e)
        BY <1>5 DEF e
    <2> QED BY <2>2, <2>3, <2>5, <2>6, <2>7, OnwardStep
<1>6. /\ \A S : [d EXCEPT !.pc = "open", !.shut = S]
                  = [d EXCEPT !.pc = "open", !.order = d.order, !.shut = S]
      /\ \A o : [d EXCEPT !.pc = "touch", !.order = o]
                  = [d EXCEPT !.pc = "touch", !.order = o, !.shut = d.shut]
    BY <1>2 DEF Ticket
<1>7. d.order \in Calls \cup {NoCall} /\ d.shut \in SUBSET Calls
    BY <1>2 DEF Ticket
<1>8. OpenCalls(n) \subseteq Calls /\ HiddenCalls(n) \in SUBSET Calls
    BY DEF OpenCalls, HiddenCalls, Existing
<1> QED BY <1>4, <1>5, <1>6, <1>7, <1>8

(***************************************************************************)
(* Transactions that commit.                                               *)
(***************************************************************************)
\* The row it inserts has a number of its own, and nobody else claims either.
LEMMA CommitFits ==
    ASSUME CInv, NEW h \in Handlers, handler[h].pc # "free", CommitCustomer(h)
    PROVE  /\ CustomersFit(customer')
           /\ \A u \in Customers : customer[u].standing # "absent" => customer'[u].standing # "absent"
           /\ handler[h].user # NoUser => customer'[handler[h].user].standing # "absent"
           /\ \A g \in Handlers \ {h} : FitsCustomers(handler[g], customer')
<1> DEFINE d == handler[h]
           new == [number |-> d.number, standing |-> d.standing]
<1>1. Static(d) /\ FitsCustomers(d, customer) /\ CustomersFit(customer)
      /\ d.number \in Numbers /\ d.standing \in {"Open", "Banned"} /\ d.user \in Customers \cup {NoUser}
    BY TicketFits DEF CInv, Static, Ticket
<1>2. /\ customer' \in [Customers -> CustomerRow]
      /\ \A u \in Customers : customer'[u] = IF u = d.claim THEN new ELSE customer[u]
    BY <1>1 DEF CommitCustomer, CustomersFit, CustomerRow, Standings
<1>3. d.claim = NoUser => \A u \in Customers : customer'[u] = customer[u]
    BY <1>2, CustomersAssumption DEF NoUser
<1>4. d.claim # NoUser => \A u \in Customers : customer[u].number # d.number
    BY <1>1 DEF FitsCustomers
<1>5. CustomersFit(customer')
    <2>1. \A u \in Customers : customer'[u].standing = "absent" <=> customer'[u].number = NoNumber
        BY <1>1, <1>2, CustomersAssumption DEF CustomersFit
    <2>2. ASSUME NEW u \in Customers, NEW w \in Customers, u # w,
                 customer'[u].number = customer'[w].number
          PROVE  customer'[u].number = NoNumber
        <3>1. CASE u # d.claim /\ w # d.claim
            BY <1>1, <1>2, <2>2, <3>1 DEF CustomersFit
        <3>2. CASE u = d.claim \/ w = d.claim
            BY <1>2, <1>3, <1>4, <2>2, <3>2, CustomersAssumption DEF NoUser
        <3> QED BY <3>1, <3>2
    <2> QED BY <1>2, <2>1, <2>2 DEF CustomersFit
<1>6. \A u \in Customers : customer[u].standing # "absent" => customer'[u].standing # "absent"
    BY <1>1, <1>2
<1>7. d.user # NoUser => customer'[d.user].standing # "absent"
    BY <1>1, <1>2, <1>6 DEF FitsCustomers
<1>8. ASSUME NEW g \in Handlers \ {h} PROVE FitsCustomers(handler[g], customer')
    <2>1. /\ FitsCustomers(handler[g], customer) /\ Apart(d, handler[g])
          /\ handler[g].claim \in Customers \cup {NoUser}
          /\ handler[g].user \in Customers \cup {NoUser}
        BY <1>8, TicketFits DEF Static, Ticket
    <2>2. handler[g].claim # NoUser =>
            /\ customer'[handler[g].claim].standing = "absent"
            /\ \A u \in Customers : customer'[u].number # handler[g].number
        BY <1>2, <1>3, <2>1 DEF FitsCustomers, Apart
    <2>3. handler[g].user # NoUser => \/ handler[g].user = handler[g].claim
                                      \/ customer'[handler[g].user].standing # "absent"
        BY <1>6, <2>1 DEF FitsCustomers
    <2> QED BY <2>2, <2>3 DEF FitsCustomers
<1> QED BY <1>5, <1>6, <1>7, <1>8

\* A request that ends with new rows and orders.
LEMMA FinishStep ==
    ASSUME CInv, NEW h \in Handlers, Finish(h),
           CustomersFit(customer'), OrdersFit(opened', customer'), PairsFit(opened'),
           \A g \in Handlers \ {h} : FitsCustomers(handler[g], customer') /\ FitsOrders(handler[g], opened')
    PROVE  CInv'
<1>1. /\ handler' = [handler EXCEPT ![h] = AtDesk] /\ DOMAIN handler = Handlers
      /\ visits' \in 0 .. MaxVisits
    BY DEF CInv, Finish, Go
<1>2. DOMAIN handler' = Handlers /\ handler'[h] = AtDesk
      /\ \A g \in Handlers \ {h} : handler'[g] = handler[g]
    BY <1>1
<1>3. \A g \in Handlers : /\ Static(handler'[g]) /\ FitsCustomers(handler'[g], customer')
                          /\ FitsOrders(handler'[g], opened')
    BY <1>2, DeskFits, TicketFits
<1>4. \A g, k \in Handlers : g # k => Apart(handler'[g], handler'[k])
    BY <1>2, DeskFits DEF CInv, Apart
<1> QED BY <1>1, <1>2, <1>3, <1>4 DEF CInv

(***************************************************************************)
(* Orders that are already there.                                          *)
(***************************************************************************)
\* p becomes q: no row is gone, none becomes one that a call has opened,
\* and one of these changes its customer only if an answered call opened it.
Eased(p, q) ==
    /\ p.state # "absent" => q.state # "absent"
    /\ q.origin \in Called => q.origin = p.origin
    /\ \A n \in Numbers : Bare(q, n) =>
         /\ Bare(p, n) /\ q.origin = p.origin /\ q.registers = p.registers /\ q.beside = p.beside
         /\ q.shut = p.shut
         /\ q.user = p.user \/ p.origin = "answered"

LEMMA EasedKeepsFits ==
    ASSUME CInv, NEW O, \A x \in Calls : Eased(opened[x], O[x]),
           \A x \in Calls : O[x].number \in Numbers \cup {NoNumber},
           \A x \in Calls : O[x].origin \in Called => O[x].number \in Numbers
    PROVE  /\ PairsFit(O)
           /\ \A g \in Handlers : FitsOrders(handler[g], O)
<1>1. \A x \in Calls : opened[x].origin = "answered" => ~opened[x].registers
    BY DEF CInv, OrdersFit
<1>2. PairsFit(O)
    <2> SUFFICES ASSUME NEW o \in Calls, NEW x \in Calls, o # x,
                        Bare(O[o], O[x].number), Bare(O[x], O[x].number),
                        x \notin O[o].shut, o \notin O[x].shut
                 PROVE  PairFits(O, o, x)
        BY DEF PairsFit
    <2>1. O[x].number \in Numbers /\ O[o].number = O[x].number
        BY DEF Bare
    <2>2. /\ Bare(opened[o], O[x].number) /\ Bare(opened[x], O[x].number)
          /\ O[o].origin = opened[o].origin /\ O[x].origin = opened[x].origin
          /\ O[o].registers = opened[o].registers /\ O[x].registers = opened[x].registers
          /\ O[o].beside = opened[o].beside /\ O[x].beside = opened[x].beside
          /\ O[o].shut = opened[o].shut /\ O[x].shut = opened[x].shut
          /\ O[o].user = opened[o].user \/ opened[o].origin = "answered"
          /\ O[x].user = opened[x].user \/ opened[x].origin = "answered"
        BY <2>1 DEF Eased
    <2>3. PairFits(opened, o, x)
        <3>1. opened[x].number = O[x].number
            BY <2>2 DEF Bare
        <3> QED BY <2>2, <3>1 DEF CInv, PairsFit
    <2> QED BY <1>1, <2>2, <2>3 DEF PairFits
<1>3. ASSUME NEW g \in Handlers PROVE FitsOrders(handler[g], O)
    <2> DEFINE d == handler[g]
    <2>1. Static(d) /\ FitsOrders(d, opened) /\ d \in Ticket
        BY TicketFits DEF Static
    <2>2. d.way \in Linking => O[d.order].origin # "webhook" /\ O[d.order].state # "absent"
        BY <2>1 DEF FitsOrders, Static, Eased, Called
    <2>3. \A x \in d.before : x \in Calls /\ O[x].state # "absent"
        BY <2>1 DEF FitsOrders, Ticket, Eased
    <2>4. d.pc = "open" => d.number \in Numbers
        BY <2>1 DEF Static
    <2>5. d.pc = "open" /\ d.way \in Called => 
            \A x \in d.before : Bare(O[x], d.number) => x \in d.shut
        BY <2>1, <2>3, <2>4 DEF FitsOrders, Eased
    <2>6. d.pc = "open" /\ d.way = "webhook" =>
            \A x \in Calls \ d.shut : Bare(O[x], d.number) /\ O[x].registers
                => d.claim = NoUser /\ O[x].user # d.user
        BY <1>1, <2>1, <2>4 DEF FitsOrders, Eased
    <2> QED BY <2>2, <2>3, <2>5, <2>6 DEF FitsOrders
<1> QED BY <1>2, <1>3

\* A request that ends having eased the orders.
LEMMA EasedFinishStep ==
    ASSUME CInv, NEW h \in Handlers, handler[h].pc # "free", CommitCustomer(h), Finish(h),
           opened' \in [Calls -> OrderRow],
           \A x \in Calls : Eased(opened[x], opened'[x]),
           \A x \in Calls :
               /\ opened'[x].state # "absent" => opened'[x].number \in Numbers
               /\ opened'[x].origin = "webhook" => opened'[x].user # NoUser
               /\ opened'[x].origin = "answered" => ~opened'[x].registers
               /\ opened'[x].user \in {opened[x].user, handler[h].user}
    PROVE  CInv'
<1>1. OrdersFit(opened', customer')
    <2>1. \A x \in Calls : opened'[x].user # NoUser => customer'[opened'[x].user].standing # "absent"
        BY CommitFits DEF CInv, OrdersFit, OrderRow
    <2>2. \A x \in Calls : opened'[x].origin \in Called => opened'[x].state # "absent"
        BY DEF CInv, OrdersFit, Eased
    <2> QED BY <2>1, <2>2 DEF OrdersFit
<1>2. /\ \A x \in Calls : opened'[x].number \in Numbers \cup {NoNumber}
      /\ \A x \in Calls : opened'[x].origin \in Called => opened'[x].number \in Numbers
    BY <1>1 DEF OrderRow, OrdersFit
<1>3. PairsFit(opened') /\ \A g \in Handlers : FitsOrders(handler[g], opened')
    BY <1>2, EasedKeepsFits
<1> QED BY <1>1, <1>3, CommitFits, FinishStep

\* The order found gets the customer of a webhook only if it has none.
LEMMA TouchOrderStep ==
    ASSUME CInv, NEW h \in Handlers, TouchOrder(h)
    PROVE  CInv'
<1> DEFINE d == handler[h]
<1>1. /\ Static(d) /\ d.pc = "touch" /\ d.order \in Calls /\ d.user \in Customers \cup {NoUser}
      /\ d.way = "webhook" => d.user # NoUser
    BY TicketFits DEF TouchOrder, At, Static, Ticket
<1>2. opened \in [Calls -> OrderRow] /\ OrdersFit(opened, customer)
    BY DEF CInv, OrdersFit
<1>3. PICK u \in Customers \cup {NoUser} :
        /\ opened' = [opened EXCEPT ![d.order].user = u]
        /\ u = opened[d.order].user \/ (u = d.user /\ opened[d.order].user = NoUser)
    BY <1>1, <1>2 DEF TouchOrder, OrderRow
<1>4. /\ opened' \in [Calls -> OrderRow]
      /\ \A x \in Calls : x # d.order => opened'[x] = opened[x]
      /\ opened'[d.order] = [opened[d.order] EXCEPT !.user = u]
    BY <1>1, <1>2, <1>3 DEF OrderRow
<1>5. /\ opened'[d.order].state = opened[d.order].state
      /\ opened'[d.order].number = opened[d.order].number
      /\ opened'[d.order].origin = opened[d.order].origin
      /\ opened'[d.order].registers = opened[d.order].registers
      /\ opened'[d.order].beside = opened[d.order].beside
      /\ opened'[d.order].shut = opened[d.order].shut
      /\ opened'[d.order].user = u
    BY <1>1, <1>2, <1>4 DEF OrderRow
<1>6. opened[d.order].user = NoUser => opened[d.order].origin # "webhook"
    BY <1>1, <1>2 DEF OrdersFit
<1>7. \A x \in Calls : Eased(opened[x], opened'[x])
    BY <1>3, <1>4, <1>5, <1>6 DEF Eased, Bare, Called
<1>8. \A x \in Calls :
        /\ opened'[x].state # "absent" => opened'[x].number \in Numbers
        /\ opened'[x].origin = "webhook" => opened'[x].user # NoUser
        /\ opened'[x].origin = "answered" => ~opened'[x].registers
        /\ opened'[x].user \in {opened[x].user, d.user}
    BY <1>2, <1>3, <1>4, <1>5, <1>6 DEF OrdersFit
<1> QED BY <1>1, <1>4, <1>7, <1>8, EasedFinishStep DEF TouchOrder

\* Only orders that no webhook has opened get their customer later.
LEMMA LinkOrderStep ==
    ASSUME CInv, NEW h \in Handlers, LinkOrder(h)
    PROVE  CInv'
<1> DEFINE d == handler[h]
           p == opened[d.order]
           new == IF d.way = "link" THEN [p EXCEPT !.user = d.user]
                  ELSE [p EXCEPT !.user = d.user, !.number = d.number, !.origin = "edited"]
<1>1. /\ Static(d) /\ d.pc = "link" /\ d.way \in Linking /\ d.order \in Calls /\ d.user # NoUser
      /\ d.user \in Customers \cup {NoUser} /\ d.number \in Numbers /\ FitsOrders(d, opened)
    BY TicketFits DEF LinkOrder, At, Static, Ticket
<1>2. opened \in [Calls -> OrderRow] /\ OrdersFit(opened, customer)
    BY DEF CInv, OrdersFit
<1>3. p.origin # "webhook" /\ p.state # "absent" /\ p \in OrderRow
    BY <1>1, <1>2 DEF FitsOrders
<1>4. /\ new \in OrderRow /\ new.state = p.state /\ new.user = d.user
      /\ new.registers = p.registers /\ new.beside = p.beside /\ new.shut = p.shut
      /\ \/ new.number = p.number /\ new.origin = p.origin
         \/ new.number = d.number /\ new.origin = "edited"
    <2>1. CASE d.way = "link"
        BY <1>1, <1>3, <2>1 DEF OrderRow
    <2>2. CASE d.way # "link"
        BY <1>1, <1>3, <2>2 DEF OrderRow, Origins
    <2> QED BY <2>1, <2>2
<1>5. opened' = [opened EXCEPT ![d.order] = new]
    BY DEF LinkOrder
<1> HIDE DEF new
<1>6. /\ opened' \in [Calls -> OrderRow] /\ opened'[d.order] = new
      /\ \A x \in Calls : x # d.order => opened'[x] = opened[x]
    BY <1>1, <1>2, <1>4, <1>5
<1>7. \A x \in Calls : Eased(opened[x], opened'[x])
    <2>1. Eased(p, new)
        BY <1>3, <1>4 DEF Eased, Bare, Called, OrderRow, Origins
    <2>2. \A x \in Calls : Eased(opened[x], opened[x])
        BY DEF Eased
    <2> QED BY <1>6, <2>1, <2>2
<1>8. \A x \in Calls :
        /\ opened'[x].state # "absent" => opened'[x].number \in Numbers
        /\ opened'[x].origin = "webhook" => opened'[x].user # NoUser
        /\ opened'[x].origin = "answered" => ~opened'[x].registers
        /\ opened'[x].user \in {opened[x].user, d.user}
    <2>1. /\ new.number \in Numbers /\ new.origin # "webhook" /\ new.user = d.user
          /\ new.origin = "answered" => ~new.registers
        BY <1>1, <1>2, <1>3, <1>4 DEF OrdersFit
    <2> QED BY <1>2, <1>6, <2>1 DEF OrdersFit
<1> QED BY <1>1, <1>6, <1>7, <1>8, EasedFinishStep DEF LinkOrder

LEMMA CommitUserStep ==
    ASSUME CInv, NEW h \in Handlers, CommitUser(h)
    PROVE  CInv'
<1>1. opened' = opened /\ OrdersFit(opened, customer)
    BY DEF CommitUser, CInv
<1>2. \A x \in Calls : Eased(opened[x], opened'[x])
    BY <1>1 DEF Eased
<1> QED BY <1>1, <1>2, EasedFinishStep DEF CommitUser, OrdersFit, At

(***************************************************************************)
(* A new order, and the number changed.                                    *)
(***************************************************************************)
\* Whatever call has opened an order of this number meanwhile ran beside this
\* one; and one that registered its caller is not of this one's customer.
LEMMA OpenOrderStep ==
    ASSUME CInv, NEW h \in Handlers, OpenOrder(h)
    PROVE  CInv'
<1> DEFINE d == handler[h]
           new == [state |-> "open", number |-> d.number, user |-> d.user, origin |-> d.way,
                   registers |-> d.claim # NoUser, beside |-> Existing \ d.before, shut |-> d.shut]
<1>1. /\ Static(d) /\ FitsCustomers(d, customer) /\ FitsOrders(d, opened) /\ d.pc = "open"
      /\ d.user \in Customers \cup {NoUser} /\ d.number \in Numbers
      /\ d.way \in Called \cup {"application", "employee"}
      /\ d.way = "webhook" => d.user # NoUser
      /\ d.claim # NoUser => d.user = d.claim /\ d.way # "answered"
      /\ d.shut \in SUBSET Calls
    BY TicketFits DEF OpenOrder, At, Static, Ticket
<1>2. opened \in [Calls -> OrderRow] /\ OrdersFit(opened, customer) /\ PairsFit(opened)
    BY DEF CInv, OrdersFit
<1>3. PICK o \in Calls \ Existing : opened' = [opened EXCEPT ![o] = new]
    BY DEF OpenOrder
<1>4. /\ new \in OrderRow /\ new.state = "open" /\ new.number = d.number /\ new.user = d.user
      /\ new.origin = d.way /\ new.registers = (d.claim # NoUser)
      /\ new.beside = Existing \ d.before /\ new.shut = d.shut
    BY <1>1 DEF OrderRow, Origins, Called, Existing
<1> HIDE DEF new
<1>5. /\ opened' \in [Calls -> OrderRow] /\ opened'[o] = new
      /\ \A x \in Calls : x # o => opened'[x] = opened[x]
    BY <1>2, <1>3, <1>4
<1>6. OrdersFit(opened', customer')
    <2>1. ASSUME NEW x \in Calls
          PROVE  /\ opened'[x].state # "absent" => opened'[x].number \in Numbers
                 /\ opened'[x].origin = "webhook" => opened'[x].user # NoUser
                 /\ opened'[x].origin = "answered" => ~opened'[x].registers
                 /\ opened'[x].origin \in Called => opened'[x].state # "absent"
        BY <1>1, <1>2, <1>4, <1>5 DEF OrdersFit
    <2>2. ASSUME NEW x \in Calls, opened'[x].user # NoUser
          PROVE  customer'[opened'[x].user].standing # "absent"
        <3>1. CommitCustomer(h) /\ d.pc # "free"
            BY <1>1 DEF OpenOrder
        <3>2. CASE x = o
            BY <1>4, <1>5, <2>2, <3>1, <3>2, CommitFits
        <3>3. CASE x # o
            BY <1>2, <1>5, <2>2, <3>1, <3>3, CommitFits DEF OrdersFit, OrderRow
        <3> QED BY <3>2, <3>3
    <2> QED BY <1>5, <2>1, <2>2 DEF OrdersFit
<1>7. opened[o].state = "absent"
    BY DEF Existing
<1>8. ASSUME NEW g \in Handlers \ {h} PROVE FitsOrders(handler[g], opened')
    <2> DEFINE e == handler[g]
    <2>1. /\ Static(e) /\ e \in Ticket /\ FitsCustomers(e, customer) /\ FitsOrders(e, opened)
          /\ Apart(d, e)
        BY TicketFits DEF Static
    <2>2. e.way \in Linking => opened'[e.order].origin # "webhook" /\ opened'[e.order].state # "absent"
        BY <1>5, <1>7, <2>1 DEF FitsOrders, Static
    <2>3. \A x \in e.before : x \in Calls /\ x # o
        BY <1>7, <2>1 DEF FitsOrders, Ticket
    <2>4. \A x \in e.before : opened'[x] = opened[x]
        BY <1>5, <2>3
    <2>5. ASSUME e.pc = "open", e.way = "webhook", NEW x \in Calls \ e.shut,
                 Bare(opened'[x], e.number), opened'[x].registers
          PROVE  e.claim = NoUser /\ opened'[x].user # e.user
        <3>1. CASE x # o
            BY <1>5, <2>1, <2>5, <3>1 DEF FitsOrders
        <3>2. CASE x = o
            <4>1. d.claim # NoUser /\ e.number = d.number
                BY <1>4, <1>5, <2>5, <3>2 DEF Bare
            <4>2. e.claim = NoUser
                BY <2>1, <4>1 DEF Apart
            <4>3. customer[d.claim].standing = "absent"
                BY <1>1, <4>1 DEF FitsCustomers
            <4>4. e.user # d.claim
                BY <2>1, <4>1, <4>2, <4>3 DEF FitsCustomers
            <4> QED BY <1>1, <1>4, <1>5, <3>2, <4>1, <4>2, <4>4
        <3> QED BY <3>1, <3>2
    <2> QED BY <2>1, <2>2, <2>4, <2>5 DEF FitsOrders
<1>9. PairsFit(opened')
    <2>1. ASSUME NEW x \in Calls, x # o, Bare(opened'[x], d.number), d.way \in Called,
                 x \notin new.shut
          PROVE  PairFits(opened', o, x) /\ PairFits(opened', x, o)
        <3>1. opened'[x] = opened[x] /\ Bare(opened[x], d.number)
            BY <1>5, <2>1
        <3>2. x \in Existing \ d.before /\ x \in Calls \ d.shut
            BY <1>1, <1>2, <1>4, <2>1, <3>1 DEF FitsOrders, OrdersFit, Bare, Existing
        <3>3. d.claim # NoUser => d.way = "webhook" /\ customer[d.user].standing = "absent"
            BY <1>1, <2>1 DEF FitsCustomers, Called
        <3>4. opened[x].user # NoUser => customer[opened[x].user].standing # "absent"
            BY <1>2 DEF OrdersFit
        <3>5. d.claim # NoUser => d.user # NoUser /\ ~opened[x].registers /\ opened[x].user # d.user
            BY <1>1, <3>1, <3>2, <3>3, <3>4 DEF FitsOrders
        <3>6. d.way = "webhook" /\ opened[x].registers => d.claim = NoUser /\ opened[x].user # d.user
            BY <1>1, <3>1, <3>2 DEF FitsOrders
        <3> QED BY <1>4, <1>5, <3>1, <3>2, <3>5, <3>6 DEF PairFits
    <2> SUFFICES ASSUME NEW y \in Calls, NEW x \in Calls, y # x,
                        Bare(opened'[y], opened'[x].number), Bare(opened'[x], opened'[x].number),
                        x \notin opened'[y].shut, y \notin opened'[x].shut
                 PROVE  PairFits(opened', y, x)
        BY DEF PairsFit
    <2>2. CASE y = o
        BY <1>4, <1>5, <2>1, <2>2 DEF Bare
    <2>3. CASE x = o
        BY <1>4, <1>5, <2>1, <2>3 DEF Bare
    <2>4. CASE y # o /\ x # o
        <3>1. opened'[y] = opened[y] /\ opened'[x] = opened[x]
            BY <1>5, <2>4
        <3>2. PairFits(opened, y, x)
            BY <1>2, <3>1 DEF PairsFit
        <3> QED BY <3>1, <3>2 DEF PairFits
    <2> QED BY <2>2, <2>3, <2>4
<1> QED BY <1>1, <1>6, <1>8, <1>9, CommitFits, FinishStep DEF OpenOrder

\* The number a customer gets is nobody else's and no open transaction's; the
\* order that gets it is one an employee has edited.
LEMMA RewriteClientStep ==
    ASSUME CInv, NEW h \in Handlers, RewriteClient(h)
    PROVE  CInv'
<1> DEFINE d == handler[h]
<1>1. /\ Static(d) /\ FitsCustomers(d, customer) /\ d.pc = "rewrite" /\ d.claim = NoUser
      /\ d.user \in Customers \cup {NoUser} /\ d.number \in Numbers
      /\ d.user # NoUser => customer[d.user].standing # "absent"
    <2>1. Static(d) /\ FitsCustomers(d, customer) /\ d.pc = "rewrite"
        BY TicketFits DEF RewriteClient, At
    <2>2. d.claim = NoUser /\ d.user \in Customers \cup {NoUser} /\ d.number \in Numbers
        BY <2>1 DEF Static, Ticket
    <2> QED BY <2>1, <2>2 DEF FitsCustomers
<1>2. CustomersFit(customer) /\ OrdersFit(opened, customer) /\ opened \in [Calls -> OrderRow]
    BY DEF CInv, OrdersFit
<1>3. d.user # NoUser =>
        /\ \A g \in Handlers \ {h} : handler[g].claim # NoUser => handler[g].number # d.number
        /\ \A u \in Customers : customer[u].number = d.number => u = d.user
    BY DEF RewriteClient, Rewritable, ClaimedNumber, Claimed, Bearers
<1>4. /\ customer' \in [Customers -> CustomerRow]
      /\ \A u \in Customers : customer'[u].standing = customer[u].standing
      /\ \A u \in Customers : customer'[u].number = IF u = d.user THEN d.number
                                                    ELSE customer[u].number
    <2>1. customer' = [u \in Customers |-> IF u = d.user THEN [customer[u] EXCEPT !.number = d.number]
                                           ELSE customer[u]]
        BY DEF RewriteClient
    <2> QED BY <1>1, <1>2, <2>1 DEF CustomersFit, CustomerRow
<1>5. CustomersFit(customer')
    <2>1. \A u \in Customers : customer'[u].standing = "absent" <=> customer'[u].number = NoNumber
        BY <1>1, <1>2, <1>4, CustomersAssumption DEF CustomersFit, NoUser
    <2>2. \A u, w \in Customers : u # w /\ customer'[u].number = customer'[w].number
            => customer'[u].number = NoNumber
        BY <1>1, <1>2, <1>3, <1>4, CustomersAssumption DEF CustomersFit, NoUser
    <2> QED BY <1>4, <2>1, <2>2 DEF CustomersFit
<1>6. ASSUME NEW g \in Handlers \ {h} PROVE FitsCustomers(handler[g], customer')
    <2>1. /\ FitsCustomers(handler[g], customer) /\ handler[g].claim \in Customers \cup {NoUser}
          /\ handler[g].user \in Customers \cup {NoUser}
        BY TicketFits DEF Static, Ticket
    <2>2. \A u \in Customers : u = d.user => d.user # NoUser
        BY CustomersAssumption DEF NoUser
    <2> QED BY <1>3, <1>4, <2>1, <2>2 DEF FitsCustomers
<1>7. /\ opened' \in [Calls -> OrderRow]
      /\ \A x \in Calls : /\ opened'[x].state = opened[x].state
                          /\ opened'[x].user = opened[x].user
                          /\ opened'[x].registers = opened[x].registers
                          /\ opened'[x] = opened[x] \/ (/\ opened'[x].origin = "edited"
                                                        /\ opened'[x].number = d.number)
    <2>1. opened' = [o \in Calls |-> IF o = d.order
                                     THEN [opened[o] EXCEPT !.number = d.number, !.origin = "edited"]
                                     ELSE opened[o]]
        BY DEF RewriteClient
    <2>2. ASSUME NEW r \in OrderRow
          PROVE  LET q == [r EXCEPT !.number = d.number, !.origin = "edited"]
                 IN  /\ q \in OrderRow /\ q.number = d.number /\ q.origin = "edited"
                     /\ q.state = r.state /\ q.user = r.user /\ q.registers = r.registers
        BY <1>1 DEF OrderRow, Origins
    <2>3. \A x \in Calls : opened[x] \in OrderRow
        BY <1>2
    <2>4. \A x \in Calls : opened'[x] =
            IF x = d.order THEN [opened[x] EXCEPT !.number = d.number, !.origin = "edited"]
            ELSE opened[x]
        BY <2>1
    <2>5. ASSUME NEW x \in Calls
          PROVE  /\ opened'[x] \in OrderRow
                 /\ opened'[x].state = opened[x].state /\ opened'[x].user = opened[x].user
                 /\ opened'[x].registers = opened[x].registers
                 /\ opened'[x] = opened[x] \/ (/\ opened'[x].origin = "edited"
                                               /\ opened'[x].number = d.number)
        <3> HIDE DEF d
        <3>1. CASE x = d.order
            <4> DEFINE q == [opened[x] EXCEPT !.number = d.number, !.origin = "edited"]
            <4>1. opened'[x] = q
                BY <2>4, <3>1
            <4>2. /\ q \in OrderRow /\ q.number = d.number /\ q.origin = "edited"
                  /\ q.state = opened[x].state /\ q.user = opened[x].user
                  /\ q.registers = opened[x].registers
                BY <2>2, <2>3
            <4> HIDE DEF q
            <4> QED BY <4>1, <4>2
        <3>2. CASE x # d.order
            BY <2>3, <2>4, <3>2
        <3> QED BY <3>1, <3>2
    <2> QED BY <2>1, <2>5
<1>8. \A x \in Calls : Eased(opened[x], opened'[x])
    BY <1>7 DEF Eased, Bare, Called
<1>9. OrdersFit(opened', customer')
    <2>1. \A x \in Calls : opened[x].user # NoUser => customer'[opened[x].user].standing # "absent"
        BY <1>2, <1>4 DEF OrdersFit, OrderRow
    <2>2. \A x \in Calls :
            /\ opened'[x].state # "absent" => opened'[x].number \in Numbers
            /\ opened'[x].origin = "webhook" => opened'[x].user # NoUser
            /\ opened'[x].origin = "answered" => ~opened'[x].registers
            /\ opened'[x].origin \in Called => opened'[x].state # "absent"
        BY <1>1, <1>2, <1>7 DEF OrdersFit, Called
    <2> QED BY <1>7, <2>1, <2>2 DEF OrdersFit
<1>10. PairsFit(opened') /\ \A g \in Handlers : FitsOrders(handler[g], opened')
    <2>1. /\ \A x \in Calls : opened'[x].number \in Numbers \cup {NoNumber}
          /\ \A x \in Calls : opened'[x].origin \in Called => opened'[x].number \in Numbers
        BY <1>7, <1>9 DEF OrdersFit, OrderRow
    <2> QED BY <1>8, <2>1, EasedKeepsFits
<1> QED BY <1>5, <1>6, <1>9, <1>10, FinishStep DEF RewriteClient

(***************************************************************************)
(* Orders that leave, come back, are deleted or get another customer, and  *)
(* customers who are deleted.                                              *)
(***************************************************************************)
\* An order nobody has lost changes, but for the number and what calls know of it.
LEMMA RowChangeStep ==
    ASSUME CInv, NEW o \in Calls, NEW q \in OrderRow, opened' = [opened EXCEPT ![o] = q],
           opened[o].state # "absent", q.state # "absent", q.number = opened[o].number,
           q.registers = opened[o].registers, q.beside = opened[o].beside,
           q.shut = opened[o].shut,
           \/ q.origin = opened[o].origin /\ q.user = opened[o].user
           \/ /\ q.origin = "edited"
              /\ q.user # NoUser => customer[q.user].standing # "absent",
           UNCHANGED <<customer, handler>>, visits' \in 0 .. MaxVisits
    PROVE  CInv'
<1>1. OrdersFit(opened, customer) /\ opened \in [Calls -> OrderRow]
    BY DEF CInv, OrdersFit
<1>2. /\ opened' \in [Calls -> OrderRow] /\ opened'[o] = q
      /\ \A x \in Calls : x # o => opened'[x] = opened[x]
    BY <1>1
<1>3. \A x \in Calls : Eased(opened[x], opened'[x])
    <2>1. Eased(opened[o], q)
        BY DEF Eased, Bare, Called
    <2>2. \A x \in Calls : Eased(opened[x], opened[x])
        BY DEF Eased
    <2> QED BY <1>2, <2>1, <2>2
<1>4. OrdersFit(opened', customer)
    BY <1>1, <1>2 DEF OrdersFit, Called
<1>5. PairsFit(opened') /\ \A g \in Handlers : FitsOrders(handler[g], opened')
    <2>1. /\ \A x \in Calls : opened'[x].number \in Numbers \cup {NoNumber}
          /\ \A x \in Calls : opened'[x].origin \in Called => opened'[x].number \in Numbers
        BY <1>2, <1>4 DEF OrdersFit, OrderRow
    <2> QED BY <1>3, <2>1, EasedKeepsFits
<1> QED BY <1>4, <1>5 DEF CInv

LEMMA BecomesStep ==
    ASSUME CInv, NEW o \in Calls, LeaveQueue(o) \/ ComeBack(o) \/ DeleteOrder(o)
    PROVE  CInv'
<1>1. PICK state \in {"open", "away", "deleted"} : Becomes(o, state)
    BY DEF LeaveQueue, ComeBack, DeleteOrder
<1> DEFINE q == [opened[o] EXCEPT !.state = state]
<1>2. opened[o] \in OrderRow /\ opened \in [Calls -> OrderRow] /\ opened[o].state # "absent"
    BY DEF CInv, OrdersFit, LeaveQueue, ComeBack, DeleteOrder, Editable
<1>3. /\ q \in OrderRow /\ q.state # "absent" /\ q.number = opened[o].number
      /\ q.registers = opened[o].registers /\ q.beside = opened[o].beside
      /\ q.shut = opened[o].shut /\ q.origin = opened[o].origin /\ q.user = opened[o].user
    BY <1>2 DEF OrderRow
<1>4. opened' = [opened EXCEPT ![o] = q] /\ UNCHANGED <<customer, handler, visits>>
    BY <1>1, <1>2 DEF Becomes
<1> HIDE DEF q
<1>5. visits' \in 0 .. MaxVisits
    BY <1>4 DEF CInv
<1> QED BY <1>2, <1>3, <1>4, <1>5, RowChangeStep

LEMMA AttachUserStep ==
    ASSUME CInv, NEW o \in Calls, NEW u \in Customers, AttachUser(o, u)
    PROVE  CInv'
<1> DEFINE q == [opened[o] EXCEPT !.user = u, !.origin = "edited"]
<1>1. opened[o] \in OrderRow /\ opened \in [Calls -> OrderRow] /\ opened[o].state # "absent"
    BY DEF CInv, OrdersFit, AttachUser, Editable
<1>2. /\ q \in OrderRow /\ q.state = opened[o].state /\ q.number = opened[o].number
      /\ q.registers = opened[o].registers /\ q.beside = opened[o].beside
      /\ q.shut = opened[o].shut /\ q.origin = "edited" /\ q.user = u
    BY <1>1 DEF OrderRow, Origins
<1>3. /\ opened' = [opened EXCEPT ![o] = q] /\ UNCHANGED <<customer, handler>>
      /\ customer[u].standing # "absent"
    BY <1>1 DEF AttachUser
<1> HIDE DEF q
<1>4. visits' \in 0 .. MaxVisits
    BY CustomersAssumption DEF AttachUser, CInv
<1> QED BY <1>1, <1>2, <1>3, <1>4, RowChangeStep

LEMMA DeleteUserStep ==
    ASSUME CInv, NEW u \in Customers, DeleteUser(u)
    PROVE  CInv'
<1>1. CustomersFit(customer) /\ OrdersFit(opened, customer)
    BY DEF CInv
<1>2. /\ customer' \in [Customers -> CustomerRow]
      /\ \A w \in Customers :
            /\ customer'[w].number = customer[w].number
            /\ customer'[w].standing = "absent" <=> customer[w].standing = "absent"
    BY <1>1 DEF DeleteUser, CustomersFit, CustomerRow, Standings
<1>3. CustomersFit(customer')
    BY <1>1, <1>2 DEF CustomersFit
<1>4. OrdersFit(opened, customer')
    BY <1>1, <1>2 DEF OrdersFit, OrderRow
<1>5. \A h \in Handlers : FitsCustomers(handler[h], customer')
    BY <1>2, TicketFits DEF FitsCustomers, Static, Ticket
<1>6. UNCHANGED <<opened, handler, visits>>
    BY DEF DeleteUser
<1> QED BY <1>3, <1>4, <1>5, <1>6 DEF CInv

(***************************************************************************)
(* The invariant.                                                          *)
(***************************************************************************)
LEMMA CustomersInitInvariant == CustomersInit => CInv
<1> SUFFICES ASSUME CustomersInit PROVE CInv
    OBVIOUS
<1>1. /\ customer \in [Customers -> CustomerRow]
      /\ \A u \in Customers : customer[u].standing = "absent" <=> customer[u].number = NoNumber
      /\ \A u, w \in Customers : u < w => customer[w].standing = "absent"
    BY DEF CustomersInit, CustomerRow
<1>2. CustomersFit(customer)
    <2> SUFFICES ASSUME NEW u \in Customers, NEW w \in Customers, u # w,
                        customer[u].number = customer[w].number
                 PROVE  customer[u].number = NoNumber
        BY <1>1 DEF CustomersFit
    <2>1. u < w \/ w < u
        BY CustomersAssumption
    <2> QED BY <1>1, <2>1
<1>3. /\ NotOpened \in OrderRow /\ NotOpened.state = "absent" /\ NotOpened.user = NoUser
      /\ NotOpened.origin = "none" /\ "none" \notin Called
    BY DEF NotOpened, OrderRow, Origins, NoUser, Called
<1>4. opened \in [Calls -> OrderRow] /\ \A o \in Calls : opened[o] = NotOpened
    BY <1>3 DEF CustomersInit
<1>5. OrdersFit(opened, customer) /\ PairsFit(opened)
    BY <1>3, <1>4 DEF OrdersFit, PairsFit, Bare
<1>6. DOMAIN handler = Handlers /\ \A h \in Handlers : handler[h] = AtDesk
    BY DEF CustomersInit
<1>7. visits \in 0 .. MaxVisits
    BY CustomersAssumption DEF CustomersInit
<1>8. \A h \in Handlers : /\ Static(handler[h]) /\ FitsCustomers(handler[h], customer)
                          /\ FitsOrders(handler[h], opened)
    BY <1>6, DeskFits
<1>9. \A h, g \in Handlers : h # g => Apart(handler[h], handler[g])
    BY <1>6, DeskFits DEF Apart
<1> QED BY <1>2, <1>5, <1>6, <1>7, <1>8, <1>9 DEF CInv

LEMMA CustomersNextInvariant == CInv /\ [CustomersNext]_customersVars => CInv'
<1> SUFFICES ASSUME CInv, [CustomersNext]_customersVars PROVE CInv'
    OBVIOUS
<1>1. ASSUME NEW h \in Handlers, NEW n \in Numbers,
             \/ \E way \in {"webhook", "answered"} : Ring(h, n, way)
             \/ Apply(h, n)
             \/ CreateByPhone(h, n)
             \/ \E o \in Calls, way \in {"info", "update"} : EditClient(h, o, n, way)
             \/ \E u \in Customers : UpdateUser(h, u, n)
             \/ \E standing \in {"Open", "Banned"} : CreateUser(h, n, standing)
      PROVE  CInv'
    BY <1>1, RingStep, ByNumberStep, EditClientStep, UpdateUserStep, CreateUserStep
<1>2. ASSUME NEW h \in Handlers,
             \/ \E u \in Customers : CreateByUser(h, u)
             \/ \E o \in Calls : EnsureUserLinked(h, o)
             \/ LookForOrder(h)
             \/ FindCustomer(h) \/ InsertCustomer(h)
             \/ SeekOrder(h)
      PROVE  CInv'
    BY <1>2, CreateByUserStep, EnsureUserLinkedStep, LookForOrderStep, FindCustomerStep,
       InsertCustomerStep, SeekOrderStep
<1>3. ASSUME NEW h \in Handlers, OpenOrder(h) \/ TouchOrder(h) \/ LinkOrder(h) \/ RewriteClient(h) \/ CommitUser(h)
      PROVE  CInv'
    BY <1>3, OpenOrderStep, TouchOrderStep, LinkOrderStep, RewriteClientStep, CommitUserStep
<1>4. ASSUME NEW h \in Handlers, InsertRefused(h) \/ RewriteRefused(h) \/ Withdraw(h)
      PROVE  CInv'
    BY <1>4, LeaveStep DEF InsertRefused, RewriteRefused, Withdraw
<1>5. ASSUME NEW o \in Calls,
             \/ LeaveQueue(o) \/ ComeBack(o) \/ DeleteOrder(o)
             \/ \E u \in Customers : AttachUser(o, u)
      PROVE  CInv'
    BY <1>5, BecomesStep, AttachUserStep
<1>6. ASSUME NEW u \in Customers, DeleteUser(u) PROVE CInv'
    BY <1>6, DeleteUserStep
<1>7. CASE UNCHANGED customersVars
    BY <1>7 DEF customersVars, CInv
<1> QED BY <1>1, <1>2, <1>3, <1>4, <1>5, <1>6, <1>7 DEF CustomersNext

LEMMA CustomersInvariant == CustomersSpec => []CInv
BY CustomersInitInvariant, CustomersNextInvariant, PTL DEF CustomersSpec

LEMMA CustomersAreTyped == CInv => CustomersTypeOK
  <1> SUFFICES ASSUME CInv PROVE CustomersTypeOK
      OBVIOUS
  <1>1. /\ customer \in [Customers -> [number : Numbers \cup {NoNumber}, standing : Standings]]
        /\ \A u, w \in Customers : u # w /\ customer[u].number = customer[w].number =>
              customer[u].number = NoNumber
      BY DEF CInv, CustomersFit, CustomerRow
  <1>2. opened \in [Calls -> [state : {"absent", "open", "away", "deleted"},
                              number : Numbers \cup {NoNumber}, user : Customers \cup {NoUser},
                              origin : Origins, registers : BOOLEAN, beside : SUBSET Calls,
                              shut : SUBSET Calls]]
      BY DEF CInv, OrdersFit, OrderRow
  <1>3. DOMAIN handler = Handlers /\ visits \in 0 .. MaxVisits
      BY DEF CInv
  <1>4. \A h \in Handlers : handler[h].claim \in Customers \cup {NoUser}
      BY DEF CInv, Static, Ticket
  <1> QED BY <1>1, <1>2, <1>3, <1>4 DEF CustomersTypeOK

(***************************************************************************)
(* Theorems.                                                               *)
(***************************************************************************)
\* Rows, orders and requests keep to their values, and no two rows of users,
\* deleted ones included, ever have one number.
THEOREM CustomersTypeCorrect == CustomersSpec => []CustomersTypeOK
<1> QED BY CustomersAreTyped, CustomersInvariant, PTL

\* Two orders of one number that telephone calls have opened ran beside each
\* other, unless one was away or deleted when the transaction of the other looked,
\* and of two webhooks of a new caller only one opens an order: the other waits
\* for the number and fails.  Orders come and go as employees take, close, return
\* and delete them.
THEOREM OneOrderPerCallerHolds == CustomersSpec => []OneOrderPerCaller
<1>1. CInv => OneOrderPerCaller
    <2> SUFFICES ASSUME CInv, NEW o \in Calls, NEW x \in Calls, o # x,
                        opened[o].number = opened[x].number,
                        opened[o].origin \in {"webhook", "answered"},
                        opened[x].origin \in {"webhook", "answered"},
                        x \notin opened[o].shut, o \notin opened[x].shut
                 PROVE  /\ x \in opened[o].beside \/ o \in opened[x].beside
                        /\ opened[o].registers /\ opened[x].origin = "webhook"
                            => ~opened[x].registers /\ opened[x].user # opened[o].user
        BY DEF OneOrderPerCaller
    <2>1. PairFits(opened, o, x)
        BY DEF CInv, PairsFit, Bare, Called
    <2> QED BY <2>1 DEF PairFits
<1> QED BY <1>1, CustomersInvariant, PTL

\* A request fails on the unique number of users only because of a deleted
\* customer or of one who got the number after the request looked: it never
\* tries to insert a customer it has seen, banned and pending ones included.
THEOREM RefusedOnlyWhenTakenHolds == CustomersSpec => RefusedOnlyWhenTaken
<1> DEFINE Taken ==
        \A h \in Handlers :
            (InsertRefused(h) \/ (RewriteRefused(h) /\ handler[h].way # "user")) =>
                \E u \in Bearers(handler[h].number) :
                    customer[u].standing = "Deleted" \/ u \notin handler[h].known
<1>1. ASSUME CInv PROVE Taken
    <2> SUFFICES ASSUME NEW h \in Handlers,
                        InsertRefused(h) \/ (RewriteRefused(h) /\ handler[h].way # "user")
                 PROVE  \E u \in Bearers(handler[h].number) : u \notin handler[h].known
        OBVIOUS
    <2>1. Static(handler[h])
        BY <1>1, TicketFits
    <2>2. CASE InsertRefused(h)
        <3>1. handler[h].known = {}
            BY <2>1, <2>2 DEF InsertRefused, At, Static
        <3> QED BY <2>2, <3>1 DEF InsertRefused
    <2>3. CASE RewriteRefused(h) /\ handler[h].way # "user"
        <3>1. handler[h].known \subseteq {handler[h].user}
            BY <2>1, <2>3 DEF RewriteRefused, At, Static
        <3> QED BY <2>3, <3>1 DEF RewriteRefused
    <2> QED BY <2>2, <2>3
<1>2. RefusedOnlyWhenTaken <=> [][Taken]_customersVars
    BY DEF RefusedOnlyWhenTaken
<1> HIDE DEF Taken
<1> QED BY <1>1, <1>2, CustomersInvariant, PTL

-----------------------------------------------------------------------------
(***************************************************************************)
(* Where an order may go.                                                  *)
(***************************************************************************)
AnyStage == JobStatuses \cup {0}
KnownJob == [there : BOOLEAN, place : Premises, stage : AnyStage, has : SUBSET Fields]
Request(what) ==
    [doing : {what}, to : JobStatuses, rights : Premises, known : KnownJob,
     gives : SUBSET Fields, drops : SUBSET Fields, seen : Setups \cup Changed]
Asked == Request("move") \cup Request("update") \cup Request("write")

GatesTyped ==
    /\ setup \in Setups \cup Changed
    /\ job \in KnownJob
    /\ job.there => job.stage \in JobStatuses
    /\ desk \in [Desks -> {Free} \cup Asked]
    /\ spared \in SUBSET Fields
    /\ deeds \in 0 .. MaxDeeds

\* A request that passed the gates enters a status whose needs it knew met, by
\* the rows it read; one that stays keeps the date its status needs.
GatesPassed(k) ==
    /\ k.gives \cap k.drops = {}
    /\ k.doing = "move" => k.drops = {} /\ k.gives = {}
    /\ k.doing = "update" => MayChange(k.seen, k.rights, k.known.stage)
    /\ k.doing = "write" =>
        IF k.to # k.known.stage THEN k.seen.needs[k.to] \subseteq k.known.has
        ELSE "date" \in k.drops => "date" \notin k.seen.needs[k.to]

GatesInv == GatesTyped /\ NeedsKept /\ \A d \in Desks : desk[d] # Free => GatesPassed(desk[d])

LEMMA GatesInitInv == GatesInit => GatesInv
<1> SUFFICES ASSUME GatesInit PROVE GatesInv
  OBVIOUS
<1> DEFINE Opened == [there : {TRUE}, place : Premises, stage : JobStatuses, has : {Fields}]
<1>1. job \in KnownJob /\ (job.there => job.stage \in JobStatuses /\ job.has = Fields)
  <2>1. CASE job = NoJob
    <3>1. {} \in SUBSET Fields /\ Parent \in Premises /\ 0 \in AnyStage
      BY DEF Premises, AnyStage
    <3> QED
      BY <2>1, <3>1 DEF NoJob, KnownJob
  <2>2. CASE job \in Opened
    <3>1. Fields \in SUBSET Fields /\ JobStatuses \subseteq AnyStage
      BY DEF AnyStage
    <3>2. \A j \in Opened : j \in KnownJob /\ j.stage \in JobStatuses /\ j.has = Fields
      BY <3>1 DEF KnownJob
    <3> QED
      BY <2>2, <3>2
  <2> QED
    BY <2>1, <2>2 DEF GatesInit
<1>2. job.there => job.stage \in JobStatuses /\ job.has = Fields
  BY <1>1
<1>3. NeedsKept
  BY <1>2, SetupsAssumption DEF GatesInit, NeedsKept
<1>4. 0 \in 0 .. MaxDeeds
  BY MaxDeedsAssumption
<1>5. desk \in [Desks -> {Free} \cup Asked] /\ \A d \in Desks : desk[d] = Free
  BY DEF GatesInit
<1> QED
  BY <1>1, <1>2, <1>3, <1>4, <1>5 DEF GatesInv, GatesTyped, GatesInit

\* A request is received: one more is counted.
LEMMA ReceivedCounts ==
    ASSUME GatesTyped, NEW d \in Desks, Receives(d)
    PROVE  deeds' \in 0 .. MaxDeeds
BY MaxDeedsAssumption DEF Receives, GatesTyped

\* The first row there is says whether a date is needed; who may change the
\* order has a row.
LEMMA ChangerAsked ==
    ASSUME NEW u, NEW place, NEW s, MayChange(u, place, s), "date" \in u.needs[s]
    PROVE  NeedsDateHere(u, place, s)
<1>1. CASE RowAt(u, place, Primary, s) # "none"
  BY <1>1 DEF NeedsDateHere, TheRoles, Primary
<1>2. CASE RowAt(u, place, Primary, s) = "none"
  <2>1. PICK r \in TheRoles : RowAt(u, place, r, s) = "yes"
    BY <1>2 DEF MayChange
  <2> QED
    BY <2>1 DEF NeedsDateHere
<1> QED
  BY <1>1, <1>2

LEMMA RightsArePremises ==
    ASSUME GatesTyped, NEW rights \in getPermissionBranchIdForOrder(job.place),
           Writable(job.place)
    PROVE  rights \in Premises
<1>1. job.place \in Premises /\ Parent \in Premises
  BY DEF GatesTyped, KnownJob, Premises
<1>2. CASE job.place # Parent
  BY <1>1, <1>2 DEF getPermissionBranchIdForOrder
<1>3. CASE job.place = Parent
  <2>1. ofParent
    BY <1>3 DEF Writable
  <2> QED
    BY <1>1, <1>3, <2>1 DEF getPermissionBranchIdForOrder
<1> QED
  BY <1>2, <1>3

LEMMA CreateJobKeeps ==
    ASSUME GatesInv, NEW d \in Desks, NEW s \in JobStatuses, NEW has \in SUBSET Fields,
           CreateJob(d, s, has)
    PROVE  GatesInv'
<1>1. job' \in KnownJob /\ job'.stage = s /\ job'.has = has /\ job'.stage \in JobStatuses
  BY DEF CreateJob, KnownJob, AnyStage, Premises
<1>2. spared' \in SUBSET Fields
  BY DEF CreateJob, Fields
<1>3. setup.needs[s] \subseteq Fields
  BY SetupsAssumption DEF GatesInv, GatesTyped
<1>4. "date" \in setup.needs[s] => "date" \in has
  BY ChangerAsked DEF CreateJob
<1>5. "cause" \in has \cup spared'
  BY DEF CreateJob
<1>6. NeedsKept'
  BY <1>1, <1>3, <1>4, <1>5 DEF NeedsKept, CreateJob, Fields
<1>7. deeds' \in 0 .. MaxDeeds
  BY ReceivedCounts DEF CreateJob, GatesInv
<1>8. UNCHANGED <<setup, desk>>
  BY DEF CreateJob
<1> QED
  BY <1>1, <1>2, <1>6, <1>7, <1>8 DEF GatesInv, GatesTyped, GatesPassed

\* A request is read into a desk, and nothing else happens.
LEMMA ReadingKeeps ==
    ASSUME GatesInv, NEW d \in Desks, NEW k \in Asked, GatesPassed(k),
           desk' = [desk EXCEPT ![d] = k], UNCHANGED <<setup, job, spared>>,
           deeds' \in 0 .. MaxDeeds
    PROVE  GatesInv'
<1>1. desk' \in [Desks -> {Free} \cup Asked]
  BY DEF GatesInv, GatesTyped
<1>2. ASSUME NEW e \in Desks, desk'[e] # Free
      PROVE  GatesPassed(desk'[e])
  <2>1. desk'[e] = IF e = d THEN k ELSE desk[e]
    BY DEF GatesInv, GatesTyped
  <2> QED
    BY <1>2, <2>1 DEF GatesInv
<1>3. (\A e \in Desks : desk[e] # Free => GatesPassed(desk[e]))'
  BY <1>2
<1> QED
  BY <1>1, <1>3 DEF GatesInv, GatesTyped, NeedsKept

LEMMA ReadForMoveKeeps ==
    ASSUME GatesInv, NEW d \in Desks, NEW to \in JobStatuses, ReadForMove(d, to)
    PROVE  GatesInv'
<1>1. PICK rights \in getPermissionBranchIdForOrder(job.place) :
         /\ Writable(job.place)
         /\ desk' = [desk EXCEPT ![d] =
              [doing |-> "move", to |-> to, rights |-> rights, known |-> job,
               gives |-> {}, drops |-> {}, seen |-> setup]]
  BY DEF ReadForMove
<1> DEFINE k == [doing |-> "move", to |-> to, rights |-> rights, known |-> job,
                 gives |-> {}, drops |-> {}, seen |-> setup]
<1>2. rights \in Premises
  BY <1>1, RightsArePremises DEF GatesInv
<1>3. k \in Asked
  BY <1>2 DEF Asked, Request, GatesInv, GatesTyped
<1>4. GatesPassed(k)
  BY DEF GatesPassed
<1>5. deeds' \in 0 .. MaxDeeds
  BY ReceivedCounts DEF ReadForMove, GatesInv
<1> QED
  BY <1>1, <1>3, <1>4, <1>5, ReadingKeeps DEF ReadForMove

LEMMA ReadForUpdateKeeps ==
    ASSUME GatesInv, NEW d \in Desks, NEW to \in JobStatuses, NEW gives \in SUBSET Fields,
           NEW drops \in SUBSET Fields, ReadForUpdate(d, to, gives, drops)
    PROVE  GatesInv'
<1> DEFINE known == [job EXCEPT !.has = (@ \cup (gives \cap {"cause"})) \ (drops \cap {"cause"})]
<1>1. PICK rights \in getPermissionBranchIdForOrder(job.place) :
         /\ Writable(job.place) /\ MayChange(setup, rights, job.stage)
         /\ desk' = [desk EXCEPT ![d] =
              [doing |-> "update", to |-> to, rights |-> rights, known |-> known,
               gives |-> gives, drops |-> drops, seen |-> setup]]
  BY DEF ReadForUpdate
<1> DEFINE k == [doing |-> "update", to |-> to, rights |-> rights, known |-> known,
                 gives |-> gives, drops |-> drops, seen |-> setup]
<1>2. rights \in Premises
  BY <1>1, RightsArePremises DEF GatesInv
<1>3. known \in KnownJob /\ known.stage = job.stage
  BY DEF GatesInv, GatesTyped, KnownJob
<1> HIDE DEF known
<1>4. k \in Asked
  BY <1>2, <1>3 DEF Asked, Request, GatesInv, GatesTyped
<1>5. GatesPassed(k)
  BY <1>1, <1>3 DEF GatesPassed, ReadForUpdate
<1>6. deeds' \in 0 .. MaxDeeds
  BY ReceivedCounts DEF ReadForUpdate, GatesInv
<1> QED
  BY <1>1, <1>4, <1>5, <1>6, ReadingKeeps DEF ReadForUpdate

\* A desk is cleared, and nothing else happens.
LEMMA ClearingKeeps ==
    ASSUME GatesInv, NEW d \in Desks, desk' = [desk EXCEPT ![d] = Free],
           UNCHANGED <<setup, job, spared, deeds>>
    PROVE  GatesInv'
<1>1. desk' \in [Desks -> {Free} \cup Asked]
  BY DEF GatesInv, GatesTyped
<1>2. \A e \in Desks : desk'[e] # Free => desk'[e] = desk[e]
  BY DEF GatesInv, GatesTyped
<1>3. (\A e \in Desks : desk[e] # Free => GatesPassed(desk[e]))'
  BY <1>2 DEF GatesInv
<1> QED
  BY <1>1, <1>3 DEF GatesInv, GatesTyped, NeedsKept

LEMMA PassGatesKeeps ==
    ASSUME GatesInv, NEW d \in Desks, PassGates(d)
    PROVE  GatesInv'
<1> DEFINE k == desk[d]
           passed == [k EXCEPT !.doing = "write", !.seen = IF k.doing = "move" THEN setup ELSE @]
<1>1. k.doing \in {"move", "update"} /\ UNCHANGED <<setup, job, spared, deeds>>
  BY DEF PassGates
<1>2. k \in Asked /\ GatesPassed(k)
  BY <1>1 DEF GatesInv, GatesTyped, Free
<1>3. CASE desk' = [desk EXCEPT ![d] = Free]
  BY <1>1, <1>3, ClearingKeeps
<1>4. CASE desk' = [desk EXCEPT ![d] = passed] /\ ~(desk' = [desk EXCEPT ![d] = Free])
  <2>1. /\ \/ k.to = k.known.stage
           \/ k.doing = "move" /\ MoveAllowed(k.rights, k.known, k.to)
           \/ k.doing = "update" /\ validateStatusTransition(k.seen, k.rights, k.known, k.to)
        /\ dateStays(d)
    BY <1>4 DEF PassGates
  <2>2. setup \in Setups \cup Changed
    BY DEF GatesInv, GatesTyped
  <2>3. /\ passed \in Asked /\ passed.doing = "write" /\ passed.to = k.to
        /\ passed.known = k.known /\ passed.gives = k.gives /\ passed.drops = k.drops
        /\ passed.seen = IF k.doing = "move" THEN setup ELSE k.seen
    BY <1>1, <1>2, <2>2 DEF Asked, Request
  <2>4. ASSUME k.to # k.known.stage
        PROVE  passed.seen.needs[k.to] \subseteq k.known.has
    <3>1. CASE k.doing = "move"
      BY <2>1, <2>3, <2>4, <3>1 DEF MoveAllowed, validateStatusTransition
    <3>2. CASE k.doing = "update"
      BY <2>1, <2>3, <2>4, <3>2 DEF validateStatusTransition
    <3> QED
      BY <1>1, <3>1, <3>2
  <2>5. ASSUME k.to = k.known.stage, "date" \in k.drops
        PROVE  "date" \notin passed.seen.needs[k.to]
    <3>1. k.doing = "update" /\ MayChange(k.seen, k.rights, k.known.stage)
      BY <1>1, <1>2, <2>5 DEF GatesPassed
    <3>2. ~NeedsDateHere(k.seen, k.rights, k.known.stage)
      BY <2>1, <2>5 DEF dateStays
    <3> QED
      BY <2>3, <2>5, <3>1, <3>2, ChangerAsked
  <2>6. GatesPassed(passed)
    BY <1>2, <2>3, <2>4, <2>5 DEF GatesPassed
  <2>7. deeds' \in 0 .. MaxDeeds
    BY <1>1 DEF GatesInv, GatesTyped
  <2> QED
    BY <1>1, <1>4, <2>3, <2>6, <2>7, ReadingKeeps
<1> QED
  BY <1>3, <1>4 DEF PassGates

LEMMA WriteJobKeeps ==
    ASSUME GatesInv, NEW d \in Desks, WriteJob(d)
    PROVE  GatesInv'
<1> DEFINE k == desk[d]
           has == (job.has \cup k.gives) \ k.drops
           moved == k.to # k.known.stage
<1>1. k.doing = "write"
  BY DEF WriteJob
<1>2. k \in Request("write") /\ GatesPassed(k)
  BY <1>1 DEF GatesInv, GatesTyped, Free, Asked, Request
<1>3. /\ k.gives \subseteq Fields /\ k.drops \subseteq Fields /\ k.known \in KnownJob
      /\ k.to \in JobStatuses /\ k.seen \in Setups \cup Changed /\ k.gives \cap k.drops = {}
  BY <1>2 DEF Request, GatesPassed
<1>4. /\ job \in KnownJob /\ (job.there => job.stage \in JobStatuses) /\ spared \subseteq Fields
      /\ setup \in Setups \cup Changed
  BY DEF GatesInv, GatesTyped
<1>5. job' = [job EXCEPT !.stage = IF moved THEN k.to ELSE @, !.has = has]
  BY DEF WriteJob
<1>6. spared' = (spared \cup (IF moved /\ "date" \in k.drops THEN {"date"} ELSE {})
                   \cup (k.drops \cap {"cause"})
                   \cup (IF moved THEN k.known.has \ job.has ELSE {})
                   \cup (IF job.stage # k.known.stage THEN k.drops ELSE {})
                   \cup (IF setup.needs # k.seen.needs THEN Fields \ has ELSE {})) \ k.gives
  BY DEF WriteJob
<1>7. k.known.has \subseteq Fields /\ job.has \subseteq Fields
  BY <1>3, <1>4 DEF KnownJob
<1>8. has \subseteq Fields /\ spared' \subseteq Fields
  BY <1>3, <1>4, <1>6, <1>7 DEF Fields
<1>9. /\ job' \in KnownJob /\ job'.has = has /\ job'.there = job.there
      /\ job'.stage = IF moved THEN k.to ELSE job.stage
  BY <1>3, <1>4, <1>5, <1>8 DEF KnownJob, AnyStage
<1>10. k.gives \subseteq has
  BY <1>3
<1>11. ASSUME job.there
       PROVE  setup.needs[job'.stage] \subseteq has \cup spared'
  <2>1. setup.needs[job'.stage] \subseteq Fields
    BY <1>3, <1>4, <1>9, <1>11, SetupsAssumption
  <2>2. CASE setup.needs # k.seen.needs
    BY <1>6, <1>10, <2>1, <2>2
  <2>3. CASE setup.needs = k.seen.needs /\ moved
    <3>1. setup.needs[k.to] \subseteq k.known.has
      BY <1>1, <1>2, <2>3 DEF GatesPassed
    <3>2. ASSUME NEW x \in k.known.has
          PROVE  x \in has \cup spared'
      <4>1. CASE x \notin job.has
        BY <1>6, <1>10, <2>3, <3>2, <4>1
      <4>2. CASE x \in job.has /\ x \in k.drops
        <5>1. x \in {"date", "cause"} /\ x \notin k.gives
          BY <1>3, <4>2 DEF Fields
        <5> QED
          BY <1>6, <2>3, <4>2, <5>1
      <4> QED
        BY <4>1, <4>2
    <3> QED
      BY <1>9, <2>3, <3>1, <3>2
  <2>4. CASE setup.needs = k.seen.needs /\ ~moved
    <3>1. setup.needs[job.stage] \subseteq job.has \cup spared
      BY <1>11 DEF GatesInv, NeedsKept
    <3>2. ASSUME NEW x \in setup.needs[job.stage]
          PROVE  x \in has \cup spared'
      <4>1. CASE x \notin k.drops
        BY <1>6, <1>10, <3>1, <3>2, <4>1
      <4>2. CASE x = "cause" /\ x \in k.drops
        BY <1>3, <1>6, <4>2
      <4>3. CASE x = "date" /\ x \in k.drops
        <5>1. "date" \notin setup.needs[k.to]
          BY <1>1, <1>2, <2>4, <4>3 DEF GatesPassed
        <5>2. job.stage # k.known.stage
          BY <2>4, <3>2, <4>3, <5>1
        <5> QED
          BY <1>3, <1>6, <4>3, <5>2
      <4> QED
        BY <1>3, <4>1, <4>2, <4>3 DEF Fields
    <3> QED
      BY <1>9, <2>4, <3>2
  <2> QED
    BY <2>2, <2>3, <2>4
<1>12. NeedsKept'
  BY <1>9, <1>11 DEF NeedsKept, WriteJob
<1>13. desk' = [desk EXCEPT ![d] = Free] /\ UNCHANGED <<setup, deeds>>
  BY DEF WriteJob
<1>14. /\ desk' \in [Desks -> {Free} \cup Asked]
       /\ \A e \in Desks : desk'[e] # Free => desk'[e] = desk[e]
  BY <1>13 DEF GatesInv, GatesTyped
<1>15. (\A e \in Desks : desk[e] # Free => GatesPassed(desk[e]))'
  BY <1>14 DEF GatesInv
<1>16. job'.there => job'.stage \in JobStatuses
  BY <1>3, <1>4, <1>9
<1> QED
  BY <1>4, <1>8, <1>9, <1>12, <1>13, <1>14, <1>15, <1>16 DEF GatesInv, GatesTyped

LEMMA TransferJobKeeps ==
    ASSUME GatesInv, NEW d \in Desks, NEW place \in Premises, TransferJob(d, place)
    PROVE  GatesInv'
<1>1. job' = [job EXCEPT !.place = place] /\ UNCHANGED <<setup, desk, spared>>
  BY DEF TransferJob
<1>2. /\ job' \in KnownJob /\ job'.there = job.there /\ job'.stage = job.stage
      /\ job'.has = job.has
  BY <1>1 DEF GatesInv, GatesTyped, KnownJob
<1>3. deeds' \in 0 .. MaxDeeds
  BY ReceivedCounts DEF TransferJob, GatesInv
<1> QED
  BY <1>1, <1>2, <1>3 DEF GatesInv, GatesTyped, NeedsKept, GatesPassed

LEMMA ChangeSetupKeeps ==
    ASSUME GatesInv, NEW d \in Desks, ChangeSetup(d)
    PROVE  GatesInv'
<1>1. setup' \in Setups \cup Changed /\ UNCHANGED <<job, desk>>
  BY DEF ChangeSetup
<1>2. job.there => setup'.needs[job.stage] \subseteq Fields
  BY <1>1, SetupsAssumption DEF GatesInv, GatesTyped
<1>3. spared' = spared \cup (IF job.there THEN setup'.needs[job.stage] \ job.has ELSE {})
  BY DEF ChangeSetup
<1>4. spared' \in SUBSET Fields
  BY <1>2, <1>3 DEF GatesInv, GatesTyped
<1>5. NeedsKept'
  BY <1>1, <1>3 DEF NeedsKept
<1>6. deeds' \in 0 .. MaxDeeds
  BY ReceivedCounts DEF ChangeSetup, GatesInv
<1> QED
  BY <1>1, <1>4, <1>5, <1>6 DEF GatesInv, GatesTyped, GatesPassed

LEMMA GatesNextInv == GatesInv /\ [GatesNext]_gateVars => GatesInv'
<1> SUFFICES ASSUME GatesInv, [GatesNext]_gateVars PROVE GatesInv'
  OBVIOUS
<1>1. CASE UNCHANGED gateVars
  BY <1>1 DEF gateVars, GatesInv, GatesTyped, NeedsKept, GatesPassed
<1>2. ASSUME NEW d \in Desks, NEW s \in JobStatuses, NEW has \in SUBSET Fields, CreateJob(d, s, has)
      PROVE  GatesInv'
  BY <1>2, CreateJobKeeps
<1>3. ASSUME NEW d \in Desks, NEW s \in JobStatuses, ReadForMove(d, s)
      PROVE  GatesInv'
  BY <1>3, ReadForMoveKeeps
<1>4. ASSUME NEW d \in Desks, NEW s \in JobStatuses, NEW gives \in SUBSET Fields,
             NEW drops \in SUBSET Fields, ReadForUpdate(d, s, gives, drops)
      PROVE  GatesInv'
  BY <1>4, ReadForUpdateKeeps
<1>5. ASSUME NEW d \in Desks, PassGates(d) \/ WriteJob(d) \/ ChangeSetup(d)
      PROVE  GatesInv'
  BY <1>5, PassGatesKeeps, WriteJobKeeps, ChangeSetupKeeps
<1>6. ASSUME NEW d \in Desks, NEW place \in Premises, TransferJob(d, place)
      PROVE  GatesInv'
  BY <1>6, TransferJobKeeps
<1> QED
  BY <1>1, <1>2, <1>3, <1>4, <1>5, <1>6 DEF GatesNext

LEMMA GatesInvariant == GatesSpec => []GatesInv
BY GatesInitInv, GatesNextInv, PTL DEF GatesSpec

LEMMA GatesAreTyped == GatesInv => GatesTypeOK
<1> SUFFICES ASSUME GatesInv PROVE GatesTypeOK
  OBVIOUS
<1>1. job.there \in BOOLEAN /\ job.place \in Premises /\ job.has \subseteq Fields
  BY DEF GatesInv, GatesTyped, KnownJob
<1>2. ASSUME NEW d \in Desks
      PROVE  desk[d].doing \in {"nothing", "move", "update", "write"}
  BY <1>2 DEF GatesInv, GatesTyped, Free, Asked, Request
<1> QED
  BY <1>1, <1>2 DEF GatesInv, GatesTyped, GatesTypeOK

(***************************************************************************)
(* Types: the order is in a branch and, once there, in a status of         *)
(* Mother's; it lacks and is excused nothing but what is ever asked for.   *)
(***************************************************************************)
THEOREM GatesTypeCorrect == GatesSpec => []GatesTypeOK
<1> QED
  BY GatesAreTyped, GatesInvariant, PTL

\* What is offered is what is accepted, whatever rights, branches and
\* transitions are set up: statuses.
LEMMA StatusesOffered ==
    ASSUME GatesTyped, job.there, NEW rights, NEW t \in JobStatuses, t \in setup.openStages
    PROVE  t \in findAllowedStatusTransitions(rights, job.stage)
             <=> MoveAllowed(rights, [job EXCEPT !.has = Fields], t)
<1>1. setup.needs[t] \subseteq Fields
  BY SetupsAssumption DEF GatesTyped
<1>2. [job EXCEPT !.has = Fields].stage = job.stage /\ [job EXCEPT !.has = Fields].has = Fields
  BY DEF GatesTyped, KnownJob
<1> QED
  BY <1>1, <1>2 DEF findAllowedStatusTransitions, MoveAllowed, validateStatusTransition,
                    getTransitionRule, MayEnter

\* And branches.
LEMMA BranchesOffered ==
    ASSUME NEW rights
    PROVE  {p \in Premises : transferAllowed(rights, p)} = findTransferBranches(rights)
<1>1. getTransferTargetBranchIds \subseteq getChildBranchIds
  BY DEF getTransferTargetBranchIds
<1>2. getChildBranchIds \subseteq Premises
  BY DEF getChildBranchIds, Premises
<1>3. getTransferTargetBranchIds \subseteq getVisibleBranchIds
  <2>1. CASE ofParent
    BY <1>1, <2>1 DEF getVisibleBranchIds
  <2>2. CASE ~ofParent
    BY <2>2 DEF getVisibleBranchIds, getTransferTargetBranchIds, ofParent
  <2> QED
    BY <2>1, <2>2
<1> QED
  BY <1>1, <1>2, <1>3 DEF findTransferBranches, transferAllowed

LEMMA GatesTell == GatesInv => GatesKept
<1> SUFFICES ASSUME GatesInv PROVE GatesKept
  OBVIOUS
<1>1. OffersKept
  BY StatusesOffered, BranchesOffered DEF OffersKept, GatesInv
<1> QED
  BY <1>1 DEF GatesKept, GatesInv

(***************************************************************************)
(* Where an employee sees an order, findById offers the statuses that move *)
(* accepts and the branches that transferBranch accepts; and an order has  *)
(* what its status needs, through the gates of create, move and update     *)
(* that lock nothing, but for what the history excuses.                    *)
(***************************************************************************)
THEOREM GatesKeptHolds == GatesSpec => []GatesKept
  BY GatesTell, GatesInvariant, PTL

-----------------------------------------------------------------------------
(***************************************************************************)
(* The papers printed for an order.                                        *)
(***************************************************************************)
FormRow == [id : PaperIds, at : Nat]
PaperFiles == SUBSET PaperIds

\* What a request that prints has in hand.
FormWork(step) ==
    [kind : {"form"}, step : {step}, id : PaperIds \cup {0}, at : Nat, files : PaperFiles,
     old : SUBSET FormRow, alone : BOOLEAN]
AgreementWork ==
    [kind : {"agreement"}, step : {"list", "upload", "clear"}, id : PaperIds, at : Nat,
     files : PaperFiles, old : SUBSET FormRow, alone : BOOLEAN]
PaperWork == FormWork("clear") \cup FormWork("save") \cup FormWork("commit") \cup AgreementWork

PapersTyped ==
    /\ stored \in [form : PaperFiles, agreement : PaperFiles]
    /\ forms \in SUBSET FormRow
    /\ clerk \in [Clerks -> {NoPaper} \cup PaperWork]
    /\ papers \in 0 .. MaxPapers /\ issued \in Nat
    /\ agreed \in BOOLEAN /\ astray \in SUBSET {"form", "agreement"}

\* Whoever is alone is: nobody else prints a form, or an agreement of another.
AloneIsAlone ==
    \A w, x \in Clerks :
        w # x /\ clerk[w].alone /\ clerk[w].kind # "none" /\ clerk[x].kind = clerk[w].kind
        => clerk[w].kind = "agreement" /\ clerk[x].id = clerk[w].id

\* What was uploaded is not deleted by who uploaded it, and stays there while
\* its printer is alone; the rows read to be deleted are those there are.
PaperFits(p) ==
    /\ p.step \in {"save", "commit"} => p.id \in PaperIds
    /\ p.kind = "form" /\ p.alone =>
        /\ p.step \in {"save", "commit"} => p.id \in stored.form
        /\ p.step = "commit" => p.old = forms
    /\ p.kind = "agreement" /\ p.step = "clear" =>
        /\ p.id \notin p.files
        /\ p.alone => p.id \in stored.agreement

PapersInv == PapersTyped /\ AloneIsAlone /\ (\A w \in Clerks : PaperFits(clerk[w])) /\ PapersKept

LEMMA KindOfPaper ==
    ASSUME NEW p \in {NoPaper} \cup PaperWork
    PROVE  /\ p.kind = "none" => p = NoPaper
           /\ p.kind # "none" => p \in PaperWork
           /\ p.kind = "agreement" => p \in AgreementWork
           /\ p.kind = "form" => p \in FormWork(p.step) /\ p.step \in {"clear", "save", "commit"}
           /\ p.kind \in {"none", "form", "agreement"}
           /\ p.step \in {"save", "commit"} => p.kind = "form"
           /\ p.step \in {"list", "upload"} => p.kind = "agreement"
           /\ p.step \in {"rest", "list", "upload", "clear", "save", "commit"}
BY DEF NoPaper, PaperWork, FormWork, AgreementWork

LEMMA NotAlone ==
    ASSUME NEW p \in PaperWork, NEW alone \in BOOLEAN
    PROVE  LET q == [p EXCEPT !.alone = alone]
           IN  /\ q \in PaperWork /\ q.kind = p.kind /\ q.step = p.step /\ q.id = p.id
               /\ q.files = p.files /\ q.old = p.old /\ q.alone = alone /\ q.at = p.at
<1>1. CASE p \in FormWork("clear")
  BY <1>1 DEF PaperWork, FormWork
<1>2. CASE p \in FormWork("save")
  BY <1>2 DEF PaperWork, FormWork
<1>3. CASE p \in FormWork("commit")
  BY <1>3 DEF PaperWork, FormWork
<1>4. CASE p \in AgreementWork
  BY <1>4 DEF PaperWork, AgreementWork
<1> QED
  BY <1>1, <1>2, <1>3, <1>4 DEF PaperWork

LEMMA PapersInitInv == PapersInit => PapersInv
<1> SUFFICES ASSUME PapersInit PROVE PapersInv
  OBVIOUS
<1>1. PapersTyped
  <2>1. 0 \in 0 .. MaxPapers /\ 0 \in Nat
    BY PapersAssumption
  <2>2. stored \in [form : PaperFiles, agreement : PaperFiles]
    BY DEF PapersInit, PaperFiles
  <2> QED
    BY <2>1, <2>2 DEF PapersInit, PapersTyped
<1>2. \A w \in Clerks : clerk[w] = NoPaper
  BY DEF PapersInit
<1>3. AloneIsAlone /\ \A w \in Clerks : PaperFits(clerk[w])
  BY <1>2 DEF AloneIsAlone, PaperFits, NoPaper
<1>4. PapersKept
  BY DEF PapersKept, PapersInit, CurrentForm
<1> QED
  BY <1>1, <1>3, <1>4 DEF PapersInv

Rivals(paper) == {x \in Clerks : Meddles(x, paper.kind, paper.id)}

\* A request begins: its rivals and it are no longer alone.
LEMMA BeginShape ==
    ASSUME PapersInv, NEW w \in Clerks, NEW paper \in PaperWork, BeginPaper(w, paper)
    PROVE  /\ clerk[w] = NoPaper /\ papers < MaxPapers /\ papers' = papers + 1
           /\ UNCHANGED <<stored, forms, issued, agreed, astray>>
           /\ DOMAIN clerk' = Clerks /\ clerk' = [x \in Clerks |-> clerk'[x]]
           /\ clerk'[w] \in PaperWork /\ clerk'[w].kind = paper.kind
           /\ clerk'[w].step = paper.step /\ clerk'[w].id = paper.id
           /\ (clerk'[w].alone <=> Rivals(paper) = {})
           /\ \A x \in Clerks : x # w =>
                /\ clerk'[x] \in {NoPaper} \cup PaperWork
                /\ clerk'[x].kind = clerk[x].kind /\ clerk'[x].step = clerk[x].step
                /\ clerk'[x].id = clerk[x].id /\ clerk'[x].files = clerk[x].files
                /\ clerk'[x].old = clerk[x].old /\ clerk'[x].at = clerk[x].at
                /\ clerk'[x].alone => clerk[x].alone /\ x \notin Rivals(paper)
<1> DEFINE rivals == {x \in Clerks : Meddles(x, paper.kind, paper.id)}
           begun == [paper EXCEPT !.alone = rivals = {}]
<1>1. /\ clerk[w] = NoPaper /\ papers < MaxPapers /\ papers' = papers + 1
      /\ clerk' = [x \in Clerks |->
            CASE x = w -> begun
              [] x \in rivals -> [clerk[x] EXCEPT !.alone = FALSE]
              [] OTHER -> clerk[x]]
      /\ UNCHANGED <<stored, forms, issued, agreed, astray>>
  BY DEF BeginPaper
<1> HIDE DEF begun
<1>2. w \notin rivals
  BY <1>1 DEF Meddles, NoPaper, PaperWork, FormWork, AgreementWork
<1>3. ASSUME NEW x \in Clerks, x # w
      PROVE  /\ x \in rivals => /\ clerk[x] \in PaperWork
                                /\ clerk'[x] = [clerk[x] EXCEPT !.alone = FALSE]
             /\ x \notin rivals => clerk'[x] = clerk[x]
  <2>1. clerk[x] \in {NoPaper} \cup PaperWork
    BY DEF PapersInv, PapersTyped
  <2>2. x \in rivals => clerk[x].kind = paper.kind
    BY DEF Meddles
  <2>3. paper.kind # "none"
    BY DEF PaperWork, FormWork, AgreementWork
  <2>4. x \in rivals => clerk'[x] = [clerk[x] EXCEPT !.alone = FALSE]
    BY <1>1, <1>3
  <2>5. x \notin rivals => clerk'[x] = clerk[x]
    BY <1>1, <1>3
  <2>6. x \in rivals => clerk[x] \in PaperWork
    BY <2>1, <2>2, <2>3, KindOfPaper
  <2> QED
    BY <2>4, <2>5, <2>6
<1>4. clerk'[w] = begun
  BY <1>1, <1>2
<1>5. /\ clerk'[w] \in PaperWork /\ clerk'[w].kind = paper.kind /\ clerk'[w].step = paper.step
      /\ clerk'[w].id = paper.id /\ (clerk'[w].alone <=> rivals = {})
  <2>1. (rivals = {}) \in BOOLEAN
    OBVIOUS
  <2> QED
    BY <1>4, <2>1, NotAlone DEF begun
<1>6. ASSUME NEW x \in Clerks, x # w
      PROVE  /\ clerk'[x] \in {NoPaper} \cup PaperWork
             /\ clerk'[x].kind = clerk[x].kind /\ clerk'[x].step = clerk[x].step
             /\ clerk'[x].id = clerk[x].id /\ clerk'[x].files = clerk[x].files
             /\ clerk'[x].old = clerk[x].old /\ clerk'[x].at = clerk[x].at
             /\ clerk'[x].alone => clerk[x].alone /\ x \notin rivals
  <2>1. CASE x \in rivals
    <3>1. clerk[x] \in PaperWork /\ clerk'[x] = [clerk[x] EXCEPT !.alone = FALSE]
      BY <1>3, <1>6, <2>1
    <3>2. FALSE \in BOOLEAN
      OBVIOUS
    <3> HIDE DEF rivals
    <3> QED
      BY <2>1, <3>1, <3>2, NotAlone
  <2>2. CASE x \notin rivals
    BY <1>3, <1>6, <2>2 DEF PapersInv, PapersTyped
  <2> QED
    BY <2>1, <2>2
<1>7. rivals = Rivals(paper)
  BY DEF Rivals
<1> HIDE DEF rivals
<1> QED
  BY <1>1, <1>5, <1>6, <1>7

LEMMA BeginPaperKeeps ==
    ASSUME PapersInv, NEW w \in Clerks, NEW paper \in PaperWork, BeginPaper(w, paper),
           \/ paper.kind = "form" /\ paper.step = "clear"
           \/ paper.kind = "agreement" /\ paper.step = "list"
    PROVE  PapersInv'
<1>1. /\ clerk[w] = NoPaper /\ papers < MaxPapers /\ papers' = papers + 1
      /\ UNCHANGED <<stored, forms, issued, agreed, astray>>
  BY BeginShape
<1>2. /\ clerk'[w] \in PaperWork /\ clerk'[w].kind = paper.kind /\ clerk'[w].step = paper.step
      /\ clerk'[w].id = paper.id /\ (clerk'[w].alone <=> Rivals(paper) = {})
  BY BeginShape
<1>3. ASSUME NEW x \in Clerks, x # w
      PROVE  /\ clerk'[x] \in {NoPaper} \cup PaperWork
             /\ clerk'[x].kind = clerk[x].kind /\ clerk'[x].step = clerk[x].step
             /\ clerk'[x].id = clerk[x].id /\ clerk'[x].files = clerk[x].files
             /\ clerk'[x].old = clerk[x].old
             /\ clerk'[x].alone => clerk[x].alone /\ x \notin Rivals(paper)
  BY <1>3, BeginShape
<1>4. PapersTyped'
  <2>1. papers' \in 0 .. MaxPapers
    BY <1>1, PapersAssumption DEF PapersInv, PapersTyped
  <2>2. clerk' \in [Clerks -> {NoPaper} \cup PaperWork]
    BY <1>2, <1>3, BeginShape
  <2> QED
    BY <1>1, <2>1, <2>2 DEF PapersInv, PapersTyped
<1>5. AloneIsAlone'
  <2> SUFFICES ASSUME NEW a \in Clerks, NEW b \in Clerks, a # b, clerk'[a].alone,
                      clerk'[a].kind # "none", clerk'[b].kind = clerk'[a].kind
               PROVE  clerk'[a].kind = "agreement" /\ clerk'[b].id = clerk'[a].id
    BY DEF AloneIsAlone
  <2>1. CASE a = w
    BY <1>2, <1>3, <2>1 DEF Rivals, Meddles
  <2>2. CASE b = w
    BY <1>2, <1>3, <2>2 DEF Rivals, Meddles
  <2>3. CASE a # w /\ b # w
    BY <1>3, <2>3 DEF PapersInv, AloneIsAlone
  <2> QED
    BY <2>1, <2>2, <2>3
<1>6. (\A x \in Clerks : PaperFits(clerk[x]))'
  BY <1>1, <1>2, <1>3 DEF PapersInv, PaperFits
<1>7. PapersKept'
  <2>1. CurrentForm' = CurrentForm
    BY <1>1 DEF CurrentForm
  <2>2. Printing("form")' = {} => Printing("form") = {}
    BY <1>1, <1>2, <1>3 DEF Printing, NoPaper
  <2>3. (\A x \in Printing("agreement") : clerk[x].alone)'
          => \A x \in Printing("agreement") : clerk[x].alone
    BY <1>1, <1>2, <1>3 DEF Printing, NoPaper
  <2> QED
    BY <1>1, <2>1, <2>2, <2>3 DEF PapersInv, PapersKept
<1> QED
  BY <1>4, <1>5, <1>6, <1>7 DEF PapersInv

LEMMA FormIsAlone ==
    ASSUME PapersInv, NEW w \in Clerks, clerk[w].kind = "form", NEW x \in Clerks, x # w,
           clerk[x].kind = "form"
    PROVE  ~clerk[x].alone
BY DEF PapersInv, AloneIsAlone

\* One request goes on, as alone as it was, or puts its paper down.
LEMMA StaysAlone ==
    ASSUME PapersInv, NEW w \in Clerks, NEW p \in {NoPaper} \cup PaperWork,
           clerk' = [clerk EXCEPT ![w] = p],
           \/ p = NoPaper
           \/ /\ p.kind = clerk[w].kind /\ p.alone = clerk[w].alone
              /\ p.kind = "agreement" => p.id = clerk[w].id
    PROVE  /\ clerk' \in [Clerks -> {NoPaper} \cup PaperWork]
           /\ clerk'[w] = p
           /\ \A x \in Clerks : x # w => clerk'[x] = clerk[x]
           /\ AloneIsAlone'
<1>1. /\ clerk' \in [Clerks -> {NoPaper} \cup PaperWork]
      /\ clerk'[w] = p
      /\ \A x \in Clerks : x # w => clerk'[x] = clerk[x]
  BY DEF PapersInv, PapersTyped
<1>2. NoPaper.kind = "none"
  BY DEF NoPaper
<1>3. AloneIsAlone'
  <2> SUFFICES ASSUME NEW a \in Clerks, NEW b \in Clerks, a # b, clerk'[a].alone,
                      clerk'[a].kind # "none", clerk'[b].kind = clerk'[a].kind
               PROVE  clerk'[a].kind = "agreement" /\ clerk'[b].id = clerk'[a].id
    BY DEF AloneIsAlone
  <2>1. CASE a = w
    BY <1>1, <1>2, <2>1 DEF PapersInv, AloneIsAlone
  <2>2. CASE b = w
    BY <1>1, <1>2, <2>2 DEF PapersInv, AloneIsAlone
  <2>3. CASE a # w /\ b # w
    BY <1>1, <2>3 DEF PapersInv, AloneIsAlone
  <2> QED
    BY <2>1, <2>2, <2>3
<1> QED
  BY <1>1, <1>3

\* A form is still being printed, and agreements are left alone.
LEMMA StillPrinting ==
    ASSUME PapersInv, NEW w \in Clerks, clerk[w].kind = "form", clerk'[w].kind = "form",
           \A x \in Clerks : x # w => clerk'[x] = clerk[x],
           stored'.agreement = stored.agreement, UNCHANGED <<agreed, astray>>
    PROVE  /\ PapersKept'
           /\ \A x \in Clerks : x # w /\ clerk[x].kind # "form" => PaperFits(clerk[x])'
<1>1. w \in Printing("form")'
  BY DEF Printing
<1>2. (\A x \in Printing("agreement") : clerk[x].alone)'
        => \A x \in Printing("agreement") : clerk[x].alone
  BY DEF Printing
<1>3. PapersKept'
  BY <1>1, <1>2 DEF PapersInv, PapersKept
<1>4. ASSUME NEW x \in Clerks, x # w, clerk[x].kind # "form"
      PROVE  PaperFits(clerk[x])'
  BY <1>4 DEF PapersInv, PaperFits
<1> QED
  BY <1>3, <1>4

\* What of a form's printing changes the files and rows of forms only.
LEMMA FormStepKeeps ==
    ASSUME PapersInv, NEW w \in Clerks, clerk[w].kind = "form",
           NEW p \in PaperWork, clerk' = [clerk EXCEPT ![w] = p],
           p.kind = "form", p.alone = clerk[w].alone, PaperFits(clerk[w])',
           stored' \in [form : PaperFiles, agreement : PaperFiles],
           stored'.agreement = stored.agreement, issued' \in Nat,
           UNCHANGED <<forms, papers, agreed, astray>>
    PROVE  PapersInv'
<1>1. /\ clerk' \in [Clerks -> {NoPaper} \cup PaperWork]
      /\ clerk'[w] = p
      /\ \A x \in Clerks : x # w => clerk'[x] = clerk[x]
      /\ AloneIsAlone'
  BY StaysAlone
<1>2. PapersTyped'
  BY <1>1 DEF PapersInv, PapersTyped
<1>3. /\ PapersKept'
      /\ \A x \in Clerks : x # w /\ clerk[x].kind # "form" => PaperFits(clerk[x])'
  BY <1>1, StillPrinting
<1>4. ASSUME NEW x \in Clerks, x # w, clerk[x].kind = "form"
      PROVE  PaperFits(clerk[x])'
  BY <1>1, <1>4, FormIsAlone DEF PaperFits, PapersInv
<1>5. (\A x \in Clerks : PaperFits(clerk[x]))'
  BY <1>1, <1>3, <1>4
<1> QED
  BY <1>1, <1>2, <1>3, <1>5 DEF PapersInv

LEMMA ClearFormKeeps ==
    ASSUME PapersInv, NEW w \in Clerks, NEW id \in PaperIds, ClearForm(w, id)
    PROVE  PapersInv'
<1> DEFINE p == [clerk[w] EXCEPT !.files = @ \ {id}]
<1>1. /\ clerk[w].kind = "form" /\ clerk[w].step = "clear" /\ id \in clerk[w].files
      /\ clerk' = [clerk EXCEPT ![w] = p]
      /\ UNCHANGED <<forms, papers, issued, agreed, astray>>
  BY DEF ClearForm, PapersInv, PapersTyped
<1>2. PICK kept \in {{}, {id}} : stored' = [stored EXCEPT !.form = (@ \ {id}) \cup (@ \cap kept)]
  BY DEF ClearForm
<1>3. stored' \in [form : PaperFiles, agreement : PaperFiles] /\ stored'.agreement = stored.agreement
  BY <1>2 DEF PapersInv, PapersTyped, PaperFiles
<1>4. clerk[w] \in FormWork("clear")
  BY <1>1, KindOfPaper DEF PapersInv, PapersTyped
<1>5. p \in FormWork("clear") /\ p.kind = "form" /\ p.step = "clear" /\ p.alone = clerk[w].alone
  BY <1>4 DEF FormWork, PaperFiles
<1>6. p \in PaperWork /\ clerk'[w] = p
  BY <1>1, <1>5 DEF PaperWork, PapersInv, PapersTyped
<1>8. PaperFits(clerk[w])'
  BY <1>5, <1>6 DEF PaperFits
<1>7. issued' \in Nat
  BY <1>1 DEF PapersInv, PapersTyped
<1> HIDE DEF p
<1> QED
  BY <1>1, <1>3, <1>5, <1>6, <1>7, <1>8, FormStepKeeps

LEMMA UploadFormKeeps ==
    ASSUME PapersInv, NEW w \in Clerks, NEW id \in PaperIds, UploadForm(w, id)
    PROVE  PapersInv'
<1> DEFINE p == [clerk[w] EXCEPT !.step = "save", !.id = id, !.at = issued']
<1>1. /\ clerk[w].kind = "form" /\ clerk[w].step = "clear"
      /\ stored' = [stored EXCEPT !.form = @ \cup {id}]
      /\ clerk' = [clerk EXCEPT ![w] = p]
      /\ UNCHANGED <<forms, papers, agreed, astray>>
  BY DEF UploadForm, PapersInv, PapersTyped
<1>2. issued' \in Nat
  BY DEF UploadForm, PapersInv, PapersTyped
<1>3. /\ stored' \in [form : PaperFiles, agreement : PaperFiles]
      /\ stored'.agreement = stored.agreement /\ id \in stored'.form
  BY <1>1 DEF PapersInv, PapersTyped, PaperFiles
<1>4. clerk[w] \in FormWork("clear")
  BY <1>1, KindOfPaper DEF PapersInv, PapersTyped
<1>5. /\ p \in FormWork("save") /\ p.kind = "form" /\ p.step = "save" /\ p.id = id
      /\ p.alone = clerk[w].alone
  BY <1>2, <1>4 DEF FormWork
<1>6. p \in PaperWork /\ clerk'[w] = p
  BY <1>1, <1>5 DEF PaperWork, PapersInv, PapersTyped
<1>7. PaperFits(clerk[w])'
  BY <1>3, <1>5, <1>6 DEF PaperFits
<1> HIDE DEF p
<1> QED
  BY <1>1, <1>2, <1>3, <1>5, <1>6, <1>7, FormStepKeeps

LEMMA DropFormsKeeps ==
    ASSUME PapersInv, NEW w \in Clerks, DropForms(w)
    PROVE  PapersInv'
<1> DEFINE p == [clerk[w] EXCEPT !.step = "commit", !.old = forms]
<1>1. /\ clerk[w].step = "save" /\ clerk' = [clerk EXCEPT ![w] = p]
      /\ UNCHANGED <<stored, forms, papers, issued, agreed, astray>>
  BY DEF DropForms, PapersInv, PapersTyped
<1>2. clerk[w] \in FormWork("save") /\ clerk[w].kind = "form"
  BY <1>1, KindOfPaper DEF PapersInv, PapersTyped
<1>3. /\ p \in FormWork("commit") /\ p.kind = "form" /\ p.step = "commit" /\ p.id = clerk[w].id
      /\ p.old = forms /\ p.alone = clerk[w].alone
  BY <1>2 DEF FormWork, PapersInv, PapersTyped
<1>4. p \in PaperWork /\ clerk'[w] = p
  BY <1>1, <1>3 DEF PaperWork, PapersInv, PapersTyped
<1>6. PaperFits(clerk[w])'
  BY <1>1, <1>2, <1>3, <1>4 DEF PaperFits, PapersInv
<1>5. stored' \in [form : PaperFiles, agreement : PaperFiles] /\ issued' \in Nat
  BY <1>1 DEF PapersInv, PapersTyped
<1> HIDE DEF p
<1> QED
  BY <1>1, <1>2, <1>3, <1>4, <1>5, <1>6, FormStepKeeps

\* The row of a form is there, and the paper is put down.
LEMMA SaveFormKeeps ==
    ASSUME PapersInv, NEW w \in Clerks, SaveForm(w)
    PROVE  PapersInv'
<1> DEFINE p == clerk[w]
           new == [id |-> p.id, at |-> p.at]
<1>1. /\ p.step = "commit" /\ forms' = (forms \ p.old) \cup {new}
      /\ clerk' = [clerk EXCEPT ![w] = NoPaper]
      /\ astray' = IF p.alone THEN astray \ {p.kind} ELSE astray \cup {p.kind}
      /\ UNCHANGED <<stored, papers, issued, agreed>>
  BY DEF SaveForm, Settle, PutDown
<1>2. p \in FormWork("commit") /\ p.kind = "form"
  BY <1>1, KindOfPaper DEF PapersInv, PapersTyped
<1>3. /\ clerk' \in [Clerks -> {NoPaper} \cup PaperWork]
      /\ clerk'[w] = NoPaper
      /\ \A x \in Clerks : x # w => clerk'[x] = clerk[x]
      /\ AloneIsAlone'
  BY <1>1, StaysAlone
<1>4. new \in FormRow
  BY <1>1, <1>2 DEF FormWork, FormRow, PapersInv, PaperFits
<1>5. PapersTyped'
  BY <1>1, <1>2, <1>3, <1>4 DEF PapersInv, PapersTyped
<1>6. PaperFits(NoPaper)'
  BY DEF PaperFits, NoPaper
<1>7. ASSUME NEW x \in Clerks, x # w
      PROVE  PaperFits(clerk[x])'
  BY <1>1, <1>2, <1>3, <1>7, FormIsAlone DEF PapersInv, PaperFits
<1>8. PapersKept'
  <2>1. CASE ~p.alone
    <3>1. "form" \in astray' /\ ("agreement" \in astray' <=> "agreement" \in astray)
      BY <1>1, <1>2, <2>1
    <3>2. (\A x \in Printing("agreement") : clerk[x].alone)'
            => \A x \in Printing("agreement") : clerk[x].alone
      BY <1>2, <1>3 DEF Printing
    <3> QED
      BY <1>1, <3>1, <3>2 DEF PapersInv, PapersKept
  <2>2. CASE p.alone
    <3>1. p.id \in stored.form /\ p.old = forms
      BY <1>1, <1>2, <2>2 DEF PapersInv, PaperFits
    <3>2. forms' = {new} /\ CurrentForm' \subseteq {new}
      BY <1>1, <3>1 DEF CurrentForm
    <3>3. (\A x \in Printing("agreement") : clerk[x].alone)'
            => \A x \in Printing("agreement") : clerk[x].alone
      BY <1>2, <1>3 DEF Printing
    <3>4. "agreement" \in astray' <=> "agreement" \in astray
      BY <1>1, <1>2, <2>2
    <3> QED
      BY <1>1, <3>1, <3>2, <3>3, <3>4 DEF PapersInv, PapersKept
  <2> QED
    BY <2>1, <2>2
<1> QED
  BY <1>3, <1>5, <1>6, <1>7, <1>8 DEF PapersInv

LEMMA CreateServiceFormKeeps ==
    ASSUME PapersInv, NEW w \in Clerks, CreateServiceForm(w)
    PROVE  PapersInv'
<1>1. PICK listed \in {{}, stored.form} :
        BeginPaper(w, [NoPaper EXCEPT !.kind = "form", !.step = "clear", !.files = listed])
  BY DEF CreateServiceForm
<1> DEFINE paper == [NoPaper EXCEPT !.kind = "form", !.step = "clear", !.files = listed]
<1>2. listed \in PaperFiles
  BY DEF PapersInv, PapersTyped, PaperFiles
<1>3. paper \in FormWork("clear") /\ paper.kind = "form" /\ paper.step = "clear"
  BY <1>2 DEF NoPaper, FormWork
<1>4. paper \in PaperWork
  BY <1>3 DEF PaperWork
<1> HIDE DEF paper
<1>5. BeginPaper(w, paper)
  BY <1>1 DEF paper
<1> QED
  BY <1>3, <1>4, <1>5, BeginPaperKeeps

LEMMA CreateWarrantyAgreementKeeps ==
    ASSUME PapersInv, NEW w \in Clerks, CreateWarrantyAgreement(w)
    PROVE  PapersInv'
<1>1. PICK form \in CurrentForm :
        BeginPaper(w, [NoPaper EXCEPT !.kind = "agreement", !.step = "list", !.id = form.id])
  BY DEF CreateWarrantyAgreement
<1> DEFINE paper == [NoPaper EXCEPT !.kind = "agreement", !.step = "list", !.id = form.id]
<1>2. form.id \in PaperIds
  BY DEF CurrentForm, PapersInv, PapersTyped, FormRow
<1>3. paper \in AgreementWork /\ paper.kind = "agreement" /\ paper.step = "list"
  BY <1>2 DEF NoPaper, AgreementWork, PaperFiles
<1>4. paper \in PaperWork
  BY <1>3 DEF PaperWork
<1> HIDE DEF paper
<1>5. BeginPaper(w, paper)
  BY <1>1 DEF paper
<1> QED
  BY <1>3, <1>4, <1>5, BeginPaperKeeps

\* What of an agreement's printing changes the files of agreements only.
LEMMA AgreementStepKeeps ==
    ASSUME PapersInv, NEW w \in Clerks, clerk[w].kind = "agreement",
           NEW p \in PaperWork, clerk' = [clerk EXCEPT ![w] = p],
           p.kind = "agreement", p.alone = clerk[w].alone, p.id = clerk[w].id,
           PaperFits(clerk[w])',
           stored' \in [form : PaperFiles, agreement : PaperFiles],
           stored'.form = stored.form, agreed' \in BOOLEAN,
           \A x \in Clerks : clerk[x].kind = "agreement" /\ clerk[x].alone /\ clerk[x].step = "clear"
             /\ clerk[x].id \in stored.agreement => clerk[x].id \in stored'.agreement,
           agreed' /\ clerk[w].alone /\ "agreement" \notin astray
             /\ (\A x \in Printing("agreement") : clerk[x].alone) => stored'.agreement # {},
           UNCHANGED <<forms, papers, issued, astray>>
    PROVE  PapersInv'
<1>1. /\ clerk' \in [Clerks -> {NoPaper} \cup PaperWork]
      /\ clerk'[w] = p
      /\ \A x \in Clerks : x # w => clerk'[x] = clerk[x]
      /\ AloneIsAlone'
  BY StaysAlone
<1>2. PapersTyped'
  BY <1>1 DEF PapersInv, PapersTyped
<1>3. ASSUME NEW x \in Clerks, x # w
      PROVE  PaperFits(clerk[x])'
  BY <1>1, <1>3 DEF PapersInv, PaperFits
<1>4. (\A x \in Clerks : PaperFits(clerk[x]))'
  BY <1>1, <1>3
<1>5. PapersKept'
  <2>1. CurrentForm' = CurrentForm
    BY DEF CurrentForm
  <2>2. Printing("form")' = Printing("form")
    BY <1>1 DEF Printing
  <2>3. (\A x \in Printing("agreement") : clerk[x].alone)'
          => clerk[w].alone /\ \A x \in Printing("agreement") : clerk[x].alone
    BY <1>1 DEF Printing
  <2> QED
    BY <2>1, <2>2, <2>3 DEF PapersInv, PapersKept
<1> QED
  BY <1>1, <1>2, <1>4, <1>5 DEF PapersInv

LEMMA ListAgreementsKeeps ==
    ASSUME PapersInv, NEW w \in Clerks, ListAgreements(w)
    PROVE  PapersInv'
<1>1. PICK listed \in {{}, stored.agreement} :
        clerk' = [clerk EXCEPT ![w] = [@ EXCEPT !.step = "upload", !.files = listed]]
  BY DEF ListAgreements
<1> DEFINE p == [clerk[w] EXCEPT !.step = "upload", !.files = listed]
<1>2. clerk[w].step = "list" /\ UNCHANGED <<stored, forms, papers, issued, agreed, astray>>
  BY DEF ListAgreements
<1>3. clerk[w] \in AgreementWork /\ clerk[w].kind = "agreement"
  BY <1>2, KindOfPaper DEF PapersInv, PapersTyped
<1>4. listed \in PaperFiles
  BY DEF PapersInv, PapersTyped, PaperFiles
<1>5. /\ p \in AgreementWork /\ p.kind = "agreement" /\ p.step = "upload"
      /\ p.id = clerk[w].id /\ p.alone = clerk[w].alone
  BY <1>3, <1>4 DEF AgreementWork
<1>6. p \in PaperWork /\ clerk' = [clerk EXCEPT ![w] = p] /\ clerk'[w] = p
  BY <1>1, <1>5 DEF PaperWork, PapersInv, PapersTyped
<1>7. PaperFits(clerk[w])'
  BY <1>5, <1>6 DEF PaperFits
<1>8. /\ stored' \in [form : PaperFiles, agreement : PaperFiles] /\ agreed' \in BOOLEAN
      /\ agreed' /\ "agreement" \notin astray
           /\ (\A x \in Printing("agreement") : clerk[x].alone) => stored'.agreement # {}
  BY <1>2 DEF PapersInv, PapersTyped, PapersKept
<1> HIDE DEF p
<1> QED
  BY <1>2, <1>3, <1>5, <1>6, <1>7, <1>8, AgreementStepKeeps

LEMMA UploadAgreementKeeps ==
    ASSUME PapersInv, NEW w \in Clerks, UploadAgreement(w)
    PROVE  PapersInv'
<1> DEFINE p == [clerk[w] EXCEPT !.step = "clear", !.files = @ \ {clerk[w].id}]
<1>1. /\ clerk[w].step = "upload" /\ agreed' = TRUE
      /\ stored' = [stored EXCEPT !.agreement = @ \cup {clerk[w].id}]
      /\ clerk' = [clerk EXCEPT ![w] = p]
      /\ UNCHANGED <<forms, papers, issued, astray>>
  BY DEF UploadAgreement
<1>2. clerk[w] \in AgreementWork /\ clerk[w].kind = "agreement" /\ clerk[w].id \in PaperIds
  <2>1. clerk[w] \in AgreementWork /\ clerk[w].kind = "agreement"
    BY <1>1, KindOfPaper DEF PapersInv, PapersTyped
  <2> QED
    BY <2>1 DEF AgreementWork
<1>3. /\ stored' \in [form : PaperFiles, agreement : PaperFiles] /\ stored'.form = stored.form
      /\ stored'.agreement = stored.agreement \cup {clerk[w].id}
  BY <1>1, <1>2 DEF PapersInv, PapersTyped, PaperFiles
<1>4. /\ p \in AgreementWork /\ p.kind = "agreement" /\ p.step = "clear"
      /\ p.id = clerk[w].id /\ p.alone = clerk[w].alone /\ p.id \notin p.files
  BY <1>2 DEF AgreementWork, PaperFiles
<1>5. p \in PaperWork /\ clerk'[w] = p
  BY <1>1, <1>4 DEF PaperWork, PapersInv, PapersTyped
<1>6. PaperFits(clerk[w])'
  BY <1>3, <1>4, <1>5 DEF PaperFits
<1>7. agreed' \in BOOLEAN
  BY <1>1
<1> HIDE DEF p
<1> QED
  BY <1>1, <1>2, <1>3, <1>4, <1>5, <1>6, <1>7, AgreementStepKeeps

LEMMA ClearAgreementKeeps ==
    ASSUME PapersInv, NEW w \in Clerks, NEW id \in PaperIds, ClearAgreement(w, id)
    PROVE  PapersInv'
<1> DEFINE p == [clerk[w] EXCEPT !.files = @ \ {id}]
<1>1. /\ clerk[w].kind = "agreement" /\ clerk[w].step = "clear" /\ id \in clerk[w].files
      /\ clerk' = [clerk EXCEPT ![w] = p]
      /\ UNCHANGED <<forms, papers, issued, agreed, astray>>
  BY DEF ClearAgreement, PapersInv, PapersTyped
<1>2. PICK kept \in {{}, {id}} :
        stored' = [stored EXCEPT !.agreement = (@ \ {id}) \cup (@ \cap kept)]
  BY DEF ClearAgreement
<1>3. /\ stored' \in [form : PaperFiles, agreement : PaperFiles] /\ stored'.form = stored.form
      /\ stored'.agreement = (stored.agreement \ {id}) \cup (stored.agreement \cap kept)
  BY <1>2 DEF PapersInv, PapersTyped, PaperFiles
<1>4. clerk[w] \in AgreementWork
  BY <1>1, KindOfPaper DEF PapersInv, PapersTyped
<1>5. /\ p \in AgreementWork /\ p.kind = "agreement" /\ p.step = "clear"
      /\ p.id = clerk[w].id /\ p.alone = clerk[w].alone /\ p.files = clerk[w].files \ {id}
  BY <1>1, <1>4 DEF AgreementWork, PaperFiles
<1>6. /\ clerk[w].id \notin clerk[w].files /\ clerk[w].id # id
      /\ clerk[w].alone => clerk[w].id \in stored.agreement
  BY <1>1 DEF PapersInv, PaperFits
<1>7. p \in PaperWork /\ clerk'[w] = p
  BY <1>1, <1>5 DEF PaperWork, PapersInv, PapersTyped
<1>8. PaperFits(clerk[w])'
  BY <1>3, <1>5, <1>6, <1>7 DEF PaperFits
<1>9. ASSUME NEW x \in Clerks, clerk[x].kind = "agreement", clerk[x].alone,
             clerk[x].id \in stored.agreement
      PROVE  clerk[x].id \in stored'.agreement
  <2>1. clerk[x].id = clerk[w].id
    BY <1>1, <1>9 DEF PapersInv, AloneIsAlone
  <2> QED
    BY <1>3, <1>6, <1>9, <2>1
<1>10. clerk[w].alone => stored'.agreement # {}
  BY <1>3, <1>6
<1>11. agreed' \in BOOLEAN
  BY <1>1 DEF PapersInv, PapersTyped
<1> HIDE DEF p
<1> QED
  BY <1>1, <1>3, <1>5, <1>7, <1>8, <1>9, <1>10, <1>11, AgreementStepKeeps

\* A paper is put down: handed over, or dropped.
LEMMA PutDownKeeps ==
    ASSUME PapersInv, NEW w \in Clerks, clerk[w] # NoPaper,
           clerk' = [clerk EXCEPT ![w] = NoPaper],
           \/ astray' = astray \cup {clerk[w].kind}
           \/ astray' = astray /\ clerk[w].kind = "agreement" /\ clerk[w].alone
           \/ /\ astray' = astray \ {clerk[w].kind} /\ clerk[w].kind = "agreement"
              /\ clerk[w].alone /\ clerk[w].step = "clear",
           UNCHANGED <<stored, forms, papers, issued, agreed>>
    PROVE  PapersInv'
<1>1. /\ clerk' \in [Clerks -> {NoPaper} \cup PaperWork]
      /\ clerk'[w] = NoPaper
      /\ \A x \in Clerks : x # w => clerk'[x] = clerk[x]
      /\ AloneIsAlone'
  BY StaysAlone
<1>2. clerk[w].kind \in {"form", "agreement"}
  BY KindOfPaper DEF PapersInv, PapersTyped
<1>3. PapersTyped'
  BY <1>1, <1>2 DEF PapersInv, PapersTyped
<1>4. PaperFits(clerk[w])'
  BY <1>1 DEF PaperFits, NoPaper
<1>5. ASSUME NEW x \in Clerks, x # w
      PROVE  PaperFits(clerk[x])'
  BY <1>1, <1>5 DEF PapersInv, PaperFits
<1>6. (\A x \in Clerks : PaperFits(clerk[x]))'
  BY <1>4, <1>5
<1>7. PapersKept'
  <2>1. CurrentForm' = CurrentForm
    BY DEF CurrentForm
  <2>2. \A kind \in {"form", "agreement"} : Printing(kind) \subseteq Printing(kind)' \cup {w}
    BY <1>1 DEF Printing
  <2>3. \A kind \in {"form", "agreement"} : kind # clerk[w].kind => w \notin Printing(kind)
    BY DEF Printing
  <2>4. ASSUME Printing("form")' = {}, "form" \notin astray'
        PROVE  Printing("form") = {} /\ "form" \notin astray
    BY <1>2, <2>2, <2>3, <2>4
  <2>5. ASSUME agreed, "agreement" \notin astray',
               (\A x \in Printing("agreement") : clerk[x].alone)'
        PROVE  stored.agreement # {}
    <3>1. CASE clerk[w].kind = "agreement" /\ clerk[w].step = "clear" /\ clerk[w].alone
      BY <3>1 DEF PapersInv, PaperFits
    <3>2. CASE clerk[w].kind = "form" \/ (astray' = astray /\ clerk[w].alone)
      <4>1. \A x \in Printing("agreement") : x # w => clerk[x].alone
        BY <1>1, <2>5 DEF Printing
      <4>2. "agreement" \notin astray
        BY <1>2, <2>5, <3>2
      <4>3. \A x \in Printing("agreement") : clerk[x].alone
        BY <3>2, <4>1 DEF Printing
      <4> QED
        BY <2>5, <4>2, <4>3 DEF PapersInv, PapersKept
    <3> QED
      BY <1>2, <2>5, <3>1, <3>2
  <2> QED
    BY <2>1, <2>4, <2>5 DEF PapersInv, PapersKept
<1> QED
  BY <1>1, <1>3, <1>6, <1>7 DEF PapersInv

LEMMA HandOverKeeps ==
    ASSUME PapersInv, NEW w \in Clerks, HandOver(w) \/ Drop(w)
    PROVE  PapersInv'
<1>1. CASE HandOver(w)
  <2>1. /\ clerk[w].kind = "agreement" /\ clerk[w].step = "clear"
        /\ clerk' = [clerk EXCEPT ![w] = NoPaper]
        /\ UNCHANGED <<stored, forms, papers, issued, agreed>>
    BY <1>1 DEF HandOver, PutDown
  <2>2. clerk[w] # NoPaper
    BY <2>1 DEF NoPaper
  <2>3. IF clerk[w].alone THEN astray' = astray \ {clerk[w].kind}
        ELSE astray' = astray \cup {clerk[w].kind}
    BY <1>1 DEF HandOver, Settle
  <2> QED
    BY <2>1, <2>2, <2>3, PutDownKeeps
<1>2. CASE Drop(w)
  <2>1. clerk[w].kind \in {"form", "agreement"}
    BY <1>2, KindOfPaper DEF Drop, PapersInv, PapersTyped
  <2> QED
    BY <1>2, <2>1, PutDownKeeps DEF Drop, PutDown
<1> QED
  BY <1>1, <1>2

LEMMA PapersNextInv == PapersInv /\ [PapersNext]_papersVars => PapersInv'
<1> SUFFICES ASSUME PapersInv, [PapersNext]_papersVars PROVE PapersInv'
  OBVIOUS
<1>1. CASE UNCHANGED papersVars
  BY <1>1 DEF papersVars, PapersInv, PapersTyped, AloneIsAlone, PaperFits, PapersKept, CurrentForm,
              Printing
<1>2. ASSUME NEW w \in Clerks,
             \/ CreateServiceForm(w) \/ DropForms(w) \/ SaveForm(w)
             \/ CreateWarrantyAgreement(w) \/ ListAgreements(w) \/ UploadAgreement(w)
             \/ HandOver(w) \/ Drop(w)
      PROVE  PapersInv'
  BY <1>2, CreateServiceFormKeeps, DropFormsKeeps, SaveFormKeeps, CreateWarrantyAgreementKeeps,
     ListAgreementsKeeps, UploadAgreementKeeps, HandOverKeeps
<1>3. ASSUME NEW w \in Clerks, NEW id \in PaperIds,
             ClearForm(w, id) \/ UploadForm(w, id) \/ ClearAgreement(w, id)
      PROVE  PapersInv'
  BY <1>3, ClearFormKeeps, UploadFormKeeps, ClearAgreementKeeps
<1> QED
  BY <1>1, <1>2, <1>3 DEF PapersNext

LEMMA PapersInvariant == PapersSpec => []PapersInv
BY PapersInitInv, PapersNextInv, PTL DEF PapersSpec

-----------------------------------------------------------------------------
(***************************************************************************)
(* No two forms have one date: each request dates one form at most.        *)
(***************************************************************************)
Pending == {w \in Clerks : clerk[w].kind = "form" /\ clerk[w].step = "clear"}
Dated(w) == clerk[w].step \in {"save", "commit"}

DatesApart ==
    /\ \A f, g \in forms : f.at = g.at => f = g
    /\ \A f \in forms : f.at \in 1 .. issued
    /\ \A w \in Clerks : Dated(w) =>
        clerk[w].at \in 1 .. issued /\ \A f \in forms : f.at # clerk[w].at
    /\ \A w, x \in Clerks : w # x /\ Dated(w) /\ Dated(x) => clerk[w].at # clerk[x].at

DatesInv == PapersInv /\ DatesApart /\ issued + Cardinality(Pending) <= papers

LEMMA PendingFits ==
    /\ Cardinality(Pending) \in Nat /\ IsFiniteSet(Pending)
    /\ Cardinality(Pending') \in Nat /\ IsFiniteSet(Pending')
<1>1. Pending \subseteq Clerks /\ Pending' \subseteq Clerks
  BY DEF Pending
<1> QED
  BY <1>1, ClerksAssumption, FS_Subset, FS_CardinalityType

LEMMA DatesInitInv == PapersInit => DatesInv
<1> SUFFICES ASSUME PapersInit PROVE DatesInv
  OBVIOUS
<1>1. \A w \in Clerks : clerk[w] = NoPaper
  BY DEF PapersInit
<1>2. Pending = {} /\ DatesApart
  BY <1>1 DEF Pending, DatesApart, Dated, NoPaper, PapersInit
<1>3. Cardinality(Pending) = 0
  BY <1>2, FS_EmptySet
<1> QED
  BY <1>2, <1>3, PapersInitInv DEF DatesInv, PapersInit

\* Nothing is dated; what is saved was dated before.
LEMMA DatesStay ==
    ASSUME DatesInv, PapersInv', issued' = issued,
           \A x \in Clerks : Dated(x)' => Dated(x) /\ clerk'[x].at = clerk[x].at,
           \A f \in forms' :
              f \in forms \/ \E x \in Clerks : /\ Dated(x) /\ ~Dated(x)'
                                               /\ f = [id |-> clerk[x].id, at |-> clerk[x].at],
           \/ Pending' \subseteq Pending /\ papers' = papers
           \/ papers' = papers + 1 /\ \E w \in Clerks : Pending' \subseteq Pending \cup {w}
    PROVE  DatesInv'
<1>1. DatesApart'
  <2>1. ASSUME NEW f \in forms', NEW g \in forms', f.at = g.at
        PROVE  f = g
    BY <2>1 DEF DatesInv, DatesApart
  <2>2. ASSUME NEW f \in forms'
        PROVE  f.at \in 1 .. issued'
    BY <2>2 DEF DatesInv, DatesApart
  <2>3. ASSUME NEW w \in Clerks, Dated(w)'
        PROVE  clerk'[w].at \in 1 .. issued' /\ \A f \in forms' : f.at # clerk'[w].at
    BY <2>3 DEF DatesInv, DatesApart
  <2>4. ASSUME NEW w \in Clerks, NEW x \in Clerks, w # x, Dated(w)', Dated(x)'
        PROVE  clerk'[w].at # clerk'[x].at
    BY <2>4 DEF DatesInv, DatesApart
  <2> QED
    BY <2>1, <2>2, <2>3, <2>4 DEF DatesApart, Dated
<1>2. papers \in Nat /\ issued \in Nat
  BY DEF DatesInv, PapersInv, PapersTyped
<1>3. CASE Pending' \subseteq Pending /\ papers' = papers
  <2>1. Cardinality(Pending') <= Cardinality(Pending)
    BY <1>3, PendingFits, FS_Subset
  <2> QED
    BY <1>1, <1>2, <1>3, <2>1, PendingFits DEF DatesInv
<1>4. CASE papers' = papers + 1 /\ \E w \in Clerks : Pending' \subseteq Pending \cup {w}
  <2>1. PICK w \in Clerks : Pending' \subseteq Pending \cup {w}
    BY <1>4
  <2>2. CASE w \in Pending
    <3>1. Pending' \subseteq Pending
      BY <2>1, <2>2
    <3>2. Cardinality(Pending') <= Cardinality(Pending)
      BY <3>1, PendingFits, FS_Subset
    <3> QED
      BY <1>1, <1>2, <1>4, <3>2, PendingFits DEF DatesInv
  <2>3. CASE w \notin Pending
    <3>1. IsFiniteSet(Pending \cup {w})
      BY PendingFits, FS_AddElement
    <3>2. Cardinality(Pending \cup {w}) = Cardinality(Pending) + 1
      BY <2>3, PendingFits, FS_AddElement
    <3>3. Cardinality(Pending') <= Cardinality(Pending \cup {w})
      BY <2>1, <3>1, FS_Subset
    <3> QED
      BY <1>1, <1>2, <1>4, <3>2, <3>3, PendingFits DEF DatesInv
  <2> QED
    BY <2>2, <2>3
<1> QED
  BY <1>3, <1>4

LEMMA BeginKeepsDates ==
    ASSUME DatesInv, PapersInv', NEW w \in Clerks, NEW paper \in PaperWork, BeginPaper(w, paper),
           paper.step \in {"clear", "list"}
    PROVE  DatesInv'
<1>1. /\ papers' = papers + 1 /\ UNCHANGED <<forms, issued>> /\ clerk'[w].step = paper.step
      /\ \A x \in Clerks : x # w => /\ clerk'[x].kind = clerk[x].kind
                                    /\ clerk'[x].step = clerk[x].step
                                    /\ clerk'[x].at = clerk[x].at
  BY BeginShape DEF DatesInv
<1>2. \A x \in Clerks : Dated(x)' => Dated(x) /\ clerk'[x].at = clerk[x].at
  BY <1>1 DEF Dated
<1>3. Pending' \subseteq Pending \cup {w}
  BY <1>1 DEF Pending
<1> QED
  BY <1>1, <1>2, <1>3, DatesStay

LEMMA UploadKeepsDates ==
    ASSUME DatesInv, PapersInv', NEW w \in Clerks, NEW id \in PaperIds, UploadForm(w, id)
    PROVE  DatesInv'
<1>1. /\ w \in Pending /\ issued' = issued + 1
      /\ UNCHANGED <<forms, papers>>
  BY DEF UploadForm, Pending
<1>2. clerk' = [clerk EXCEPT ![w] = [clerk[w] EXCEPT !.step = "save", !.id = id, !.at = issued']]
  BY DEF UploadForm
<1>3. clerk[w] \in FormWork("clear")
  BY <1>1, KindOfPaper DEF Pending, DatesInv, PapersInv, PapersTyped
<1>4. clerk'[w].step = "save" /\ clerk'[w].at = issued'
  BY <1>2, <1>3 DEF FormWork, DatesInv, PapersInv, PapersTyped
<1>5. \A x \in Clerks : x # w => clerk'[x] = clerk[x]
  BY <1>2 DEF DatesInv, PapersInv, PapersTyped
<1>6. papers \in Nat /\ issued \in Nat
  BY DEF DatesInv, PapersInv, PapersTyped
<1>7. DatesApart'
  <2>1. ASSUME NEW x \in Clerks, Dated(x)'
        PROVE  clerk'[x].at \in 1 .. issued' /\ \A f \in forms' : f.at # clerk'[x].at
    BY <1>1, <1>4, <1>5, <1>6, <2>1 DEF DatesInv, DatesApart, Dated
  <2>2. ASSUME NEW x \in Clerks, NEW y \in Clerks, x # y, Dated(x)', Dated(y)'
        PROVE  clerk'[x].at # clerk'[y].at
    BY <1>1, <1>4, <1>5, <1>6, <2>2 DEF DatesInv, DatesApart, Dated
  <2>3. \A f \in forms' : f.at \in 1 .. issued'
    BY <1>1, <1>6 DEF DatesInv, DatesApart
  <2> QED
    BY <1>1, <2>1, <2>2, <2>3 DEF DatesInv, DatesApart, Dated
<1>8. Pending' = Pending \ {w}
  BY <1>1, <1>4, <1>5 DEF Pending
<1>9. Cardinality(Pending') = Cardinality(Pending) - 1
  BY <1>1, <1>8, PendingFits, FS_RemoveElement
<1> QED
  BY <1>1, <1>6, <1>7, <1>9, PendingFits DEF DatesInv

\* One request goes on without dating anything.
LEMMA OneGoesOn ==
    ASSUME DatesInv, PapersInv', NEW w \in Clerks, NEW p,
           clerk' = [clerk EXCEPT ![w] = p],
           \/ p.step \in {"rest", "list", "upload"}
           \/ p.step = "clear" /\ p.kind = clerk[w].kind /\ (p.kind = "form" => clerk[w].step = "clear")
           \/ p.step = "commit" /\ clerk[w].step = "save" /\ p.at = clerk[w].at,
           UNCHANGED <<forms, papers, issued>>
    PROVE  DatesInv'
<1>1. clerk'[w] = p /\ \A x \in Clerks : x # w => clerk'[x] = clerk[x]
  BY DEF DatesInv, PapersInv, PapersTyped
<1>2. \A x \in Clerks : Dated(x)' => Dated(x) /\ clerk'[x].at = clerk[x].at
  BY <1>1 DEF Dated
<1>3. Pending' \subseteq Pending
  BY <1>1 DEF Pending
<1> QED
  BY <1>2, <1>3, DatesStay

LEMMA DatesNextInv == DatesInv /\ [PapersNext]_papersVars => DatesInv'
<1> SUFFICES ASSUME DatesInv, [PapersNext]_papersVars PROVE DatesInv'
  OBVIOUS
<1>1. PapersInv'
  BY PapersNextInv DEF DatesInv
<1> DEFINE Typed(w) == clerk[w] \in {NoPaper} \cup PaperWork
<1>2. \A w \in Clerks : Typed(w)
  BY DEF DatesInv, PapersInv, PapersTyped
<1>3. CASE UNCHANGED papersVars
  BY <1>1, <1>3 DEF papersVars, DatesInv, DatesApart, Dated, Pending
<1>4. ASSUME NEW w \in Clerks, CreateServiceForm(w)
      PROVE  DatesInv'
  <2>1. PICK listed \in {{}, stored.form} :
          BeginPaper(w, [NoPaper EXCEPT !.kind = "form", !.step = "clear", !.files = listed])
    BY <1>4 DEF CreateServiceForm
  <2> DEFINE paper == [NoPaper EXCEPT !.kind = "form", !.step = "clear", !.files = listed]
  <2>2. listed \in PaperFiles
    BY DEF DatesInv, PapersInv, PapersTyped, PaperFiles
  <2>3. paper \in PaperWork /\ paper.step = "clear"
    BY <2>2 DEF NoPaper, FormWork, PaperWork
  <2> HIDE DEF paper
  <2>4. BeginPaper(w, paper)
    BY <2>1 DEF paper
  <2> QED
    BY <1>1, <2>3, <2>4, BeginKeepsDates
<1>5. ASSUME NEW w \in Clerks, CreateWarrantyAgreement(w)
      PROVE  DatesInv'
  <2>1. PICK form \in CurrentForm :
          BeginPaper(w, [NoPaper EXCEPT !.kind = "agreement", !.step = "list", !.id = form.id])
    BY <1>5 DEF CreateWarrantyAgreement
  <2> DEFINE paper == [NoPaper EXCEPT !.kind = "agreement", !.step = "list", !.id = form.id]
  <2>2. form.id \in PaperIds
    BY DEF CurrentForm, DatesInv, PapersInv, PapersTyped, FormRow
  <2>3. paper \in PaperWork /\ paper.step = "list"
    BY <2>2 DEF NoPaper, AgreementWork, PaperWork, PaperFiles
  <2> HIDE DEF paper
  <2>4. BeginPaper(w, paper)
    BY <2>1 DEF paper
  <2> QED
    BY <1>1, <2>3, <2>4, BeginKeepsDates
<1>6. ASSUME NEW w \in Clerks, NEW id \in PaperIds, UploadForm(w, id)
      PROVE  DatesInv'
  BY <1>1, <1>6, UploadKeepsDates
<1>7. ASSUME NEW w \in Clerks, SaveForm(w)
      PROVE  DatesInv'
  <2>1. /\ clerk[w].step = "commit" /\ clerk' = [clerk EXCEPT ![w] = NoPaper]
        /\ forms' = (forms \ clerk[w].old) \cup {[id |-> clerk[w].id, at |-> clerk[w].at]}
        /\ UNCHANGED <<papers, issued>>
    BY <1>7 DEF SaveForm, PutDown
  <2>2. clerk'[w] = NoPaper /\ \A x \in Clerks : x # w => clerk'[x] = clerk[x]
    BY <2>1 DEF DatesInv, PapersInv, PapersTyped
  <2>3. Dated(w) /\ ~Dated(w)'
    BY <2>1, <2>2 DEF Dated, NoPaper
  <2>4. \A x \in Clerks : Dated(x)' => Dated(x) /\ clerk'[x].at = clerk[x].at
    BY <2>2, <2>3 DEF Dated
  <2>5. Pending' \subseteq Pending
    BY <2>2 DEF Pending, NoPaper
  <2> QED
    BY <1>1, <2>1, <2>3, <2>4, <2>5, DatesStay
<1>8. ASSUME NEW w \in Clerks, HandOver(w) \/ Drop(w)
      PROVE  DatesInv'
  <2>1. clerk' = [clerk EXCEPT ![w] = NoPaper] /\ UNCHANGED <<forms, papers, issued>>
    BY <1>8 DEF HandOver, Drop, PutDown
  <2>2. NoPaper.step = "rest"
    BY DEF NoPaper
  <2> QED
    BY <1>1, <2>1, <2>2, OneGoesOn
<1>9. ASSUME NEW w \in Clerks, NEW id \in PaperIds, ClearForm(w, id) \/ ClearAgreement(w, id)
      PROVE  DatesInv'
  <2>1. /\ clerk' = [clerk EXCEPT ![w] = [clerk[w] EXCEPT !.files = @ \ {id}]]
        /\ clerk[w].step = "clear" /\ UNCHANGED <<forms, papers, issued>>
    BY <1>9 DEF ClearForm, ClearAgreement, DatesInv, PapersInv, PapersTyped
  <2> DEFINE p == [clerk[w] EXCEPT !.files = @ \ {id}]
  <2>2. p.step = clerk[w].step /\ p.kind = clerk[w].kind
    BY <1>2 DEF NoPaper, PaperWork, FormWork, AgreementWork
  <2> HIDE DEF p
  <2>3. clerk' = [clerk EXCEPT ![w] = p]
    BY <2>1 DEF p
  <2> QED
    BY <1>1, <2>1, <2>2, <2>3, OneGoesOn
<1>10. ASSUME NEW w \in Clerks, DropForms(w)
      PROVE  DatesInv'
  <2> DEFINE p == [clerk[w] EXCEPT !.step = "commit", !.old = forms]
  <2>1. clerk' = [clerk EXCEPT ![w] = p] /\ clerk[w].step = "save" /\ UNCHANGED <<forms, papers, issued>>
    BY <1>10 DEF DropForms
  <2>2. p.step = "commit" /\ p.at = clerk[w].at
    BY <1>2 DEF NoPaper, PaperWork, FormWork, AgreementWork
  <2> HIDE DEF p
  <2> QED
    BY <1>1, <2>1, <2>2, OneGoesOn
<1>11. ASSUME NEW w \in Clerks, ListAgreements(w)
      PROVE  DatesInv'
  <2>1. PICK listed \in {{}, stored.agreement} :
          clerk' = [clerk EXCEPT ![w] = [clerk[w] EXCEPT !.step = "upload", !.files = listed]]
    BY <1>11 DEF ListAgreements
  <2> DEFINE p == [clerk[w] EXCEPT !.step = "upload", !.files = listed]
  <2>2. p.step = "upload"
    BY <1>2 DEF NoPaper, PaperWork, FormWork, AgreementWork
  <2> HIDE DEF p
  <2>3. clerk' = [clerk EXCEPT ![w] = p] /\ UNCHANGED <<forms, papers, issued>>
    BY <1>11, <2>1 DEF ListAgreements, p
  <2> QED
    BY <1>1, <2>2, <2>3, OneGoesOn
<1>12. ASSUME NEW w \in Clerks, UploadAgreement(w)
      PROVE  DatesInv'
  <2> DEFINE p == [clerk[w] EXCEPT !.step = "clear", !.files = @ \ {clerk[w].id}]
  <2>1. clerk[w].step = "upload" /\ clerk' = [clerk EXCEPT ![w] = p] /\ UNCHANGED <<forms, papers, issued>>
    BY <1>12 DEF UploadAgreement
  <2>2. clerk[w].kind = "agreement"
    BY <1>2, <2>1, KindOfPaper
  <2>3. p.step = "clear" /\ p.kind = clerk[w].kind
    BY <1>2 DEF NoPaper, PaperWork, FormWork, AgreementWork
  <2> HIDE DEF p
  <2> QED
    BY <1>1, <2>1, <2>2, <2>3, OneGoesOn
<1> QED
  BY <1>3, <1>4, <1>5, <1>6, <1>7, <1>8, <1>9, <1>10, <1>11, <1>12 DEF PapersNext

LEMMA DatesInvariant == PapersSpec => []DatesInv
BY DatesInitInv, DatesNextInv, PTL DEF PapersSpec

LEMMA PapersAreTyped == DatesInv => PapersTypeOK
<1> SUFFICES ASSUME DatesInv PROVE PapersTypeOK
  OBVIOUS
<1>1. PapersTyped /\ DatesApart
  BY DEF DatesInv, PapersInv
<1>2. issued \in 0 .. MaxPapers
  BY <1>1, PendingFits, PapersAssumption DEF DatesInv, PapersTyped
<1> QED
  BY <1>1, <1>2 DEF PapersTypeOK, PapersTyped, DatesApart, PaperFiles, FormRow

(***************************************************************************)
(* Types: no two forms have one date, and as many are dated as were asked  *)
(* for at most.                                                            *)
(***************************************************************************)
THEOREM PapersTypeCorrect == PapersSpec => []PapersTypeOK
<1> QED
  BY PapersAreTyped, DatesInvariant, PTL

(***************************************************************************)
(* getServiceForm finds the file of the row it reads, and an agreement     *)
(* that was printed stays until the next is there, whatever requests       *)
(* createServiceForm and createWarrantyAgreement serve beside each other   *)
(* and wherever these fail, but for the exceptions named.                  *)
(***************************************************************************)
THEOREM PapersKeptHolds == PapersSpec => []PapersKept
<1>1. PapersInv => PapersKept
  BY DEF PapersInv
<1> QED
  BY <1>1, PapersInvariant, PTL

-----------------------------------------------------------------------------
(***************************************************************************)
(* Who is told of an order.                                                *)
(***************************************************************************)
Connection == [state : {"closed", "on", "gone"}, owner : Crew \cup {NoTab},
               rooms : {"unread", "read", "joined"}, room : BOOLEAN]
Happening ==
    [kind : {"none", "create", "assign", "move", "webhook", "open", "update", "call"},
     txn : {"none", "open", "committed", "undone"}, parts : SUBSET (OrderParts \cup {"admins"}),
     aim : SUBSET Crew, draft : SUBSET Crew, others : SUBSET Crew, listed : SUBSET Crew,
     direct : {"none", "store", "send", "done", "lost"},
     room : {"none", "list", "store", "send", "done"}]

NoticesTyped ==
    /\ roster \subseteq Crew /\ shifted \subseteq Crew /\ unflushed \subseteq shifted
    /\ roomsKnown \in [Crew -> {"unknown", "yes", "no"}]
    /\ tab \in [Tabs -> Connection]
    /\ socketOf \in [Crew -> Tabs \cup {NoTab}] /\ newest \in [Crew -> Tabs \cup {NoTab}]
    /\ repairOrder \in [there : BOOLEAN, deleted : BOOLEAN, team : SUBSET Crew]
    /\ (repairOrder.team # {} \/ repairOrder.deleted => repairOrder.there)
    /\ event \in [Events -> Happening]
    /\ notices \subseteq Crew \X Events /\ heard \subseteq Tabs \X Events

\* Who never joined or left the branch is in its room only if of the branch.
MembersFit ==
    /\ \A a \in Crew \ shifted : roomsKnown[a] = "yes" => a \in roster
    /\ \A t \in Tabs :
        /\ tab[t].state # "closed" => tab[t].owner \in Crew
        /\ tab[t].rooms # "unread" => tab[t].state # "closed"
        /\ tab[t].rooms # "unread" /\ tab[t].room /\ tab[t].owner \notin shifted => tab[t].owner \in roster

SocketsFit ==
    /\ LatestHears
    /\ \A a \in Crew : newest[a] # NoTab => tab[newest[a]].state # "closed"

Standing == roster \ shifted

\* What is known of an event when it is told.
EventFits(e) ==
    /\ event[e].kind = "none" => event[e] = NotYet
    /\ event[e].kind \notin {"none", "create"} \/ event[e].txn = "committed" => repairOrder.there
    /\ event[e].kind \in {"webhook", "open", "update", "call"} => event[e].txn = "committed"
    /\ "admins" \in event[e].parts =>
        event[e].kind = "create" /\ event[e].direct = "none" /\ event[e].draft = {}
    /\ event[e].others # {} => event[e].kind = "webhook"
    /\ event[e].direct # "none" => event[e].kind \notin {"none", "move", "update"}
    /\ event[e].kind = "create" /\ event[e].txn = "committed" => event[e].parts = {}
    /\ event[e].kind = "assign" /\ event[e].txn = "committed" => event[e].direct = "done"

\* What a message is to find when it arrives.
DirectFits(e) ==
    /\ InTransaction(e) /\ event[e].direct \in {"send", "done"} =>
        /\ event[e].txn = "open" => event[e].draft = event[e].aim
        /\ event[e].txn = "committed" => \A a \in event[e].aim : <<a, e>> \in notices
    /\ InTransaction(e) => event[e].draft \subseteq event[e].aim
    /\ event[e].kind \in {"webhook", "open"} /\ event[e].direct = "send"
       => \A a \in event[e].aim : <<a, e>> \in notices

RoomFits(e) ==
    /\ event[e].room # "none" =>
        \/ event[e].kind = "create" /\ event[e].txn = "committed"
        \/ event[e].kind \in {"move", "update"}
    /\ event[e].room = "store" => Standing \subseteq event[e].listed
    /\ event[e].room \in {"send", "done"} => \A a \in Standing : <<a, e>> \in notices

HeardFits(e) ==
    \A t \in Tabs : <<t, e>> \in heard =>
        /\ tab[t].state # "closed"
        /\ InTransaction(e) /\ event[e].txn = "open" => tab[t].owner \in event[e].draft
        /\ \/ <<tab[t].owner, e>> \in notices
           \/ event[e].kind = "call"
           \/ InTransaction(e) /\ event[e].txn # "committed"
           \/ event[e].room # "none" /\ tab[t].owner \in shifted

NoticesFit(e) ==
    \A a \in Crew : <<a, e>> \in notices =>
        /\ repairOrder.there
        /\ event[e].txn = "committed" \/ event[e].kind = "move"
        /\ event[e].kind = "assign" => a \in event[e].aim

ToldFits(e) == EventFits(e) /\ DirectFits(e) /\ RoomFits(e) /\ HeardFits(e) /\ NoticesFit(e)

NoticesInv == NoticesTyped /\ MembersFit /\ SocketsFit /\ \A e \in Events : ToldFits(e)

LEMMA NotYetIsOne ==
    /\ NotYet \in Happening /\ NotYet.kind = "none" /\ NotYet.txn = "none" /\ NotYet.parts = {}
    /\ NotYet.aim = {} /\ NotYet.draft = {} /\ NotYet.others = {} /\ NotYet.direct = "none"
    /\ NotYet.room = "none"
BY DEF NotYet, Happening

LEMMA NoticesInitInv == NoticesInit => NoticesInv
<1> SUFFICES ASSUME NoticesInit PROVE NoticesInv
  OBVIOUS
<1>1. /\ roster \subseteq Crew /\ shifted = {} /\ unflushed = {}
      /\ roomsKnown = [a \in Crew |-> "unknown"]
      /\ tab = [t \in Tabs |-> NoConnection]
      /\ socketOf = [a \in Crew |-> NoTab] /\ newest = [a \in Crew |-> NoTab]
      /\ notices = {} /\ heard = {} /\ event = [e \in Events |-> NotYet]
  BY DEF NoticesInit
<1>2. /\ NoConnection \in Connection /\ NoConnection.state = "closed" /\ NoConnection.rooms = "unread"
  BY DEF NoConnection, Connection
<1>3. /\ repairOrder \in [there : BOOLEAN, deleted : BOOLEAN, team : SUBSET Crew]
      /\ repairOrder.team # {} \/ repairOrder.deleted => repairOrder.there
  <2>1. CASE repairOrder \in [there : {TRUE}, deleted : {FALSE}, team : {{}} \cup {{a} : a \in Crew}]
    BY <2>1
  <2>2. CASE repairOrder = [there |-> FALSE, deleted |-> FALSE, team |-> {}]
    BY <2>2
  <2> QED
    BY <2>1, <2>2 DEF NoticesInit
<1>4. NoticesTyped
  BY <1>1, <1>2, <1>3, NotYetIsOne DEF NoticesTyped
<1>5. MembersFit /\ SocketsFit
  BY <1>1, <1>2 DEF MembersFit, SocketsFit, LatestHears
<1>6. ASSUME NEW e \in Events PROVE ToldFits(e)
  <2>1. event[e] = NotYet
    BY <1>1
  <2> QED
    BY <1>1, <2>1, NotYetIsOne
    DEF ToldFits, EventFits, DirectFits, RoomFits, HeardFits, NoticesFit, InTransaction
<1> QED
  BY <1>4, <1>5, <1>6 DEF NoticesInv

-----------------------------------------------------------------------------
\* What the steps of one part leave alone of another.

LEMMA TabStep ==
    ASSUME NoticesInv, UNCHANGED orderVars, roster' = roster, shifted' = shifted,
           \A t \in Tabs : tab[t].state # "closed" =>
                tab'[t].state # "closed" /\ tab'[t].owner = tab[t].owner
    PROVE  \A e \in Events : ToldFits(e)'
<1> SUFFICES ASSUME NEW e \in Events PROVE ToldFits(e)'
  OBVIOUS
<1>1. ToldFits(e) /\ UNCHANGED <<repairOrder, event, notices, heard>>
  BY DEF NoticesInv, orderVars
<1>2. EventFits(e)' /\ DirectFits(e)' /\ NoticesFit(e)'
  BY <1>1 DEF ToldFits, EventFits, DirectFits, NoticesFit, InTransaction
<1>3. RoomFits(e)'
  BY <1>1 DEF ToldFits, RoomFits, Standing
<1>4. HeardFits(e)'
  BY <1>1 DEF ToldFits, HeardFits, InTransaction
<1> QED
  BY <1>2, <1>3, <1>4 DEF ToldFits

LEMMA RosterStep ==
    ASSUME NoticesInv, UNCHANGED <<tabVars, orderVars>>, shifted \subseteq shifted',
           Standing' \subseteq Standing
    PROVE  \A e \in Events : ToldFits(e)'
<1> SUFFICES ASSUME NEW e \in Events PROVE ToldFits(e)'
  OBVIOUS
<1>1. ToldFits(e) /\ UNCHANGED <<repairOrder, event, notices, heard, tab>>
  BY DEF NoticesInv, orderVars, tabVars
<1>2. EventFits(e)' /\ DirectFits(e)' /\ NoticesFit(e)'
  BY <1>1 DEF ToldFits, EventFits, DirectFits, NoticesFit, InTransaction
<1>3. RoomFits(e)'
  BY <1>1 DEF ToldFits, RoomFits
<1>4. HeardFits(e)'
  BY <1>1 DEF ToldFits, HeardFits, InTransaction
<1> QED
  BY <1>2, <1>3, <1>4 DEF ToldFits

LEMMA EventStep ==
    ASSUME NoticesInv, NEW e \in Events, UNCHANGED <<memberVars, tabVars>>,
           \A f \in Events : f # e => event'[f] = event[f],
           event' \in [Events -> Happening],
           repairOrder' \in [there : BOOLEAN, deleted : BOOLEAN, team : SUBSET Crew],
           repairOrder.there => repairOrder'.there,
           repairOrder'.team # {} \/ repairOrder'.deleted => repairOrder'.there,
           notices' \subseteq Crew \X Events, heard' \subseteq Tabs \X Events,
           \A f \in Events : f # e => /\ \A a \in Crew : <<a, f>> \in notices' <=> <<a, f>> \in notices
                                      /\ \A t \in Tabs : <<t, f>> \in heard' <=> <<t, f>> \in heard,
           ToldFits(e)'
    PROVE  NoticesInv'
<1>1. UNCHANGED <<roster, shifted, unflushed, roomsKnown, tab, socketOf, newest>>
  BY DEF memberVars, tabVars
<1>2. NoticesTyped' /\ MembersFit' /\ SocketsFit'
  BY <1>1 DEF NoticesInv, NoticesTyped, MembersFit, SocketsFit, LatestHears
<1>3. ASSUME NEW f \in Events, f # e PROVE ToldFits(f)'
  <2>1. ToldFits(f) /\ event'[f] = event[f]
    BY <1>3 DEF NoticesInv
  <2>2. EventFits(f)'
    BY <2>1 DEF ToldFits, EventFits
  <2>3. event[f].aim \subseteq Crew /\ Standing \subseteq Crew
    BY DEF NoticesInv, NoticesTyped, Happening, Standing
  <2>4. DirectFits(f)'
    BY <1>3, <2>1, <2>3 DEF ToldFits, DirectFits, InTransaction
  <2>5. RoomFits(f)'
    BY <1>1, <1>3, <2>1, <2>3 DEF ToldFits, RoomFits, Standing
  <2>6. HeardFits(f)'
    <3> SUFFICES ASSUME NEW t \in Tabs, <<t, f>> \in heard'
                 PROVE  /\ tab'[t].state # "closed"
                        /\ InTransaction(f)' /\ event'[f].txn = "open" => tab'[t].owner \in event'[f].draft
                        /\ \/ <<tab'[t].owner, f>> \in notices'
                           \/ event'[f].kind = "call"
                           \/ InTransaction(f)' /\ event'[f].txn # "committed"
                           \/ event'[f].room # "none" /\ tab'[t].owner \in shifted'
      BY DEF HeardFits
    <3>1. <<t, f>> \in heard /\ tab[t].state # "closed" /\ tab[t].owner \in Crew
      BY <1>3, <2>1 DEF ToldFits, HeardFits, NoticesInv, MembersFit
    <3> QED
      BY <1>1, <1>3, <2>1, <3>1 DEF ToldFits, HeardFits, InTransaction
  <2>7. NoticesFit(f)'
    BY <1>3, <2>1 DEF ToldFits, NoticesFit
  <2> QED
    BY <2>2, <2>4, <2>5, <2>6, <2>7 DEF ToldFits
<1> QED
  BY <1>2, <1>3 DEF NoticesInv

-----------------------------------------------------------------------------
\* The gateway.

LEMMA ConnectKeeps ==
    ASSUME NoticesInv, NEW t \in Tabs, NEW a \in Crew, Connect(t, a)
    PROVE  NoticesInv'
<1>1. /\ tab[t].state = "closed"
      /\ tab' = [tab EXCEPT ![t] = [tab[t] EXCEPT !.state = "on", !.owner = a]]
      /\ socketOf' = [socketOf EXCEPT ![a] = t] /\ newest' = [newest EXCEPT ![a] = t]
      /\ UNCHANGED <<memberVars, orderVars>>
  BY DEF Connect
<1>2. tab \in [Tabs -> Connection] /\ tab[t] \in Connection
  BY DEF NoticesInv, NoticesTyped
<1>3. /\ tab' \in [Tabs -> Connection] /\ tab'[t].state = "on" /\ tab'[t].owner = a
      /\ tab'[t].rooms = "unread"
      /\ \A u \in Tabs : u # t => tab'[u] = tab[u]
  <2>1. tab[t].rooms = "unread"
    BY <1>1, <1>2 DEF NoticesInv, MembersFit, Connection
  <2>2. /\ [tab[t] EXCEPT !.state = "on", !.owner = a] \in Connection
        /\ [tab[t] EXCEPT !.state = "on", !.owner = a].state = "on"
        /\ [tab[t] EXCEPT !.state = "on", !.owner = a].owner = a
        /\ [tab[t] EXCEPT !.state = "on", !.owner = a].rooms = "unread"
    BY <1>2, <2>1 DEF Connection
  <2> QED
    BY <1>1, <1>2, <2>2
<1>4. /\ UNCHANGED <<roster, roomsKnown, unflushed, shifted, repairOrder, event, notices, heard>>
      /\ UNCHANGED orderVars
  BY <1>1 DEF memberVars, orderVars
<1>5. NoticesTyped'
  BY <1>1, <1>3, <1>4 DEF NoticesInv, NoticesTyped
<1>6. MembersFit'
  BY <1>3, <1>4 DEF NoticesInv, MembersFit
<1>7. SocketsFit'
  <2>1. ASSUME NEW b \in Crew, b # a
        PROVE  /\ socketOf'[b] = socketOf[b] /\ newest'[b] = newest[b]
               /\ socketOf[b] # t /\ newest[b] # t
    <3>1. socketOf'[b] = socketOf[b] /\ newest'[b] = newest[b]
      BY <1>1, <2>1 DEF NoticesInv, NoticesTyped
    <3>2. socketOf[b] # t /\ newest[b] # t
      BY <1>1, NoTabAssumption DEF NoticesInv, SocketsFit, LatestHears
    <3> QED
      BY <3>1, <3>2
  <2>2. socketOf'[a] = t /\ newest'[a] = t
    BY <1>1 DEF NoticesInv, NoticesTyped
  <2>3. \A b \in Crew : socketOf[b] \in Tabs \cup {NoTab} /\ newest[b] \in Tabs \cup {NoTab}
    BY DEF NoticesInv, NoticesTyped
  <2>4. ASSUME NEW b \in Crew
        PROVE  /\ socketOf'[b] # NoTab => tab'[socketOf'[b]].state = "on" /\ tab'[socketOf'[b]].owner = b
               /\ newest'[b] # NoTab /\ tab'[newest'[b]].state = "on" => socketOf'[b] = newest'[b]
               /\ newest'[b] # NoTab => tab'[newest'[b]].state # "closed"
    <3>1. CASE b = a
      BY <1>3, <2>2, <3>1
    <3>2. CASE b # a
      BY <1>3, <2>1, <2>3, <3>2 DEF NoticesInv, SocketsFit, LatestHears
    <3> QED
      BY <3>1, <3>2
  <2> QED
    BY <2>4 DEF SocketsFit, LatestHears
<1>8. \A e \in Events : ToldFits(e)'
  BY <1>1, <1>3, <1>4, TabStep
<1> QED
  BY <1>5, <1>6, <1>7, <1>8 DEF NoticesInv

\* Whatever else a connection learns, its socket is as before.
LEMMA RoomStep ==
    ASSUME NoticesInv, NEW t \in Tabs, NEW rooms \in {"read", "joined"}, NEW room \in BOOLEAN,
           tab' = [tab EXCEPT ![t] = [tab[t] EXCEPT !.rooms = rooms, !.room = room]],
           tab[t].state # "closed",
           UNCHANGED <<roster, unflushed, shifted, socketOf, newest, orderVars>>,
           roomsKnown' \in [Crew -> {"unknown", "yes", "no"}],
           \A a \in Crew \ shifted : roomsKnown'[a] = "yes" => a \in roster,
           room /\ tab[t].owner \notin shifted => tab[t].owner \in roster
    PROVE  NoticesInv'
<1>1. tab \in [Tabs -> Connection] /\ tab[t] \in Connection
  BY DEF NoticesInv, NoticesTyped
<1>2. /\ tab' \in [Tabs -> Connection] /\ tab'[t].state = tab[t].state /\ tab'[t].owner = tab[t].owner
      /\ tab'[t].rooms = rooms /\ (tab'[t].room <=> room)
      /\ \A u \in Tabs : u # t => tab'[u] = tab[u]
  <2> DEFINE c == [tab[t] EXCEPT !.rooms = rooms, !.room = room]
  <2>1. /\ c \in Connection /\ c.state = tab[t].state /\ c.owner = tab[t].owner
        /\ c.rooms = rooms /\ (c.room <=> room)
    <3>1. CASE room = TRUE
      BY <1>1, <3>1 DEF Connection
    <3>2. CASE room = FALSE
      BY <1>1, <3>2 DEF Connection
    <3> QED
      BY <3>1, <3>2
  <2>2. tab' = [tab EXCEPT ![t] = c]
    OBVIOUS
  <2> HIDE DEF c
  <2> QED
    BY <1>1, <2>1, <2>2
<1>3. UNCHANGED <<repairOrder, event, notices, heard>>
  BY DEF orderVars
<1>4. NoticesTyped'
  BY <1>2, <1>3 DEF NoticesInv, NoticesTyped
<1>5. MembersFit'
  BY <1>2, <1>3 DEF NoticesInv, MembersFit
<1>6. \A u \in Tabs : tab'[u].state = tab[u].state /\ tab'[u].owner = tab[u].owner
  BY <1>2
<1>7. SocketsFit'
  <2>1. \A b \in Crew : socketOf[b] \in Tabs \cup {NoTab} /\ newest[b] \in Tabs \cup {NoTab}
    BY DEF NoticesInv, NoticesTyped
  <2> QED
    BY <1>6, <2>1 DEF NoticesInv, SocketsFit, LatestHears
<1>8. \A e \in Events : ToldFits(e)'
  BY <1>6, TabStep
<1> QED
  BY <1>4, <1>5, <1>7, <1>8 DEF NoticesInv

LEMMA FindKnownKeeps ==
    ASSUME NoticesInv, NEW t \in Tabs, FindKnownRooms(t)
    PROVE  NoticesInv'
<1>1. PICK room \in BOOLEAN :
        /\ room <=> roomsKnown[tab[t].owner] = "yes"
        /\ tab' = [tab EXCEPT ![t] = [tab[t] EXCEPT !.rooms = "joined", !.room = room]]
  <2>1. (roomsKnown[tab[t].owner] = "yes") \in BOOLEAN
    OBVIOUS
  <2>2. tab' = [tab EXCEPT ![t] = [tab[t] EXCEPT !.rooms = "joined",
                                                 !.room = (roomsKnown[tab[t].owner] = "yes")]]
    BY Zenon DEF FindKnownRooms
  <2> QED
    BY <2>1, <2>2, Zenon
<1>2. /\ tab[t].state = "on" /\ UNCHANGED <<memberVars, socketOf, newest, orderVars>>
      /\ UNCHANGED <<roster, roomsKnown, unflushed, shifted>>
  BY DEF FindKnownRooms, memberVars
<1>3. tab[t].owner \in Crew
  BY <1>2 DEF NoticesInv, MembersFit
<1>4. /\ roomsKnown' \in [Crew -> {"unknown", "yes", "no"}]
      /\ \A a \in Crew \ shifted : roomsKnown'[a] = "yes" => a \in roster
  BY <1>2 DEF NoticesInv, NoticesTyped, MembersFit
<1>5. room /\ tab[t].owner \notin shifted => tab[t].owner \in roster
  BY <1>1, <1>2, <1>3, <1>4
<1> QED
  BY <1>1, <1>2, <1>4, <1>5, RoomStep

LEMMA ReadRoomsKeeps ==
    ASSUME NoticesInv, NEW t \in Tabs, ReadRooms(t)
    PROVE  NoticesInv'
<1>1. PICK room \in BOOLEAN :
        /\ room <=> tab[t].owner \in roster
        /\ tab' = [tab EXCEPT ![t] = [tab[t] EXCEPT !.rooms = "read", !.room = room]]
  <2>1. (tab[t].owner \in roster) \in BOOLEAN
    OBVIOUS
  <2>2. tab' = [tab EXCEPT ![t] = [tab[t] EXCEPT !.rooms = "read", !.room = (tab[t].owner \in roster)]]
    BY Zenon DEF ReadRooms
  <2> QED
    BY <2>1, <2>2, Zenon
<1>2. /\ tab[t].state = "on" /\ UNCHANGED <<memberVars, socketOf, newest, orderVars>>
      /\ UNCHANGED <<roster, roomsKnown, unflushed, shifted>>
  BY DEF ReadRooms, memberVars
<1>3. /\ roomsKnown' \in [Crew -> {"unknown", "yes", "no"}]
      /\ \A a \in Crew \ shifted : roomsKnown'[a] = "yes" => a \in roster
  BY <1>2 DEF NoticesInv, NoticesTyped, MembersFit
<1> QED
  BY <1>1, <1>2, <1>3, RoomStep

LEMMA JoinRoomsKeeps ==
    ASSUME NoticesInv, NEW t \in Tabs, JoinRooms(t)
    PROVE  NoticesInv'
<1>1. PICK room \in BOOLEAN :
        /\ room => tab[t].room
        /\ tab' = [tab EXCEPT ![t] = [tab[t] EXCEPT !.rooms = "joined", !.room = room]]
  <2>1. (tab[t].room /\ tab[t].state = "on") \in BOOLEAN
    OBVIOUS
  <2>2. tab' = [tab EXCEPT ![t] = [tab[t] EXCEPT !.rooms = "joined",
                                                 !.room = (tab[t].room /\ tab[t].state = "on")]]
    BY Zenon DEF JoinRooms
  <2> QED
    BY <2>1, <2>2, Zenon
<1>2. /\ tab[t].rooms = "read" /\ UNCHANGED <<roster, unflushed, shifted, socketOf, newest, orderVars>>
      /\ roomsKnown' = [roomsKnown EXCEPT ![tab[t].owner] = IF tab[t].room THEN "yes" ELSE "no"]
  BY DEF JoinRooms
<1>3. tab[t].state # "closed" /\ tab[t].owner \in Crew
  BY <1>2 DEF NoticesInv, MembersFit
<1>4. tab[t].room /\ tab[t].owner \notin shifted => tab[t].owner \in roster
  BY <1>2 DEF NoticesInv, MembersFit
<1>5. /\ roomsKnown' \in [Crew -> {"unknown", "yes", "no"}]
      /\ \A a \in Crew \ shifted : roomsKnown'[a] = "yes" => a \in roster
  BY <1>2, <1>3, <1>4 DEF NoticesInv, NoticesTyped, MembersFit
<1> QED
  BY <1>1, <1>2, <1>3, <1>4, <1>5, RoomStep

LEMMA DisconnectKeeps ==
    ASSUME NoticesInv, NEW t \in Tabs, handleDisconnect(t)
    PROVE  NoticesInv'
<1>1. PICK room \in BOOLEAN :
        /\ room => tab[t].room
        /\ tab' = [tab EXCEPT ![t] = [tab[t] EXCEPT !.state = "gone", !.room = room]]
  <2>1. (tab[t].room /\ tab[t].rooms = "read") \in BOOLEAN
    OBVIOUS
  <2>2. tab' = [tab EXCEPT ![t] = [tab[t] EXCEPT !.state = "gone",
                                                 !.room = (tab[t].room /\ tab[t].rooms = "read")]]
    BY Zenon DEF handleDisconnect
  <2> QED
    BY <2>1, <2>2, Zenon
<1>2. /\ tab[t].state = "on"
      /\ socketOf' = [a \in Crew |-> IF socketOf[a] = t THEN NoTab ELSE socketOf[a]]
      /\ UNCHANGED <<memberVars, newest, orderVars>>
      /\ UNCHANGED <<roster, roomsKnown, unflushed, shifted, repairOrder, event, notices, heard>>
  BY DEF handleDisconnect, memberVars, orderVars
<1>3. tab \in [Tabs -> Connection] /\ tab[t] \in Connection
  BY DEF NoticesInv, NoticesTyped
<1>4. /\ tab' \in [Tabs -> Connection] /\ tab'[t].state = "gone" /\ tab'[t].owner = tab[t].owner
      /\ tab'[t].rooms = tab[t].rooms /\ (tab'[t].room => tab[t].room)
      /\ \A u \in Tabs : u # t => tab'[u] = tab[u]
  <2> DEFINE c == [tab[t] EXCEPT !.state = "gone", !.room = room]
  <2>1. /\ c \in Connection /\ c.state = "gone" /\ c.owner = tab[t].owner
        /\ c.rooms = tab[t].rooms /\ (c.room => tab[t].room)
    <3>1. CASE room = TRUE
      BY <1>1, <1>3, <3>1 DEF Connection
    <3>2. CASE room = FALSE
      BY <1>3, <3>2 DEF Connection
    <3> QED
      BY <3>1, <3>2
  <2>2. tab' = [tab EXCEPT ![t] = c]
    BY <1>1
  <2> HIDE DEF c
  <2> QED
    BY <1>3, <2>1, <2>2
<1>5. NoticesTyped'
  BY <1>2, <1>4 DEF NoticesInv, NoticesTyped
<1>6. MembersFit'
  BY <1>2, <1>4 DEF NoticesInv, MembersFit
<1>7. SocketsFit'
  <2>1. \A b \in Crew : socketOf[b] \in Tabs \cup {NoTab} /\ newest[b] \in Tabs \cup {NoTab}
    BY DEF NoticesInv, NoticesTyped
  <2>2. ASSUME NEW b \in Crew
        PROVE  /\ socketOf'[b] # NoTab => tab'[socketOf'[b]].state = "on" /\ tab'[socketOf'[b]].owner = b
               /\ newest'[b] # NoTab /\ tab'[newest'[b]].state = "on" => socketOf'[b] = newest'[b]
               /\ newest'[b] # NoTab => tab'[newest'[b]].state # "closed"
    <3>1. newest'[b] = newest[b] /\ socketOf'[b] = IF socketOf[b] = t THEN NoTab ELSE socketOf[b]
      BY <1>2
    <3> QED
      BY <1>4, <2>1, <3>1 DEF NoticesInv, SocketsFit, LatestHears
  <2> QED
    BY <2>2 DEF SocketsFit, LatestHears
<1>8. \A e \in Events : ToldFits(e)'
  BY <1>2, <1>4, TabStep
<1> QED
  BY <1>5, <1>6, <1>7, <1>8 DEF NoticesInv

LEMMA ChangeRosterKeeps ==
    ASSUME NoticesInv, NEW a \in Crew, ChangeRoster(a)
    PROVE  NoticesInv'
<1>1. /\ a \notin shifted /\ shifted' = shifted \cup {a}
      /\ roster' = IF a \in roster THEN roster \ {a} ELSE roster \cup {a}
      /\ unflushed' = unflushed \cup {a}
      /\ UNCHANGED <<roomsKnown, tabVars, orderVars>>
  BY DEF ChangeRoster
<1>2. UNCHANGED <<tab, socketOf, newest, repairOrder, event, notices, heard>>
  BY <1>1 DEF tabVars, orderVars
<1>3. Standing' \subseteq Standing
  BY <1>1 DEF Standing
<1>4. NoticesTyped'
  BY <1>1, <1>2 DEF NoticesInv, NoticesTyped
<1>5. MembersFit' /\ SocketsFit'
  BY <1>1, <1>2 DEF NoticesInv, MembersFit, SocketsFit, LatestHears
<1>6. \A e \in Events : ToldFits(e)'
  BY <1>1, <1>3, RosterStep
<1> QED
  BY <1>4, <1>5, <1>6 DEF NoticesInv

LEMMA ForgetRoomsKeeps ==
    ASSUME NoticesInv, NEW a \in Crew, ForgetRooms(a)
    PROVE  NoticesInv'
<1>1. /\ unflushed' = unflushed \ {a} /\ roomsKnown' = [x \in Crew |-> "unknown"]
      /\ UNCHANGED <<roster, shifted, tabVars, orderVars>>
      /\ UNCHANGED <<tab, socketOf, newest, repairOrder, event, notices, heard>>
  BY DEF ForgetRooms, tabVars, orderVars
<1>2. NoticesTyped'
  BY <1>1 DEF NoticesInv, NoticesTyped
<1>3. MembersFit' /\ SocketsFit'
  BY <1>1 DEF NoticesInv, MembersFit, SocketsFit, LatestHears
<1>4. \A e \in Events : ToldFits(e)'
  BY <1>1, RosterStep DEF Standing
<1> QED
  BY <1>2, <1>3, <1>4 DEF NoticesInv

-----------------------------------------------------------------------------
\* The events.

LEMMA OnlyEventShape ==
    ASSUME NoticesInv, NEW e \in Events, NEW how \in Happening, OnlyEvent(e, how)
    PROVE  /\ event'[e] = how /\ event' \in [Events -> Happening]
           /\ \A f \in Events : f # e => event'[f] = event[f]
           /\ UNCHANGED <<repairOrder, notices, heard, memberVars, tabVars, roster, shifted, tab>>
BY DEF OnlyEvent, NoticesInv, NoticesTyped, memberVars, tabVars

LEMMA OnlyEventStep ==
    ASSUME NoticesInv, NEW e \in Events, NEW how \in Happening, OnlyEvent(e, how), ToldFits(e)'
    PROVE  NoticesInv'
<1>1. /\ event' \in [Events -> Happening]
      /\ \A f \in Events : f # e => event'[f] = event[f]
      /\ UNCHANGED <<repairOrder, notices, heard, memberVars, tabVars>>
  BY OnlyEventShape
<1>2. /\ repairOrder \in [there : BOOLEAN, deleted : BOOLEAN, team : SUBSET Crew]
      /\ repairOrder.team # {} \/ repairOrder.deleted => repairOrder.there
      /\ notices \subseteq Crew \X Events /\ heard \subseteq Tabs \X Events
  BY DEF NoticesInv, NoticesTyped
<1> QED
  BY <1>1, <1>2, EventStep

LEMMA HappensKeeps ==
    ASSUME NoticesInv, NEW e \in Events, NEW how \in Happening, Happens(e, how),
           how.kind # "none", how.kind # "create" \/ how.txn = "committed" => repairOrder.there,
           how.kind \in {"webhook", "open", "update", "call"} => how.txn = "committed",
           how.parts # {} \/ how.kind = "create" =>
                how.kind = "create" /\ how.txn # "committed" /\ how.direct = "none",
           how.others # {} => how.kind = "webhook", how.draft = {},
           how.direct = "none" \/ how.kind \notin {"none", "move", "update"},
           how.direct \in {"none", "store"} \/ how.kind = "call",
           how.kind = "assign" => how.txn # "committed",
           how.room = "none" \/ (how.room = "list" /\ how.kind \in {"move", "update"})
    PROVE  NoticesInv'
<1>1. OnlyEvent(e, how) /\ event[e] = NotYet
  BY DEF Happens
<1>2. ToldFits(e)
  BY DEF NoticesInv
<1>3. /\ \A a \in Crew : <<a, e>> \notin notices
      /\ \A t \in Tabs : <<t, e>> \notin heard
  <2>1. \A a \in Crew : <<a, e>> \notin notices
    BY <1>1, <1>2, NotYetIsOne DEF ToldFits, NoticesFit
  <2>2. ASSUME NEW t \in Tabs, <<t, e>> \in heard PROVE FALSE
    <3>1. tab[t].owner \in Crew
      BY <1>2, <2>2 DEF ToldFits, HeardFits, NoticesInv, MembersFit
    <3> QED
      BY <1>1, <1>2, <2>1, <2>2, <3>1, NotYetIsOne DEF ToldFits, HeardFits, InTransaction
  <2> QED
    BY <2>1, <2>2
<1>4. /\ event'[e] = how
      /\ UNCHANGED <<repairOrder, notices, heard, roster, shifted, tab>>
  BY <1>1, OnlyEventShape
<1>5. EventFits(e)'
  BY <1>4 DEF EventFits
<1>6. DirectFits(e)' /\ RoomFits(e)'
  BY <1>4 DEF DirectFits, RoomFits, InTransaction, Standing
<1>7. HeardFits(e)' /\ NoticesFit(e)'
  BY <1>3, <1>4 DEF HeardFits, NoticesFit
<1> QED
  BY <1>1, <1>5, <1>6, <1>7, OnlyEventStep DEF ToldFits

LEMMA BeginOrderKeeps ==
    ASSUME NoticesInv, NEW e \in Events, BeginOrder(e)
    PROVE  NoticesInv'
<1> DEFINE how == [NotYet EXCEPT !.kind = "create", !.txn = "open", !.parts = OrderParts \cup {"admins"}]
<1>1. Happens(e, how)
  BY DEF BeginOrder
<1>2. /\ how \in Happening /\ how.kind = "create" /\ how.txn = "open" /\ how.others = {}
      /\ how.draft = {} /\ how.direct = "none" /\ how.room = "none"
  BY DEF NotYet, Happening
<1> HIDE DEF how
<1> QED
  BY <1>1, <1>2, HappensKeeps

LEMMA AssignOrderKeeps ==
    ASSUME NoticesInv, NEW e \in Events, NEW aim \in SUBSET Crew, AssignOrder(e, aim)
    PROVE  NoticesInv'
<1> DEFINE how == [NotYet EXCEPT !.kind = "assign", !.txn = "open", !.aim = aim \ repairOrder.team,
                                 !.direct = "store"]
<1>1. Happens(e, how) /\ repairOrder.there
  BY DEF AssignOrder
<1>2. /\ how \in Happening /\ how.kind = "assign" /\ how.txn = "open" /\ how.others = {} /\ how.parts = {}
      /\ how.draft = {} /\ how.direct = "store" /\ how.room = "none"
  BY DEF NotYet, Happening
<1> HIDE DEF how
<1> QED
  BY <1>1, <1>2, HappensKeeps

LEMMA MoveOrderKeeps ==
    ASSUME NoticesInv, NEW e \in Events, MoveOrder(e)
    PROVE  NoticesInv'
<1> DEFINE how == [NotYet EXCEPT !.kind = "move", !.txn = "open", !.room = "list"]
<1>1. Happens(e, how) /\ repairOrder.there
  BY DEF MoveOrder, InUse
<1>2. /\ how \in Happening /\ how.kind = "move" /\ how.txn = "open" /\ how.others = {} /\ how.parts = {}
      /\ how.draft = {} /\ how.direct = "none" /\ how.room = "list"
  BY DEF NotYet, Happening
<1> HIDE DEF how
<1> QED
  BY <1>1, <1>2, HappensKeeps

LEMMA TellOperatorKeeps ==
    ASSUME NoticesInv, NEW e \in Events, NEW a \in Crew, TellOperator(e, a)
    PROVE  NoticesInv'
<1> DEFINE how == [NotYet EXCEPT !.kind = "webhook", !.txn = "committed", !.aim = {a},
                                 !.others = roster \ {a}, !.direct = "store"]
<1>1. Happens(e, how) /\ repairOrder.there
  BY DEF TellOperator, InUse
<1>2. roster \subseteq Crew
  BY DEF NoticesInv, NoticesTyped
<1>3. /\ how \in Happening /\ how.kind = "webhook" /\ how.txn = "committed" /\ how.parts = {}
      /\ how.draft = {} /\ how.direct = "store" /\ how.room = "none"
  BY <1>2 DEF NotYet, Happening
<1> HIDE DEF how
<1> QED
  BY <1>1, <1>3, HappensKeeps

LEMMA OpenKeeps ==
    ASSUME NoticesInv, NEW e \in Events, NEW a \in Crew, notifyAdminToOpenRepairOrder(e, a)
    PROVE  NoticesInv'
<1> DEFINE how == [NotYet EXCEPT !.kind = "open", !.txn = "committed", !.aim = {a}, !.direct = "store"]
<1>1. Happens(e, how) /\ repairOrder.there
  BY DEF notifyAdminToOpenRepairOrder, InUse
<1>2. /\ how \in Happening /\ how.kind = "open" /\ how.txn = "committed" /\ how.others = {}
      /\ how.parts = {} /\ how.draft = {} /\ how.direct = "store" /\ how.room = "none"
  BY DEF NotYet, Happening
<1> HIDE DEF how
<1> QED
  BY <1>1, <1>2, HappensKeeps

LEMMA TellBranchKeeps ==
    ASSUME NoticesInv, NEW e \in Events, TellBranch(e)
    PROVE  NoticesInv'
<1> DEFINE how == [NotYet EXCEPT !.kind = "update", !.txn = "committed", !.room = "list"]
<1>1. Happens(e, how) /\ repairOrder.there
  BY DEF TellBranch, InUse
<1>2. /\ how \in Happening /\ how.kind = "update" /\ how.txn = "committed" /\ how.others = {}
      /\ how.parts = {} /\ how.draft = {} /\ how.direct = "none" /\ how.room = "list"
  BY DEF NotYet, Happening
<1> HIDE DEF how
<1> QED
  BY <1>1, <1>2, HappensKeeps

LEMMA AnnounceKeeps ==
    ASSUME NoticesInv, NEW e \in Events, NEW aim \in SUBSET Crew, AnnounceCall(e, aim)
    PROVE  NoticesInv'
<1> DEFINE how == [NotYet EXCEPT !.kind = "call", !.txn = "committed", !.aim = aim, !.direct = "send"]
<1>1. Happens(e, how) /\ repairOrder.there
  BY DEF AnnounceCall, InUse
<1>2. /\ how \in Happening /\ how.kind = "call" /\ how.txn = "committed" /\ how.others = {}
      /\ how.parts = {} /\ how.draft = {} /\ how.direct = "send" /\ how.room = "none"
  BY DEF NotYet, Happening
<1> HIDE DEF how
<1> QED
  BY <1>1, <1>2, HappensKeeps

\* While a transaction is open.
LEMMA WritePartKeeps ==
    ASSUME NoticesInv, NEW e \in Events, NEW part \in OrderParts, WritePart(e, part)
    PROVE  NoticesInv'
<1> DEFINE how == [event[e] EXCEPT !.parts = event[e].parts \ {part}]
<1>1. event[e].txn = "open" /\ OnlyEvent(e, how)
  BY DEF WritePart
<1>2. event[e] \in Happening /\ ToldFits(e)
  BY DEF NoticesInv, NoticesTyped
<1>3. /\ how \in Happening /\ how.kind = event[e].kind /\ how.txn = "open"
      /\ how.parts \subseteq event[e].parts /\ how.aim = event[e].aim /\ how.draft = event[e].draft
      /\ how.others = event[e].others /\ how.listed = event[e].listed /\ how.direct = event[e].direct
      /\ how.room = event[e].room
  BY <1>1, <1>2 DEF Happening
<1> HIDE DEF how
<1>4. /\ event'[e] = how
      /\ UNCHANGED <<repairOrder, notices, heard, roster, shifted, tab>>
  BY <1>1, <1>3, OnlyEventShape
<1>5. event[e].kind # "none"
  BY <1>1, <1>2, NotYetIsOne DEF ToldFits, EventFits
<1>6. EventFits(e)' /\ DirectFits(e)' /\ RoomFits(e)'
  BY <1>1, <1>2, <1>3, <1>4, <1>5 DEF ToldFits, EventFits, DirectFits, RoomFits, InTransaction, Standing
<1>7. HeardFits(e)' /\ NoticesFit(e)'
  BY <1>1, <1>2, <1>3, <1>4 DEF ToldFits, HeardFits, NoticesFit, InTransaction
<1> QED
  BY <1>1, <1>3, <1>6, <1>7, OnlyEventStep DEF ToldFits

LEMMA InsertAdminsKeeps ==
    ASSUME NoticesInv, NEW e \in Events, NEW aim \in SUBSET Crew, insertAssignAdmins(e, aim)
    PROVE  NoticesInv'
<1>1. PICK direct \in {"none", "store"} :
        OnlyEvent(e, [event[e] EXCEPT !.parts = event[e].parts \ {"admins"}, !.aim = aim,
                                      !.direct = direct])
  BY DEF insertAssignAdmins
<1> DEFINE how == [event[e] EXCEPT !.parts = event[e].parts \ {"admins"}, !.aim = aim, !.direct = direct]
<1>2. event[e].txn = "open" /\ "admins" \in event[e].parts /\ OnlyEvent(e, how)
  BY <1>1 DEF insertAssignAdmins
<1>3. event[e] \in Happening /\ ToldFits(e) /\ event[e].kind = "create"
  BY <1>2 DEF NoticesInv, NoticesTyped, ToldFits, EventFits
<1>4. /\ how \in Happening /\ how.kind = "create" /\ how.txn = "open" /\ "admins" \notin how.parts
      /\ how.parts \subseteq event[e].parts /\ how.aim = aim /\ how.draft = event[e].draft
      /\ how.others = event[e].others /\ how.direct \in {"none", "store"}
      /\ how.room = event[e].room
  BY <1>2, <1>3 DEF Happening
<1> HIDE DEF how
<1>5. /\ event'[e] = how
      /\ UNCHANGED <<repairOrder, notices, heard, roster, shifted, tab>>
  BY <1>2, <1>4, OnlyEventShape
<1>6. EventFits(e)' /\ DirectFits(e)' /\ RoomFits(e)'
  BY <1>2, <1>3, <1>4, <1>5 DEF ToldFits, EventFits, DirectFits, RoomFits, InTransaction, Standing
<1>7. HeardFits(e)' /\ NoticesFit(e)'
  BY <1>2, <1>3, <1>4, <1>5 DEF ToldFits, HeardFits, NoticesFit, InTransaction
<1> QED
  BY <1>2, <1>4, <1>6, <1>7, OnlyEventStep DEF ToldFits

LEMMA UndoKeeps ==
    ASSUME NoticesInv, NEW e \in Events, UndoEvent(e)
    PROVE  NoticesInv'
<1> DEFINE how == [event[e] EXCEPT !.txn = "undone", !.parts = {}, !.draft = {}]
<1>1. event[e].txn = "open" /\ OnlyEvent(e, how)
  BY DEF UndoEvent
<1>2. event[e] \in Happening /\ ToldFits(e)
  BY DEF NoticesInv, NoticesTyped
<1>3. /\ how \in Happening /\ how.kind = event[e].kind /\ how.txn = "undone"
      /\ how.parts = {} /\ how.aim = event[e].aim /\ how.draft = {}
      /\ how.others = event[e].others /\ how.listed = event[e].listed /\ how.direct = event[e].direct
      /\ how.room = event[e].room
  BY <1>1, <1>2 DEF Happening
<1> HIDE DEF how
<1>4. /\ event'[e] = how
      /\ UNCHANGED <<repairOrder, notices, heard, roster, shifted, tab>>
  BY <1>1, <1>3, OnlyEventShape
<1>5. event[e].kind # "none"
  BY <1>1, <1>2, NotYetIsOne DEF ToldFits, EventFits
<1>6. EventFits(e)' /\ DirectFits(e)' /\ RoomFits(e)'
  BY <1>1, <1>2, <1>3, <1>4, <1>5 DEF ToldFits, EventFits, DirectFits, RoomFits, InTransaction, Standing
<1>7. HeardFits(e)' /\ NoticesFit(e)'
  BY <1>1, <1>2, <1>3, <1>4 DEF ToldFits, HeardFits, NoticesFit, InTransaction
<1> QED
  BY <1>1, <1>3, <1>6, <1>7, OnlyEventStep DEF ToldFits

LEMMA ListAdminsKeeps ==
    ASSUME NoticesInv, NEW e \in Events, ListBranchAdmins(e)
    PROVE  NoticesInv'
<1>1. PICK room \in {"done", "store"} :
        /\ room = "done" => roster = {}
        /\ OnlyEvent(e, [event[e] EXCEPT !.listed = roster, !.room = room])
  BY DEF ListBranchAdmins
<1> DEFINE how == [event[e] EXCEPT !.listed = roster, !.room = room]
<1>2. event[e].room = "list" /\ OnlyEvent(e, how)
  BY <1>1 DEF ListBranchAdmins
<1>3. event[e] \in Happening /\ ToldFits(e) /\ roster \subseteq Crew
  BY DEF NoticesInv, NoticesTyped
<1>4. /\ how \in Happening /\ how.kind = event[e].kind /\ how.txn = event[e].txn
      /\ how.parts = event[e].parts /\ how.aim = event[e].aim /\ how.draft = event[e].draft
      /\ how.others = event[e].others /\ how.listed = roster /\ how.direct = event[e].direct
      /\ how.room = room
  BY <1>1, <1>3 DEF Happening
<1> HIDE DEF how
<1>5. /\ event'[e] = how
      /\ UNCHANGED <<repairOrder, notices, heard, roster, shifted, tab>>
  BY <1>2, <1>4, OnlyEventShape
<1>6. event[e].kind # "none"
  BY <1>2, <1>3, NotYetIsOne DEF ToldFits, EventFits
<1>7. EventFits(e)' /\ DirectFits(e)'
  BY <1>2, <1>3, <1>4, <1>5, <1>6 DEF ToldFits, EventFits, DirectFits, InTransaction
<1>8. RoomFits(e)'
  BY <1>1, <1>2, <1>3, <1>4, <1>5 DEF ToldFits, RoomFits, Standing
<1>9. HeardFits(e)' /\ NoticesFit(e)'
  BY <1>1, <1>2, <1>3, <1>4, <1>5 DEF ToldFits, HeardFits, NoticesFit, InTransaction
<1> QED
  BY <1>2, <1>4, <1>7, <1>8, <1>9, OnlyEventStep DEF ToldFits

LEMMA CommitEventKeeps ==
    ASSUME NoticesInv, NEW e \in Events, CommitEvent(e)
    PROVE  NoticesInv'
<1>1. /\ event[e].txn = "open" /\ event[e].parts = {}
      /\ event[e].kind = "assign" => event[e].direct = "done"
      /\ repairOrder' = [repairOrder EXCEPT !.there = TRUE, !.team = repairOrder.team \cup event[e].aim]
      /\ notices' = notices \cup (event[e].draft \X {e})
      /\ UNCHANGED <<heard, memberVars, tabVars>>
      /\ UNCHANGED <<heard, roster, shifted, tab>>
  BY DEF CommitEvent, EndEvent, memberVars, tabVars
<1>2. PICK room \in {"none", "list", "store", "send", "done"} :
        /\ room = IF event[e].kind = "create" THEN "list" ELSE event[e].room
        /\ event' = [event EXCEPT ![e] = [event[e] EXCEPT !.txn = "committed", !.draft = {}, !.room = room]]
  <2>1. event[e].room \in {"none", "list", "store", "send", "done"}
    BY DEF NoticesInv, NoticesTyped, Happening
  <2> QED
    BY <2>1 DEF CommitEvent, EndEvent
<1>3. event \in [Events -> Happening] /\ event[e] \in Happening /\ ToldFits(e)
  BY DEF NoticesInv, NoticesTyped
<1> DEFINE how == [event[e] EXCEPT !.txn = "committed", !.draft = {}, !.room = room]
<1>4. /\ how \in Happening /\ how.kind = event[e].kind /\ how.txn = "committed"
      /\ how.parts = {} /\ how.aim = event[e].aim /\ how.draft = {}
      /\ how.others = event[e].others /\ how.listed = event[e].listed /\ how.direct = event[e].direct
      /\ how.room = room
  BY <1>1, <1>3 DEF Happening
<1>5. event' = [event EXCEPT ![e] = how]
  BY <1>2
<1> HIDE DEF how
<1>6. /\ event'[e] = how /\ event' \in [Events -> Happening]
      /\ \A f \in Events : f # e => event'[f] = event[f]
  BY <1>3, <1>4, <1>5
<1>7. event[e].kind # "none"
  BY <1>1, <1>3, NotYetIsOne DEF ToldFits, EventFits
<1>8. event[e].draft \subseteq Crew /\ event[e].aim \subseteq Crew
  BY <1>3 DEF Happening
<1>9. /\ repairOrder' \in [there : BOOLEAN, deleted : BOOLEAN, team : SUBSET Crew]
      /\ repairOrder'.there
  BY <1>1, <1>8 DEF NoticesInv, NoticesTyped
<1>10. /\ notices' \subseteq Crew \X Events
       /\ \A a \in Crew : <<a, e>> \in notices' <=> <<a, e>> \in notices \/ a \in event[e].draft
       /\ \A f \in Events : f # e => \A a \in Crew : <<a, f>> \in notices' <=> <<a, f>> \in notices
  BY <1>1, <1>8 DEF NoticesInv, NoticesTyped
<1>11. EventFits(e)'
  BY <1>1, <1>3, <1>4, <1>6, <1>7, <1>9 DEF ToldFits, EventFits
<1>12. DirectFits(e)'
  BY <1>1, <1>3, <1>4, <1>6, <1>8, <1>10 DEF ToldFits, DirectFits, EventFits, InTransaction
<1>13. RoomFits(e)'
  <2>1. Standing' = Standing /\ Standing \subseteq Crew
    BY <1>1 DEF Standing, NoticesInv, NoticesTyped
  <2> QED
    BY <1>1, <1>2, <1>3, <1>4, <1>6, <1>10, <2>1 DEF ToldFits, RoomFits
<1>14. HeardFits(e)'
  <2> SUFFICES ASSUME NEW t \in Tabs, <<t, e>> \in heard
               PROVE  /\ tab[t].state # "closed"
                      /\ \/ <<tab[t].owner, e>> \in notices'
                         \/ event'[e].kind = "call"
                         \/ InTransaction(e)' /\ event'[e].txn # "committed"
                         \/ event'[e].room # "none" /\ tab[t].owner \in shifted
    BY <1>1, <1>4, <1>6 DEF HeardFits
  <2>1. tab[t].state # "closed" /\ tab[t].owner \in Crew
    BY <1>3 DEF ToldFits, HeardFits, NoticesInv, MembersFit
  <2>2. CASE InTransaction(e)
    <3>1. tab[t].owner \in event[e].draft
      BY <1>1, <1>3, <2>2 DEF ToldFits, HeardFits
    <3> QED
      BY <1>10, <2>1, <3>1
  <2>3. CASE ~InTransaction(e)
    BY <1>2, <1>3, <1>4, <1>6, <1>10, <2>1, <2>3 DEF ToldFits, HeardFits, InTransaction
  <2> QED
    BY <2>1, <2>2, <2>3
<1>15. NoticesFit(e)'
  <2>1. event[e].kind = "assign" => event[e].draft \subseteq event[e].aim
    BY <1>3 DEF ToldFits, DirectFits, InTransaction
  <2> QED
    BY <1>3, <1>4, <1>6, <1>9, <1>10, <2>1 DEF ToldFits, NoticesFit
<1>16. ToldFits(e)'
  BY <1>11, <1>12, <1>13, <1>14, <1>15 DEF ToldFits
<1>17. heard' \subseteq Tabs \X Events
  BY <1>1 DEF NoticesInv, NoticesTyped
<1> QED
  BY <1>1, <1>6, <1>9, <1>10, <1>16, <1>17, EventStep

LEMMA StoreNoticesKeeps ==
    ASSUME NoticesInv, NEW e \in Events, StoreNotices(e)
    PROVE  NoticesInv'
<1>1. /\ event[e].direct = "store"
      /\ UNCHANGED <<repairOrder, heard, memberVars, tabVars>>
      /\ UNCHANGED <<roster, shifted, tab>>
  BY DEF StoreNotices, memberVars, tabVars
<1>2. /\ event \in [Events -> Happening] /\ event[e] \in Happening /\ ToldFits(e)
      /\ notices \subseteq Crew \X Events /\ heard \subseteq Tabs \X Events
      /\ repairOrder \in [there : BOOLEAN, deleted : BOOLEAN, team : SUBSET Crew]
      /\ repairOrder.team # {} \/ repairOrder.deleted => repairOrder.there
  BY DEF NoticesInv, NoticesTyped
<1>3. event[e].kind \notin {"none", "move", "update"} /\ event[e].aim \subseteq Crew
  BY <1>1, <1>2 DEF ToldFits, EventFits, Happening
<1>4. Standing' = Standing /\ Standing \subseteq Crew
  BY <1>1 DEF Standing, NoticesInv, NoticesTyped
<1>5. CASE InTransaction(e)
  <2>1. PICK direct \in {"send", "lost"}, draft \in {event[e].aim, event[e].draft} :
          /\ event' = [event EXCEPT ![e] = [event[e] EXCEPT !.direct = direct, !.draft = draft]]
          /\ direct = "send" <=> event[e].txn = "open"
          /\ direct = "send" => draft = event[e].aim
          /\ direct = "lost" => draft = event[e].draft
    <3>1. CASE event[e].txn = "open"
      BY <1>5, <3>1 DEF StoreNotices
    <3>2. CASE event[e].txn # "open"
      <4>1. event' = [event EXCEPT ![e] = [event[e] EXCEPT !.direct = "lost"]]
        BY <1>5, <3>2 DEF StoreNotices
      <4>2. [event[e] EXCEPT !.direct = "lost"] = [event[e] EXCEPT !.direct = "lost", !.draft = event[e].draft]
        BY <1>2 DEF Happening
      <4> QED
        BY <3>2, <4>1, <4>2
    <3> QED
      BY <3>1, <3>2
  <2>2. notices' = notices
    BY <1>5 DEF StoreNotices
  <2> DEFINE how == [event[e] EXCEPT !.direct = direct, !.draft = draft]
  <2>3. /\ how \in Happening /\ how.kind = event[e].kind /\ how.txn = event[e].txn
        /\ how.parts = event[e].parts /\ how.aim = event[e].aim /\ how.draft = draft
        /\ how.others = event[e].others /\ how.listed = event[e].listed /\ how.direct = direct
        /\ how.room = event[e].room
    BY <1>2, <2>1 DEF Happening
  <2>4. event' = [event EXCEPT ![e] = how]
    BY <2>1
  <2> HIDE DEF how
  <2>5. /\ event'[e] = how /\ event' \in [Events -> Happening]
        /\ \A f \in Events : f # e => event'[f] = event[f]
    BY <1>2, <2>3, <2>4
  <2>6. EventFits(e)'
    BY <1>1, <1>2, <1>3, <2>3, <2>5 DEF ToldFits, EventFits
  <2>7. DirectFits(e)'
    BY <1>1, <1>2, <1>5, <2>1, <2>2, <2>3, <2>5 DEF ToldFits, DirectFits, InTransaction
  <2>8. RoomFits(e)'
    BY <1>2, <1>4, <2>2, <2>3, <2>5 DEF ToldFits, RoomFits
  <2>9. HeardFits(e)'
    <3> SUFFICES ASSUME NEW t \in Tabs, <<t, e>> \in heard
                 PROVE  /\ tab[t].state # "closed"
                        /\ event[e].txn = "open" => tab[t].owner \in draft
                        /\ \/ <<tab[t].owner, e>> \in notices
                           \/ event[e].txn # "committed"
                           \/ event[e].room # "none" /\ tab[t].owner \in shifted
      BY <1>1, <1>5, <2>2, <2>3, <2>5 DEF HeardFits, InTransaction
    <3>1. /\ tab[t].state # "closed"
          /\ event[e].txn = "open" => tab[t].owner \in event[e].draft
          /\ \/ <<tab[t].owner, e>> \in notices
             \/ event[e].txn # "committed"
             \/ event[e].room # "none" /\ tab[t].owner \in shifted
      BY <1>2, <1>5 DEF ToldFits, HeardFits, InTransaction
    <3>2. event[e].draft \subseteq event[e].aim
      BY <1>2, <1>5 DEF ToldFits, DirectFits
    <3> QED
      BY <2>1, <3>1, <3>2
  <2>10. NoticesFit(e)'
    BY <1>1, <1>2, <2>2, <2>3, <2>5 DEF ToldFits, NoticesFit
  <2>11. ToldFits(e)'
    BY <2>6, <2>7, <2>8, <2>9, <2>10 DEF ToldFits
  <2> QED
    BY <1>1, <1>2, <2>2, <2>5, <2>11, EventStep
<1>6. CASE ~InTransaction(e)
  <2>1. /\ event' = [event EXCEPT ![e] = [event[e] EXCEPT !.direct = "send"]]
        /\ notices' = notices \cup (event[e].aim \X {e})
    BY <1>6 DEF StoreNotices
  <2> DEFINE how == [event[e] EXCEPT !.direct = "send"]
  <2>2. /\ how \in Happening /\ how.kind = event[e].kind /\ how.txn = event[e].txn
        /\ how.parts = event[e].parts /\ how.aim = event[e].aim /\ how.draft = event[e].draft
        /\ how.others = event[e].others /\ how.listed = event[e].listed /\ how.direct = "send"
        /\ how.room = event[e].room
    BY <1>2 DEF Happening
  <2>3. event' = [event EXCEPT ![e] = how]
    BY <2>1
  <2> HIDE DEF how
  <2>4. /\ event'[e] = how /\ event' \in [Events -> Happening]
        /\ \A f \in Events : f # e => event'[f] = event[f]
    BY <1>2, <2>2, <2>3
  <2>5. /\ notices' \subseteq Crew \X Events
        /\ \A a \in Crew : <<a, e>> \in notices' <=> <<a, e>> \in notices \/ a \in event[e].aim
        /\ \A f \in Events : f # e => \A a \in Crew : <<a, f>> \in notices' <=> <<a, f>> \in notices
    BY <1>2, <1>3, <2>1
  <2>6. event[e].kind \in {"webhook", "open", "call"} /\ event[e].txn = "committed" /\ repairOrder.there
    BY <1>2, <1>3, <1>6 DEF ToldFits, EventFits, InTransaction, Happening
  <2>7. EventFits(e)'
    BY <1>1, <1>2, <1>3, <2>2, <2>4 DEF ToldFits, EventFits
  <2>8. DirectFits(e)'
    BY <1>3, <2>2, <2>4, <2>5, <2>6 DEF DirectFits, InTransaction
  <2>9. RoomFits(e)'
    BY <1>2, <1>4, <2>2, <2>4, <2>5 DEF ToldFits, RoomFits
  <2>10. HeardFits(e)'
    <3> SUFFICES ASSUME NEW t \in Tabs, <<t, e>> \in heard
                 PROVE  /\ tab[t].state # "closed"
                        /\ \/ <<tab[t].owner, e>> \in notices'
                           \/ event[e].kind = "call"
                           \/ event[e].room # "none" /\ tab[t].owner \in shifted
      BY <1>1, <2>2, <2>4, <2>6 DEF HeardFits, InTransaction
    <3>1. tab[t].owner \in Crew
      BY <1>2 DEF ToldFits, HeardFits, NoticesInv, MembersFit
    <3> QED
      BY <1>2, <1>6, <2>5, <3>1 DEF ToldFits, HeardFits
  <2>11. NoticesFit(e)'
    BY <1>1, <2>2, <2>4, <2>6 DEF NoticesFit
  <2>12. ToldFits(e)'
    BY <2>7, <2>8, <2>9, <2>10, <2>11 DEF ToldFits
  <2> QED
    BY <1>1, <1>2, <2>4, <2>5, <2>12, EventStep
<1> QED
  BY <1>5, <1>6

LEMMA BroadcastAdminsKeeps ==
    ASSUME NoticesInv, NEW e \in Events, broadcastToAdmins(e)
    PROVE  NoticesInv'
<1>1. /\ event[e].direct = "send"
      /\ heard' = heard \cup ({t \in Tabs : \E a \in event[e].aim : socketOf[a] = t} \X {e})
      /\ UNCHANGED <<repairOrder, notices, memberVars, tabVars>>
      /\ UNCHANGED <<roster, shifted, tab>>
  BY DEF broadcastToAdmins, memberVars, tabVars
<1>2. /\ event \in [Events -> Happening] /\ event[e] \in Happening /\ ToldFits(e)
      /\ notices \subseteq Crew \X Events /\ heard \subseteq Tabs \X Events
      /\ repairOrder \in [there : BOOLEAN, deleted : BOOLEAN, team : SUBSET Crew]
      /\ repairOrder.team # {} \/ repairOrder.deleted => repairOrder.there
      /\ event[e].aim \subseteq Crew /\ event[e].others \subseteq Crew
  BY DEF NoticesInv, NoticesTyped, Happening
<1>3. PICK direct \in {"done", "store"}, aim \in SUBSET Crew, others \in SUBSET Crew :
        /\ event' = [event EXCEPT ![e] = [event[e] EXCEPT !.direct = direct, !.aim = aim, !.others = others]]
        /\ direct = "done" => aim = event[e].aim
        /\ others = {}
        /\ direct = "store" => event[e].others # {}
  <2>1. CASE event[e].others = {}
    <3>1. event' = [event EXCEPT ![e] = [event[e] EXCEPT !.direct = "done"]]
      BY <2>1 DEF broadcastToAdmins
    <3>2. [event[e] EXCEPT !.direct = "done"]
          = [event[e] EXCEPT !.direct = "done", !.aim = event[e].aim, !.others = event[e].others]
      BY <1>2 DEF Happening
    <3> QED
      BY <1>2, <2>1, <3>1, <3>2
  <2>2. CASE event[e].others # {}
    <3>1. event' = [event EXCEPT ![e] = [event[e] EXCEPT !.direct = "store", !.aim = event[e].others,
                                                         !.others = {}]]
      BY <2>2 DEF broadcastToAdmins
    <3> QED
      BY <1>2, <2>2, <3>1
  <2> QED
    BY <2>1, <2>2
<1> DEFINE how == [event[e] EXCEPT !.direct = direct, !.aim = aim, !.others = others]
<1>4. /\ how \in Happening /\ how.kind = event[e].kind /\ how.txn = event[e].txn
      /\ how.parts = event[e].parts /\ how.aim = aim /\ how.draft = event[e].draft
      /\ how.others = {} /\ how.listed = event[e].listed /\ how.direct = direct
      /\ how.room = event[e].room
  BY <1>2, <1>3 DEF Happening
<1>5. event' = [event EXCEPT ![e] = how]
  BY <1>3
<1> HIDE DEF how
<1>6. /\ event'[e] = how /\ event' \in [Events -> Happening]
      /\ \A f \in Events : f # e => event'[f] = event[f]
  BY <1>2, <1>4, <1>5
<1>7. /\ event[e].kind \notin {"none", "move", "update"} /\ "admins" \notin event[e].parts
      /\ direct = "store" => event[e].kind = "webhook"
  BY <1>1, <1>2, <1>3 DEF ToldFits, EventFits
<1>8. EventFits(e)'
  BY <1>1, <1>2, <1>4, <1>6, <1>7 DEF ToldFits, EventFits
<1>9. DirectFits(e)'
  BY <1>1, <1>2, <1>3, <1>4, <1>6, <1>7 DEF ToldFits, DirectFits, InTransaction
<1>10. RoomFits(e)'
  BY <1>1, <1>2, <1>4, <1>6 DEF ToldFits, RoomFits, Standing
<1>11. /\ heard' \subseteq Tabs \X Events
       /\ \A t \in Tabs : <<t, e>> \in heard' => <<t, e>> \in heard \/ \E a \in event[e].aim : socketOf[a] = t
       /\ \A f \in Events : f # e => \A t \in Tabs : <<t, f>> \in heard' <=> <<t, f>> \in heard
  BY <1>1, <1>2
<1>12. HeardFits(e)'
  <2> SUFFICES ASSUME NEW t \in Tabs, <<t, e>> \in heard'
               PROVE  /\ tab[t].state # "closed"
                      /\ InTransaction(e) /\ event[e].txn = "open" => tab[t].owner \in event[e].draft
                      /\ \/ <<tab[t].owner, e>> \in notices
                         \/ event[e].kind = "call"
                         \/ InTransaction(e) /\ event[e].txn # "committed"
                         \/ event[e].room # "none" /\ tab[t].owner \in shifted
    BY <1>1, <1>4, <1>6 DEF HeardFits, InTransaction
  <2>1. CASE <<t, e>> \in heard
    BY <1>2, <2>1 DEF ToldFits, HeardFits
  <2>2. CASE \E a \in event[e].aim : socketOf[a] = t
    <3>1. PICK a \in event[e].aim : socketOf[a] = t
      BY <2>2
    <3>2. tab[t].state = "on" /\ tab[t].owner = a
      BY <1>2, <3>1, NoTabAssumption DEF NoticesInv, SocketsFit, LatestHears
    <3>3. CASE InTransaction(e)
      BY <1>1, <1>2, <3>1, <3>2, <3>3 DEF ToldFits, DirectFits
    <3>4. CASE ~InTransaction(e)
      <4>1. event[e].kind \in {"webhook", "open", "call"}
        BY <1>2, <1>7, <3>4 DEF Happening, InTransaction
      <4> QED
        BY <1>1, <1>2, <3>1, <3>2, <3>4, <4>1 DEF ToldFits, DirectFits
    <3> QED
      BY <3>3, <3>4
  <2> QED
    BY <1>11, <2>1, <2>2
<1>13. NoticesFit(e)'
  BY <1>1, <1>2, <1>3, <1>4, <1>6, <1>7 DEF ToldFits, NoticesFit
<1>14. ToldFits(e)'
  BY <1>8, <1>9, <1>10, <1>12, <1>13 DEF ToldFits
<1> QED
  BY <1>1, <1>2, <1>6, <1>11, <1>14, EventStep

LEMMA StoreBranchKeeps ==
    ASSUME NoticesInv, NEW e \in Events, StoreBranchNotices(e)
    PROVE  NoticesInv'
<1> DEFINE how == [event[e] EXCEPT !.room = "send", !.listed = {}]
<1>1. /\ event[e].room = "store" /\ event' = [event EXCEPT ![e] = how]
      /\ notices' = notices \cup (event[e].listed \X {e})
      /\ UNCHANGED <<repairOrder, heard, memberVars, tabVars>>
      /\ UNCHANGED <<roster, shifted, tab>>
  BY DEF StoreBranchNotices, memberVars, tabVars
<1>2. /\ event \in [Events -> Happening] /\ event[e] \in Happening /\ ToldFits(e)
      /\ notices \subseteq Crew \X Events /\ heard \subseteq Tabs \X Events
      /\ repairOrder \in [there : BOOLEAN, deleted : BOOLEAN, team : SUBSET Crew]
      /\ repairOrder.team # {} \/ repairOrder.deleted => repairOrder.there
      /\ event[e].listed \subseteq Crew
  BY DEF NoticesInv, NoticesTyped, Happening
<1>3. /\ how \in Happening /\ how.kind = event[e].kind /\ how.txn = event[e].txn
      /\ how.parts = event[e].parts /\ how.aim = event[e].aim /\ how.draft = event[e].draft
      /\ how.others = event[e].others /\ how.direct = event[e].direct
      /\ how.room = "send"
  BY <1>2 DEF Happening
<1> HIDE DEF how
<1>4. /\ event'[e] = how /\ event' \in [Events -> Happening]
      /\ \A f \in Events : f # e => event'[f] = event[f]
  BY <1>1, <1>2, <1>3
<1>5. /\ notices' \subseteq Crew \X Events
      /\ \A a \in Crew : <<a, e>> \in notices' <=> <<a, e>> \in notices \/ a \in event[e].listed
      /\ \A f \in Events : f # e => \A a \in Crew : <<a, f>> \in notices' <=> <<a, f>> \in notices
  BY <1>1, <1>2
<1>6. /\ \/ event[e].kind = "create" /\ event[e].txn = "committed"
         \/ event[e].kind \in {"move", "update"}
      /\ repairOrder.there /\ event[e].kind = "update" => event[e].txn = "committed"
      /\ repairOrder.there
  BY <1>1, <1>2 DEF ToldFits, RoomFits, EventFits
<1>7. EventFits(e)'
  BY <1>1, <1>2, <1>3, <1>4, <1>6 DEF ToldFits, EventFits
<1>8. event[e].aim \subseteq Crew
  BY <1>2 DEF Happening
<1>9. DirectFits(e)'
  BY <1>2, <1>3, <1>4, <1>5, <1>8 DEF ToldFits, DirectFits, InTransaction
<1>10. RoomFits(e)'
  <2>1. Standing \subseteq Crew /\ Standing' = Standing
    BY <1>1 DEF Standing, NoticesInv, NoticesTyped
  <2> QED
    BY <1>1, <1>2, <1>3, <1>4, <1>5, <2>1 DEF ToldFits, RoomFits
<1>11. HeardFits(e)'
  <2> SUFFICES ASSUME NEW t \in Tabs, <<t, e>> \in heard
               PROVE  /\ tab[t].state # "closed"
                      /\ InTransaction(e) /\ event[e].txn = "open" => tab[t].owner \in event[e].draft
                      /\ \/ <<tab[t].owner, e>> \in notices'
                         \/ event[e].kind = "call"
                         \/ InTransaction(e) /\ event[e].txn # "committed"
                         \/ event[e].room # "none" /\ tab[t].owner \in shifted
    BY <1>1, <1>3, <1>4 DEF HeardFits, InTransaction
  <2>1. tab[t].owner \in Crew
    BY <1>2 DEF ToldFits, HeardFits, NoticesInv, MembersFit
  <2> QED
    BY <1>2, <1>5, <2>1 DEF ToldFits, HeardFits
<1>12. NoticesFit(e)'
  BY <1>1, <1>2, <1>3, <1>4, <1>5, <1>6 DEF ToldFits, NoticesFit
<1>13. ToldFits(e)'
  BY <1>7, <1>9, <1>10, <1>11, <1>12 DEF ToldFits
<1> QED
  BY <1>1, <1>2, <1>4, <1>5, <1>13, EventStep

LEMMA BroadcastBranchKeeps ==
    ASSUME NoticesInv, NEW e \in Events, broadcastToBranch(e)
    PROVE  NoticesInv'
<1> DEFINE how == [event[e] EXCEPT !.room = "done"]
<1>1. /\ event[e].room = "send" /\ event' = [event EXCEPT ![e] = how]
      /\ heard' = heard \cup ({t \in Tabs : tab[t].rooms = "joined" /\ tab[t].room} \X {e})
      /\ UNCHANGED <<repairOrder, notices, memberVars, tabVars>>
      /\ UNCHANGED <<roster, shifted, tab>>
  BY DEF broadcastToBranch, memberVars, tabVars
<1>2. /\ event \in [Events -> Happening] /\ event[e] \in Happening /\ ToldFits(e)
      /\ notices \subseteq Crew \X Events /\ heard \subseteq Tabs \X Events
      /\ repairOrder \in [there : BOOLEAN, deleted : BOOLEAN, team : SUBSET Crew]
      /\ repairOrder.team # {} \/ repairOrder.deleted => repairOrder.there
  BY DEF NoticesInv, NoticesTyped
<1>3. /\ how \in Happening /\ how.kind = event[e].kind /\ how.txn = event[e].txn
      /\ how.parts = event[e].parts /\ how.aim = event[e].aim /\ how.draft = event[e].draft
      /\ how.others = event[e].others /\ how.listed = event[e].listed /\ how.direct = event[e].direct
      /\ how.room = "done"
  BY <1>2 DEF Happening
<1> HIDE DEF how
<1>4. /\ event'[e] = how /\ event' \in [Events -> Happening]
      /\ \A f \in Events : f # e => event'[f] = event[f]
  BY <1>1, <1>2, <1>3
<1>5. \/ event[e].kind = "create" /\ event[e].txn = "committed"
      \/ event[e].kind \in {"move", "update"}
  BY <1>1, <1>2 DEF ToldFits, RoomFits
<1>6. EventFits(e)' /\ DirectFits(e)'
  BY <1>1, <1>2, <1>3, <1>4, <1>5 DEF ToldFits, EventFits, DirectFits, InTransaction
<1>7. RoomFits(e)'
  BY <1>1, <1>2, <1>3, <1>4 DEF ToldFits, RoomFits, Standing
<1>8. /\ heard' \subseteq Tabs \X Events
      /\ \A t \in Tabs : <<t, e>> \in heard' =>
            <<t, e>> \in heard \/ (tab[t].rooms = "joined" /\ tab[t].room)
      /\ \A f \in Events : f # e => \A t \in Tabs : <<t, f>> \in heard' <=> <<t, f>> \in heard
  BY <1>1, <1>2
<1>9. HeardFits(e)'
  <2> SUFFICES ASSUME NEW t \in Tabs, <<t, e>> \in heard'
               PROVE  /\ tab[t].state # "closed"
                      /\ InTransaction(e) /\ event[e].txn = "open" => tab[t].owner \in event[e].draft
                      /\ \/ <<tab[t].owner, e>> \in notices
                         \/ event[e].kind = "call"
                         \/ InTransaction(e) /\ event[e].txn # "committed"
                         \/ tab[t].owner \in shifted
    BY <1>1, <1>3, <1>4 DEF HeardFits, InTransaction
  <2>1. CASE <<t, e>> \in heard
    BY <1>2, <2>1 DEF ToldFits, HeardFits
  <2>2. CASE tab[t].rooms = "joined" /\ tab[t].room
    <3>1. tab[t].state # "closed" /\ (tab[t].owner \notin shifted => tab[t].owner \in Standing)
      BY <2>2 DEF NoticesInv, MembersFit, Standing
    <3>2. ~(InTransaction(e) /\ event[e].txn = "open")
      BY <1>5 DEF InTransaction
    <3> QED
      BY <1>1, <1>2, <3>1, <3>2 DEF ToldFits, RoomFits
  <2> QED
    BY <1>8, <2>1, <2>2
<1>10. NoticesFit(e)'
  BY <1>1, <1>2, <1>3, <1>4 DEF ToldFits, NoticesFit
<1>11. ToldFits(e)'
  BY <1>6, <1>7, <1>9, <1>10 DEF ToldFits
<1> QED
  BY <1>1, <1>2, <1>4, <1>8, <1>11, EventStep

\* Nothing that was told depends on who is assigned, nor on the order being listed.
LEMMA TeamStep ==
    ASSUME NoticesInv, UNCHANGED <<event, notices, heard, memberVars, tabVars>>,
           repairOrder' \in [there : BOOLEAN, deleted : BOOLEAN, team : SUBSET Crew],
           repairOrder.there, repairOrder'.there
    PROVE  NoticesInv'
<1>1. UNCHANGED <<roster, shifted, unflushed, roomsKnown, tab, socketOf, newest, event, notices, heard>>
  BY DEF memberVars, tabVars
<1>2. NoticesTyped' /\ MembersFit' /\ SocketsFit'
  BY <1>1 DEF NoticesInv, NoticesTyped, MembersFit, SocketsFit, LatestHears
<1>3. ASSUME NEW e \in Events PROVE ToldFits(e)'
  <2>1. ToldFits(e)
    BY DEF NoticesInv
  <2>2. EventFits(e)' /\ DirectFits(e)' /\ NoticesFit(e)'
    BY <1>1, <2>1 DEF ToldFits, EventFits, DirectFits, NoticesFit, InTransaction
  <2>3. RoomFits(e)' /\ HeardFits(e)'
    BY <1>1, <2>1 DEF ToldFits, RoomFits, HeardFits, InTransaction, Standing
  <2> QED
    BY <2>2, <2>3 DEF ToldFits
<1> QED
  BY <1>2, <1>3 DEF NoticesInv

LEMMA RemoveFromTeamKeeps ==
    ASSUME NoticesInv, NEW gone \in SUBSET Crew, RemoveFromTeam(gone)
    PROVE  NoticesInv'
<1>1. /\ repairOrder.there /\ repairOrder' = [repairOrder EXCEPT !.team = repairOrder.team \ gone]
      /\ UNCHANGED <<event, notices, heard, memberVars, tabVars>>
  BY DEF RemoveFromTeam
<1>2. repairOrder \in [there : BOOLEAN, deleted : BOOLEAN, team : SUBSET Crew]
  BY DEF NoticesInv, NoticesTyped
<1>3. /\ repairOrder' \in [there : BOOLEAN, deleted : BOOLEAN, team : SUBSET Crew]
      /\ repairOrder'.there
  BY <1>1, <1>2
<1> QED
  BY <1>1, <1>3, TeamStep

LEMMA AssignSilentlyKeeps ==
    ASSUME NoticesInv, NEW a \in Crew, NEW gone \in SUBSET Crew, AssignSilently(a, gone)
    PROVE  NoticesInv'
<1>1. /\ repairOrder.there
      /\ repairOrder' = [repairOrder EXCEPT !.team = (repairOrder.team \ gone) \cup {a}]
      /\ UNCHANGED <<event, notices, heard, memberVars, tabVars>>
  BY DEF AssignSilently, InUse
<1>2. repairOrder \in [there : BOOLEAN, deleted : BOOLEAN, team : SUBSET Crew]
  BY DEF NoticesInv, NoticesTyped
<1>3. /\ repairOrder' \in [there : BOOLEAN, deleted : BOOLEAN, team : SUBSET Crew]
      /\ repairOrder'.there
  BY <1>1, <1>2
<1> QED
  BY <1>1, <1>3, TeamStep

LEMMA MarkDeletedKeeps ==
    ASSUME NoticesInv, MarkDeleted
    PROVE  NoticesInv'
<1>1. /\ repairOrder.there /\ repairOrder' = [repairOrder EXCEPT !.deleted = TRUE]
      /\ UNCHANGED <<event, notices, heard, memberVars, tabVars>>
  BY DEF MarkDeleted, InUse
<1>2. repairOrder \in [there : BOOLEAN, deleted : BOOLEAN, team : SUBSET Crew]
  BY DEF NoticesInv, NoticesTyped
<1>3. /\ repairOrder' \in [there : BOOLEAN, deleted : BOOLEAN, team : SUBSET Crew]
      /\ repairOrder'.there
  BY <1>1, <1>2
<1> QED
  BY <1>1, <1>3, TeamStep

LEMMA NoticesNextInv == NoticesInv /\ [NoticesNext]_noticeVars => NoticesInv'
<1> SUFFICES ASSUME NoticesInv, [NoticesNext]_noticeVars PROVE NoticesInv'
  OBVIOUS
<1>1. CASE UNCHANGED noticeVars
  <2>1. UNCHANGED <<memberVars, tabVars, orderVars>>
    BY <1>1 DEF noticeVars
  <2>2. UNCHANGED <<roster, roomsKnown, unflushed, shifted, tab, socketOf, newest, repairOrder, event,
                    notices, heard>>
    BY <2>1 DEF memberVars, tabVars, orderVars
  <2>3. \A e \in Events : ToldFits(e)'
    BY <2>1, <2>2, RosterStep DEF Standing
  <2> QED
    BY <2>2, <2>3 DEF NoticesInv, NoticesTyped, MembersFit, SocketsFit, LatestHears
<1>2. ASSUME NEW t \in Tabs,
             \/ \E a \in Crew : Connect(t, a)
             \/ FindKnownRooms(t) \/ ReadRooms(t) \/ JoinRooms(t)
             \/ handleDisconnect(t)
      PROVE  NoticesInv'
  BY <1>2, ConnectKeeps, FindKnownKeeps, ReadRoomsKeeps, JoinRoomsKeeps, DisconnectKeeps
<1>3. ASSUME NEW a \in Crew, ChangeRoster(a) \/ ForgetRooms(a) PROVE NoticesInv'
  BY <1>3, ChangeRosterKeeps, ForgetRoomsKeeps
<1>4. ASSUME NEW e \in Events, BeginOrder(e) \/ MoveOrder(e) \/ TellBranch(e) PROVE NoticesInv'
  BY <1>4, BeginOrderKeeps, MoveOrderKeeps, TellBranchKeeps
<1>5. ASSUME NEW e \in Events, NEW aim \in SUBSET Crew,
             insertAssignAdmins(e, aim) \/ AssignOrder(e, aim) \/ AnnounceCall(e, aim)
      PROVE  NoticesInv'
  BY <1>5, InsertAdminsKeeps, AssignOrderKeeps, AnnounceKeeps
<1>6. ASSUME NEW e \in Events, NEW a \in Crew, TellOperator(e, a) \/ notifyAdminToOpenRepairOrder(e, a)
      PROVE  NoticesInv'
  BY <1>6, TellOperatorKeeps, OpenKeeps
<1>7. ASSUME NEW e \in Events, NEW part \in OrderParts, WritePart(e, part) PROVE NoticesInv'
  BY <1>7, WritePartKeeps
<1>8. ASSUME NEW e \in Events, UndoEvent(e) \/ CommitEvent(e) PROVE NoticesInv'
  BY <1>8, UndoKeeps, CommitEventKeeps
<1>9. ASSUME NEW e \in Events, StoreNotices(e) \/ broadcastToAdmins(e) PROVE NoticesInv'
  BY <1>9, StoreNoticesKeeps, BroadcastAdminsKeeps
<1>10. ASSUME NEW e \in Events, ListBranchAdmins(e) \/ StoreBranchNotices(e) \/ broadcastToBranch(e)
       PROVE  NoticesInv'
  BY <1>10, ListAdminsKeeps, StoreBranchKeeps, BroadcastBranchKeeps
<1>11. ASSUME NEW gone \in SUBSET Crew,
              RemoveFromTeam(gone) \/ \E a \in Crew : AssignSilently(a, gone)
       PROVE  NoticesInv'
  BY <1>11, RemoveFromTeamKeeps, AssignSilentlyKeeps
<1>12. CASE MarkDeleted
  BY <1>12, MarkDeletedKeeps
<1> QED
  BY <1>1, <1>2, <1>3, <1>4, <1>5, <1>6, <1>7, <1>8, <1>9, <1>10, <1>11, <1>12 DEF NoticesNext

LEMMA NoticesInvariant == NoticesSpec => []NoticesInv
BY NoticesInitInv, NoticesNextInv, PTL DEF NoticesSpec

LEMMA NoticesAreTyped == NoticesInv => NoticesTypeOK
<1> SUFFICES ASSUME NoticesInv PROVE NoticesTypeOK
  OBVIOUS
<1>1. NoticesTyped
  BY DEF NoticesInv
<1>2. \A t \in Tabs : /\ tab[t].state \in {"closed", "on", "gone"}
                      /\ tab[t].rooms \in {"unread", "read", "joined"}
  BY <1>1 DEF NoticesTyped, Connection
<1>3. \A a \in Crew : /\ socketOf[a] \in Tabs \cup {NoTab}
                      /\ roomsKnown[a] \in {"unknown", "yes", "no"}
  BY <1>1 DEF NoticesTyped
<1> QED
  BY <1>1, <1>2, <1>3 DEF NoticesTyped, NoticesTypeOK

(***************************************************************************)
(* Types: connections, rooms, notices and messages keep to their values.   *)
(***************************************************************************)
THEOREM NoticesTypeCorrect == NoticesSpec => []NoticesTypeOK
<1> QED
  BY NoticesAreTyped, NoticesInvariant, PTL

LEMMA NoticesTell == NoticesInv => NoticesTrue
<1> SUFFICES ASSUME NoticesInv PROVE NoticesTrue
  OBVIOUS
<1>1. ASSUME NEW e \in Events PROVE ToldFits(e)
  BY DEF NoticesInv
<1>2. HeardIsKept
  BY <1>1 DEF HeardIsKept, ToldFits, HeardFits
<1>3. NoticesAreTrue /\ CreatedWhole
  <2>1. ASSUME NEW e \in Events, event[e].kind = "assign", event[e].txn = "committed"
        PROVE  event[e].aim \X {e} \subseteq notices
    BY <1>1, <2>1 DEF ToldFits, EventFits, DirectFits, InTransaction
  <2> QED
    BY <1>1, <2>1 DEF NoticesAreTrue, CreatedWhole, ToldFits, NoticesFit, EventFits
<1>4. LatestHears
  BY DEF NoticesInv, SocketsFit
<1> QED
  BY <1>2, <1>3, <1>4 DEF NoticesTrue

(***************************************************************************)
(* Whoever got a message finds it among the notices, but for what the      *)
(* property excepts; notices are of orders that were committed, though     *)
(* perhaps deleted since, and of what was not rolled back; those of an     *)
(* assignment are of exactly those it took on, though perhaps removed      *)
(* since; a new order is whole; and each administrator's last connection   *)
(* is the one the gateway knows.  Whatever create, assign, remove, delete, *)
(* move, webhooks and the gateway's handlers do beside each other.         *)
(***************************************************************************)
THEOREM NoticesTrueHolds == NoticesSpec => []NoticesTrue
<1> QED
  BY NoticesTell, NoticesInvariant, PTL

===============================================================================
