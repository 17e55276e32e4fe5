--------------------------- MODULE ReferenceLists ---------------------------
(***************************************************************************)
(* The ordered lists an administrator keeps - branches, statuses of repair *)
(* orders, reject causes, regions, operating systems, categories - and     *)
(* what redis remembers of them: answers of findAll and rows by their id.  *)
(* Each handler checks, runs one transaction and then writes or deletes    *)
(* keys of redis; other handlers run between these steps.                  *)
(***************************************************************************)
EXTENDS Integers, FiniteSets, FiniteSetsExt, Sequences, TLC

CONSTANTS
    Kinds,      \* which of the lists behaviours are about
    Items,      \* identifiers of rows, used and unused
    Starts,     \* the rows behaviours may start from
    Sorts,      \* places updateSort is asked for
    Sessions,   \* handlers that run at the same time
    MaxRequests \* bound: requests ever made

Sorted == {"branch", "status", "cause", "phone", "problem"}
CachedById == {"branch", "status", "cause", "region"}

\* Answers of findAll have keys of their own.
ASSUME ItemsAssumption == IsFiniteSet(Items) /\ Items \cap {"own", "child"} = {}
ASSUME KindsAssumption == Kinds \subseteq Sorted \cup {"region", "os"}
ASSUME SortsAssumption == Sorts \subseteq Nat
ASSUME MaxRequestsAssumption == MaxRequests \in Nat

VARIABLES
    kind,       \* the list this behaviour is about
    row,        \* its rows: state, place and the rest of their content
    list,       \* redis: answers of findAll, for the own and for a child branch
    one,        \* redis: rows by their id
    session,    \* what each handler has still to do, and the row it saw
    requests,   \* requests made so far
    late,       \* history: keys somebody wrote late, or nobody saw to
    blurred     \* history: two handlers placed rows at the same time

listVars == <<kind, row, list, one, session, requests, late, blurred>>

Row(state, sort, info) == [state |-> state, sort |-> sort, info |-> info]
ListRows == [state : {"absent", "Open", "Deleted"}, sort : Nat, info : 0 .. 1]

\* Places were given from one upwards, each to one open row.
ASSUME StartsAssumption ==
    \A start \in Starts :
        /\ start \in [Items -> ListRows]
        /\ "cause" \in Kinds => \A i \in Items : start[i].state # "absent" => start[i].sort >= 1
        /\ Kinds \cap Sorted # {} =>
            \A i, j \in Items :
                start[i].state = "Open" /\ start[j].state = "Open" /\ i # j =>
                    start[i].sort # start[j].sort

Open == {i \in Items : row[i].state = "Open"}
Used == {i \in Items : row[i].state # "absent"}
View == [i \in Open |-> row[i]]

Unknown == [known |-> FALSE]
Known(value) == [known |-> TRUE, value |-> value]
NoSession == [todo |-> <<>>, got |-> Unknown, places |-> FALSE, overtaken |-> FALSE]

\* Answers are stored under the branch that was asked for; all statuses are
\* of the Mother branch.
Lists == IF kind = "status" THEN {"own", "child"} ELSE {"own"}

\* getNextSortValue: one more than the largest place among some rows.
NextSort(rows) == 1 + Max({0} \cup {row[i].sort : i \in rows})

\* Keys whose content is not what the database has.
Wrong ==
    {n \in Lists : list[n].known /\ list[n].value # View}
    \cup {i \in Items : one[i].known /\ (row[i].state # "Open" \/ one[i].value # row[i])}

ListsInit ==
    /\ kind \in Kinds
    /\ row \in Starts
    /\ list \in {[n \in {"own", "child"} |-> IF n \in asked THEN Known(View) ELSE Unknown] :
                    asked \in {{}, Lists}}
    /\ one \in {[i \in Items |-> IF i \in asked THEN Known(row[i]) ELSE Unknown] :
                    asked \in {{}, IF kind \in CachedById THEN Open ELSE {}}}
    /\ session = [s \in Sessions |-> NoSession]
    /\ requests = 0
    /\ late = {}
    /\ blurred = FALSE

(***************************************************************************)
(* The steps of a handler after its checks.                                *)
(***************************************************************************)
Put(i, new) == [op |-> "put", id |-> i, row |-> new]
Edit(i) == [op |-> "edit", id |-> i]
Remove(i) == [op |-> "remove", id |-> i]
Shift(i, from, to, all) == [op |-> "shift", id |-> i, from |-> from, to |-> to, all |-> all]
FlushList == [op |-> "flush"]
Forget(rows) == [op |-> "forget", rows |-> rows]
StoreList(n) == [op |-> "list", key |-> n]
StoreOne(i) == [op |-> "one", id |-> i]

\* Who may serve another request.
Ready == {s \in Sessions : session[s] = NoSession /\ requests < MaxRequests}

Begin(s, places, got, todo, misled) ==
    /\ s \in Ready /\ requests' = requests + 1
    /\ session' = [session EXCEPT ![s] =
           [todo |-> todo, got |-> got, places |-> places, overtaken |-> misled]]
    /\ blurred' = (blurred \/ (places /\ (misled \/ \E q \in Sessions : session[q].places)))
    /\ UNCHANGED <<kind, row, list, one, late>>

Start(s, places, got, todo) == Begin(s, places, got, todo, FALSE)

\* The guards of branches and statuses take the row from redis, or else leave
\* it there.
Seen(i) == IF one[i].known THEN one[i].value ELSE row[i]

StartGuarded(s, i, places, todo) ==
    /\ Seen(i).state = "Open"
    /\ Begin(s, places, Known(Seen(i)),
             (IF one[i].known THEN <<>> ELSE <<StoreOne(i)>>) \o todo, i \in Wrong)

Doing(s, ops) == session[s] # NoSession /\ Head(session[s].todo).op \in ops
Step(s) == Head(session[s].todo)

Proceed(s) ==
    /\ session' = [session EXCEPT ![s] =
           IF Len(session[s].todo) = 1 THEN NoSession
           ELSE [session[s] EXCEPT !.todo = Tail(session[s].todo)]]
    /\ UNCHANGED <<kind, requests, blurred>>

\* The keys a step, and those the rest of a handler, sees to.
KeysOf(step) ==
    CASE step.op = "flush"          -> {"own"}
      [] step.op = "forget"         -> step.rows
      [] step.op \in {"one", "put"} -> {step.id}
      [] OTHER                      -> {}

Owed(s) == UNION {KeysOf(session[s].todo[n]) : n \in DOMAIN session[s].todo}

\* The keys nobody sees to when a step is committed: lists asked for by child
\* branches, statuses that came where others were moved, the list of operating
\* systems, the list that was flushed before its branch was created, reject
\* causes that made place for another one.
Unattended(s) ==
    LET step == Head(session[s].todo)
    IN  CASE kind = "status" ->
                {"child"} \cup (IF step.op = "shift" /\ session[s].overtaken THEN Items ELSE {})
          [] kind = "os"                         -> {"own"}
          [] kind = "branch" /\ step.op = "put"  -> {"own"}
          [] kind = "cause" /\ step.op = "shift" -> Open \ {step.id}
          [] OTHER                               -> {}

\* What a commit makes of the rows.
Committed(step) ==
    CASE step.op = "put"    -> [row EXCEPT ![step.id] = step.row]
      [] step.op = "edit"   -> [row EXCEPT ![step.id].info = 1 - @]
      [] step.op = "remove" ->
            IF step.id \in Used THEN [row EXCEPT ![step.id].state = "Deleted"] ELSE row
      [] step.op = "shift"  ->
            [i \in Items |->
                CASE i = step.id /\ i \in Used -> [row[i] EXCEPT !.sort = step.to]
                  [] i # step.id /\ i \in (IF step.all THEN Used ELSE Open)
                     /\ step.to <= row[i].sort /\ row[i].sort < step.from ->
                        [row[i] EXCEPT !.sort = @ + 1]
                  [] i # step.id /\ i \in (IF step.all THEN Used ELSE Open)
                     /\ step.from < row[i].sort /\ row[i].sort <= step.to ->
                        [row[i] EXCEPT !.sort = @ - 1]
                  [] OTHER -> row[i]]

\* What other handlers have in hand may be out of date after a commit.
Commit(s) ==
    /\ Doing(s, {"put", "edit", "remove", "shift"})
    /\ Step(s).op = "edit" => Step(s).id \in Used
    /\ row' = Committed(Step(s))
    /\ session' = [q \in Sessions |->
           CASE q = s /\ Len(session[s].todo) = 1 -> NoSession
             [] q = s /\ Len(session[s].todo) > 1 ->
                    [todo |-> Tail(session[s].todo), got |-> Known(row'[Step(s).id]),
                     places |-> session[s].places, overtaken |-> session[s].overtaken]
             [] OTHER -> [session[q] EXCEPT !.overtaken = session[q] # NoSession]]
    /\ late' = late \cup Unattended(s)
    /\ UNCHANGED <<kind, list, one, requests, blurred>>

\* The branch redis knew of was never committed.
NotFound(s) ==
    /\ Doing(s, {"edit"}) /\ Step(s).id \notin Used
    /\ session' = [session EXCEPT ![s] = NoSession]
    /\ UNCHANGED <<kind, row, list, one, requests, late, blurred>>

\* Redis is told to forget answers, or rows.
Flush(s) ==
    /\ Doing(s, {"flush"})
    /\ list' = [list EXCEPT !["own"] = Unknown]
    /\ Proceed(s)
    /\ late' = late \ {"own"}
    /\ UNCHANGED <<row, one>>

ForgetRows(s) ==
    /\ Doing(s, {"forget"})
    /\ one' = [i \in Items |-> IF i \in Step(s).rows THEN Unknown ELSE one[i]]
    /\ Proceed(s)
    /\ late' = late \ Step(s).rows
    /\ UNCHANGED <<row, list>>

\* Redis is given what was read before: by now it may be wrong.
Store(s) ==
    /\ Doing(s, {"one", "list"})
    /\ IF Step(s).op = "one"
       THEN one' = [one EXCEPT ![Step(s).id] = session[s].got] /\ UNCHANGED list
       ELSE list' = [list EXCEPT ![Step(s).key] = session[s].got] /\ UNCHANGED one
    /\ LET key == IF Step(s).op = "one" THEN Step(s).id ELSE Step(s).key
       IN  late' = IF session[s].overtaken THEN late \cup {key} ELSE late \ {key}
    /\ Proceed(s)
    /\ UNCHANGED row

\* Redis does not answer: the handler is not told, and goes on.
KeysStay(s) ==
    /\ Doing(s, {"flush", "forget", "one", "list"})
    /\ Proceed(s)
    /\ late' = late \cup (KeysOf(Step(s)) \cap Wrong)
    /\ UNCHANGED <<row, list, one>>

\* The process stops, or the database does not answer: its transaction is
\* rolled back or the keys are left as they are.
Crash(s) ==
    /\ session[s] # NoSession
    /\ session' = [session EXCEPT ![s] = NoSession]
    /\ late' = late \cup (Owed(s) \cap Wrong)
    /\ UNCHANGED <<kind, row, list, one, requests, blurred>>

\* An hour has passed.
Expire(key) ==
    /\ IF key \in Items
       THEN /\ one[key].known
            /\ one' = [one EXCEPT ![key] = Unknown] /\ UNCHANGED list
       ELSE /\ list[key].known
            /\ list' = [list EXCEPT ![key] = Unknown] /\ UNCHANGED one
    /\ late' = late \ {key}
    /\ UNCHANGED <<kind, row, session, requests, blurred>>

\* Ids are drawn anew for every row.
Fresh(i) ==
    /\ i \notin Used /\ ~one[i].known
    /\ \A s \in Sessions : \A n \in DOMAIN session[s].todo :
        session[s].todo[n].op = "put" => session[s].todo[n].id # i

(***************************************************************************)
(* Reading.                                                                *)
(***************************************************************************)
\* findAll on a miss.
FindAll(s, n) ==
    /\ n \in Lists /\ ~list[n].known
    /\ Start(s, FALSE, Known(View), <<StoreList(n)>>)

\* findOne on a miss.
FindOne(s, i) ==
    /\ kind \in CachedById /\ ~one[i].known /\ i \in Open
    /\ Start(s, FALSE, Known(row[i]), <<StoreOne(i)>>)

(***************************************************************************)
(* Branches.                                                               *)
(***************************************************************************)
\* create: redis is told before the commit.
CreateBranch(s, i) ==
    /\ kind = "branch" /\ Fresh(i)
    /\ LET new == Row("Open", NextSort(Used), 0)
       IN  Start(s, TRUE, Known(new), <<FlushList, StoreOne(i), Put(i, new)>>)

UpdateBranch(s, i) ==
    /\ kind = "branch"
    /\ StartGuarded(s, i, FALSE, <<Edit(i), StoreOne(i), FlushList>>)

\* updateSort: from the place the guard saw, every row is moved.
SortBranch(s, i, to) ==
    /\ kind = "branch" /\ to # Seen(i).sort
    /\ StartGuarded(s, i, TRUE, <<Shift(i, Seen(i).sort, to, TRUE), FlushList, Forget(Items)>>)

DeleteBranch(s, i) ==
    /\ kind = "branch"
    /\ StartGuarded(s, i, FALSE, <<Remove(i), Forget({i}), FlushList>>)

(***************************************************************************)
(* Statuses of repair orders.                                              *)
(***************************************************************************)
CreateStatus(s, i) ==
    /\ kind = "status" /\ Fresh(i)
    /\ LET new == Row("Open", NextSort(Used), 0)
       IN  Start(s, TRUE, Unknown, <<Put(i, new), FlushList, StoreOne(i)>>)

\* Mutant of UpdateStatus: the row in redis is refreshed, the list is not.
UpdateStatusUnflushed(s, i) ==
    /\ kind = "status"
    /\ StartGuarded(s, i, FALSE, <<Edit(i), StoreOne(i)>>)

UpdateStatus(s, i) ==
    /\ kind = "status"
    /\ StartGuarded(s, i, FALSE, <<Edit(i), StoreOne(i), FlushList>>)

\* updateSort: the place is read again, and only open statuses are moved.
SortStatus(s, i, to) ==
    /\ kind = "status" /\ i \in Open /\ to # row[i].sort
    /\ LET span  == IF to < row[i].sort THEN to .. row[i].sort ELSE row[i].sort .. to
           moved == {j \in Open : row[j].sort \in span}
       IN  StartGuarded(s, i, TRUE, <<Shift(i, row[i].sort, to, FALSE), Forget(moved), FlushList>>)

DeleteStatus(s, i) ==
    /\ kind = "status"
    /\ StartGuarded(s, i, FALSE, <<Remove(i), Forget({i}), FlushList>>)

(***************************************************************************)
(* Reject causes.                                                          *)
(***************************************************************************)
\* Mutant of CreateCause: causes are counted instead of asked for their place.
CreateCauseCounting(s, i) ==
    /\ kind = "cause" /\ Fresh(i)
    /\ Start(s, TRUE, Unknown, <<Put(i, Row("Open", Cardinality(Open) + 1, 0)), FlushList>>)

CreateCause(s, i) ==
    /\ kind = "cause" /\ Fresh(i)
    /\ Start(s, TRUE, Unknown, <<Put(i, Row("Open", NextSort(Open), 0)), FlushList>>)

UpdateCause(s, i) ==
    /\ kind = "cause" /\ i \in Open
    /\ Start(s, FALSE, Unknown, <<Edit(i), FlushList, Forget({i})>>)

\* Mutant of SortCause: any place below the last.
SortCauseUnclamped(s, i, to) ==
    /\ kind = "cause" /\ i \in Open
    /\ LET target == Min({to, Max({row[j].sort : j \in Open})})
       IN  /\ target # row[i].sort
           /\ Start(s, TRUE, Unknown, <<Shift(i, row[i].sort, target, FALSE), FlushList, Forget({i})>>)

\* updateSort: no place before the first nor after the last cause.
SortCause(s, i, to) ==
    /\ kind = "cause" /\ i \in Open
    /\ LET last   == Max({row[j].sort : j \in Open})
           target == Max({1, Min({to, last})})
       IN  /\ target # row[i].sort
           /\ Start(s, TRUE, Unknown, <<Shift(i, row[i].sort, target, FALSE), FlushList, Forget({i})>>)

DeleteCause(s, i) ==
    /\ kind = "cause" /\ i \in Open
    /\ Start(s, FALSE, Unknown, <<Remove(i), FlushList, Forget({i})>>)

(***************************************************************************)
(* Regions, operating systems, and the order of categories.                *)
(***************************************************************************)
CreateRegion(s, i) ==
    /\ kind = "region" /\ Fresh(i)
    /\ Start(s, FALSE, Unknown, <<Put(i, Row("Open", 0, 0)), FlushList>>)

UpdateRegion(s, i) ==
    /\ kind = "region" /\ i \in Open
    /\ Start(s, FALSE, Unknown, <<Edit(i), FlushList, Forget({i})>>)

DeleteRegion(s, i) ==
    /\ kind = "region" /\ i \in Open
    /\ Start(s, FALSE, Unknown, <<Remove(i), FlushList, Forget({i})>>)

\* The key these delete is no key findAll writes, so nothing is forgotten.
CreateOsType(s, i) ==
    /\ kind = "os" /\ Fresh(i)
    /\ Start(s, FALSE, Unknown, <<Put(i, Row("Open", 0, 0))>>)

UpdateOsType(s, i) ==
    /\ kind = "os" /\ i \in Open
    /\ Start(s, FALSE, Unknown, <<Edit(i)>>)

DeleteOsType(s, i) ==
    /\ kind = "os" /\ i \in Open
    /\ Start(s, FALSE, Unknown, <<Remove(i)>>)

\* create, update and delete of a category, as far as its place goes.
CreateCategory(s, i) ==
    /\ kind \in {"phone", "problem"} /\ Fresh(i)
    /\ Start(s, TRUE, Unknown, <<Put(i, Row("Open", NextSort(Used), 0)), FlushList>>)

DeleteCategory(s, i) ==
    /\ kind \in {"phone", "problem"} /\ i \in Open
    /\ Start(s, FALSE, Unknown, <<Remove(i), FlushList>>)

\* updateSort: deleted categories of the same parent are moved too.
SortPhoneCategory(s, i, to) ==
    /\ kind = "phone" /\ i \in Open /\ to # row[i].sort
    /\ Start(s, TRUE, Unknown, <<Shift(i, row[i].sort, to, TRUE), FlushList>>)

SortProblemCategory(s, i, to) ==
    /\ kind = "problem" /\ i \in Open /\ to # row[i].sort
    /\ Start(s, TRUE, Unknown, <<Shift(i, row[i].sort, to, TRUE), FlushList>>)

ListsNext ==
    \/ \E s \in Sessions :
        \/ Commit(s)
        \/ NotFound(s)
        \/ Flush(s)
        \/ ForgetRows(s)
        \/ Store(s)
        \/ KeysStay(s)
        \/ Crash(s)
    \/ \E key \in Items \cup {"own", "child"} : Expire(key)
    \/ \E s \in Ready, n \in {"own", "child"} : FindAll(s, n)
    \/ \E s \in Ready, i \in Items :
        \/ FindOne(s, i)
        \/ CreateBranch(s, i)
        \/ UpdateBranch(s, i)
        \/ DeleteBranch(s, i)
        \/ CreateStatus(s, i)
        \/ UpdateStatus(s, i)
        \/ DeleteStatus(s, i)
        \/ CreateCause(s, i)
        \/ UpdateCause(s, i)
        \/ DeleteCause(s, i)
        \/ CreateRegion(s, i)
        \/ UpdateRegion(s, i)
        \/ DeleteRegion(s, i)
        \/ CreateOsType(s, i)
        \/ UpdateOsType(s, i)
        \/ DeleteOsType(s, i)
        \/ CreateCategory(s, i)
        \/ DeleteCategory(s, i)
    \/ \E s \in Ready, i \in Items, to \in Sorts :
        \/ SortBranch(s, i, to)
        \/ SortStatus(s, i, to)
        \/ SortCause(s, i, to)
        \/ SortPhoneCategory(s, i, to)
        \/ SortProblemCategory(s, i, to)

ListsSpec == ListsInit /\ [][ListsNext]_listVars

(***************************************************************************)
(* What must hold.                                                         *)
(***************************************************************************)
\* Types: a place is a natural number, and causes are counted from one; a
\* key holds a row, or the answer about some rows.
ListsTypeOK ==
    /\ kind \in Kinds
    /\ \A i \in Items :
        /\ row[i].state \in {"absent", "Open", "Deleted"} /\ row[i].info \in 0 .. 1
        /\ row[i].sort \in Nat /\ (kind = "cause" /\ i \in Used => row[i].sort >= 1)
        /\ one[i].known => one[i].value.state \in {"Open", "Deleted"}
    /\ \A n \in {"own", "child"} : list[n].known => n \in Lists /\ DOMAIN list[n].value \subseteq Used
    /\ late \subseteq Items \cup {"own", "child"}
    /\ requests \in 0 .. MaxRequests /\ blurred \in BOOLEAN

\* No two open rows have the same place, through any creations, moves and
\* deletions, among rows that kept or lost theirs; unless two handlers
\* that place rows ran at the same time or a branch was moved from a place
\* redis remembered wrongly.
PlacesDistinct ==
    kind \in Sorted /\ ~blurred =>
        \A i, j \in Open : i # j => row[i].sort # row[j].sort

\* What redis says is what the database has, or a handler under way will see
\* to it: every handler flushes what its transaction changed, rows other than
\* its own included, and what it leaves in redis is what it committed.  Excepted
\* are, until they expire, keys a handler wrote after another one committed,
\* keys redis was not there for, keys of a handler that crashed, and those nobody
\* sees to (Unattended).
RedisTellsTheTruth ==
    Wrong \subseteq late \cup UNION {Owed(s) : s \in Sessions}

=============================================================================
