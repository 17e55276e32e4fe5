-------------------------- MODULE BoardTransactions --------------------------
(***************************************************************************)
(* The handlers of RepairOrdersService as the database sees them: each     *)
(* runs its statements one after the other on a connection of the pool, in *)
(* a transaction of PostgreSQL's default isolation level READ COMMITTED,   *)
(* while other connections do the same.                                    *)
(*                                                                         *)
(* A row has a committed version and, while a transaction that wrote it    *)
(* holds its lock, a newer one.  A statement that shifts a column first    *)
(* finds the rows its WHERE clause matches among the versions visible to   *)
(* the transaction, then updates them one by one; a row another            *)
(* transaction has locked it waits for, and it checks the clause again on  *)
(* the row's latest version before it updates it.                          *)
(***************************************************************************)
EXTENDS ColumnOrder, FiniteSets, Sequences

CONSTANTS
    Connections,  \* connections of the knex pool, one handler at a time on each
    Orders, Mother, Children, Statuses, Transitions, Positions, Last, MaxSort,
    Scopes,       \* sets of branches admins are assigned to; all = super admin
    Ops,          \* handlers in use
    MaxJobs,      \* bound on the handlers that ever start
    Free          \* no connection: the row is not locked

Branches == {Mother} \cup Children

AllOps == {"create", "update", "across", "within", "resort", "delete",
           "transfer", "take", "restore", "call"}

ASSUME OpsAssumption == Ops \subseteq AllOps
ASSUME FreeAssumption == Free \notin Connections
ASSUME ScopesAssumption == Scopes \subseteq SUBSET Branches
ASSUME JobsAssumption == MaxJobs \in Nat
ASSUME PositionsAssumption == Positions \subseteq Nat /\ Last \in Nat
ASSUME BoundsAssumption ==
    /\ Mother \notin Children
    /\ MaxSort \in Nat /\ 1 <= MaxSort /\ MaxSort < Last

VARIABLES
    com,   \* committed versions of the rows
    cur,   \* latest versions, committed or not
    lock,  \* the connection that holds the row's lock
    job,   \* what each connection is doing
    left   \* handlers that may still start

vars == <<com, cur, lock, job, left>>

\* A row of repair_orders; logged is the new_value of its last branch_id
\* history entry, fromMother whether one of its entries leaves Mother.
Row == [life: {"None", "Open", "Deleted"}, branch: Branches, status: Statuses,
        sort: Nat, logged: Branches, fromMother: BOOLEAN]

NoRow(s) == [life |-> "None", branch |-> Mother, status |-> s, sort |-> 0,
             logged |-> Mother, fromMother |-> FALSE]

Idle == [op |-> "idle"]

(***************************************************************************)
(* The statements of each handler.                                         *)
(*   read, lock     SELECT of the order, without and with FOR UPDATE       *)
(*   insert, write  INSERT or UPDATE of the order by its id                *)
(*   gap, slot, slide, above   the shifts of ColumnOrder                   *)
(*   one            UPDATE ... SET sort = 1 of moveToTop                   *)
(***************************************************************************)
\* Mutant of Program: take reads the order without FOR UPDATE.
ProgramWithoutLock(op) ==
    CASE op = "create"   -> <<"insert", "above", "one">>
      [] op = "take"     -> <<"read", "write", "above", "one">>
      [] op = "restore"  -> <<"lock", "gap", "write", "above", "one">>
      [] op = "call"     -> <<"read", "write", "above", "one">>

Program(op) ==
    CASE op = "create"   -> <<"insert", "above", "one">>
      [] op = "update"   -> <<"read", "gap", "write", "above", "one">>
      [] op = "across"   -> <<"read", "gap", "slot", "write">>
      [] op = "within"   -> <<"read", "slide", "write">>
      [] op = "resort"   -> <<"read", "slide", "write">>
      [] op = "delete"   -> <<"read", "write", "gap">>
      [] op = "transfer" -> <<"read", "gap", "write", "above", "one">>
      [] op = "take"     -> <<"lock", "write", "above", "one">>
      [] op = "restore"  -> <<"lock", "gap", "write", "above", "one">>
      [] op = "call"     -> <<"read", "write", "above", "one">>

Busy(c) == job[c].op # "idle"
Working(c) == job[c].op \in AllOps
Statement(c) == Program(job[c].op)[job[c].pc]
Finished(c) == Working(c) /\ job[c].pc > Len(Program(job[c].op))

\* The version of row p a statement of connection c sees.
Seen(c, p) == IF lock[p] = c THEN cur[p] ELSE com[p]

(***************************************************************************)
(* Branch rules of BranchHierarchyService and of the order handlers.       *)
(***************************************************************************)
Visible(scope) ==
    IF Mother \in scope THEN Branches
    ELSE IF scope = {} THEN {} ELSE scope \cup {Mother}

WritableBranches(scope) == IF Mother \in scope THEN Children ELSE scope

\* assertRepairOrderWritable
MayWrite(scope, b) == b \in Visible(scope) /\ (b = Mother => Mother \in scope)

\* What the handler checks about the row it has read.
Accepts(j, row) ==
    /\ row.life = "Open"
    /\ j.op \in {"update", "across", "within", "resort", "delete", "transfer", "restore"}
          => MayWrite(j.scope, row.branch)
    /\ j.op \in {"update", "across"} => <<row.status, j.to>> \in Transitions
    /\ j.op = "transfer" => j.to \in j.scope \cap Children
    /\ j.op = "take" => row.branch = Mother
    /\ j.op = "restore" => row.branch # Mother /\ row.fromMother

\* Nothing to do: update and move leave a row alone whose status or position
\* is already the requested one, and so does updateSort.
Pointless(j, row) ==
    \/ j.op = "update" /\ j.to = row.status
    \/ j.op = "across" /\ j.to = row.status
    \/ j.op \in {"within", "resort"} /\ j.to = row.sort

(***************************************************************************)
(* Shifts: rows of a column between two positions move by one.             *)
(***************************************************************************)
Target(j) == IF j.pos = 0 THEN 1 ELSE j.pos

Shift(j, stmt) ==
    LET At(b, s, from, to, by) ==
            [branch |-> b, status |-> s, from |-> from, to |-> to, by |-> by]
        r == j.row
    IN  CASE stmt = "gap"   -> At(r.branch, r.status, r.sort + 1, Last, -1)
          [] stmt = "slot"  -> At(r.branch, j.to, Target(j), Last, 1)
          [] stmt = "above" -> At(r.branch, r.status, 0, r.sort - 1, 1)
          [] stmt = "slide" /\ j.to < r.sort
                            -> At(r.branch, r.status, j.to, r.sort - 1, 1)
          [] stmt = "slide" /\ j.to >= r.sort
                            -> At(r.branch, r.status, r.sort + 1, j.to, -1)

Matches(row, shift) ==
    /\ row.life = "Open"
    /\ row.branch = shift.branch /\ row.status = shift.status
    /\ shift.from <= row.sort /\ row.sort <= shift.to

IsShift(stmt) == stmt \in {"gap", "slot", "above", "slide"}

\* moveToTop returns at once when the row it was given is at position 1.
AtTop(j, stmt) == stmt \in {"above", "one"} /\ j.row.sort = 1

(***************************************************************************)
(* What a write sets.                                                      *)
(***************************************************************************)
\* Mutant of Logged: only departures from Mother are logged.
LoggedDepartures(row, old, new) ==
    IF old # Mother THEN row ELSE [row EXCEPT !.logged = new, !.fromMother = TRUE]

\* changeLogger.logIfChanged(branch_id, old value the handler read, new value)
Logged(row, old, new) ==
    IF old = new THEN row
    ELSE [row EXCEPT !.logged = new,
                     !.fromMother = @ \/ (old = Mother /\ new # Mother)]

Rehomed(row, old, new) ==
    Logged([row EXCEPT !.branch = new, !.sort = Last], old, new)

\* Mutant of Written: the card lands at the raw position of the request.
WrittenUnnormalised(j, row) ==
    CASE j.op = "across"   -> [row EXCEPT !.status = j.to, !.sort = j.pos]
      [] j.op = "update"   -> [row EXCEPT !.status = j.to, !.sort = Last]
      [] j.op \in {"within", "resort"} -> [row EXCEPT !.sort = j.to]
      [] j.op = "delete"   -> [row EXCEPT !.life = "Deleted"]
      [] j.op \in {"transfer", "take"} -> Rehomed(row, j.row.branch, j.to)
      [] j.op = "restore"  -> Rehomed(row, j.row.branch, Mother)
      [] j.op = "call"     -> row

Written(j, row) ==
    CASE j.op = "update"   -> [row EXCEPT !.status = j.to, !.sort = Last]
      [] j.op = "across"   -> [row EXCEPT !.status = j.to, !.sort = Target(j)]
      [] j.op \in {"within", "resort"} -> [row EXCEPT !.sort = j.to]
      [] j.op = "delete"   -> [row EXCEPT !.life = "Deleted"]
      [] j.op \in {"transfer", "take"} -> Rehomed(row, j.row.branch, j.to)
      [] j.op = "restore"  -> Rehomed(row, j.row.branch, Mother)
      [] j.op = "call"     -> row

\* transferBranch, take and restoreToMother go on with the row RETURNING * has
\* returned, update reads it again; the others keep the one they read.
Refreshes(op) == op \in {"update", "transfer", "take", "restore"}

(***************************************************************************)
(* Steps of a connection.                                                  *)
(***************************************************************************)
Unlocked(c, p) == lock[p] \in {Free, c}

\* What the handler takes from its request: a branch, a status or a position.
Asks(op, scope, to) ==
    CASE op = "create" -> to \in Branches
      [] op \in {"update", "across"} -> to \in Statuses
      [] op \in {"within", "resort"} -> to \in Positions
      [] op = "transfer" -> to \in Children
      [] op = "take" -> to \in Children /\ to \in WritableBranches(scope)
      [] op \in {"delete", "restore", "call"} -> to = Mother

\* A handler before its first statement.
Handler(op, o, scope, pos, to) ==
    [op |-> op, o |-> o, scope |-> scope, pos |-> pos, to |-> to,
     pc |-> 1, row |-> com[o], todo |-> {}, found |-> FALSE]

Begin(c) ==
    /\ ~Busy(c)
    /\ left > 0
    /\ left' = left - 1
    /\ \E op \in Ops, o \in Orders, scope \in Scopes, pos \in Positions,
          to \in Branches \cup Statuses \cup Positions :
        /\ Asks(op, scope, to)
        /\ op # "across" => pos = CHOOSE q \in Positions : TRUE
        /\ op = "call" => com[o].life = "Open" /\ com[o].branch = Mother
        /\ op = "create" <=> cur[o].life = "None"
        /\ job' = [job EXCEPT ![c] = Handler(op, o, scope, pos, to)]
    /\ UNCHANGED <<com, cur, lock>>

Advance(c, row) ==
    job' = [job EXCEPT ![c].pc = @ + 1, ![c].row = row, ![c].found = FALSE]

\* Mutant of Rollback: what was written stays visible.
RollbackKeepingWrites(c) ==
    /\ lock' = [p \in Orders |-> IF lock[p] = c THEN Free ELSE lock[p]]
    /\ job' = [job EXCEPT ![c] = Idle]
    /\ UNCHANGED <<com, cur, left>>

\* Mutant of Rollback: an error path that forgets to end the transaction.
RollbackForgotten(c) ==
    /\ job' = [job EXCEPT ![c] = Idle]
    /\ UNCHANGED <<com, cur, lock, left>>

\* An error is thrown, or there is nothing to do: ROLLBACK.
Rollback(c) ==
    /\ cur' = [p \in Orders |-> IF lock[p] = c THEN com[p] ELSE cur[p]]
    /\ lock' = [p \in Orders |-> IF lock[p] = c THEN Free ELSE lock[p]]
    /\ job' = [job EXCEPT ![c] = Idle]
    /\ UNCHANGED <<com, left>>

\* updateSort returns without ending its transaction: the connection never
\* goes back to the pool.
Leak(c) ==
    /\ job' = [job EXCEPT ![c].op = "leaked"]
    /\ UNCHANGED <<com, cur, lock, left>>

Read(c) ==
    LET o == job[c].o
        row == Seen(c, o)
    IN  /\ Statement(c) = "read"
        /\ IF ~Accepts(job[c], row) THEN Rollback(c)
           ELSE IF Pointless(job[c], row)
                THEN IF job[c].op = "resort" THEN Leak(c) ELSE Rollback(c)
           ELSE Advance(c, row) /\ UNCHANGED <<com, cur, lock, left>>

ReadForUpdate(c) ==
    LET o == job[c].o
    IN  /\ Statement(c) = "lock"
        /\ Unlocked(c, o)
        /\ IF Accepts(job[c], cur[o])
           THEN /\ lock' = [lock EXCEPT ![o] = c]
                /\ Advance(c, cur[o])
                /\ UNCHANGED <<com, cur, left>>
           ELSE Rollback(c)

Insert(c) ==
    LET o == job[c].o
        b == job[c].to
    IN  /\ Statement(c) = "insert"
        /\ cur[o].life = "None"
        /\ Unlocked(c, o)
        /\ \E s \in Statuses :
             LET row == [NoRow(s) EXCEPT !.life = "Open", !.branch = b,
                                         !.sort = Last, !.logged = b]
             IN  cur' = [cur EXCEPT ![o] = row] /\ Advance(c, row)
        /\ lock' = [lock EXCEPT ![o] = c]
        /\ UNCHANGED <<com, left>>

Write(c) ==
    LET o == job[c].o
        row == Written(job[c], cur[o])
    IN  /\ Statement(c) = "write"
        /\ Unlocked(c, o)
        /\ cur' = [cur EXCEPT ![o] = row]
        /\ lock' = [lock EXCEPT ![o] = c]
        /\ Advance(c, IF Refreshes(job[c].op) THEN row ELSE job[c].row)
        /\ UNCHANGED <<com, left>>

\* The second statement of moveToTop.
PutFirst(c) ==
    LET o == job[c].o
    IN  /\ Statement(c) = "one"
        /\ ~AtTop(job[c], "one")
        /\ Unlocked(c, o)
        /\ cur' = [cur EXCEPT ![o].sort = 1]
        /\ lock' = [lock EXCEPT ![o] = c]
        /\ Advance(c, job[c].row)
        /\ UNCHANGED <<com, left>>

SkipTop(c) ==
    /\ AtTop(job[c], Statement(c))
    /\ Advance(c, job[c].row)
    /\ UNCHANGED <<com, cur, lock, left>>

\* A shift finds its rows in the snapshot of the statement ...
Find(c) ==
    LET stmt == Statement(c)
    IN  /\ IsShift(stmt)
        /\ ~AtTop(job[c], stmt)
        /\ ~job[c].found
        /\ job' = [job EXCEPT
                     ![c].found = TRUE,
                     ![c].todo = {p \in Orders : Matches(Seen(c, p), Shift(job[c], stmt))}]
        /\ UNCHANGED <<com, cur, lock, left>>

\* ... and updates those whose latest version still matches.
Touch(c) ==
    \E p \in job[c].todo :
        LET shift == Shift(job[c], Statement(c))
        IN  /\ Unlocked(c, p)
            /\ IF Matches(cur[p], shift)
               THEN /\ cur' = [cur EXCEPT ![p].sort = @ + shift.by]
                    /\ lock' = [lock EXCEPT ![p] = c]
               ELSE UNCHANGED <<cur, lock>>
            /\ job' = [job EXCEPT ![c].todo = @ \ {p}]
            /\ UNCHANGED <<com, left>>

ShiftDone(c) ==
    /\ IsShift(Statement(c))
    /\ job[c].found
    /\ job[c].todo = {}
    /\ Advance(c, job[c].row)
    /\ UNCHANGED <<com, cur, lock, left>>

Commit(c) ==
    /\ Finished(c)
    /\ \A p \in Orders : lock[p] = c => cur[p].sort <= MaxSort
    /\ com' = [p \in Orders |-> IF lock[p] = c THEN cur[p] ELSE com[p]]
    /\ lock' = [p \in Orders |-> IF lock[p] = c THEN Free ELSE lock[p]]
    /\ job' = [job EXCEPT ![c] = Idle]
    /\ UNCHANGED <<cur, left>>

(***************************************************************************)
(* Deadlock: PostgreSQL ends one of the transactions that wait in a ring.  *)
(***************************************************************************)
\* Rows the statement of c still has to lock.
Wanted(c) ==
    IF ~Working(c) \/ Finished(c) THEN {}
    ELSE IF IsShift(Statement(c)) THEN job[c].todo
    ELSE IF Statement(c) = "read" THEN {} ELSE {job[c].o}

WaitsFor(c, d) == c # d /\ \E p \in Wanted(c) : lock[p] = d

InRing(c) ==
    \E ring \in SUBSET Connections :
        /\ c \in ring
        /\ \A d \in ring : /\ \E e \in ring : WaitsFor(d, e)
                           /\ \E e \in ring : WaitsFor(e, d)

DeadlockAbort(c) == InRing(c) /\ Rollback(c)

Execute(c) ==
    /\ Working(c)
    /\ ~Finished(c)
    /\ \/ Read(c) \/ ReadForUpdate(c) \/ Insert(c) \/ Write(c)
       \/ PutFirst(c) \/ SkipTop(c)
       \/ Find(c) \/ Touch(c) \/ ShiftDone(c)

Step(c) == Execute(c) \/ Commit(c) \/ DeadlockAbort(c)

Next == \E c \in Connections : Begin(c) \/ Step(c)

CONSTANT Boards  \* committed rows the handlers may find when the model starts

ASSUME BoardsAssumption ==
    \A board \in Boards : /\ board \in [Orders -> Row]
                          /\ \A o \in Orders : board[o].logged = board[o].branch

Init ==
    /\ com \in Boards
    /\ cur = com
    /\ lock = [o \in Orders |-> Free]
    /\ job = [c \in Connections |-> Idle]
    /\ left = MaxJobs

Spec == Init /\ [][Next]_vars

\* The database executes the statement a connection has sent, and the event
\* loop of the server goes on with a handler whose statement is done.
FairSpec == Spec /\ \A c \in Connections : WF_vars(Step(c))

(***************************************************************************)
(* Properties.                                                             *)
(***************************************************************************)
TypeOK ==
    /\ com \in [Orders -> Row]
    /\ cur \in [Orders -> Row]
    /\ lock \in [Orders -> Connections \cup {Free}]
    /\ DOMAIN job = Connections
    /\ left \in 0 .. MaxJobs
    /\ \A o \in Orders : lock[o] = Free => cur[o] = com[o]

\* Two children trying to take the same order of Mother result in one success,
\* and a restore ends exactly the stay in a child it was asked to end: when
\* take or restoreToMother commits, the row it replaces is still the row it has
\* checked.
LockedMovesAreFresh ==
    [][\A c \in Connections : Commit(c) =>
         LET o == job[c].o
         IN  /\ job[c].op = "take" => com[o].branch = Mother /\ com[o].life = "Open"
             /\ job[c].op = "restore" => /\ com[o].branch # Mother /\ com[o].life = "Open"
                                         /\ com[o].fromMother]_vars

\* Every branch-changing operation writes history: the last branch_id entry of
\* a committed order names the branch that owns it.
HistoryNamesOwner ==
    \A o \in Orders : com[o].life # "None" => com[o].logged = com[o].branch

\* Every handler gives its connection back to the pool.
HandlersEnd == \A c \in Connections : Busy(c) ~> ~Busy(c)

\* One handler at a time: the committed rows change as RepairOrderBoard says.
Board == INSTANCE RepairOrderBoard WITH
    StatusType <- [s \in Statuses |-> "Open"],
    ClientsInRange <- FALSE,
    NoAnswerLimit <- 0,
    MaxNoAnswer <- 0,
    life <- [o \in Orders |-> com[o].life],
    branch <- [o \in Orders |-> com[o].branch],
    status <- [o \in Orders |-> com[o].status],
    sort <- [o \in Orders |-> com[o].sort],
    fromMother <- [o \in Orders |-> com[o].fromMother],
    noAnswer <- [o \in Orders |-> 0],
    due <- [o \in Orders |-> "none"]

ImplementsBoard == Board!Spec
=============================================================================
