----------------------- MODULE BoardTransactionsProofs -----------------------
(***************************************************************************)
(* What the transactions of the board promise on any number of connections *)
(* and orders: the types, that take and restore commit on the very row     *)
(* they have checked, and that the history names the owner of every order  *)
(* as long as nobody transfers.  On one connection: that their commits are *)
(* the steps of RepairOrderBoard.                                          *)
(*                                                                         *)
(* LInv is the argument: a row is locked by a handler at work that has     *)
(* passed its first statement, a row nobody has locked is as committed,    *)
(* and a handler that began with SELECT ... FOR UPDATE holds that lock     *)
(* until its end, so that nobody else can commit a version of the row.     *)
(***************************************************************************)
EXTENDS BoardTransactions, TLAPS

Jobs == [op : AllOps \cup {"leaked"}, o : Orders, scope : SUBSET Branches, pos : Positions,
         to : Branches \cup Statuses \cup Positions, pc : Nat \ {0}, row : Row,
         todo : SUBSET Orders, found : BOOLEAN]

\* What the request asks for.
Aims(j) ==
    /\ j.op = "create" => j.to \in Branches
    /\ j.op \in {"update", "across"} => j.to \in Statuses
    /\ j.op \in {"within", "resort"} => j.to \in Positions
    /\ j.op \in {"transfer", "take"} => j.to \in Children

TInv ==
    /\ com \in [Orders -> Row] /\ cur \in [Orders -> Row]
    /\ lock \in [Orders -> Connections \cup {Free}]
    /\ job \in [Connections -> {Idle} \cup Jobs]
    /\ \A c \in Connections : job[c] # Idle => Aims(job[c])
    /\ left \in 0 .. MaxJobs

\* What take and restoreToMother have checked.
Checked(op, row) ==
    /\ row.life = "Open"
    /\ op = "take" => row.branch = Mother
    /\ op = "restore" => row.branch # Mother /\ row.fromMother

\* Rows left to shift belong to the shift the handler is at.
Shifts(c) ==
    Working(c) /\ job[c].todo # {} =>
       ~Finished(c) /\ IsShift(Statement(c)) /\ ~AtTop(job[c], Statement(c))

LInv ==
    /\ \A c \in Connections : Shifts(c)
    /\ \A o \in Orders : lock[o] = Free => cur[o] = com[o]
    /\ \A o \in Orders : \A c \in Connections :
          lock[o] = c => Working(c) /\ job[c].pc # 1
    /\ \A c \in Connections :
          job[c].op \in {"take", "restore"} /\ job[c].pc # 1 =>
             lock[job[c].o] = c /\ Checked(job[c].op, com[job[c].o])

-----------------------------------------------------------------------------
(* The programs.                                                           *)

LEMMA ProgramsAre ==
    /\ Program("create") = <<"insert", "above", "one">>
    /\ Program("update") = <<"read", "gap", "write", "above", "one">>
    /\ Program("across") = <<"read", "gap", "slot", "write">>
    /\ Program("within") = <<"read", "slide", "write">>
    /\ Program("resort") = <<"read", "slide", "write">>
    /\ Program("delete") = <<"read", "write", "gap">>
    /\ Program("transfer") = <<"read", "gap", "write", "above", "one">>
    /\ Program("take") = <<"lock", "write", "above", "one">>
    /\ Program("restore") = <<"lock", "gap", "write", "above", "one">>
    /\ Program("call") = <<"read", "write", "above", "one">>
BY DEF Program

LEMMA LengthsAre ==
    /\ Len(Program("create")) = 3 /\ Len(Program("within")) = 3
    /\ Len(Program("resort")) = 3 /\ Len(Program("delete")) = 3
    /\ Len(Program("across")) = 4 /\ Len(Program("take")) = 4 /\ Len(Program("call")) = 4
    /\ Len(Program("update")) = 5 /\ Len(Program("transfer")) = 5
    /\ Len(Program("restore")) = 5
BY ProgramsAre

\* Which statements a handler has, and which comes first.
LEMMA StatementsAre ==
    ASSUME NEW op \in AllOps, NEW i \in Nat \ {0}, ~(i > Len(Program(op)))
    PROVE  LET stmt == Program(op)[i]
           IN  /\ i = 1 => stmt \in {"insert", "read", "lock"}
               /\ stmt = "insert" => op = "create" /\ i = 1
               /\ stmt = "lock" => op \in {"take", "restore"} /\ i = 1
               /\ stmt = "read" => i = 1 /\ op \notin {"take", "restore", "create"}
               /\ stmt = "write" => op # "create"
               /\ stmt = "slide" => op \in {"within", "resort"}
               /\ stmt = "slot" => op = "across"
  <1> DEFINE Good(stmt) ==
         /\ i = 1 => stmt \in {"insert", "read", "lock"}
         /\ stmt = "insert" => op = "create" /\ i = 1
         /\ stmt = "lock" => op \in {"take", "restore"} /\ i = 1
         /\ stmt = "read" => i = 1 /\ op \notin {"take", "restore", "create"}
         /\ stmt = "write" => op # "create"
         /\ stmt = "slide" => op \in {"within", "resort"}
         /\ stmt = "slot" => op = "across"
  <1> SUFFICES Good(Program(op)[i])
    OBVIOUS
  <1>1. CASE op \in {"create", "within", "resort", "delete"}
    <2>1. Len(Program(op)) = 3
      BY <1>1, LengthsAre
    <2>2. i \in 1 .. 3
      BY <2>1
    <2>3. QED
      BY <1>1, <2>2, ProgramsAre
  <1>2. CASE op \in {"across", "take", "call"}
    <2>1. Len(Program(op)) = 4
      BY <1>2, LengthsAre
    <2>2. i \in 1 .. 4
      BY <2>1
    <2>3. QED
      BY <1>2, <2>2, ProgramsAre
  <1>3. CASE op \in {"update", "transfer", "restore"}
    <2>1. Len(Program(op)) = 5
      BY <1>3, LengthsAre
    <2>2. i \in 1 .. 5
      BY <2>1
    <2>3. QED
      BY <1>3, <2>2, ProgramsAre
  <1>4. QED
    BY <1>1, <1>2, <1>3 DEF AllOps

\* A handler at work, and its next statement.
LEMMA AtWork ==
    ASSUME TInv, NEW c \in Connections, Working(c)
    PROVE  /\ job[c] \in Jobs /\ Aims(job[c]) /\ job[c] # Idle
           /\ job[c].op \in AllOps /\ job[c].o \in Orders /\ job[c].row \in Row
           /\ com[job[c].o] \in Row /\ cur[job[c].o] \in Row
           /\ job[c].pc \in Nat \ {0}
  <1>1. Idle.op = "idle" /\ "idle" \notin AllOps
    BY DEF Idle, AllOps
  <1>2. job[c] \in Jobs /\ job[c] # Idle
    BY <1>1 DEF TInv, Working
  <1>3. QED
    BY <1>2 DEF TInv, Jobs, Working

LEMMA NextStatement ==
    ASSUME TInv, NEW c \in Connections, Working(c), ~Finished(c)
    PROVE  LET stmt == Statement(c)
               op == job[c].op
           IN  /\ job[c].pc = 1 => stmt \in {"insert", "read", "lock"}
               /\ stmt = "insert" => op = "create" /\ job[c].pc = 1
               /\ stmt = "lock" => op \in {"take", "restore"} /\ job[c].pc = 1
               /\ stmt = "read" => job[c].pc = 1 /\ op \notin {"take", "restore", "create"}
               /\ stmt = "write" => op # "create"
               /\ stmt = "slide" => op \in {"within", "resort"}
               /\ stmt = "slot" => op = "across"
  <1>1. job[c].op \in AllOps /\ job[c].pc \in Nat \ {0} /\ ~(job[c].pc > Len(Program(job[c].op)))
    BY AtWork DEF Finished
  <1>2. QED
    BY <1>1, StatementsAre DEF Statement

-----------------------------------------------------------------------------
(* Types.                                                                  *)

LEMMA SeenIsRow == ASSUME TInv, NEW c, NEW p \in Orders PROVE Seen(c, p) \in Row
BY DEF TInv, Seen

LEMMA NoRowIsRow == \A s \in Statuses : NoRow(s) \in Row
BY DEF NoRow, Row, Branches

\* What a write of the order sets.
LEMMA WrittenIsRow ==
    ASSUME NEW j \in Jobs, Aims(j), j.op \in AllOps \ {"create"}, NEW row \in Row
    PROVE  Written(j, row) \in Row
  <1>1. Last \in Nat /\ Target(j) \in Nat
    BY PositionsAssumption DEF Target, Jobs
  <1>2. j.row \in Row /\ j.row.branch \in Branches
    BY DEF Jobs, Row
  <1>3. ASSUME NEW new \in Branches PROVE Rehomed(row, j.row.branch, new) \in Row
    <2> DEFINE moved == [row EXCEPT !.branch = new, !.sort = Last]
    <2>1. moved \in Row
      BY <1>1 DEF Row
    <2>2. [moved EXCEPT !.logged = new,
                        !.fromMother = @ \/ (j.row.branch = Mother /\ new # Mother)] \in Row
      <3>1. (moved.fromMother \/ (j.row.branch = Mother /\ new # Mother)) \in BOOLEAN
        OBVIOUS
      <3> DEFINE from == moved.fromMother \/ (j.row.branch = Mother /\ new # Mother)
      <3> HIDE DEF moved, from
      <3>2. [moved EXCEPT !.logged = new, !.fromMother = from] \in Row
        BY <2>1, <3>1 DEF Row, from
      <3>3. QED
        BY <3>2 DEF from
    <2> HIDE DEF moved
    <2>3. QED
      BY <2>1, <2>2 DEF Rehomed, Logged, moved
  <1>4. Children \subseteq Branches /\ Mother \in Branches
    BY DEF Branches
  <1>5. CASE j.op \in {"transfer", "take"}
    <2>1. Written(j, row) = Rehomed(row, j.row.branch, j.to)
      BY <1>5 DEF Written
    <2>2. QED
      BY <1>3, <1>4, <1>5, <2>1 DEF Aims
  <1>6. CASE j.op = "restore"
    BY <1>3, <1>4, <1>6 DEF Written
  <1>7. CASE j.op \in {"update", "across"}
    BY <1>1, <1>7 DEF Written, Aims, Row
  <1>8. CASE j.op \in {"within", "resort"}
    BY <1>8, PositionsAssumption DEF Written, Aims, Row
  <1>9. CASE j.op \in {"delete", "call"}
    BY <1>9 DEF Written, Row
  <1>10. QED
    BY <1>5, <1>6, <1>7, <1>8, <1>9 DEF AllOps

\* A shift never makes a position negative.
LEMMA ShiftedIsRow ==
    ASSUME NEW j \in Jobs, Aims(j), NEW stmt, IsShift(stmt),
           stmt = "slide" => j.op \in {"within", "resort"},
           NEW row \in Row, Matches(row, Shift(j, stmt))
    PROVE  [row EXCEPT !.sort = @ + Shift(j, stmt).by] \in Row
  <1>1. j.row.sort \in Nat /\ row.sort \in Nat /\ Target(j) \in Nat
    BY PositionsAssumption DEF Jobs, Row, Target
  <1>2. row.sort + Shift(j, stmt).by \in Nat
    <2>1. CASE stmt = "gap"
      BY <1>1, <2>1 DEF Shift, Matches
    <2>2. CASE stmt \in {"slot", "above"}
      BY <1>1, <2>2 DEF Shift, Matches
    <2>3. CASE stmt = "slide"
      <3>1. j.to \in Nat
        BY <2>3, PositionsAssumption DEF Aims
      <3>2. CASE j.to < j.row.sort
        BY <1>1, <2>3, <3>1, <3>2 DEF Shift, Matches
      <3>3. CASE j.to >= j.row.sort
        BY <1>1, <2>3, <3>1, <3>3 DEF Shift, Matches
      <3>4. QED
        BY <1>1, <3>1, <3>2, <3>3
    <2>4. QED
      BY <2>1, <2>2, <2>3 DEF IsShift
  <1>3. QED
    BY <1>2 DEF Row

\* The handler goes on to its next statement.
LEMMA AdvanceTyped ==
    ASSUME TInv, NEW c \in Connections, Working(c), NEW row \in Row, Advance(c, row)
    PROVE  /\ job' \in [Connections -> {Idle} \cup Jobs]
           /\ \A d \in Connections : job'[d] # Idle => Aims(job'[d])
           /\ job'[c].op = job[c].op /\ job'[c].o = job[c].o /\ job'[c].to = job[c].to
           /\ job'[c].pc = job[c].pc + 1 /\ job'[c].row = row /\ job'[c].todo = job[c].todo
           /\ job'[c].pos = job[c].pos /\ job'[c].scope = job[c].scope
           /\ job'[c].found = FALSE /\ job'[c] \in Jobs
           /\ \A d \in Connections \ {c} : job'[d] = job[d]
  <1>1. job[c] \in Jobs /\ Aims(job[c])
    BY AtWork
  <1> DEFINE j == [job[c] EXCEPT !.pc = @ + 1, !.row = row, !.found = FALSE]
  <1>2. job' = [job EXCEPT ![c] = j]
    BY DEF Advance, TInv
  <1>3. j \in Jobs /\ Aims(j)
    <2>1. job[c].pc \in Nat /\ job[c].pc + 1 \in Nat \ {0}
      BY <1>1 DEF Jobs
    <2>2. j \in Jobs
      BY <1>1, <2>1 DEF Jobs
    <2>3. j.op = job[c].op /\ j.to = job[c].to
      BY <1>1 DEF Jobs
    <2>4. QED
      BY <1>1, <2>2, <2>3 DEF Aims
  <1>4. /\ j.op = job[c].op /\ j.o = job[c].o /\ j.to = job[c].to /\ j.todo = job[c].todo
        /\ j.pos = job[c].pos /\ j.scope = job[c].scope
        /\ j.pc = job[c].pc + 1 /\ j.row = row /\ j.found = FALSE
    BY <1>1 DEF Jobs
  <1> HIDE DEF j
  <1>5. job'[c] = j /\ \A d \in Connections \ {c} : job'[d] = job[d]
    BY <1>2 DEF TInv
  <1>6. job' \in [Connections -> {Idle} \cup Jobs]
    BY <1>2, <1>3 DEF TInv
  <1>7. QED
    BY <1>3, <1>4, <1>5, <1>6 DEF TInv

LEMMA IdleTyped ==
    ASSUME TInv, NEW c \in Connections, job' = [job EXCEPT ![c] = Idle]
    PROVE  /\ job' \in [Connections -> {Idle} \cup Jobs]
           /\ \A d \in Connections : job'[d] # Idle => Aims(job'[d])
           /\ job'[c] = Idle /\ \A d \in Connections \ {c} : job'[d] = job[d]
BY DEF TInv

LEMMA RollbackTyped == ASSUME TInv, NEW c \in Connections, Rollback(c) PROVE TInv'
  <1>1. cur' \in [Orders -> Row] /\ lock' \in [Orders -> Connections \cup {Free}]
    BY DEF Rollback, TInv
  <1>2. job' = [job EXCEPT ![c] = Idle] /\ UNCHANGED <<com, left>>
    BY DEF Rollback
  <1>3. QED
    BY <1>1, <1>2, IdleTyped DEF TInv

LEMMA BeginTyped ==
    ASSUME TInv, NEW c \in Connections, Begin(c)
    PROVE  /\ TInv' /\ UNCHANGED <<com, cur, lock>>
           /\ ~Busy(c) /\ job'[c].pc = 1 /\ job'[c].op \in Ops /\ job'[c].todo = {}
           /\ \A d \in Connections \ {c} : job'[d] = job[d]
  <1>1. UNCHANGED <<com, cur, lock>> /\ ~Busy(c)
    BY DEF Begin
  <1>10. left' \in 0 .. MaxJobs
    BY JobsAssumption DEF Begin, TInv
  <1>2. PICK op \in Ops, o \in Orders, scope \in Scopes, pos \in Positions,
             to \in Branches \cup Statuses \cup Positions :
          /\ Asks(op, scope, to)
          /\ op # "across" => pos = CHOOSE q \in Positions : TRUE
          /\ op = "call" => com[o].life = "Open" /\ com[o].branch = Mother
          /\ op = "create" <=> cur[o].life = "None"
          /\ job' = [job EXCEPT ![c] = Handler(op, o, scope, pos, to)]
    BY Zenon DEF Begin
  <1> DEFINE j == Handler(op, o, scope, pos, to)
  <1>3. op \in AllOps /\ scope \in SUBSET Branches /\ com[o] \in Row
    BY OpsAssumption, ScopesAssumption DEF TInv
  <1>4. j \in Jobs
    BY <1>3 DEF Jobs, Handler
  <1>5. Aims(j)
    BY <1>2 DEF Aims, Asks, Handler
  <1>6. j.pc = 1 /\ j.op \in Ops /\ j.todo = {}
    BY DEF Handler
  <1> HIDE DEF j
  <1>7. job' = [job EXCEPT ![c] = j]
    BY <1>2 DEF j
  <1>8. /\ job' \in [Connections -> {Idle} \cup Jobs] /\ job'[c] = j
        /\ \A d \in Connections \ {c} : job'[d] = job[d]
    BY <1>4, <1>7 DEF TInv
  <1>9. QED
    BY <1>1, <1>5, <1>6, <1>8, <1>10 DEF TInv

-----------------------------------------------------------------------------
(* What a statement does, seen from the other connections: it locks rows   *)
(* that are free, changes rows it has locked, and leaves the committed     *)
(* versions and the other handlers alone.                                  *)

Advances(c) ==
    /\ com' = com
    /\ \A p \in Orders : lock'[p] = lock[p] \/ (lock[p] = Free /\ lock'[p] = c)
    /\ \A p \in Orders : cur'[p] = cur[p] \/ lock'[p] = c
    /\ \A d \in Connections \ {c} : job'[d] = job[d]
    /\ job'[c].op = job[c].op /\ job'[c].o = job[c].o /\ job'[c].pc # 1
    /\ Shifts(c)'

\* A statement that only moves the handler on.
LEMMA OnlyAdvance ==
    ASSUME TInv, NEW c \in Connections, Working(c), job[c].todo = {}, NEW row \in Row,
           Advance(c, row), UNCHANGED <<com, cur, lock, left>>
    PROVE  TInv' /\ Advances(c)
  <1>1. job'[c].pc # 1 /\ job'[c].todo = {}
    <2>1. job[c].pc \in Nat \ {0} /\ job'[c].pc = job[c].pc + 1
      BY AtWork, AdvanceTyped
    <2>2. job'[c].pc # 1
      BY <2>1
    <2>3. QED
      BY <2>2, AdvanceTyped
  <1>2. QED
    BY <1>1, AdvanceTyped DEF TInv, Advances, Shifts

\* A statement that writes one row and moves the handler on.
LEMMA WriteAdvance ==
    ASSUME TInv, NEW c \in Connections, Working(c), job[c].todo = {},
           NEW p \in Orders, Unlocked(c, p),
           NEW new \in Row, NEW row \in Row, Advance(c, row),
           cur' = [cur EXCEPT ![p] = new], lock' = [lock EXCEPT ![p] = c],
           UNCHANGED <<com, left>>
    PROVE  TInv' /\ Advances(c)
  <1>1. job'[c].pc # 1 /\ job'[c].todo = {}
    <2>1. job[c].pc \in Nat \ {0} /\ job'[c].pc = job[c].pc + 1
      BY AtWork, AdvanceTyped
    <2>2. job'[c].pc # 1
      BY <2>1
    <2>3. QED
      BY <2>2, AdvanceTyped
  <1>2. QED
    BY <1>1, AdvanceTyped DEF TInv, Advances, Unlocked, Shifts

LEMMA LockAdvances ==
    ASSUME TInv, NEW c \in Connections, Shifts(c), Working(c), ~Finished(c), ReadForUpdate(c),
           ~Rollback(c)
    PROVE  /\ TInv' /\ Advances(c)
           /\ lock'[job[c].o] = c /\ Accepts(job[c], cur[job[c].o])
           /\ Unlocked(c, job[c].o) /\ Advance(c, cur[job[c].o]) /\ cur' = cur
  <1>0. job[c].todo = {}
    BY DEF Shifts, ReadForUpdate, IsShift
  <1> DEFINE o == job[c].o
  <1>1. /\ o \in Orders /\ cur[o] \in Row /\ Unlocked(c, o) /\ Accepts(job[c], cur[o])
        /\ lock' = [lock EXCEPT ![o] = c] /\ Advance(c, cur[o]) /\ UNCHANGED <<com, cur, left>>
    BY AtWork DEF ReadForUpdate
  <1> HIDE DEF o
  <1>2. cur' = [cur EXCEPT ![o] = cur[o]]
    BY <1>1 DEF TInv
  <1>3. TInv' /\ Advances(c)
    BY <1>0, <1>1, <1>2, WriteAdvance
  <1>4. lock'[o] = c
    BY <1>1 DEF TInv
  <1>5. QED
    BY <1>1, <1>3, <1>4 DEF o

\* The row create inserts.
LEMMA InsertAdvances ==
    ASSUME TInv, NEW c \in Connections, Shifts(c), Working(c), ~Finished(c), Insert(c)
    PROVE  /\ TInv' /\ Advances(c)
           /\ \A p \in Orders : \/ cur'[p] = cur[p]
                                \/ cur'[p].logged = cur'[p].branch
           /\ job[c].op = "create"
  <1>0. job[c].todo = {}
    BY DEF Shifts, Insert, IsShift
  <1> DEFINE o == job[c].o
             b == job[c].to
  <1>1. PICK s \in Statuses :
          LET row == [NoRow(s) EXCEPT !.life = "Open", !.branch = b, !.sort = Last,
                                      !.logged = b]
          IN  cur' = [cur EXCEPT ![o] = row] /\ Advance(c, row)
    BY DEF Insert
  <1> DEFINE row == [NoRow(s) EXCEPT !.life = "Open", !.branch = b, !.sort = Last,
                                     !.logged = b]
  <1>2. job[c].op = "create" /\ b \in Branches /\ o \in Orders
    BY AtWork, NextStatement DEF Insert, Aims
  <1>3. row \in Row /\ row.logged = row.branch
    BY <1>2, NoRowIsRow, PositionsAssumption DEF Row, NoRow
  <1>4. /\ Unlocked(c, o) /\ lock' = [lock EXCEPT ![o] = c] /\ UNCHANGED <<com, left>>
    BY DEF Insert
  <1>5. cur' = [cur EXCEPT ![o] = row] /\ Advance(c, row)
    BY <1>1
  <1> HIDE DEF row, o, b
  <1>6. TInv' /\ Advances(c)
    BY <1>0, <1>2, <1>3, <1>4, <1>5, WriteAdvance
  <1>7. QED
    BY <1>2, <1>3, <1>5, <1>6 DEF TInv

LEMMA WriteAdvances ==
    ASSUME TInv, NEW c \in Connections, Shifts(c), Working(c), ~Finished(c), Write(c)
    PROVE  /\ TInv' /\ Advances(c) /\ job[c].op # "create"
           /\ cur'[job[c].o] = Written(job[c], cur[job[c].o])
           /\ \A p \in Orders \ {job[c].o} : cur'[p] = cur[p]
           /\ Refreshes(job[c].op) => job'[c].row = cur'[job[c].o]
  <1>0. job[c].todo = {}
    BY DEF Shifts, Write, IsShift
  <1> DEFINE o == job[c].o
             row == Written(job[c], cur[o])
             kept == IF Refreshes(job[c].op) THEN row ELSE job[c].row
  <1>1. o \in Orders /\ job[c].op # "create" /\ job[c].row \in Row
    BY AtWork, NextStatement DEF Write
  <1>2. row \in Row /\ kept \in Row
    BY <1>1, AtWork, WrittenIsRow
  <1>3. /\ Unlocked(c, o) /\ cur' = [cur EXCEPT ![o] = row]
        /\ lock' = [lock EXCEPT ![o] = c] /\ Advance(c, kept) /\ UNCHANGED <<com, left>>
    BY DEF Write
  <1>4. Refreshes(job[c].op) => kept = row
    OBVIOUS
  <1> HIDE DEF row, kept, o
  <1>5. TInv' /\ Advances(c)
    BY <1>0, <1>1, <1>2, <1>3, WriteAdvance
  <1>6. job'[c].row = kept
    BY <1>2, <1>3, AdvanceTyped
  <1>7. QED
    BY <1>1, <1>3, <1>4, <1>5, <1>6 DEF TInv, row, o

LEMMA PutFirstAdvances ==
    ASSUME TInv, NEW c \in Connections, Shifts(c), Working(c), ~Finished(c), PutFirst(c)
    PROVE  /\ TInv' /\ Advances(c) /\ job'[c].row = job[c].row
           /\ \A p \in Orders : /\ cur'[p].logged = cur[p].logged
                                /\ cur'[p].branch = cur[p].branch
  <1>0. job[c].todo = {}
    BY DEF Shifts, PutFirst, IsShift
  <1> DEFINE o == job[c].o
             new == [cur[o] EXCEPT !.sort = 1]
  <1>1. o \in Orders /\ cur[o] \in Row /\ job[c].row \in Row
    BY AtWork
  <1>2. new \in Row /\ new.logged = cur[o].logged /\ new.branch = cur[o].branch
    BY <1>1 DEF Row
  <1>3. /\ Unlocked(c, o) /\ cur' = [cur EXCEPT ![o] = new]
        /\ lock' = [lock EXCEPT ![o] = c] /\ Advance(c, job[c].row) /\ UNCHANGED <<com, left>>
    BY <1>1 DEF PutFirst, TInv
  <1> HIDE DEF new, o
  <1>4. TInv' /\ Advances(c)
    BY <1>0, <1>1, <1>2, <1>3, WriteAdvance
  <1>5. QED
    BY <1>1, <1>2, <1>3, <1>4, AdvanceTyped DEF TInv

LEMMA SkipAdvances ==
    ASSUME TInv, NEW c \in Connections, Shifts(c), Working(c), ~Finished(c), SkipTop(c) \/ ShiftDone(c)
    PROVE  TInv' /\ Advances(c) /\ job'[c].row = job[c].row /\ cur' = cur
  <1>0. job[c].todo = {}
    BY DEF Shifts, SkipTop, ShiftDone
  <1>1. Advance(c, job[c].row) /\ UNCHANGED <<com, cur, lock, left>> /\ job[c].row \in Row
    BY AtWork DEF SkipTop, ShiftDone
  <1>2. QED
    BY <1>0, <1>1, OnlyAdvance, AdvanceTyped

\* A shift is never the first statement of a handler.
LEMMA FindAdvances ==
    ASSUME TInv, NEW c \in Connections, Shifts(c), Working(c), ~Finished(c), Find(c)
    PROVE  TInv' /\ Advances(c) /\ job'[c].row = job[c].row /\ cur' = cur
  <1> DEFINE found == {p \in Orders : Matches(Seen(c, p), Shift(job[c], Statement(c)))}
             j == [job[c] EXCEPT !.found = TRUE, !.todo = found]
  <1>1. job[c] \in Jobs /\ Aims(job[c]) /\ job[c].pc # 1
    BY AtWork, NextStatement DEF Find, IsShift
  <1>2. found \in SUBSET Orders
    OBVIOUS
  <1>3. job' = [job EXCEPT ![c] = j] /\ UNCHANGED <<com, cur, lock, left>>
    BY DEF Find, TInv
  <1> HIDE DEF found
  <1>4. j \in Jobs /\ j.op = job[c].op /\ j.o = job[c].o /\ j.pc = job[c].pc
        /\ j.row = job[c].row /\ j.to = job[c].to
    BY <1>1, <1>2 DEF Jobs
  <1>5. Aims(j)
    BY <1>1, <1>4 DEF Aims
  <1> HIDE DEF j
  <1>6. job'[c] = j /\ \A d \in Connections \ {c} : job'[d] = job[d]
    BY <1>3 DEF TInv
  <1>7. Shifts(c)'
    BY <1>4, <1>6 DEF Find, Shifts, Statement, Finished, Working, AtTop
  <1>8. QED
    BY <1>1, <1>3, <1>4, <1>5, <1>6, <1>7 DEF TInv, Advances

LEMMA TouchAdvances ==
    ASSUME TInv, NEW c \in Connections, Shifts(c), Working(c), Touch(c)
    PROVE  /\ TInv' /\ Advances(c) /\ job'[c].row = job[c].row
           /\ \A p \in Orders : /\ cur'[p].logged = cur[p].logged
                                /\ cur'[p].branch = cur[p].branch
  <1> DEFINE shift == Shift(job[c], Statement(c))
  <1>1. PICK p \in job[c].todo :
          /\ Unlocked(c, p)
          /\ IF Matches(cur[p], shift)
             THEN /\ cur' = [cur EXCEPT ![p].sort = @ + shift.by]
                  /\ lock' = [lock EXCEPT ![p] = c]
             ELSE UNCHANGED <<cur, lock>>
          /\ job' = [job EXCEPT ![c].todo = @ \ {p}]
          /\ UNCHANGED <<com, left>>
    BY DEF Touch
  <1> DEFINE j == [job[c] EXCEPT !.todo = @ \ {p}]
             new == [cur[p] EXCEPT !.sort = @ + shift.by]
  <1>2. job[c] \in Jobs /\ Aims(job[c]) /\ job[c].todo \in SUBSET Orders /\ p \in Orders
    BY AtWork DEF Jobs
  <1>3. IsShift(Statement(c)) /\ ~Finished(c) /\ job[c].pc # 1
        /\ (Statement(c) = "slide" => job[c].op \in {"within", "resort"})
    <2>1. IsShift(Statement(c)) /\ ~Finished(c)
      BY <1>1 DEF Shifts
    <2>2. QED
      BY <2>1, NextStatement DEF IsShift
  <1>4. /\ job' = [job EXCEPT ![c] = j] /\ j \in Jobs /\ Aims(j)
        /\ j.op = job[c].op /\ j.o = job[c].o /\ j.pc = job[c].pc /\ j.row = job[c].row
        /\ j.todo \subseteq job[c].todo
    <2>1. /\ j \in Jobs /\ j.op = job[c].op /\ j.o = job[c].o /\ j.pc = job[c].pc
          /\ j.row = job[c].row /\ j.todo = job[c].todo \ {p} /\ j.to = job[c].to
      BY <1>2 DEF Jobs
    <2>2. job' = [job EXCEPT ![c] = j]
      BY <1>1 DEF TInv
    <2>3. QED
      BY <1>2, <2>1, <2>2 DEF Aims
  <1>5. ASSUME Matches(cur[p], shift)
        PROVE  /\ cur' = [cur EXCEPT ![p] = new] /\ lock' = [lock EXCEPT ![p] = c]
               /\ new \in Row /\ new.logged = cur[p].logged /\ new.branch = cur[p].branch
    <2>1. cur[p] \in Row
      BY <1>2 DEF TInv
    <2>2. new \in Row
      BY <1>2, <1>3, <1>5, <2>1, ShiftedIsRow
    <2>3. QED
      BY <1>1, <1>5, <2>1, <2>2 DEF TInv, Row
  <1> HIDE DEF j, new, shift
  <1>6. job'[c] = j /\ \A d \in Connections \ {c} : job'[d] = job[d]
    BY <1>4 DEF TInv
  <1>7. Shifts(c)'
    <2>1. ~Finished(c) /\ IsShift(Statement(c)) /\ ~AtTop(job[c], Statement(c))
      BY <1>1 DEF Shifts
    <2>2. Statement(c)' = Statement(c) /\ ~Finished(c)'
      BY <1>4, <1>6, <2>1 DEF Statement, Finished, Working
    <2>3. ~AtTop(job[c], Statement(c))'
      BY <1>4, <1>6, <2>1, <2>2 DEF AtTop
    <2>4. QED
      BY <2>1, <2>2, <2>3 DEF Shifts
  <1>8. CASE Matches(cur[p], shift)
    <2>1. /\ cur' \in [Orders -> Row] /\ lock' \in [Orders -> Connections \cup {Free}]
          /\ \A q \in Orders : lock'[q] = lock[q] \/ (lock[q] = Free /\ lock'[q] = c)
          /\ \A q \in Orders : cur'[q] = cur[q] \/ lock'[q] = c
          /\ \A q \in Orders : /\ cur'[q].logged = cur[q].logged
                               /\ cur'[q].branch = cur[q].branch
      BY <1>1, <1>2, <1>5, <1>8 DEF TInv, Unlocked
    <2>2. com' = com /\ left' = left
      BY <1>1
    <2>3. TInv'
      BY <1>4, <1>6, <2>1, <2>2 DEF TInv
    <2>4. QED
      BY <1>3, <1>4, <1>6, <1>7, <2>1, <2>2, <2>3 DEF Advances
  <1>9. CASE ~Matches(cur[p], shift)
    BY <1>1, <1>2, <1>3, <1>4, <1>6, <1>7, <1>9 DEF TInv, Advances
  <1>10. QED
    BY <1>8, <1>9

\* The other outcomes of a first SELECT: the handler is done, or updateSort
\* leaves its transaction open.
LEMMA ReadTyped ==
    ASSUME TInv, NEW c \in Connections, Shifts(c), Working(c), ~Finished(c), Read(c),
           ~Rollback(c)
    PROVE  /\ TInv' /\ cur' = cur /\ job[c].op \notin {"take", "restore"} /\ job[c].pc = 1
           /\ Advances(c) \/ Leak(c)
  <1>1. /\ job[c].todo = {} /\ Seen(c, job[c].o) \in Row /\ job[c].pc = 1
        /\ job[c].op \notin {"take", "restore"}
    BY AtWork, SeenIsRow, NextStatement DEF Shifts, Read, IsShift
  <1>2. CASE Leak(c)
    <2> DEFINE j == [job[c] EXCEPT !.op = "leaked"]
    <2>1. job' = [job EXCEPT ![c] = j] /\ UNCHANGED <<com, cur, lock, left>>
      BY <1>2 DEF Leak, TInv
    <2>2. job[c] \in Jobs
      BY AtWork
    <2>3. j \in Jobs /\ j.op = "leaked"
      BY <2>2 DEF Jobs
    <2>4. Aims(j)
      BY <2>3 DEF Aims
    <2> HIDE DEF j
    <2>5. QED
      BY <1>1, <1>2, <2>1, <2>3, <2>4 DEF TInv
  <1>3. CASE Advance(c, Seen(c, job[c].o)) /\ UNCHANGED <<com, cur, lock, left>>
    BY <1>1, <1>3, OnlyAdvance
  <1>4. QED
    BY <1>2, <1>3 DEF Read

LEMMA CommitTyped == ASSUME TInv, NEW c \in Connections, Commit(c) PROVE TInv'
  <1>1. com' \in [Orders -> Row] /\ lock' \in [Orders -> Connections \cup {Free}]
    BY DEF Commit, TInv
  <1>2. job' = [job EXCEPT ![c] = Idle] /\ UNCHANGED <<cur, left>>
    BY DEF Commit
  <1>3. QED
    BY <1>1, <1>2, IdleTyped DEF TInv

-----------------------------------------------------------------------------
(* The invariant.                                                          *)

\* A statement of c keeps the locks what they are.
LEMMA LocksKept ==
    ASSUME TInv, LInv, NEW c \in Connections, Working(c), Advances(c),
           job[c].op \in {"take", "restore"} /\ job[c].pc = 1 =>
              lock'[job[c].o] = c /\ Checked(job[c].op, com[job[c].o])
    PROVE  LInv'
  <1>1. \A d \in Connections : Shifts(d)'
    BY DEF LInv, Advances, Shifts, Working, Finished, Statement
  <1>2. \A o \in Orders : lock'[o] = Free => cur'[o] = com'[o]
    BY FreeAssumption DEF LInv, Advances
  <1>3. \A o \in Orders : \A d \in Connections :
           lock'[o] = d => Working(d)' /\ job'[d].pc # 1
    BY FreeAssumption DEF LInv, Advances, Working
  <1>4. ASSUME NEW d \in Connections, job'[d].op \in {"take", "restore"}, job'[d].pc # 1
        PROVE  lock'[job'[d].o] = d /\ Checked(job'[d].op, com'[job'[d].o])
    <2>1. CASE d = c
      <3>1. job[c].o \in Orders
        BY AtWork
      <3>2. QED
        BY <1>4, <2>1, <3>1, FreeAssumption DEF LInv, Advances
    <2>2. CASE d # c
      <3>1. job'[d] = job[d] /\ com' = com
        BY <2>2 DEF Advances
      <3>2. Working(d)
        BY <1>4, <3>1 DEF Working, AllOps
      <3>3. job[d].o \in Orders
        BY <3>2, AtWork
      <3>4. QED
        BY <1>4, <3>1, <3>3, FreeAssumption DEF LInv, Advances
    <2>3. QED
      BY <2>1, <2>2
  <1>5. QED
    BY <1>1, <1>2, <1>3, <1>4 DEF LInv

\* The end of a handler, by COMMIT or ROLLBACK.
LEMMA EndKeeps ==
    ASSUME TInv, LInv, NEW c \in Connections, Rollback(c) \/ Commit(c)
    PROVE  LInv'
  <1>1. /\ job'[c] = Idle /\ \A d \in Connections \ {c} : job'[d] = job[d]
        /\ lock' = [p \in Orders |-> IF lock[p] = c THEN Free ELSE lock[p]]
        /\ \A p \in Orders : lock[p] # c => com'[p] = com[p] /\ cur'[p] = cur[p]
        /\ \A p \in Orders : lock[p] = c => com'[p] = cur'[p]
    BY DEF Rollback, Commit, TInv
  <1>2. ~Working(c)' /\ job'[c].op \notin {"take", "restore"}
    BY <1>1 DEF Working, AllOps, Idle
  <1>3. \A d \in Connections : Shifts(d)'
    BY <1>1, <1>2 DEF LInv, Shifts, Working, Finished, Statement
  <1>4. \A o \in Orders : lock'[o] = Free => cur'[o] = com'[o]
    BY <1>1 DEF LInv
  <1>5. \A o \in Orders : \A d \in Connections :
           lock'[o] = d => Working(d)' /\ job'[d].pc # 1
    BY <1>1, FreeAssumption DEF LInv, Working
  <1>6. ASSUME NEW d \in Connections, job'[d].op \in {"take", "restore"}, job'[d].pc # 1
        PROVE  lock'[job'[d].o] = d /\ Checked(job'[d].op, com'[job'[d].o])
    <2>1. d # c /\ job'[d] = job[d]
      BY <1>1, <1>2, <1>6
    <2>2. Working(d)
      BY <1>6, <2>1 DEF Working, AllOps
    <2>3. job[d].o \in Orders /\ lock[job[d].o] = d
          /\ Checked(job[d].op, com[job[d].o])
      BY <1>6, <2>1, <2>2, AtWork DEF LInv
    <2>4. QED
      BY <1>1, <2>1, <2>3
  <1>7. QED
    BY <1>3, <1>4, <1>5, <1>6 DEF LInv

LEMMA BeginKeeps ==
    ASSUME TInv, LInv, NEW c \in Connections, Begin(c) PROVE LInv'
  <1>1. /\ ~Busy(c) /\ job'[c].pc = 1 /\ job'[c].todo = {}
        /\ UNCHANGED <<com, cur, lock>> /\ \A d \in Connections \ {c} : job'[d] = job[d]
    BY BeginTyped
  <1>2. ~Working(c)
    BY <1>1 DEF Busy, Working, AllOps
  <1>3. QED
    BY <1>1, <1>2 DEF LInv, Shifts, Working, Finished, Statement

LEMMA LeakKeeps ==
    ASSUME TInv, LInv, NEW c \in Connections, Working(c), job[c].pc = 1, Leak(c)
    PROVE  LInv'
  <1>1. job[c] \in Jobs
    BY AtWork
  <1>2. job'[c].op = "leaked" /\ (\A d \in Connections \ {c} : job'[d] = job[d])
        /\ UNCHANGED <<com, cur, lock>>
    BY <1>1 DEF Leak, TInv, Jobs
  <1>3. ~Working(c)'
    BY <1>2 DEF Working, AllOps
  <1>4. QED
    BY <1>2, <1>3 DEF LInv, Shifts, Working, Finished, Statement

\* A statement of a handler, without its ROLLBACK.
LEMMA StatementKeeps ==
    ASSUME TInv, LInv, NEW c \in Connections, Execute(c), ~Rollback(c)
    PROVE  TInv' /\ LInv'
  <1>1. Working(c) /\ ~Finished(c) /\ Shifts(c)
    BY DEF Execute, LInv
  <1>2. CASE Read(c)
    <2>1. CASE Advances(c)
      BY <1>1, <1>2, <2>1, ReadTyped, LocksKept
    <2>2. CASE Leak(c)
      BY <1>1, <1>2, <2>2, ReadTyped, LeakKeeps
    <2>3. QED
      BY <1>1, <1>2, <2>1, <2>2, ReadTyped
  <1>3. CASE ReadForUpdate(c)
    <2>1. /\ TInv' /\ Advances(c) /\ lock'[job[c].o] = c
          /\ Accepts(job[c], cur[job[c].o]) /\ Unlocked(c, job[c].o)
      BY <1>1, <1>3, LockAdvances
    <2>2. job[c].o \in Orders /\ job[c].pc = 1
      BY <1>1, <1>3, AtWork, NextStatement DEF ReadForUpdate
    <2>3. cur[job[c].o] = com[job[c].o]
      BY <2>1, <2>2 DEF LInv, Unlocked
    <2>4. job[c].op \in {"take", "restore"} => Checked(job[c].op, com[job[c].o])
      BY <2>1, <2>3 DEF Accepts, Checked
    <2>5. QED
      BY <1>1, <2>1, <2>4, LocksKept
  <1>4. CASE Insert(c) \/ Write(c) \/ PutFirst(c) \/ SkipTop(c) \/ Find(c) \/ Touch(c)
             \/ ShiftDone(c)
    <2>1. TInv' /\ Advances(c)
      BY <1>1, <1>4, InsertAdvances, WriteAdvances, PutFirstAdvances, SkipAdvances,
         FindAdvances, TouchAdvances
    <2>2. job[c].op \in {"take", "restore"} => job[c].pc # 1
      <3>1. Insert(c) => job[c].op = "create"
        BY <1>1, InsertAdvances
      <3>2. Touch(c) => job[c].todo # {}
        BY DEF Touch
      <3>3. ~Insert(c) => Statement(c) \notin {"insert", "read", "lock"}
        BY <1>1, <1>4, <3>2 DEF Write, PutFirst, SkipTop, AtTop, Find, ShiftDone, IsShift, Shifts
      <3>4. QED
        BY <1>1, <3>1, <3>3, NextStatement
    <2>3. QED
      BY <1>1, <2>1, <2>2, LocksKept
  <1>5. QED
    BY <1>2, <1>3, <1>4 DEF Execute

LEMMA InitKeeps == Init => TInv /\ LInv
  <1> SUFFICES ASSUME Init PROVE TInv /\ LInv
    OBVIOUS
  <1>1. com \in [Orders -> Row] /\ cur = com
    BY BoardsAssumption DEF Init
  <1>2. Idle.op = "idle"
    BY DEF Idle
  <1>3. \A c \in Connections : job[c] = Idle
    BY DEF Init
  <1>4. left \in 0 .. MaxJobs
    BY JobsAssumption DEF Init
  <1>5. TInv
    BY <1>1, <1>3, <1>4 DEF Init, TInv
  <1>6. LInv
    BY <1>1, <1>2, <1>3, FreeAssumption DEF Init, LInv, Shifts, Working, AllOps
  <1>7. QED
    BY <1>5, <1>6

LEMMA StepKeeps == TInv /\ LInv /\ [Next]_vars => TInv' /\ LInv'
  <1> SUFFICES ASSUME TInv, LInv, [Next]_vars PROVE TInv' /\ LInv'
    OBVIOUS
  <1>1. CASE UNCHANGED vars
    BY <1>1 DEF vars, TInv, LInv, Shifts, Working, Finished, Statement
  <1>2. ASSUME NEW c \in Connections, Begin(c) PROVE TInv' /\ LInv'
    BY <1>2, BeginTyped, BeginKeeps
  <1>3. ASSUME NEW c \in Connections, Rollback(c) \/ Commit(c) PROVE TInv' /\ LInv'
    BY <1>3, RollbackTyped, CommitTyped, EndKeeps
  <1>4. ASSUME NEW c \in Connections, Execute(c) PROVE TInv' /\ LInv'
    BY <1>3, <1>4, StatementKeeps
  <1>5. QED
    BY <1>1, <1>2, <1>3, <1>4 DEF Next, Step, DeadlockAbort

-----------------------------------------------------------------------------
(* The theorems.                                                           *)

\* The invariant holds in every reachable state.
THEOREM Invariant == Spec => [](TInv /\ LInv)
  <1>1. Init => TInv /\ LInv
    BY InitKeeps
  <1>2. TInv /\ LInv /\ [Next]_vars => (TInv /\ LInv)'
    BY StepKeeps
  <1>3. QED
    BY <1>1, <1>2, PTL DEF Spec

\* The rows, the locks and the handlers of moveRepairOrder, take and the others
\* keep their types, and a row nobody has locked is as committed.
THEOREM TypeCorrect == Spec => []TypeOK
  <1>1. TInv /\ LInv => TypeOK
    BY DEF TInv, LInv, TypeOK
  <1>2. QED
    BY <1>1, Invariant, PTL

\* When takeRepairOrder or restoreToMother commits, the row it replaces is still
\* the row it has checked under FOR UPDATE, whatever the other handlers do.
THEOREM LockedMovesAreFreshHolds == Spec => LockedMovesAreFresh
  <1> DEFINE Fresh ==
        \A c \in Connections : Commit(c) =>
           LET o == job[c].o
           IN  /\ job[c].op = "take" => com[o].branch = Mother /\ com[o].life = "Open"
               /\ job[c].op = "restore" => /\ com[o].branch # Mother /\ com[o].life = "Open"
                                           /\ com[o].fromMother
  <1>1. TInv /\ LInv => Fresh
    <2> SUFFICES ASSUME TInv, LInv, NEW c \in Connections, Commit(c)
                 PROVE  LET o == job[c].o
                        IN  /\ job[c].op = "take" => com[o].branch = Mother /\ com[o].life = "Open"
                            /\ job[c].op = "restore" => /\ com[o].branch # Mother
                                                        /\ com[o].life = "Open"
                                                        /\ com[o].fromMother
      OBVIOUS
    <2>1. ASSUME job[c].op \in {"take", "restore"} PROVE job[c].pc # 1
      <3>1. Finished(c)
        BY DEF Commit
      <3>2. Len(Program(job[c].op)) = 4 \/ Len(Program(job[c].op)) = 5
        BY <2>1, LengthsAre, Zenon
      <3>3. job[c].pc > Len(Program(job[c].op)) /\ job[c].pc \in Nat
        BY <3>1, AtWork DEF Finished
      <3> DEFINE n == Len(Program(job[c].op))
                 pc == job[c].pc
      <3>4. (n = 4 \/ n = 5) /\ pc > n /\ pc \in Nat
        BY <3>2, <3>3
      <3> HIDE DEF n, pc
      <3>5. pc # 1
        BY <3>4
      <3>6. QED
        BY <3>5 DEF pc
    <2>2. QED
      BY <2>1 DEF LInv, Checked
  <1>2. TInv /\ LInv => [Fresh]_vars
    BY <1>1
  <1>3. Spec => [][Fresh]_vars
    BY <1>2, Invariant, PTL
  <1>4. QED
    BY <1>3 DEF LockedMovesAreFresh

-----------------------------------------------------------------------------
(* The history names the owner, as long as nobody transfers: transfer      *)
(* logs the branch it read without a lock.                                 *)

OInv ==
    /\ \A o \in Orders : com[o].logged = com[o].branch /\ cur[o].logged = cur[o].branch
    /\ \A c \in Connections : Working(c) => job[c].op \in Ops
    /\ \A c \in Connections :
          job[c].op \in {"take", "restore"} /\ job[c].pc # 1 =>
             job[c].row.branch = cur[job[c].o].branch

\* A write that does not come from transfer logs the move it makes.
LEMMA WrittenNamesOwner ==
    ASSUME NEW j \in Jobs, Aims(j), j.op \in AllOps \ {"create", "transfer"},
           NEW row \in Row, row.logged = row.branch,
           j.op \in {"take", "restore"} => j.row.branch = row.branch
    PROVE  Written(j, row).logged = Written(j, row).branch
  <1>1. ASSUME NEW new, j.row.branch = row.branch
        PROVE  Rehomed(row, j.row.branch, new).logged = Rehomed(row, j.row.branch, new).branch
    <2> DEFINE moved == [row EXCEPT !.branch = new, !.sort = Last]
    <2>1. moved.branch = new /\ moved.logged = row.branch
      BY DEF Row
    <2>2. DOMAIN moved = DOMAIN row /\ moved = [x \in DOMAIN row |-> moved[x]]
      BY DEF Row
    <2> HIDE DEF moved
    <2>3. CASE j.row.branch = new
      BY <1>1, <2>1, <2>3 DEF Rehomed, Logged, moved
    <2>4. CASE j.row.branch # new
      BY <2>1, <2>2, <2>4 DEF Rehomed, Logged, Row, moved
    <2>5. QED
      BY <2>3, <2>4
  <1>2. CASE j.op = "take"
    BY <1>1, <1>2 DEF Written
  <1>3. CASE j.op = "restore"
    BY <1>1, <1>3 DEF Written
  <1>4. CASE j.op \in {"update", "across", "within", "resort", "delete", "call"}
    BY <1>4 DEF Written, Row
  <1>5. QED
    BY <1>2, <1>3, <1>4 DEF AllOps

LEMMA StatementNamesOwner ==
    ASSUME "transfer" \notin Ops, TInv, LInv, OInv, NEW c \in Connections, Execute(c),
           ~Rollback(c)
    PROVE  OInv'
  <1>1. Working(c) /\ ~Finished(c) /\ Shifts(c) /\ job[c].o \in Orders
    BY AtWork DEF Execute, LInv
  <1>2. ASSUME Advances(c), \A p \in Orders : cur'[p].logged = cur'[p].branch,
               job[c].op \in {"take", "restore"} =>
                  job'[c].row.branch = cur'[job[c].o].branch
        PROVE  OInv'
    <2>1. \A d \in Connections : Working(d)' => job'[d].op \in Ops
      BY <1>1, <1>2 DEF OInv, Advances, Working
    <2>2. ASSUME NEW d \in Connections \ {c}, job'[d].op \in {"take", "restore"},
                 job'[d].pc # 1
          PROVE  job'[d].row.branch = cur'[job'[d].o].branch
      <3>1. job'[d] = job[d] /\ Working(d)
        BY <1>2, <2>2 DEF Advances, Working, AllOps
      <3>2. lock[job[d].o] = d /\ job[d].o \in Orders
        BY <2>2, <3>1, AtWork DEF LInv
      <3>3. cur'[job[d].o] = cur[job[d].o]
        BY <1>2, <3>2, FreeAssumption DEF Advances
      <3>4. QED
        BY <2>2, <3>1, <3>3 DEF OInv
    <2>3. QED
      BY <1>2, <2>1, <2>2 DEF OInv, Advances
  <1>3. CASE Read(c)
    <2>1. cur' = cur /\ job[c].op \notin {"take", "restore"} /\ (Advances(c) \/ Leak(c))
      BY <1>1, <1>3, ReadTyped
    <2>2. CASE Advances(c)
      BY <1>2, <2>1, <2>2 DEF OInv
    <2>3. CASE Leak(c)
      <3>1. job'[c].op = "leaked" /\ (\A d \in Connections \ {c} : job'[d] = job[d])
            /\ UNCHANGED <<com, cur>>
        BY <1>1, <2>3, AtWork DEF Leak, TInv, Jobs
      <3>2. QED
        BY <3>1 DEF OInv, Working, AllOps
    <2>4. QED
      BY <2>1, <2>2, <2>3
  <1>4. CASE ReadForUpdate(c)
    <2>1. Advances(c) /\ cur' = cur /\ Advance(c, cur[job[c].o]) /\ cur[job[c].o] \in Row
      BY <1>1, <1>4, LockAdvances, AtWork
    <2>2. job'[c].row = cur[job[c].o]
      BY <1>1, <2>1, AdvanceTyped
    <2>3. QED
      BY <1>2, <2>1, <2>2 DEF OInv
  <1>5. CASE Insert(c)
    <2>1. /\ Advances(c) /\ job[c].op = "create"
          /\ \A p \in Orders : cur'[p] = cur[p] \/ cur'[p].logged = cur'[p].branch
      BY <1>1, <1>5, InsertAdvances
    <2>2. QED
      BY <1>2, <2>1 DEF OInv
  <1>6. CASE Write(c)
    <2> DEFINE o == job[c].o
    <2>1. /\ Advances(c) /\ job[c].op # "create" /\ cur'[o] = Written(job[c], cur[o])
          /\ \A p \in Orders \ {o} : cur'[p] = cur[p]
          /\ Refreshes(job[c].op) => job'[c].row = cur'[o]
      BY <1>1, <1>6, WriteAdvances
    <2>2. job[c].op \in {"take", "restore"} => job[c].row.branch = cur[o].branch
      <3>1. job[c].op \in {"take", "restore"} => job[c].pc # 1
        BY <1>1, <1>6, NextStatement DEF Write
      <3>2. QED
        BY <3>1 DEF OInv
    <2>3. /\ job[c] \in Jobs /\ Aims(job[c]) /\ cur[o] \in Row
          /\ job[c].op \in AllOps \ {"create", "transfer"}
      BY <1>1, <2>1, AtWork DEF OInv
    <2>4. cur'[o].logged = cur'[o].branch
      BY <1>1, <2>1, <2>2, <2>3, WrittenNamesOwner DEF OInv
    <2>5. job[c].op \in {"take", "restore"} => job'[c].row.branch = cur'[o].branch
      BY <2>1 DEF Refreshes
    <2>6. QED
      BY <1>2, <2>1, <2>4, <2>5 DEF OInv
  <1>7. ASSUME Advances(c), job'[c].row = job[c].row,
               job[c].op \in {"take", "restore"} => job[c].pc # 1,
               \A p \in Orders : /\ cur'[p].logged = cur[p].logged
                                 /\ cur'[p].branch = cur[p].branch
        PROVE  OInv'
    <2>1. job[c].op \in {"take", "restore"} => job'[c].row.branch = cur'[job[c].o].branch
      BY <1>1, <1>7 DEF OInv
    <2>2. QED
      BY <1>2, <1>7, <2>1 DEF OInv
  <1>8. CASE PutFirst(c)
    <2>1. job[c].pc # 1
      BY <1>1, <1>8, NextStatement DEF PutFirst
    <2>2. QED
      BY <1>1, <1>7, <1>8, <2>1, PutFirstAdvances
  <1>9. CASE SkipTop(c) \/ ShiftDone(c) \/ Find(c)
    <2>1. job[c].pc # 1
      BY <1>1, <1>9, NextStatement DEF SkipTop, ShiftDone, Find, IsShift, AtTop
    <2>2. Advances(c) /\ job'[c].row = job[c].row /\ cur' = cur
      BY <1>1, <1>9, SkipAdvances, FindAdvances
    <2>3. QED
      BY <1>7, <2>1, <2>2
  <1>10. CASE Touch(c)
    <2>1. job[c].pc # 1
      BY <1>1, <1>10, NextStatement DEF Touch, Shifts, IsShift
    <2>2. QED
      BY <1>1, <1>7, <1>10, <2>1, TouchAdvances
  <1>11. QED
    BY <1>3, <1>4, <1>5, <1>6, <1>8, <1>9, <1>10 DEF Execute

LEMMA EndNamesOwner ==
    ASSUME TInv, LInv, OInv, NEW c \in Connections, Rollback(c) \/ Commit(c)
    PROVE  OInv'
  <1>1. /\ job'[c] = Idle /\ \A d \in Connections \ {c} : job'[d] = job[d]
        /\ \A p \in Orders : lock[p] # c => com'[p] = com[p] /\ cur'[p] = cur[p]
        /\ \A p \in Orders : lock[p] = c => com'[p] = cur'[p]
        /\ \A p \in Orders : com'[p] \in {com[p], cur[p]} /\ cur'[p] \in {com[p], cur[p]}
    BY DEF Rollback, Commit, TInv
  <1>2. ~Working(c)' /\ job'[c].op \notin {"take", "restore"}
    BY <1>1 DEF Working, AllOps, Idle
  <1>3. ASSUME NEW d \in Connections, job'[d].op \in {"take", "restore"}, job'[d].pc # 1
        PROVE  job'[d].row.branch = cur'[job'[d].o].branch
    <2>1. d # c /\ job'[d] = job[d]
      BY <1>1, <1>2, <1>3
    <2>2. Working(d)
      BY <1>3, <2>1 DEF Working, AllOps
    <2>3. job[d].o \in Orders /\ lock[job[d].o] = d
      BY <1>3, <2>1, <2>2, AtWork DEF LInv
    <2>4. QED
      BY <1>1, <1>3, <2>1, <2>3 DEF OInv
  <1>4. QED
    BY <1>1, <1>2, <1>3 DEF OInv, Working

\* take, restoreToMother, create and the handlers that leave the branch alone
\* keep the last branch_id entry of the history equal to the owner, however
\* they interleave; only transferBranch, which reads without a lock, can break it.
THEOREM HistoryNamesOwnerHolds ==
    ASSUME "transfer" \notin Ops
    PROVE  Spec => []HistoryNamesOwner
  <1>1. Init => OInv
    BY BoardsAssumption DEF Init, OInv, Working, AllOps, Idle
  <1>2. TInv /\ LInv /\ OInv /\ [Next]_vars => OInv'
    <2> SUFFICES ASSUME TInv, LInv, OInv, [Next]_vars PROVE OInv'
      OBVIOUS
    <2>1. CASE UNCHANGED vars
      BY <2>1 DEF vars, OInv, Working
    <2>2. ASSUME NEW c \in Connections, Begin(c) PROVE OInv'
      <3>1. /\ job'[c].pc = 1 /\ job'[c].op \in Ops /\ UNCHANGED <<com, cur>>
            /\ \A d \in Connections \ {c} : job'[d] = job[d]
        BY <2>2, BeginTyped
      <3>2. QED
        BY <3>1 DEF OInv, Working
    <2>3. ASSUME NEW c \in Connections, Rollback(c) \/ Commit(c) PROVE OInv'
      BY <2>3, EndNamesOwner
    <2>4. ASSUME NEW c \in Connections, Execute(c) PROVE OInv'
      BY <2>3, <2>4, StatementNamesOwner
    <2>5. QED
      BY <2>1, <2>2, <2>3, <2>4 DEF Next, Step, DeadlockAbort
  <1>3. OInv => HistoryNamesOwner
    BY DEF OInv, HistoryNamesOwner
  <1>4. QED
    BY <1>1, <1>2, <1>3, Invariant, PTL DEF Spec

-----------------------------------------------------------------------------
(* One connection: the committed rows change as RepairOrderBoard says.     *)
(*                                                                         *)
(* SInv is the argument: a handler alone has the committed rows plus its   *)
(* own work, and how far it is tells what that work is.  Its order is      *)
(* Own, and another row is Done: shifted by the statements it has run,     *)
(* and by the one it is at if that row is no longer in todo.  At the end   *)
(* of the program Own and Done are the columns of the board's action.      *)

\* The statement of op that writes its order, and whether moveToTop follows.
WriteAt(op) ==
    CASE op = "create" -> 1
      [] op \in {"delete", "take", "call"} -> 2
      [] op \in {"update", "within", "resort", "transfer", "restore"} -> 3
      [] op = "across" -> 4

GoesToTop(op) == op \in {"create", "update", "transfer", "take", "restore", "call"}

\* With R the committed rows: the row the handler j writes for its order, the
\* row it then goes on with, and the order's row as it has it.
Landing(R, j) ==
    IF j.op = "create" THEN j.row ELSE Written([j EXCEPT !.row = R[j.o]], R[j.o])
Kept(R, j) == IF j.op = "create" \/ Refreshes(j.op) THEN Landing(R, j) ELSE R[j.o]
Held(R, j) == IF j.pc > WriteAt(j.op) THEN Kept(R, j) ELSE R[j.o]

Own(R, j) ==
    IF j.pc <= WriteAt(j.op) THEN R[j.o]
    ELSE IF GoesToTop(j.op) /\ j.pc > Len(Program(j.op)) /\ Kept(R, j).sort # 1
    THEN [Landing(R, j) EXCEPT !.sort = 1]
    ELSE Landing(R, j)

\* Another row after a shift, and after the first k statements of j.
Shifted(row, shift) == IF Matches(row, shift) THEN [row EXCEPT !.sort = @ + shift.by] ELSE row

Closed(R, j, row) == Shifted(row, Shift([j EXCEPT !.row = R[j.o]], "gap"))
Raised(R, j, row) ==
    IF Kept(R, j).sort = 1 THEN row
    ELSE Shifted(row, Shift([j EXCEPT !.row = Kept(R, j)], "above"))

Done(R, j, k, row) ==
    CASE j.op = "create" -> IF k < 2 THEN row ELSE Raised(R, j, row)
      [] j.op \in {"update", "transfer", "restore"} ->
           IF k < 2 THEN row ELSE IF k < 4 THEN Closed(R, j, row)
           ELSE Raised(R, j, Closed(R, j, row))
      [] j.op = "across" ->
           IF k < 2 THEN row ELSE IF k < 3 THEN Closed(R, j, row)
           ELSE Shifted(Closed(R, j, row), Shift([j EXCEPT !.row = R[j.o]], "slot"))
      [] j.op \in {"within", "resort"} ->
           IF k < 2 THEN row ELSE Shifted(row, Shift([j EXCEPT !.row = R[j.o]], "slide"))
      [] j.op = "delete" -> IF k < 3 THEN row ELSE Closed(R, j, row)
      [] j.op \in {"take", "call"} -> IF k < 3 THEN row ELSE Raised(R, j, row)

Born(s, b) == [NoRow(s) EXCEPT !.life = "Open", !.branch = b, !.sort = Last, !.logged = b]

\* What the handler has checked and what it has read.
Sound(R, j) ==
    /\ j.op = "create" => /\ R[j.o].life = "None"
                          /\ j.pc > 1 => \E s \in Statuses : j.row = Born(s, j.to)
    /\ j.op # "create" => /\ j.pc > 1 => Accepts(j, R[j.o]) /\ ~Pointless(j, R[j.o])
                          /\ j.row = Held(R, j)
    /\ j.op = "call" => R[j.o].branch = Mother

\* Where a handler alone is: its shift has reached the rows no longer in todo.
Alone(R, C, j) ==
    /\ Sound(R, j)
    /\ C[j.o] = Own(R, j)
    /\ j.o \notin j.todo /\ (j.todo # {} => j.found)
    /\ j.found => /\ j.pc <= Len(Program(j.op))
                  /\ IsShift(Program(j.op)[j.pc]) /\ ~AtTop(j, Program(j.op)[j.pc])
    /\ \A p \in Orders \ {j.o} :
         C[p] = Done(R, j, IF j.found /\ p \notin j.todo THEN j.pc ELSE j.pc - 1, R[p])

Low(R) == \A p \in Orders : R[p].sort <= MaxSort /\ (R[p].life = "None" => ~R[p].fromMother)

SInv == Low(com) /\ \A c \in Connections : Working(c) => Alone(com, cur, job[c])

-----------------------------------------------------------------------------
(* Where the statements of a program stand.                                *)

LEMMA WritesAre ==
    /\ WriteAt("create") = 1
    /\ \A op \in {"delete", "take", "call"} : WriteAt(op) = 2
    /\ \A op \in {"update", "within", "resort", "transfer", "restore"} : WriteAt(op) = 3
    /\ WriteAt("across") = 4
BY DEF WriteAt

LEMMA PlacesAre ==
    ASSUME NEW op \in AllOps, NEW i \in Nat \ {0}, ~(i > Len(Program(op)))
    PROVE  LET stmt == Program(op)[i]
           IN  /\ stmt \in {"insert", "write"} <=> i = WriteAt(op)
               /\ stmt = "insert" <=> op = "create" /\ i = 1
               /\ stmt = "one" <=> GoesToTop(op) /\ i = Len(Program(op))
               /\ stmt \in {"above", "one"} => i > WriteAt(op) /\ GoesToTop(op)
               /\ stmt \in {"slot", "slide"} => i < WriteAt(op)
               /\ stmt = "gap" => i < WriteAt(op) \/ op = "delete"
               /\ stmt = "slot" => op = "across"
               /\ stmt = "slide" => op \in {"within", "resort"}
               /\ stmt \in {"read", "lock"} => i = 1 /\ 1 < WriteAt(op) /\ op # "create"
               /\ stmt \in {"insert", "write", "one", "read", "lock"} \/ IsShift(stmt)
               /\ i + 1 > Len(Program(op)) <=> i = Len(Program(op))
  <1> DEFINE Good(stmt, w, l) ==
               /\ stmt \in {"insert", "write"} <=> i = w
               /\ stmt = "insert" <=> op = "create" /\ i = 1
               /\ stmt = "one" <=> GoesToTop(op) /\ i = l
               /\ stmt \in {"above", "one"} => i > w /\ GoesToTop(op)
               /\ stmt \in {"slot", "slide"} => i < w
               /\ stmt = "gap" => i < w \/ op = "delete"
               /\ stmt = "slot" => op = "across"
               /\ stmt = "slide" => op \in {"within", "resort"}
               /\ stmt \in {"read", "lock"} => i = 1 /\ 1 < w /\ op # "create"
               /\ stmt \in {"insert", "write", "one", "read", "lock"} \/ IsShift(stmt)
               /\ i + 1 > l <=> i = l
  <1> SUFFICES Good(Program(op)[i], WriteAt(op), Len(Program(op)))
    OBVIOUS
  <1>1. CASE op \in {"create", "within", "resort", "delete"}
    <2>0. Len(Program(op)) = 3
      BY <1>1, LengthsAre
    <2>1. Len(Program(op)) = 3 /\ i \in {1, 2, 3}
      BY <2>0
    <2>2. CASE op = "create"
      BY <2>1, <2>2, ProgramsAre, WritesAre DEF GoesToTop, IsShift
    <2>3. CASE op \in {"within", "resort"}
      BY <2>1, <2>3, ProgramsAre, WritesAre DEF GoesToTop, IsShift
    <2>4. CASE op = "delete"
      BY <2>1, <2>4, ProgramsAre, WritesAre DEF GoesToTop, IsShift
    <2>5. QED
      BY <1>1, <2>2, <2>3, <2>4
  <1>2. CASE op \in {"across", "take", "call"}
    <2>0. Len(Program(op)) = 4
      BY <1>2, LengthsAre
    <2>1. Len(Program(op)) = 4 /\ i \in {1, 2, 3, 4}
      BY <2>0
    <2>2. CASE op = "across"
      BY <2>1, <2>2, ProgramsAre, WritesAre DEF GoesToTop, IsShift
    <2>3. CASE op = "take"
      BY <2>1, <2>3, ProgramsAre, WritesAre DEF GoesToTop, IsShift
    <2>4. CASE op = "call"
      BY <2>1, <2>4, ProgramsAre, WritesAre DEF GoesToTop, IsShift
    <2>5. QED
      BY <1>2, <2>2, <2>3, <2>4
  <1>3. CASE op \in {"update", "transfer", "restore"}
    <2>0. Len(Program(op)) = 5
      BY <1>3, LengthsAre
    <2>1. Len(Program(op)) = 5 /\ i \in {1, 2, 3, 4, 5}
      BY <2>0
    <2>2. CASE op \in {"update", "transfer"}
      BY <2>1, <2>2, ProgramsAre, WritesAre DEF GoesToTop, IsShift
    <2>3. CASE op = "restore"
      BY <2>1, <2>3, ProgramsAre, WritesAre DEF GoesToTop, IsShift
    <2>4. QED
      BY <1>3, <2>2, <2>3
  <1>4. QED
    BY <1>1, <1>2, <1>3 DEF AllOps

LEMMA WriteAtIs == \A op \in AllOps : WriteAt(op) \in 1 .. 4
BY DEF WriteAt, AllOps

-----------------------------------------------------------------------------
(* What the definitions depend on.                                         *)

\* A shift is told by the row, the target and the position of the request.
LEMMA ShiftOf ==
    ASSUME NEW i, NEW j, i.row = j.row, i.to = j.to, i.pos = j.pos, NEW stmt
    PROVE  Shift(i, stmt) = Shift(j, stmt)
BY DEF Shift, Target

LEMMA WithRow ==
    ASSUME NEW j \in Jobs, NEW r \in Row
    PROVE  LET i == [j EXCEPT !.row = r]
           IN  /\ i \in Jobs /\ i.row = r /\ i.op = j.op /\ i.o = j.o /\ i.to = j.to
               /\ i.pos = j.pos /\ i.pc = j.pc
               /\ j.row = r => \A stmt : Shift(i, stmt) = Shift(j, stmt)
<1> DEFINE i == [j EXCEPT !.row = r]
<1>1. /\ i \in Jobs /\ i.row = r /\ i.op = j.op /\ i.o = j.o /\ i.to = j.to
      /\ i.pos = j.pos /\ i.pc = j.pc
  BY DEF Jobs
<1> HIDE DEF i
<1>2. j.row = r => \A stmt : Shift(i, stmt) = Shift(j, stmt)
  BY <1>1, ShiftOf
<1> QED
  BY <1>1, <1>2 DEF i

LEMMA SameWrite ==
    ASSUME NEW i, NEW j, i.op = j.op, i.to = j.to, i.pos = j.pos, i.row = j.row, NEW row
    PROVE  Written(i, row) = Written(j, row)
BY DEF Written, Target

LEMMA SameRequest ==
    ASSUME NEW i \in Jobs, NEW j \in Jobs, i.op = j.op, i.o = j.o, i.to = j.to, i.pos = j.pos,
           j.op = "create" => i.row = j.row, NEW R \in [Orders -> Row]
    PROVE  /\ Landing(R, i) = Landing(R, j) /\ Kept(R, i) = Kept(R, j)
           /\ \A k, row : Done(R, i, k, row) = Done(R, j, k, row)
<1> DEFINE r == R[j.o]
<1>0. r \in Row
  BY DEF Jobs
<1> HIDE DEF r
<1>1. Landing(R, i) = Landing(R, j)
  <2>1. CASE j.op = "create"
    BY <2>1 DEF Landing
  <2>2. CASE j.op # "create"
    <3> DEFINE m == [i EXCEPT !.row = r]
               n == [j EXCEPT !.row = r]
    <3>1. m.op = n.op /\ m.to = n.to /\ m.pos = n.pos /\ m.row = n.row
      BY <1>0, WithRow
    <3>2. Written(m, r) = Written(n, r)
      BY <3>1, SameWrite
    <3> QED
      BY <2>2, <3>2 DEF Landing, r
  <2> QED
    BY <2>1, <2>2
<1>2. Kept(R, i) = Kept(R, j)
  BY <1>1 DEF Kept
<1>3. \A stmt, x : Shift([i EXCEPT !.row = x], stmt) = Shift([j EXCEPT !.row = x], stmt)
  <2> TAKE stmt, x
  <2>1. /\ [i EXCEPT !.row = x].row = [j EXCEPT !.row = x].row
        /\ [i EXCEPT !.row = x].to = [j EXCEPT !.row = x].to
        /\ [i EXCEPT !.row = x].pos = [j EXCEPT !.row = x].pos
    BY DEF Jobs
  <2> QED
    BY <2>1, ShiftOf
<1>4. \A row : Closed(R, i, row) = Closed(R, j, row) /\ Raised(R, i, row) = Raised(R, j, row)
  BY <1>2, <1>3 DEF Closed, Raised
<1>5. \A k, row : Done(R, i, k, row) = Done(R, j, k, row)
  <2> TAKE k, row
  <2>1. /\ Closed(R, i, row) = Closed(R, j, row) /\ Raised(R, i, row) = Raised(R, j, row)
        /\ Raised(R, i, Closed(R, i, row)) = Raised(R, j, Closed(R, j, row))
    BY <1>4
  <2>2. \A stmt : Shift([i EXCEPT !.row = R[i.o]], stmt) = Shift([j EXCEPT !.row = R[j.o]], stmt)
    BY <1>3
  <2> QED
    BY <2>1, <2>2 DEF Done
<1> QED
  BY <1>1, <1>2, <1>5

-----------------------------------------------------------------------------
(* One statement on.                                                       *)

\* The shift a handler is at is the one Done takes next.
LEMMA ShiftIs ==
    ASSUME NEW R \in [Orders -> Row], NEW j \in Jobs, j.op \in AllOps,
           ~(j.pc > Len(Program(j.op))), j.pc > 1 => j.row = Held(R, j), Kept(R, j) \in Row
    PROVE  LET stmt == Program(j.op)[j.pc]
               Old(s) == Shift([j EXCEPT !.row = R[j.o]], s)
           IN  \A row :
                 /\ stmt = "gap" => Shifted(row, Shift(j, stmt)) = Closed(R, j, row)
                 /\ stmt \in {"slot", "slide"} =>
                       Shifted(row, Shift(j, stmt)) = Shifted(row, Old(stmt))
                 /\ stmt = "above" => Raised(R, j, row) = IF AtTop(j, stmt) THEN row
                                                         ELSE Shifted(row, Shift(j, stmt))
<1> DEFINE stmt == Program(j.op)[j.pc]
           r == R[j.o]
<1>1. r \in Row /\ j.pc \in Nat \ {0}
  BY DEF Jobs
<1>2. /\ stmt \in {"insert", "read", "lock"} \/ j.pc > 1
      /\ stmt = "gap" => j.pc < WriteAt(j.op) \/ j.op = "delete"
      /\ stmt \in {"slot", "slide"} => j.pc < WriteAt(j.op)
      /\ stmt = "above" => j.pc > WriteAt(j.op)
  BY <1>1, PlacesAre, StatementsAre
<1>3. WriteAt(j.op) \in 1 .. 4
  BY WriteAtIs
<1>4. stmt \in {"gap", "slot", "slide"} => j.row = r
  <2> SUFFICES ASSUME stmt \in {"gap", "slot", "slide"} PROVE j.row = r
    OBVIOUS
  <2>1. CASE j.pc < WriteAt(j.op)
    <3>1. ~ (j.pc > WriteAt(j.op))
      BY <1>1, <1>3, <2>1
    <3> QED
      BY <1>2, <3>1 DEF Held
  <2>2. CASE j.op = "delete"
    BY <1>2, <2>2 DEF Held, Kept, Refreshes
  <2> QED
    BY <1>2, <2>1, <2>2
<1>5. stmt = "above" => j.row = Kept(R, j)
  BY <1>2 DEF Held
<1>6. j.row = r => \A s : Shift([j EXCEPT !.row = r], s) = Shift(j, s)
  BY <1>1, WithRow
<1>7. j.row = Kept(R, j) => \A s : Shift([j EXCEPT !.row = Kept(R, j)], s) = Shift(j, s)
  BY WithRow
<1> SUFFICES ASSUME NEW row
             PROVE  /\ stmt = "gap" => Shifted(row, Shift(j, stmt)) = Closed(R, j, row)
                    /\ stmt \in {"slot", "slide"} => Shifted(row, Shift(j, stmt))
                          = Shifted(row, Shift([j EXCEPT !.row = R[j.o]], stmt))
                    /\ stmt = "above" => Raised(R, j, row) = IF AtTop(j, stmt) THEN row
                                                            ELSE Shifted(row, Shift(j, stmt))
  OBVIOUS
<1> HIDE DEF stmt
<1>8. stmt = "gap" => Shifted(row, Shift(j, stmt)) = Closed(R, j, row)
  BY <1>4, <1>6 DEF Closed
<1>9. stmt \in {"slot", "slide"} => Shifted(row, Shift(j, stmt))
         = Shifted(row, Shift([j EXCEPT !.row = R[j.o]], stmt))
  BY <1>4, <1>6
<1>10. stmt = "above" => Raised(R, j, row) = IF AtTop(j, stmt) THEN row
                                            ELSE Shifted(row, Shift(j, stmt))
  BY <1>5, <1>7 DEF Raised, AtTop
<1> QED
  BY <1>8, <1>9, <1>10

LEMMA DoneNext ==
    ASSUME NEW R \in [Orders -> Row], NEW j \in Jobs, j.op \in AllOps,
           ~(j.pc > Len(Program(j.op))), j.pc > 1 => j.row = Held(R, j), Kept(R, j) \in Row,
           NEW row
    PROVE  LET stmt == Program(j.op)[j.pc]
               before == Done(R, j, j.pc - 1, row)
           IN  Done(R, j, j.pc, row) = IF IsShift(stmt) /\ ~AtTop(j, stmt)
                                       THEN Shifted(before, Shift(j, stmt)) ELSE before
<1> DEFINE stmt == Program(j.op)[j.pc]
           Old(s) == Shift([j EXCEPT !.row = R[j.o]], s)
           Apply(x) == IF IsShift(stmt) /\ ~AtTop(j, stmt) THEN Shifted(x, Shift(j, stmt)) ELSE x
<1>1. \A x :
        /\ stmt = "gap" => Apply(x) = Closed(R, j, x)
        /\ stmt = "slot" => Apply(x) = Shifted(x, Old("slot"))
        /\ stmt = "slide" => Apply(x) = Shifted(x, Old("slide"))
        /\ stmt = "above" => Apply(x) = Raised(R, j, x)
        /\ stmt \in {"read", "lock", "insert", "write", "one"} => Apply(x) = x
  <2> TAKE x
  <2>1. /\ stmt = "gap" => Shifted(x, Shift(j, stmt)) = Closed(R, j, x)
        /\ stmt \in {"slot", "slide"} => Shifted(x, Shift(j, stmt)) = Shifted(x, Old(stmt))
        /\ stmt = "above" => Raised(R, j, x) = IF AtTop(j, stmt) THEN x
                                              ELSE Shifted(x, Shift(j, stmt))
    BY ShiftIs
  <2> HIDE DEF stmt, Old
  <2>2. stmt \in {"gap", "slot", "slide", "above"} => IsShift(stmt)
    BY DEF IsShift
  <2>3. stmt \in {"gap", "slot", "slide"} => ~AtTop(j, stmt)
    BY DEF AtTop
  <2>4. stmt \in {"read", "lock", "insert", "write", "one"} => ~IsShift(stmt)
    BY DEF IsShift
  <2> QED
    BY <2>1, <2>2, <2>3, <2>4
<1>2. j.pc \in Nat \ {0}
  BY DEF Jobs
<1>6. /\ Old("slot") = Shift([j EXCEPT !.row = R[j.o]], "slot")
      /\ Old("slide") = Shift([j EXCEPT !.row = R[j.o]], "slide")
  OBVIOUS
<1> SUFFICES Done(R, j, j.pc, row) = Apply(Done(R, j, j.pc - 1, row))
  OBVIOUS
<1> HIDE DEF Apply, Old
<1> DEFINE k == j.pc
<1>3. CASE j.op \in {"create", "within", "resort", "delete"}
  <2>1. Len(Program(j.op)) = 3
    BY <1>3, LengthsAre
  <2>2. k \in {1, 2, 3}
    BY <1>2, <2>1
  <2>3. CASE j.op = "create"
    BY <1>1, <2>2, <2>3, ProgramsAre DEF Done
  <2>4. CASE j.op \in {"within", "resort"}
    BY <1>1, <1>6, <2>2, <2>4, ProgramsAre DEF Done
  <2>5. CASE j.op = "delete"
    BY <1>1, <2>2, <2>5, ProgramsAre DEF Done
  <2> QED
    BY <1>3, <2>3, <2>4, <2>5
<1>4. CASE j.op \in {"across", "take", "call"}
  <2>1. Len(Program(j.op)) = 4
    BY <1>4, LengthsAre
  <2>2. k \in {1, 2, 3, 4}
    BY <1>2, <2>1
  <2>3. CASE j.op = "across"
    BY <1>1, <1>6, <2>2, <2>3, ProgramsAre DEF Done
  <2>4. CASE j.op \in {"take", "call"}
    BY <1>1, <2>2, <2>4, ProgramsAre DEF Done
  <2> QED
    BY <1>4, <2>3, <2>4
<1>5. CASE j.op \in {"update", "transfer", "restore"}
  <2>1. Len(Program(j.op)) = 5
    BY <1>5, LengthsAre
  <2>2. k \in {1, 2, 3, 4, 5}
    BY <1>2, <2>1
  <2>3. CASE j.op \in {"update", "transfer"}
    BY <1>1, <2>2, <2>3, ProgramsAre DEF Done
  <2>4. CASE j.op = "restore"
    BY <1>1, <2>2, <2>4, ProgramsAre DEF Done
  <2> QED
    BY <1>5, <2>3, <2>4
<1> QED
  BY <1>3, <1>4, <1>5 DEF AllOps

LEMMA DoneStart ==
    ASSUME NEW R, NEW j, j.op \in AllOps, NEW k \in Int, k < 2, NEW row
    PROVE  Done(R, j, k, row) = row
BY DEF Done, AllOps

\* The rows of the order itself.
LEMMA OwnRows ==
    ASSUME NEW R \in [Orders -> Row], NEW j \in Jobs, Aims(j), j.op \in AllOps
    PROVE  /\ R[j.o] \in Row /\ j.pc \in Nat \ {0} /\ WriteAt(j.op) \in 1 .. 4
           /\ Landing(R, j) \in Row /\ Kept(R, j) \in Row /\ Own(R, j) \in Row
           /\ GoesToTop(j.op) => Kept(R, j) = Landing(R, j)
<1> DEFINE r == R[j.o]
           i == [j EXCEPT !.row = r]
<1>1. r \in Row /\ j.pc \in Nat \ {0} /\ WriteAt(j.op) \in 1 .. 4 /\ j.row \in Row
  BY WriteAtIs DEF Jobs
<1>2. i \in Jobs /\ i.op = j.op /\ i.to = j.to
  BY <1>1, WithRow
<1>3. Aims(i)
  BY <1>2 DEF Aims
<1>4. j.op # "create" => Written(i, r) \in Row
  BY <1>1, <1>2, <1>3, WrittenIsRow
<1>5. Landing(R, j) \in Row
  BY <1>1, <1>4 DEF Landing
<1>6. Kept(R, j) \in Row
  BY <1>1, <1>5 DEF Kept
<1>7. [Landing(R, j) EXCEPT !.sort = 1] \in Row
  BY <1>5 DEF Row
<1>8. Own(R, j) \in Row
  BY <1>1, <1>5, <1>7 DEF Own
<1>9. GoesToTop(j.op) => Kept(R, j) = Landing(R, j)
  <2>1. CASE j.op = "call"
    <3>1. Written(i, r) = r
      BY <1>2, <2>1 DEF Written
    <3> QED
      BY <2>1, <3>1 DEF Kept, Landing, Refreshes
  <2>2. CASE j.op # "call"
    BY <2>2 DEF Kept, Refreshes, GoesToTop
  <2> QED
    BY <2>1, <2>2
<1> QED
  BY <1>1, <1>5, <1>6, <1>8, <1>9

\* A shift leaves the handler's own order where it is.
LEMMA OwnUntouched ==
    ASSUME NEW R \in [Orders -> Row], NEW j \in Jobs, Aims(j), j.op \in AllOps,
           ~(j.pc > Len(Program(j.op))), Sound(R, j), IsShift(Program(j.op)[j.pc])
    PROVE  ~Matches(Own(R, j), Shift(j, Program(j.op)[j.pc]))
<1> DEFINE stmt == Program(j.op)[j.pc]
           r == R[j.o]
<1>1. /\ r \in Row /\ j.pc \in Nat \ {0} /\ WriteAt(j.op) \in 1 .. 4
      /\ Kept(R, j) \in Row
      /\ GoesToTop(j.op) => Kept(R, j) = Landing(R, j)
  BY OwnRows
<1>2. /\ stmt = "gap" => j.pc < WriteAt(j.op) \/ j.op = "delete"
      /\ stmt \in {"slot", "slide"} => j.pc < WriteAt(j.op)
      /\ stmt = "above" => j.pc > WriteAt(j.op) /\ GoesToTop(j.op)
      /\ stmt = "slot" => j.op = "across"
      /\ stmt = "slide" => j.op \in {"within", "resort"}
      /\ stmt \in {"slot", "slide", "gap", "above"}
      /\ stmt \notin {"read", "insert", "lock"}
  BY <1>1, PlacesAre DEF IsShift
<1>3. j.pc > 1
  <2>1. j.pc # 1
    BY <1>1, <1>2, StatementsAre
  <2> QED
    BY <1>1, <2>1
<1> HIDE DEF stmt
<1>4. j.op # "create" => /\ j.row = Held(R, j) /\ ~Pointless(j, r)
  BY <1>3 DEF Sound
<1> SUFFICES ~Matches(Own(R, j), Shift(j, stmt))
  BY DEF stmt
<1>5. ASSUME stmt \in {"gap", "slot", "slide"}, j.pc < WriteAt(j.op)
      PROVE  ~Matches(Own(R, j), Shift(j, stmt))
  <2>1. j.op # "create"
    BY <1>1, <1>3, <1>5 DEF WriteAt
  <2>2. j.row = r /\ Own(R, j) = r
    <3>1. ~ (j.pc > WriteAt(j.op)) /\ j.pc <= WriteAt(j.op)
      BY <1>1, <1>5
    <3> QED
      BY <1>4, <2>1, <3>1 DEF Held, Own
  <2>3. r.sort \in Nat
    BY <1>1 DEF Row
  <2>4. CASE stmt = "gap"
    BY <2>2, <2>3, <2>4 DEF Shift, Matches
  <2>5. CASE stmt = "slot"
    BY <1>2, <1>4, <2>1, <2>2, <2>5 DEF Shift, Matches, Pointless
  <2>6. CASE stmt = "slide"
    <3>1. j.to \in Nat
      BY <1>2, <2>6, PositionsAssumption DEF Aims
    <3>2. CASE j.to < r.sort
      BY <2>2, <2>3, <2>6, <3>1, <3>2 DEF Shift, Matches
    <3>3. CASE j.to >= r.sort
      BY <2>2, <2>3, <2>6, <3>1, <3>3 DEF Shift, Matches
    <3> QED
      BY <2>3, <3>1, <3>2, <3>3
  <2> QED
    BY <1>5, <2>4, <2>5, <2>6
<1>6. ASSUME stmt = "gap", j.op = "delete", ~(j.pc < WriteAt(j.op))
      PROVE  ~Matches(Own(R, j), Shift(j, stmt))
  <2>1. j.pc # WriteAt(j.op)
    BY <1>1, <1>6, PlacesAre DEF stmt
  <2>2. ~ (j.pc <= WriteAt(j.op))
    BY <1>1, <1>6, <2>1
  <2>3. Own(R, j) = Landing(R, j)
    BY <1>6, <2>2 DEF Own, GoesToTop
  <2>4. [j EXCEPT !.row = r].op = "delete"
    BY <1>1, <1>6, WithRow
  <2>5. Landing(R, j) = [r EXCEPT !.life = "Deleted"]
    BY <1>6, <2>4 DEF Landing, Written
  <2>6. Own(R, j).life = "Deleted"
    BY <1>1, <2>3, <2>5 DEF Row
  <2> QED
    BY <2>6 DEF Matches
<1>7. ASSUME stmt = "above"
      PROVE  ~Matches(Own(R, j), Shift(j, stmt))
  <2>1. j.pc > WriteAt(j.op) /\ GoesToTop(j.op)
    BY <1>2, <1>7
  <2>2. Own(R, j) = Landing(R, j)
    BY <1>1, <2>1 DEF Own
  <2>3. j.row = Kept(R, j)
    BY <1>4, <2>1 DEF Held, Kept, Landing
  <2>4. j.row = Own(R, j) /\ j.row.sort \in Nat
    BY <1>1, <2>1, <2>2, <2>3 DEF Row
  <2> QED
    BY <1>7, <2>4 DEF Shift, Matches
<1> QED
  BY <1>2, <1>5, <1>6, <1>7

\* The same request one statement on.
Follows(i, j) ==
    /\ i \in Jobs /\ i.op = j.op /\ i.o = j.o /\ i.to = j.to /\ i.pos = j.pos
    /\ i.scope = j.scope /\ i.pc = j.pc + 1 /\ i.todo = {} /\ i.found = FALSE

LEMMA OwnNext ==
    ASSUME NEW R \in [Orders -> Row], NEW j \in Jobs, Aims(j), j.op \in AllOps,
           ~(j.pc > Len(Program(j.op))), NEW i, Follows(i, j),
           j.op = "create" /\ j.pc > 1 => i.row = j.row
    PROVE  LET stmt == Program(j.op)[j.pc]
           IN  /\ stmt \in {"insert", "write"} =>
                    /\ Own(R, j) = R[j.o] /\ Own(R, i) = Landing(R, i)
                    /\ Held(R, i) = Kept(R, i) /\ (j.op # "create" => Held(R, j) = R[j.o])
               /\ stmt \notin {"insert", "write"} => Held(R, i) = Held(R, j)
               /\ stmt = "one" /\ Held(R, j).sort # 1 => Own(R, i) = [Own(R, j) EXCEPT !.sort = 1]
               /\ stmt = "one" /\ Held(R, j).sort = 1 => Own(R, i) = Own(R, j)
               /\ stmt \in {"read", "lock"} \/ IsShift(stmt) => Own(R, i) = Own(R, j)
<1> DEFINE stmt == Program(j.op)[j.pc]
           w == WriteAt(j.op)
           l == Len(Program(j.op))
<1>1. /\ R[j.o] \in Row /\ j.pc \in Nat \ {0} /\ w \in 1 .. 4 /\ l \in Nat
      /\ i.pc = j.pc + 1 /\ i.op = j.op /\ i.o = j.o /\ ~(j.pc > l)
  BY OwnRows, LengthsAre DEF Follows, AllOps
<1>2. /\ stmt \in {"insert", "write"} <=> j.pc = w
      /\ stmt = "insert" <=> j.op = "create" /\ j.pc = 1
      /\ stmt = "one" <=> GoesToTop(j.op) /\ j.pc = l
      /\ stmt = "one" => j.pc > w
      /\ IsShift(stmt) => stmt # "one" /\ stmt \notin {"insert", "write"}
      /\ stmt \in {"read", "lock"} => j.pc = 1 /\ 1 < w
      /\ i.pc > l <=> j.pc = l
  BY <1>1, PlacesAre DEF IsShift
<1>3. w = WriteAt(i.op) /\ l = Len(Program(i.op)) /\ R[i.o] = R[j.o]
  BY <1>1
<1>4. j.op = "create" => w = 1
  BY WritesAre
<1>5. j.op # "create" \/ j.pc > 1 => Kept(R, i) = Kept(R, j) /\ Landing(R, i) = Landing(R, j)
  BY SameRequest DEF Follows
<1> HIDE DEF stmt, w, l
<1>6. stmt \in {"insert", "write"} =>
        /\ Own(R, j) = R[j.o] /\ Own(R, i) = Landing(R, i)
        /\ Held(R, i) = Kept(R, i) /\ (j.op # "create" => Held(R, j) = R[j.o])
  <2> SUFFICES ASSUME j.pc = w
               PROVE  /\ Own(R, j) = R[j.o] /\ Own(R, i) = Landing(R, i)
                      /\ Held(R, i) = Kept(R, i) /\ Held(R, j) = R[j.o]
    BY <1>2
  <2>1. j.pc <= w /\ ~(j.pc > w) /\ i.pc > w /\ ~(i.pc <= w)
    BY <1>1
  <2>2. GoesToTop(j.op) => ~(i.pc > l)
    <3>1. GoesToTop(j.op) => j.pc # l
      BY <1>2
    <3> QED
      BY <1>2, <3>1
  <2> QED
    BY <1>1, <1>3, <2>1, <2>2 DEF Own, Held, w, l
<1>7. ASSUME j.pc # w
      PROVE  /\ i.pc > w <=> j.pc > w
             /\ i.pc <= w <=> j.pc <= w
             /\ j.op # "create" \/ j.pc > 1
  BY <1>1, <1>4, <1>7
<1>8. stmt \notin {"insert", "write"} => Held(R, i) = Held(R, j)
  <2> SUFFICES ASSUME j.pc # w PROVE Held(R, i) = Held(R, j)
    BY <1>2
  <2> QED
    BY <1>3, <1>5, <1>7 DEF Held, w
<1>9. ASSUME stmt = "one"
      PROVE  /\ Held(R, j).sort # 1 => Own(R, i) = [Own(R, j) EXCEPT !.sort = 1]
             /\ Held(R, j).sort = 1 => Own(R, i) = Own(R, j)
  <2>1. j.pc > w /\ GoesToTop(j.op) /\ j.pc = l /\ i.pc > l
    BY <1>2, <1>9
  <2>2. j.pc # w /\ ~(j.pc <= w) /\ ~(i.pc <= w) /\ ~(j.pc > l)
    BY <1>1, <2>1
  <2>3. Held(R, j) = Kept(R, j) /\ Kept(R, i) = Kept(R, j) /\ Landing(R, i) = Landing(R, j)
    BY <1>5, <1>7, <2>1, <2>2 DEF Held, w
  <2>4. Own(R, j) = Landing(R, j)
    BY <2>2 DEF Own, w, l
  <2>5. Own(R, i) = IF Kept(R, j).sort # 1 THEN [Landing(R, j) EXCEPT !.sort = 1]
                    ELSE Landing(R, j)
    BY <1>1, <1>3, <2>1, <2>2, <2>3 DEF Own
  <2> QED
    BY <2>3, <2>4, <2>5
<1>10. ASSUME stmt \in {"read", "lock"} \/ IsShift(stmt)
       PROVE  Own(R, i) = Own(R, j)
  <2>1. j.pc # w
    BY <1>2, <1>10 DEF IsShift
  <2>2. GoesToTop(j.op) => ~(i.pc > l) /\ ~(j.pc > l)
    <3>1. GoesToTop(j.op) => j.pc # l
      BY <1>2, <1>10
    <3> QED
      BY <1>1, <1>2, <3>1
  <2>3. Landing(R, i) = Landing(R, j)
    BY <1>5, <1>7, <2>1
  <2> QED
    BY <1>1, <1>3, <1>7, <2>1, <2>2, <2>3 DEF Own, w, l
<1> QED
  BY <1>6, <1>8, <1>9, <1>10 DEF stmt

\* A handler whose statement leaves the other rows alone, or has shifted all.
LEMMA Onward ==
    ASSUME NEW R \in [Orders -> Row], NEW j \in Jobs, Aims(j), j.op \in AllOps,
           ~(j.pc > Len(Program(j.op))), NEW i, Follows(i, j), NEW C, NEW D,
           Alone(R, C, j), j.todo = {},
           \/ j.found
           \/ ~ (IsShift(Program(j.op)[j.pc]) /\ ~AtTop(j, Program(j.op)[j.pc])),
           \A p \in Orders \ {j.o} : D[p] = C[p],
           D[j.o] = Own(R, i), Sound(R, i),
           j.op = "create" /\ j.pc > 1 => i.row = j.row
    PROVE  Alone(R, D, i)
<1> SUFFICES ASSUME NEW p \in Orders \ {j.o} PROVE D[p] = Done(R, i, i.pc - 1, R[p])
  BY DEF Alone, Follows
<1>1. j.pc \in Nat \ {0} /\ i.pc - 1 = j.pc /\ Kept(R, j) \in Row
  BY OwnRows DEF Follows
<1>2. CASE j.op = "create" /\ ~(j.pc > 1)
  <2>1. j.pc = 1 /\ Program(j.op)[j.pc] = "insert" /\ i.op = j.op
    BY <1>1, <1>2, PlacesAre DEF Follows
  <2>2. ~j.found
    BY <2>1 DEF Alone, IsShift
  <2>3. D[p] = Done(R, j, 0, R[p])
    BY <2>1, <2>2 DEF Alone
  <2> QED
    BY <1>1, <2>1, <2>3, DoneStart
<1>3. CASE ~(j.op = "create" /\ ~(j.pc > 1))
  <2>1. \A k, row : Done(R, i, k, row) = Done(R, j, k, row)
    BY <1>3, SameRequest DEF Follows
  <2>2. D[p] = Done(R, j, IF j.found THEN j.pc ELSE j.pc - 1, R[p])
    BY DEF Alone
  <2>3. CASE j.found
    BY <1>1, <2>1, <2>2, <2>3
  <2>4. CASE ~j.found
    <3>1. j.pc > 1 => j.row = Held(R, j)
      BY <1>1, OwnRows DEF Alone, Sound, Held, Kept, Landing, WriteAt
    <3>2. Done(R, j, j.pc, R[p]) = Done(R, j, j.pc - 1, R[p])
      BY <1>1, <2>4, <3>1, DoneNext
    <3> QED
      BY <1>1, <2>1, <2>2, <2>4, <3>2
  <2> QED
    BY <2>3, <2>4
<1> QED
  BY <1>2, <1>3

-----------------------------------------------------------------------------
(* The steps of the only connection.                                       *)

LEMMA SeesAll ==
    ASSUME TInv, LInv, NEW c, Connections = {c}
    PROVE  \A p \in Orders : Seen(c, p) = cur[p]
BY DEF TInv, LInv, Seen

\* What is there to work with.
LEMMA Given ==
    ASSUME TInv, LInv, SInv, NEW c, Connections = {c}, Working(c), ~Finished(c)
    PROVE  LET j == job[c]
           IN  /\ c \in Connections /\ j \in Jobs /\ Aims(j) /\ j.op \in AllOps
               /\ j.pc \in Nat \ {0} /\ ~(j.pc > Len(Program(j.op))) /\ Statement(c) = Program(j.op)[j.pc]
               /\ j.o \in Orders /\ com \in [Orders -> Row] /\ cur \in [Orders -> Row]
               /\ Alone(com, cur, j) /\ Sound(com, j) /\ cur[j.o] = Own(com, j)
               /\ j.pc > 1 => j.row = Held(com, j)
               /\ ~IsShift(Statement(c)) => j.todo = {}
<1>1. c \in Connections
  OBVIOUS
<1>2. /\ job[c] \in Jobs /\ Aims(job[c]) /\ job[c].op \in AllOps /\ job[c].o \in Orders
      /\ job[c].pc \in Nat \ {0}
  BY <1>1, AtWork
<1>3. ~(job[c].pc > Len(Program(job[c].op)))
  BY DEF Finished
<1>4. Alone(com, cur, job[c])
  BY <1>1 DEF SInv
<1>5. com \in [Orders -> Row] /\ cur \in [Orders -> Row]
  BY DEF TInv
<1>6. job[c].pc > 1 => job[c].row = Held(com, job[c])
  BY <1>2, <1>4, WritesAre DEF Alone, Sound, Held, Kept, Landing
<1>7. ~IsShift(Statement(c)) => job[c].todo = {}
  BY <1>1 DEF LInv, Shifts
<1> QED
  BY <1>1, <1>2, <1>3, <1>4, <1>5, <1>6, <1>7 DEF Alone, Statement

LEMMA AtPlace ==
    ASSUME TInv, NEW c \in Connections, Working(c), ~Finished(c)
    PROVE  LET j == job[c]
               stmt == Program(j.op)[j.pc]
           IN  /\ stmt = "insert" => j.op = "create" /\ j.pc = 1
               /\ stmt = "write" => j.op # "create" /\ j.pc # 1
               /\ stmt \in {"insert", "write"} => j.pc = WriteAt(j.op)
               /\ stmt \notin {"insert", "write"} => j.pc # WriteAt(j.op)
               /\ stmt \in {"one", "gap", "slot", "slide", "above"} => j.pc # 1
<1> DEFINE j == job[c]
           stmt == Program(j.op)[j.pc]
<1>1. j.op \in AllOps /\ j.pc \in Nat \ {0} /\ ~(j.pc > Len(Program(j.op)))
  BY AtWork DEF Finished
<1>2. /\ stmt \in {"insert", "write"} <=> j.pc = WriteAt(j.op)
      /\ stmt = "insert" <=> (j.op = "create" /\ j.pc = 1)
      /\ j.pc = 1 => stmt \in {"insert", "read", "lock"}
      /\ stmt = "write" => j.op # "create"
  BY <1>1, PlacesAre, StatementsAre
<1> HIDE DEF stmt, j
<1> QED
  BY <1>2 DEF stmt, j

\* Of all connections only c is to be looked at.
LEMMA OnlyOne ==
    ASSUME NEW c, Connections = {c}, SInv, com' = com,
           Working(c)' => Alone(com, cur', job'[c])
    PROVE  SInv'
BY DEF SInv, Low

LEMMA FollowsOn ==
    ASSUME TInv, NEW c \in Connections, Working(c), job[c].todo = {}, NEW row \in Row,
           Advance(c, row)
    PROVE  Follows(job'[c], job[c]) /\ job'[c].row = row
BY AdvanceTyped DEF Follows

LEMMA SoundNext ==
    ASSUME NEW R, NEW j, NEW i, Follows(i, j), j.pc \in Nat \ {0}, Sound(R, j),
           j.op = "create" => j.pc > 1 /\ i.row = j.row,
           j.op # "create" => /\ i.row = Held(R, i)
                              /\ j.pc = 1 => Accepts(j, R[j.o]) /\ ~Pointless(j, R[j.o])
    PROVE  Sound(R, i)
<1>1. j.pc = 1 \/ j.pc > 1
  OBVIOUS
<1>2. j.op # "create" => Accepts(i, R[j.o]) /\ ~Pointless(i, R[j.o])
  BY <1>1 DEF Follows, Sound, Accepts, Pointless
<1> QED
  BY <1>2 DEF Follows, Sound

\* The handler has read its order and goes on.
LEMMA ReadAlone ==
    ASSUME TInv, LInv, SInv, NEW c, Connections = {c}, Working(c), ~Finished(c),
           Statement(c) \in {"read", "lock"}, NEW row, row = cur[job[c].o],
           Accepts(job[c], row), ~Pointless(job[c], row),
           Advance(c, row), com' = com, cur' = cur
    PROVE  SInv'
<1> DEFINE j == job[c]
           i == job'[c]
<1>1. /\ c \in Connections /\ j \in Jobs /\ Aims(j) /\ j.op \in AllOps
      /\ j.pc \in Nat \ {0} /\ ~(j.pc > Len(Program(j.op))) /\ Statement(c) = Program(j.op)[j.pc]
      /\ j.o \in Orders /\ com \in [Orders -> Row] /\ cur \in [Orders -> Row]
      /\ Alone(com, cur, j) /\ Sound(com, j) /\ cur[j.o] = Own(com, j)
      /\ j.todo = {}
  BY Given DEF IsShift
<1>2. j.pc = 1 /\ 1 < WriteAt(j.op) /\ j.op # "create"
  BY <1>1, PlacesAre
<1>3. WriteAt(j.op) \in 1 .. 4
  BY <1>1, WriteAtIs
<1>4. Own(com, j) = com[j.o] /\ row = com[j.o]
  BY <1>1, <1>2, <1>3 DEF Own
<1>5. Follows(i, j) /\ i.row = row
  BY <1>1, FollowsOn
<1>6. /\ Own(com, i) = Own(com, j) /\ Held(com, i) = Held(com, j)
  <2>1. Statement(c) \notin {"insert", "write"}
    OBVIOUS
  <2> QED
    BY <1>1, <1>2, <1>5, <2>1, OwnNext
<1>7. Held(com, j) = com[j.o]
  BY <1>2, <1>3 DEF Held
<1>8. Sound(com, i)
  BY <1>1, <1>2, <1>4, <1>5, <1>6, <1>7, SoundNext
<1>9. ~IsShift(Program(j.op)[j.pc])
  BY <1>1 DEF IsShift
<1>10. Alone(com, cur, i)
  BY <1>1, <1>2, <1>5, <1>6, <1>8, <1>9, Onward
<1> QED
  BY <1>10, OnlyOne

LEMMA InsertAlone ==
    ASSUME TInv, LInv, SInv, NEW c, Connections = {c}, Working(c), ~Finished(c), Insert(c)
    PROVE  SInv'
<1> DEFINE j == job[c]
           i == job'[c]
<1>1. /\ c \in Connections /\ j \in Jobs /\ Aims(j) /\ j.op \in AllOps
      /\ j.pc \in Nat \ {0} /\ ~(j.pc > Len(Program(j.op))) /\ Statement(c) = Program(j.op)[j.pc]
      /\ j.o \in Orders /\ com \in [Orders -> Row] /\ cur \in [Orders -> Row]
      /\ Alone(com, cur, j) /\ Sound(com, j) /\ cur[j.o] = Own(com, j)
      /\ j.todo = {} /\ Statement(c) = "insert"
  BY Given DEF Insert, IsShift
<1>2. j.op = "create" /\ j.pc = 1
  BY <1>1, AtPlace
<1>3. PICK s \in Statuses : /\ cur' = [cur EXCEPT ![j.o] = Born(s, j.to)]
                            /\ Advance(c, Born(s, j.to))
  BY DEF Insert, Born
<1>4. Born(s, j.to) \in Row
  <2>1. NoRow(s) \in Row /\ j.to \in Branches /\ Last \in Nat
    BY <1>1, <1>2, NoRowIsRow, PositionsAssumption DEF Aims
  <2> QED
    BY <2>1 DEF Born, Row
<1>5. Follows(i, j) /\ i.row = Born(s, j.to)
  BY <1>1, <1>3, <1>4, FollowsOn
<1>6. Own(com, i) = i.row
  <2>0. Program(j.op)[j.pc] = "insert" /\ Follows(i, j) /\ ~(j.op = "create" /\ j.pc > 1)
    BY <1>1, <1>2, <1>5
  <2>1. Own(com, i) = Landing(com, i)
    <3> HIDE DEF i, j
    <3> QED
      BY <1>1, <2>0, OwnNext
  <2> QED
    BY <1>2, <1>5, <2>1 DEF Landing, Follows
<1>7. com' = com /\ cur'[j.o] = i.row /\ \A p \in Orders \ {j.o} : cur'[p] = cur[p]
  BY <1>1, <1>3, <1>5 DEF Insert
<1>8. Sound(com, i)
  BY <1>1, <1>2, <1>5 DEF Sound, Follows
<1>9. ~IsShift(Program(j.op)[j.pc])
  BY <1>1 DEF IsShift
<1>10. Alone(com, cur', i)
  <2>1. ~(j.op = "create" /\ j.pc > 1)
    BY <1>2
  <2> HIDE DEF i, j
  <2> QED
    BY <1>1, <1>5, <1>6, <1>7, <1>8, <1>9, <2>1, Onward
<1> QED
  BY <1>7, <1>10, OnlyOne

LEMMA WriteAlone ==
    ASSUME TInv, LInv, SInv, NEW c, Connections = {c}, Working(c), ~Finished(c), Write(c)
    PROVE  SInv'
<1> DEFINE j == job[c]
           i == job'[c]
           new == Written(j, cur[j.o])
           row == IF Refreshes(j.op) THEN new ELSE j.row
           r == com[j.o]
<1>1. /\ c \in Connections /\ j \in Jobs /\ Aims(j) /\ j.op \in AllOps
      /\ j.pc \in Nat \ {0} /\ ~(j.pc > Len(Program(j.op))) /\ Statement(c) = Program(j.op)[j.pc]
      /\ j.o \in Orders /\ com \in [Orders -> Row] /\ cur \in [Orders -> Row]
      /\ Alone(com, cur, j) /\ Sound(com, j) /\ cur[j.o] = Own(com, j)
      /\ j.pc > 1 => j.row = Held(com, j)
      /\ j.todo = {} /\ Statement(c) = "write"
  BY Given DEF Write, IsShift
<1>2. j.op # "create" /\ j.pc = WriteAt(j.op) /\ j.pc # 1
  BY <1>1, AtPlace
<1>3. j.pc > 1 /\ j.row \in Row /\ r \in Row
  BY <1>1, <1>2 DEF Jobs
<1>4. new \in Row /\ row \in Row
  BY <1>1, <1>2, <1>3, WrittenIsRow
<1>5. Advance(c, row) /\ cur' = [cur EXCEPT ![j.o] = new] /\ com' = com
  BY DEF Write
<1>6. Follows(i, j) /\ i.row = row
  BY <1>1, <1>4, <1>5, FollowsOn
<1> HIDE DEF new, row
<1>7. /\ Own(com, j) = r /\ Own(com, i) = Landing(com, i)
      /\ Held(com, i) = Kept(com, i) /\ Held(com, j) = r
  <2>1. Program(j.op)[j.pc] = "write" /\ Follows(i, j) /\ ~(j.op = "create" /\ j.pc > 1)
    BY <1>1, <1>2, <1>6
  <2> HIDE DEF i, j
  <2> QED
    BY <1>1, <1>2, <2>1, OwnNext DEF r
<1>8. Landing(com, i) = new
  <2> DEFINE m == [i EXCEPT !.row = r]
  <2>1. m.op = i.op /\ m.to = i.to /\ m.pos = i.pos /\ m.row = r
    BY <1>3, <1>6, WithRow DEF Follows
  <2>2. m.op = j.op /\ m.to = j.to /\ m.pos = j.pos /\ m.row = j.row
    BY <1>1, <1>2, <1>3, <1>6, <1>7, <2>1 DEF Follows
  <2>3. Written(m, r) = Written(j, r)
    <3> HIDE DEF m, j, r
    <3> QED
      BY <2>2, SameWrite
  <2> QED
    BY <1>1, <1>2, <1>6, <1>7, <2>3 DEF Landing, Follows, new
<1>9. i.row = Held(com, i)
  BY <1>1, <1>2, <1>3, <1>6, <1>7, <1>8 DEF Kept, Follows, row
<1>10. Sound(com, i)
  BY <1>1, <1>2, <1>6, <1>9, SoundNext
<1>11. cur'[j.o] = Own(com, i) /\ \A p \in Orders \ {j.o} : cur'[p] = cur[p]
  BY <1>1, <1>5, <1>7, <1>8
<1>12. ~IsShift(Program(j.op)[j.pc])
  BY <1>1 DEF IsShift
<1>13. Alone(com, cur', i)
  BY <1>1, <1>2, <1>6, <1>10, <1>11, <1>12, Onward
<1> QED
  BY <1>5, <1>13, OnlyOne

\* moveToTop puts the order first, or finds that it is.
LEMMA TopAlone ==
    ASSUME TInv, LInv, SInv, NEW c, Connections = {c}, Working(c), ~Finished(c),
           PutFirst(c) \/ SkipTop(c) \/ ShiftDone(c)
    PROVE  SInv'
<1> DEFINE j == job[c]
           i == job'[c]
<1>1. /\ c \in Connections /\ j \in Jobs /\ Aims(j) /\ j.op \in AllOps
      /\ j.pc \in Nat \ {0} /\ ~(j.pc > Len(Program(j.op))) /\ Statement(c) = Program(j.op)[j.pc]
      /\ j.o \in Orders /\ com \in [Orders -> Row] /\ cur \in [Orders -> Row]
      /\ Alone(com, cur, j) /\ Sound(com, j) /\ cur[j.o] = Own(com, j)
      /\ j.pc > 1 => j.row = Held(com, j)
  BY Given
<1>2. /\ Statement(c) = "one" \/ IsShift(Statement(c))
      /\ Advance(c, j.row) /\ com' = com
  BY DEF PutFirst, SkipTop, ShiftDone, AtTop, IsShift
<1>3. j.todo = {}
  <2>1. CASE ShiftDone(c)
    BY <2>1 DEF ShiftDone
  <2>2. CASE PutFirst(c)
    BY <2>2, Given DEF PutFirst, IsShift
  <2>3. CASE SkipTop(c)
    BY <1>1, <2>3 DEF SkipTop, Alone
  <2> QED
    BY <2>1, <2>2, <2>3
<1>4. Statement(c) \notin {"insert", "write", "read", "lock"} /\ j.row \in Row
  BY <1>1, <1>2 DEF IsShift, Jobs
<1>5. j.pc > 1 /\ j.row = Held(com, j)
  <2>1. j.pc # 1
    BY <1>1, <1>4, StatementsAre
  <2> QED
    BY <1>1, <2>1
<1>6. Follows(i, j) /\ i.row = j.row
  BY <1>1, <1>2, <1>3, <1>4, FollowsOn
<1>7. /\ Held(com, i) = Held(com, j)
      /\ Statement(c) = "one" /\ j.row.sort # 1 => Own(com, i) = [Own(com, j) EXCEPT !.sort = 1]
      /\ Statement(c) = "one" /\ j.row.sort = 1 => Own(com, i) = Own(com, j)
      /\ IsShift(Statement(c)) => Own(com, i) = Own(com, j)
  BY <1>1, <1>4, <1>5, <1>6, OwnNext
<1>8. Sound(com, i)
  BY <1>1, <1>5, <1>6, <1>7, SoundNext
<1>9. cur'[j.o] = Own(com, i) /\ \A p \in Orders \ {j.o} : cur'[p] = cur[p]
  <2>1. CASE PutFirst(c)
    <3>1. Statement(c) = "one" /\ j.row.sort # 1 /\ cur' = [cur EXCEPT ![j.o].sort = 1]
      BY <2>1 DEF PutFirst, AtTop
    <3> QED
      BY <1>1, <1>7, <3>1
  <2>2. CASE SkipTop(c)
    <3>1. j.row.sort = 1 /\ cur' = cur
      BY <2>2 DEF SkipTop, AtTop
    <3> QED
      BY <1>1, <1>2, <1>7, <3>1
  <2>3. CASE ShiftDone(c)
    BY <1>1, <1>7, <2>3 DEF ShiftDone
  <2> QED
    BY <2>1, <2>2, <2>3
<1>10. j.found \/ ~(IsShift(Program(j.op)[j.pc]) /\ ~AtTop(j, Program(j.op)[j.pc]))
  BY <1>1 DEF PutFirst, SkipTop, ShiftDone, IsShift
<1>11. Alone(com, cur', i)
  BY <1>1, <1>3, <1>6, <1>8, <1>9, <1>10, Onward
<1> QED
  BY <1>2, <1>11, OnlyOne

\* The shift has its rows: not the order itself, and not those it leaves.
LEMMA FindAlone ==
    ASSUME TInv, LInv, SInv, NEW c, Connections = {c}, Working(c), ~Finished(c), Find(c)
    PROVE  SInv'
<1> DEFINE j == job[c]
           i == job'[c]
           stmt == Program(j.op)[j.pc]
           shift == Shift(j, stmt)
           found == {p \in Orders : Matches(Seen(c, p), shift)}
<1>1. /\ c \in Connections /\ j \in Jobs /\ Aims(j) /\ j.op \in AllOps
      /\ j.pc \in Nat \ {0} /\ ~(j.pc > Len(Program(j.op))) /\ Statement(c) = stmt
      /\ j.o \in Orders /\ com \in [Orders -> Row] /\ cur \in [Orders -> Row]
      /\ Alone(com, cur, j) /\ Sound(com, j) /\ cur[j.o] = Own(com, j)
      /\ j.pc > 1 => j.row = Held(com, j)
  BY Given
<1>2. /\ IsShift(stmt) /\ ~AtTop(j, stmt) /\ ~j.found /\ UNCHANGED <<com, cur>>
      /\ job' = [job EXCEPT ![c] = [j EXCEPT !.found = TRUE, !.todo = found]]
  BY <1>1 DEF Find, TInv
<1>3. /\ i = [j EXCEPT !.found = TRUE, !.todo = found]
  BY <1>1, <1>2 DEF TInv
<1>4. /\ i \in Jobs /\ i.op = j.op /\ i.o = j.o /\ i.to = j.to /\ i.pos = j.pos /\ i.row = j.row
      /\ i.scope = j.scope /\ i.pc = j.pc /\ i.found = TRUE /\ i.todo = found
  <2>1. found \in SUBSET Orders
    OBVIOUS
  <2> HIDE DEF found
  <2> QED
    BY <1>1, <1>3, <2>1 DEF Jobs
<1>5. found = {p \in Orders : Matches(cur[p], shift)}
  BY SeesAll
<1>6. j.o \notin found
  BY <1>1, <1>2, <1>5, OwnUntouched
<1> HIDE DEF found, i
<1>7. /\ Kept(com, i) = Kept(com, j) /\ Landing(com, i) = Landing(com, j)
      /\ \A k, row : Done(com, i, k, row) = Done(com, j, k, row)
  <2> HIDE DEF j
  <2> QED
    BY <1>1, <1>4, SameRequest
<1>8. Own(com, i) = Own(com, j) /\ Held(com, i) = Held(com, j)
  BY <1>4, <1>7 DEF Own, Held
<1>9. Sound(com, i)
  BY <1>1, <1>4, <1>8 DEF Sound, Accepts, Pointless
<1>10. ASSUME NEW p \in Orders \ {i.o}
       PROVE  cur[p] = Done(com, i, IF i.found /\ p \notin i.todo THEN i.pc ELSE i.pc - 1, com[p])
  <2>1. cur[p] = Done(com, j, j.pc - 1, com[p])
    BY <1>1, <1>2, <1>4 DEF Alone
  <2>2. CASE p \in found
    BY <1>4, <1>7, <2>1, <2>2
  <2>3. CASE p \notin found
    <3>1. Kept(com, j) \in Row
      BY <1>1, OwnRows
    <3>2. Done(com, j, j.pc, com[p]) = Shifted(Done(com, j, j.pc - 1, com[p]), shift)
      BY <1>1, <1>2, <3>1, DoneNext
    <3>3. ~Matches(cur[p], shift)
      BY <1>5, <2>3
    <3>4. Done(com, j, j.pc, com[p]) = cur[p]
      BY <2>1, <3>2, <3>3 DEF Shifted
    <3> QED
      BY <1>4, <1>7, <2>3, <3>4
  <2> QED
    BY <2>2, <2>3
<1>11. AtTop(i, stmt) <=> AtTop(j, stmt)
  BY <1>4 DEF AtTop
<1>12. i.pc <= Len(Program(i.op))
  <2>1. Len(Program(j.op)) \in Nat
    BY <1>1, LengthsAre DEF AllOps
  <2> QED
    BY <1>1, <1>4, <2>1
<1>13. Alone(com, cur, i)
  BY <1>1, <1>2, <1>4, <1>6, <1>8, <1>9, <1>10, <1>11, <1>12 DEF Alone
<1> QED
  BY <1>2, <1>13, OnlyOne DEF i

LEMMA TouchAlone ==
    ASSUME TInv, LInv, SInv, NEW c, Connections = {c}, Working(c), ~Finished(c), Touch(c)
    PROVE  SInv'
<1> DEFINE j == job[c]
           i == job'[c]
           stmt == Program(j.op)[j.pc]
           shift == Shift(j, stmt)
<1>1. /\ c \in Connections /\ j \in Jobs /\ Aims(j) /\ j.op \in AllOps
      /\ j.pc \in Nat \ {0} /\ ~(j.pc > Len(Program(j.op))) /\ Statement(c) = stmt
      /\ j.o \in Orders /\ com \in [Orders -> Row] /\ cur \in [Orders -> Row]
      /\ Alone(com, cur, j) /\ Sound(com, j) /\ cur[j.o] = Own(com, j)
      /\ j.pc > 1 => j.row = Held(com, j)
  BY Given
<1>2. PICK q \in j.todo :
        /\ IF Matches(cur[q], shift) THEN cur' = [cur EXCEPT ![q].sort = @ + shift.by]
           ELSE cur' = cur
        /\ job' = [job EXCEPT ![c].todo = @ \ {q}]
        /\ com' = com
  BY <1>1 DEF Touch
<1>3. /\ j.found /\ IsShift(stmt) /\ ~AtTop(j, stmt) /\ q # j.o /\ q \in Orders
      /\ j.pc <= Len(Program(j.op))
  BY <1>1 DEF Alone, Jobs
<1>4. i = [j EXCEPT !.todo = @ \ {q}]
  BY <1>1, <1>2 DEF TInv
<1>5. /\ i \in Jobs /\ i.op = j.op /\ i.o = j.o /\ i.to = j.to /\ i.pos = j.pos /\ i.row = j.row
      /\ i.scope = j.scope /\ i.pc = j.pc /\ i.found = j.found /\ i.todo = j.todo \ {q}
  BY <1>1, <1>4 DEF Jobs
<1> HIDE DEF i
<1>6. /\ Kept(com, i) = Kept(com, j) /\ Landing(com, i) = Landing(com, j)
      /\ \A k, row : Done(com, i, k, row) = Done(com, j, k, row)
  <2> HIDE DEF j
  <2> QED
    BY <1>1, <1>5, SameRequest
<1>7. Own(com, i) = Own(com, j) /\ Held(com, i) = Held(com, j)
  BY <1>5, <1>6 DEF Own, Held
<1>8. Sound(com, i)
  BY <1>1, <1>5, <1>7 DEF Sound, Accepts, Pointless
<1>9. /\ \A p \in Orders \ {q} : cur'[p] = cur[p]
      /\ cur'[q] = Shifted(cur[q], shift)
  <2>1. CASE Matches(cur[q], shift)
    <3>1. cur' = [cur EXCEPT ![q] = [cur[q] EXCEPT !.sort = @ + shift.by]]
      BY <1>2, <2>1
    <3> HIDE DEF shift
    <3> QED
      BY <1>1, <1>3, <2>1, <3>1 DEF Shifted
  <2>2. CASE ~Matches(cur[q], shift)
    BY <1>2, <2>2 DEF Shifted
  <2> QED
    BY <2>1, <2>2
<1>10. ASSUME NEW p \in Orders \ {i.o}
       PROVE  cur'[p] = Done(com, i, IF i.found /\ p \notin i.todo THEN i.pc ELSE i.pc - 1, com[p])
  <2>1. cur[p] = Done(com, j, IF p \notin j.todo THEN j.pc ELSE j.pc - 1, com[p])
    BY <1>1, <1>3, <1>5 DEF Alone
  <2>2. CASE p # q
    BY <1>3, <1>5, <1>6, <1>9, <2>1, <2>2
  <2>3. CASE p = q
    <3>1. Kept(com, j) \in Row
      BY <1>1, OwnRows
    <3>2. Done(com, j, j.pc, com[p]) = Shifted(Done(com, j, j.pc - 1, com[p]), shift)
      BY <1>1, <1>3, <3>1, DoneNext
    <3>3. cur[p] = Done(com, j, j.pc - 1, com[p])
      BY <2>1, <2>3
    <3> QED
      BY <1>3, <1>5, <1>6, <1>9, <2>3, <3>2, <3>3
  <2> QED
    BY <2>2, <2>3
<1>11. AtTop(i, stmt) <=> AtTop(j, stmt)
  BY <1>5 DEF AtTop
<1>12. cur'[i.o] = Own(com, i)
  BY <1>1, <1>3, <1>5, <1>7, <1>9
<1>13. Alone(com, cur', i)
  BY <1>1, <1>3, <1>5, <1>8, <1>10, <1>11, <1>12 DEF Alone
<1> QED
  BY <1>2, <1>13, OnlyOne DEF i

-----------------------------------------------------------------------------
(* What a handler alone has done when it commits, in the terms of          *)
(* ColumnOrder.                                                            *)

Sorts(R) == [p \in Orders |-> R[p].sort]
Cards(R, b, s) == {p \in Orders : R[p].life = "Open" /\ R[p].branch = b /\ R[p].status = s}

\* r is the row the request found.
Gapless(R, r) == CloseGap(Sorts(R), Cards(R, r.branch, r.status), r.sort)

At(row, place) == [row EXCEPT !.sort = place]

LEMMA AtIs ==
    ASSUME NEW row \in Row, NEW n
    PROVE  /\ At(row, n).sort = n /\ At(row, n).life = row.life /\ At(row, n).branch = row.branch
           /\ At(row, n).status = row.status /\ At(row, n).fromMother = row.fromMother
           /\ n \in Nat => At(row, n) \in Row
           /\ \A m : At(At(row, n), m) = At(row, m)
           /\ At(row, row.sort) = row
BY DEF At, Row

LEMMA ShiftedIs ==
    ASSUME NEW row \in Row, NEW shift
    PROVE  Shifted(row, shift) =
             At(row, IF Matches(row, shift) THEN row.sort + shift.by ELSE row.sort)
BY AtIs DEF Shifted, At

LEMMA ClosedIs ==
    ASSUME NEW R \in [Orders -> Row], Low(R), NEW j \in Jobs, NEW p \in Orders
    PROVE  /\ Gapless(R, R[j.o])[p] \in Nat /\ Gapless(R, R[j.o])[p] <= MaxSort
           /\ Closed(R, j, R[p]) = At(R[p], Gapless(R, R[j.o])[p])
<1> DEFINE r == R[j.o]
           i == [j EXCEPT !.row = r]
           shift == Shift(i, "gap")
<1>1. r \in Row /\ R[p] \in Row /\ i.row = r /\ R[p].sort \in Nat /\ r.sort \in Nat
  BY WithRow DEF Jobs, Row
<1>2. R[p].sort <= MaxSort /\ MaxSort \in Nat /\ Last \in Nat /\ MaxSort < Last
  BY BoundsAssumption, PositionsAssumption DEF Low
<1>3. Gapless(R, r)[p] = IF p \in Cards(R, r.branch, r.status) /\ R[p].sort > r.sort
                         THEN R[p].sort - 1 ELSE R[p].sort
  BY DEF Gapless, CloseGap, Sorts
<1>4. Gapless(R, r)[p] \in Nat /\ Gapless(R, r)[p] <= MaxSort
  BY <1>1, <1>2, <1>3
<1>5. shift = [branch |-> r.branch, status |-> r.status, from |-> r.sort + 1, to |-> Last, by |-> -1]
  BY <1>1 DEF Shift
<1>6. Matches(R[p], shift) <=> p \in Cards(R, r.branch, r.status) /\ R[p].sort > r.sort
  BY <1>1, <1>2, <1>5 DEF Matches, Cards
<1>7. (IF Matches(R[p], shift) THEN R[p].sort + shift.by ELSE R[p].sort) = Gapless(R, r)[p]
  BY <1>1, <1>3, <1>5, <1>6
<1>8. Closed(R, j, R[p]) = At(R[p], Gapless(R, r)[p])
  BY <1>1, <1>7, ShiftedIs DEF Closed
<1> QED
  BY <1>4, <1>8

\* moveToTop of the row K, where another row is at place n.
LEMMA RaisedIs ==
    ASSUME NEW R \in [Orders -> Row], NEW j \in Jobs, Kept(R, j) \in Row,
           NEW p \in Orders, NEW n \in Nat
    PROVE  LET K == Kept(R, j)
           IN  Raised(R, j, At(R[p], n)) =
                 At(R[p], IF K.sort # 1 /\ p \in Cards(R, K.branch, K.status) /\ n < K.sort
                          THEN n + 1 ELSE n)
<1> DEFINE K == Kept(R, j)
           i == [j EXCEPT !.row = K]
           shift == Shift(i, "above")
           row == At(R[p], n)
<1>1. /\ R[p] \in Row /\ i.row = K /\ K.sort \in Nat
      /\ row \in Row /\ row.sort = n /\ row.life = R[p].life /\ row.branch = R[p].branch
      /\ row.status = R[p].status
  BY WithRow, AtIs DEF Row
<1>2. shift = [branch |-> K.branch, status |-> K.status, from |-> 0, to |-> K.sort - 1, by |-> 1]
  BY <1>1 DEF Shift
<1>3. Matches(row, shift) <=> p \in Cards(R, K.branch, K.status) /\ n < K.sort
  BY <1>1, <1>2 DEF Matches, Cards
<1>4. shift.by = 1
  BY <1>2
<1> HIDE DEF row, shift
<1>5. Shifted(row, shift) = At(row, IF Matches(row, shift) THEN n + 1 ELSE n)
  BY <1>1, <1>4, ShiftedIs
<1>6. \A m : At(row, m) = At(R[p], m)
  BY <1>1, AtIs DEF row
<1>7. Raised(R, j, row) = IF K.sort = 1 THEN row ELSE Shifted(row, shift)
  BY DEF Raised, shift
<1> QED
  BY <1>3, <1>5, <1>6, <1>7 DEF row

\* A card put at Last and raised.
LEMMA ArrivedIs ==
    ASSUME NEW R \in [Orders -> Row], NEW j \in Jobs, Kept(R, j) \in Row, Kept(R, j).sort = Last,
           NEW p \in Orders \ {j.o}, NEW G, DOMAIN G = Orders, G[p] \in Nat
    PROVE  LET K == Kept(R, j)
           IN  Raised(R, j, At(R[p], G[p])) =
                 At(R[p], ArriveAtTop(G, Cards(R, K.branch, K.status), j.o, Last)[p])
<1> DEFINE K == Kept(R, j)
           col == Cards(R, K.branch, K.status)
<1>1. Last # 1 /\ Last \in Nat
  BY BoundsAssumption, PositionsAssumption
<1>2. ArriveAtTop(G, col, j.o, Last)[p] = IF p \in col /\ G[p] < Last THEN G[p] + 1 ELSE G[p]
  BY <1>1 DEF ArriveAtTop, MoveToTop, ShiftAbove
<1> HIDE DEF col
<1>3. Raised(R, j, At(R[p], G[p])) = At(R[p], IF p \in col /\ G[p] < Last THEN G[p] + 1 ELSE G[p])
  BY <1>1, RaisedIs DEF col
<1> QED
  BY <1>2, <1>3 DEF col

LEMMA ArrivedFirst ==
    ASSUME NEW G, DOMAIN G = Orders, NEW o \in Orders, NEW col
    PROVE  /\ ArriveAtTop(G, col, o, Last)[o] = 1
           /\ DOMAIN ArriveAtTop(G, col, o, Last) = Orders
<1>1. Last # 1
  BY BoundsAssumption
<1> QED
  BY <1>1 DEF ArriveAtTop, MoveToTop, ShiftAbove

LEMMA SlottedIs ==
    ASSUME NEW R \in [Orders -> Row], NEW j \in Jobs, NEW p \in Orders,
           NEW G, DOMAIN G = Orders, G[p] \in Nat, G[p] <= MaxSort
    PROVE  LET r == R[j.o]
           IN  Shifted(At(R[p], G[p]), Shift([j EXCEPT !.row = r], "slot")) =
                 At(R[p], OpenSlot(G, Cards(R, r.branch, j.to), Target(j))[p])
<1> DEFINE r == R[j.o]
           i == [j EXCEPT !.row = r]
           shift == Shift(i, "slot")
           row == At(R[p], G[p])
           col == Cards(R, r.branch, j.to)
<1>1. /\ R[p] \in Row /\ r \in Row /\ i.row = r /\ i.to = j.to /\ i.pos = j.pos
      /\ row \in Row /\ row.sort = G[p] /\ row.life = R[p].life /\ row.branch = R[p].branch
      /\ row.status = R[p].status /\ G[p] <= Last /\ Target(j) \in Nat /\ Last \in Nat
  <2>1. r \in Row /\ R[p] \in Row
    BY DEF Jobs
  <2>2. Target(j) \in Nat
    BY PositionsAssumption DEF Target, Jobs
  <2>3. G[p] <= Last /\ Last \in Nat
    BY BoundsAssumption, PositionsAssumption
  <2> QED
    BY <2>1, <2>2, <2>3, WithRow, AtIs
<1>2. Target(i) = Target(j)
  BY <1>1 DEF Target
<1>3. shift = [branch |-> r.branch, status |-> j.to, from |-> Target(j), to |-> Last, by |-> 1]
  BY <1>1, <1>2 DEF Shift
<1>4. Matches(row, shift) <=> p \in col /\ G[p] >= Target(j)
  BY <1>1, <1>3 DEF Matches, Cards
<1>5. OpenSlot(G, col, Target(j))[p] = IF p \in col /\ G[p] >= Target(j) THEN G[p] + 1 ELSE G[p]
  BY DEF OpenSlot
<1>6. shift.by = 1
  BY <1>3
<1> HIDE DEF row, shift, col
<1>7. Shifted(row, shift) = At(row, IF Matches(row, shift) THEN G[p] + 1 ELSE G[p])
  BY <1>1, <1>6, ShiftedIs
<1>8. \A m : At(row, m) = At(R[p], m)
  BY <1>1, AtIs DEF row
<1> QED
  BY <1>4, <1>5, <1>7, <1>8 DEF row, shift, col

LEMMA SlidIs ==
    ASSUME NEW R \in [Orders -> Row], NEW j \in Jobs, NEW p \in Orders,
           j.to \in Nat, j.to # R[j.o].sort
    PROVE  LET r == R[j.o]
           IN  Shifted(R[p], Shift([j EXCEPT !.row = r], "slide")) =
                 At(R[p], Slide(Sorts(R), Cards(R, r.branch, r.status), r.sort, j.to)[p])
<1> DEFINE r == R[j.o]
           i == [j EXCEPT !.row = r]
           shift == Shift(i, "slide")
           row == R[p]
           col == Cards(R, r.branch, r.status)
           x == R[p].sort
<1>1. /\ row \in Row /\ r \in Row /\ i.row = r /\ i.to = j.to /\ x \in Nat /\ r.sort \in Nat
  BY WithRow DEF Jobs, Row
<1>2. Slide(Sorts(R), col, r.sort, j.to)[p] =
        CASE p \in col /\ j.to <= x /\ x < r.sort -> x + 1
          [] p \in col /\ r.sort < x /\ x <= j.to -> x - 1
          [] OTHER -> x
  BY DEF Slide, Sorts
<1>3. (IF Matches(row, shift) THEN x + shift.by ELSE x) = Slide(Sorts(R), col, r.sort, j.to)[p]
  <2>1. CASE j.to < r.sort
    <3>1. shift = [branch |-> r.branch, status |-> r.status, from |-> j.to, to |-> r.sort - 1, by |-> 1]
      BY <1>1, <2>1 DEF Shift
    <3>2. Matches(row, shift) <=> p \in col /\ j.to <= x /\ x < r.sort
      BY <1>1, <3>1 DEF Matches, Cards
    <3> QED
      BY <1>1, <1>2, <2>1, <3>1, <3>2
  <2>2. CASE j.to > r.sort
    <3>0. j.to >= r.sort /\ ~(j.to < r.sort)
      BY <1>1, <2>2
    <3>1. shift = [branch |-> r.branch, status |-> r.status, from |-> r.sort + 1, to |-> j.to, by |-> -1]
      BY <1>1, <3>0 DEF Shift
    <3>2. Matches(row, shift) <=> p \in col /\ r.sort < x /\ x <= j.to
      BY <1>1, <3>1 DEF Matches, Cards
    <3> QED
      BY <1>1, <1>2, <2>2, <3>1, <3>2
  <2> QED
    BY <1>1, <2>1, <2>2
<1> HIDE DEF shift, col
<1>4. Shifted(row, shift) = At(row, IF Matches(row, shift) THEN x + shift.by ELSE x)
  BY <1>1, ShiftedIs
<1> QED
  BY <1>3, <1>4 DEF shift, col

\* After its last statement nothing changes any more.
LEMMA DoneEnd ==
    ASSUME NEW R, NEW j, j.op \in AllOps, NEW k \in Nat, ~(k < Len(Program(j.op))), NEW row
    PROVE  Done(R, j, k, row) = Done(R, j, 5, row)
<1>1. CASE j.op \in {"create", "within", "resort", "delete"}
  <2>0. Len(Program(j.op)) = 3
    BY <1>1, LengthsAre
  <2>1. ~(k < 3) /\ ~(k < 2)
    BY <2>0
  <2> QED
    BY <1>1, <2>1 DEF Done
<1>2. CASE j.op \in {"across", "take", "call"}
  <2>0. Len(Program(j.op)) = 4
    BY <1>2, LengthsAre
  <2>1. ~(k < 3) /\ ~(k < 2)
    BY <2>0
  <2> QED
    BY <1>2, <2>1 DEF Done
<1>3. CASE j.op \in {"update", "transfer", "restore"}
  <2>0. Len(Program(j.op)) = 5
    BY <1>3, LengthsAre
  <2>1. ~(k < 4) /\ ~(k < 2)
    BY <2>0
  <2> QED
    BY <1>3, <2>1 DEF Done
<1> QED
  BY <1>1, <1>2, <1>3 DEF AllOps

-----------------------------------------------------------------------------
(* The same in the terms of RepairOrderBoard.                              *)

LEMMA SameShifts ==
    ASSUME NEW srt, NEW col, NEW k, NEW o, NEW new
    PROVE  /\ Board!CloseGap(srt, col, k) = CloseGap(srt, col, k)
           /\ Board!OpenSlot(srt, col, k) = OpenSlot(srt, col, k)
           /\ Board!Slide(srt, col, k, new) = Slide(srt, col, k, new)
           /\ Board!MoveToTop(srt, col, o, k) = MoveToTop(srt, col, o, k)
           /\ Board!ArriveAtTop(srt, col, o, k) = ArriveAtTop(srt, col, o, k)
BY DEF Board!CloseGap, Board!OpenSlot, Board!Slide, Board!MoveToTop, Board!ArriveAtTop,
   Board!ShiftAbove, CloseGap, OpenSlot, Slide, MoveToTop, ArriveAtTop, ShiftAbove

LEMMA SameColumn ==
    ASSUME NEW b, NEW s
    PROVE  Board!Column(b, s) = Cards(com, b, s)
BY DEF Board!Column, Cards

Life == [o \in Orders |-> com[o].life]
Branch == [o \in Orders |-> com[o].branch]
Status == [o \in Orders |-> com[o].status]
FromMother == [o \in Orders |-> com[o].fromMother]

\* One order is rewritten and the others are at the places of S.
Resorted(o, S) ==
    /\ com \in [Orders -> Row] /\ com' \in [Orders -> Row]
    /\ DOMAIN S = Orders /\ S = [p \in Orders |-> S[p]]
    /\ \A p \in Orders \ {o} : com'[p] = At(com[p], S[p])
    /\ com'[o].sort = S[o]

LEMMA BoardSees ==
    ASSUME NEW o \in Orders, NEW S, Resorted(o, S)
    PROVE  /\ Life' = [Life EXCEPT ![o] = com'[o].life]
           /\ Branch' = [Branch EXCEPT ![o] = com'[o].branch]
           /\ Status' = [Status EXCEPT ![o] = com'[o].status]
           /\ FromMother' = [FromMother EXCEPT ![o] = com'[o].fromMother]
           /\ Sorts(com)' = S
<1>1. \A p \in Orders \ {o} :
        /\ com'[p].life = com[p].life /\ com'[p].branch = com[p].branch
        /\ com'[p].status = com[p].status /\ com'[p].fromMother = com[p].fromMother
        /\ com'[p].sort = S[p]
  BY AtIs DEF Resorted
<1>2. Sorts(com)' = S
  BY <1>1 DEF Sorts, Resorted
<1>3. Life' = [Life EXCEPT ![o] = com'[o].life]
  BY <1>1 DEF Life
<1>4. Branch' = [Branch EXCEPT ![o] = com'[o].branch]
  BY <1>1 DEF Branch
<1>5. Status' = [Status EXCEPT ![o] = com'[o].status]
  BY <1>1 DEF Status
<1>6. FromMother' = [FromMother EXCEPT ![o] = com'[o].fromMother]
  BY <1>1 DEF FromMother
<1> QED
  BY <1>2, <1>3, <1>4, <1>5, <1>6

\* What a handler commits.
Ended(j) ==
    /\ com \in [Orders -> Row] /\ com' \in [Orders -> Row] /\ Low(com)
    /\ j \in Jobs /\ Aims(j) /\ j.op \in AllOps /\ j.pc > 1 /\ Sound(com, j)
    /\ com'[j.o] = IF GoesToTop(j.op) /\ Kept(com, j).sort # 1
                   THEN At(Landing(com, j), 1) ELSE Landing(com, j)
    /\ \A p \in Orders \ {j.o} : com'[p] = Done(com, j, 5, com[p])

\* The order in the end, when it goes to the top from Last.
LEMMA EndsFirst ==
    ASSUME NEW j, Ended(j), GoesToTop(j.op), Landing(com, j).sort = Last
    PROVE  /\ com'[j.o] = At(Landing(com, j), 1) /\ Kept(com, j) = Landing(com, j)
           /\ Kept(com, j) \in Row /\ Kept(com, j).sort = Last
<1>1. Kept(com, j) = Landing(com, j) /\ Kept(com, j) \in Row
  BY OwnRows DEF Ended
<1> QED
  BY <1>1, BoundsAssumption DEF Ended

\* ... after it closed the gap it leaves, or without.
LEMMA ClosesAndArrives ==
    ASSUME NEW j, Ended(j), j.op \in {"update", "transfer", "restore"},
           Landing(com, j).sort = Last
    PROVE  LET K == Landing(com, j)
           IN  Resorted(j.o, ArriveAtTop(Gapless(com, com[j.o]),
                                         Cards(com, K.branch, K.status), j.o, Last))
<1> DEFINE K == Landing(com, j)
           G == Gapless(com, com[j.o])
           S == ArriveAtTop(G, Cards(com, K.branch, K.status), j.o, Last)
<1>1. j \in Jobs /\ j.o \in Orders /\ com \in [Orders -> Row] /\ Low(com)
  BY DEF Ended, Jobs
<1>2. com'[j.o] = At(K, 1) /\ Kept(com, j) = K /\ K \in Row /\ K.sort = Last
  BY EndsFirst DEF GoesToTop
<1>3. DOMAIN G = Orders
  BY DEF Gapless, CloseGap, Sorts
<1>4. DOMAIN S = Orders /\ S[j.o] = 1 /\ S = [p \in Orders |-> S[p]]
  <2>1. DOMAIN S = Orders /\ S[j.o] = 1
    BY <1>1, <1>3, ArrivedFirst
  <2>2. S = [p \in DOMAIN S |-> S[p]]
    BY <1>3 DEF ArriveAtTop, MoveToTop, ShiftAbove
  <2> QED
    BY <2>1, <2>2
<1>5. ASSUME NEW p \in Orders \ {j.o} PROVE com'[p] = At(com[p], S[p])
  <2>1. com'[p] = Raised(com, j, Closed(com, j, com[p]))
    BY DEF Ended, Done
  <2>2. Closed(com, j, com[p]) = At(com[p], G[p]) /\ G[p] \in Nat
    BY <1>1, ClosedIs
  <2> HIDE DEF G
  <2>3. Raised(com, j, At(com[p], G[p])) = At(com[p], S[p])
    BY <1>1, <1>2, <1>3, <2>2, ArrivedIs
  <2> QED
    BY <2>1, <2>2, <2>3
<1>6. com'[j.o].sort = S[j.o]
  BY <1>2, <1>4, AtIs
<1> QED
  BY <1>4, <1>5, <1>6 DEF Resorted, Ended

LEMMA Arrives ==
    ASSUME NEW j, Ended(j), j.op \in {"create", "take"}, Landing(com, j).sort = Last
    PROVE  LET K == Landing(com, j)
           IN  Resorted(j.o, ArriveAtTop(Sorts(com), Cards(com, K.branch, K.status), j.o, Last))
<1> DEFINE K == Landing(com, j)
           G == Sorts(com)
           S == ArriveAtTop(G, Cards(com, K.branch, K.status), j.o, Last)
<1>1. j \in Jobs /\ j.o \in Orders /\ com \in [Orders -> Row] /\ Low(com)
  BY DEF Ended, Jobs
<1>2. com'[j.o] = At(K, 1) /\ Kept(com, j) = K /\ K \in Row /\ K.sort = Last
  BY EndsFirst DEF GoesToTop
<1>3. DOMAIN G = Orders
  BY DEF Sorts
<1>4. DOMAIN S = Orders /\ S[j.o] = 1 /\ S = [p \in Orders |-> S[p]]
  <2>1. DOMAIN S = Orders /\ S[j.o] = 1
    BY <1>1, <1>3, ArrivedFirst
  <2>2. S = [p \in DOMAIN S |-> S[p]]
    BY <1>3 DEF ArriveAtTop, MoveToTop, ShiftAbove
  <2> QED
    BY <2>1, <2>2
<1>5. ASSUME NEW p \in Orders \ {j.o} PROVE com'[p] = At(com[p], S[p])
  <2>1. com'[p] = Raised(com, j, com[p])
    BY DEF Ended, Done
  <2>2. com[p] = At(com[p], G[p]) /\ G[p] \in Nat
    BY <1>1, AtIs DEF Sorts, Row
  <2> HIDE DEF G
  <2>3. Raised(com, j, At(com[p], G[p])) = At(com[p], S[p])
    BY <1>1, <1>2, <1>3, <2>2, ArrivedIs
  <2> QED
    BY <2>1, <2>2, <2>3
<1>6. com'[j.o].sort = S[j.o]
  BY <1>2, <1>4, AtIs
<1> QED
  BY <1>4, <1>5, <1>6 DEF Resorted, Ended

LEMMA UpdateImplements ==
    ASSUME NEW j, Ended(j), j.op = "update" PROVE Board!Update(j.o)
<1> DEFINE o == j.o
           r == com[o]
           K == Landing(com, j)
           S == ArriveAtTop(Gapless(com, r), Cards(com, r.branch, j.to), o, Last)
<1>1. /\ o \in Orders /\ r \in Row /\ r.life = "Open" /\ j.to \in Statuses \ {r.status}
      /\ <<r.status, j.to>> \in Transitions
  BY DEF Ended, Jobs, Aims, Sound, Accepts, Pointless
<1>2. K = [r EXCEPT !.status = j.to, !.sort = Last]
  <2>1. [j EXCEPT !.row = r].op = "update" /\ [j EXCEPT !.row = r].to = j.to
    BY <1>1, WithRow DEF Ended
  <2> QED
    BY <2>1 DEF Landing, Written
<1>3. K.sort = Last /\ K.branch = r.branch /\ K.status = j.to /\ K.life = r.life
        /\ K.fromMother = r.fromMother /\ K \in Row
  BY <1>1, <1>2, PositionsAssumption DEF Row
<1>4. com'[o] = At(K, 1)
  BY <1>3, EndsFirst DEF GoesToTop
<1>5. com'[o].branch = r.branch /\ com'[o].status = j.to /\ com'[o].life = r.life
        /\ com'[o].fromMother = r.fromMother
  BY <1>3, <1>4, AtIs
<1>6. Resorted(o, S)
  BY <1>3, ClosesAndArrives
<1> HIDE DEF K, S
<1>7. /\ Life' = [Life EXCEPT ![o] = r.life] /\ Branch' = [Branch EXCEPT ![o] = r.branch]
      /\ Status' = [Status EXCEPT ![o] = j.to]
      /\ FromMother' = [FromMother EXCEPT ![o] = r.fromMother]
      /\ Sorts(com)' = S
  BY <1>1, <1>5, <1>6, BoardSees
<1>8. Life' = Life /\ Branch' = Branch /\ FromMother' = FromMother
  BY <1>1, <1>7 DEF Life, Branch, FromMother
<1>9. S = Board!ArriveAtTop(Board!CloseGap(Sorts(com), Board!Peers(o), Sorts(com)[o]),
                            Board!Column(Branch[o], j.to), o, Last)
  BY <1>1, SameShifts, SameColumn DEF S, Gapless, Board!Peers, Sorts, Branch
<1> QED
  BY <1>1, <1>7, <1>8, <1>9 DEF Board!Update, Life, Branch, Status, FromMother, Sorts

\* A row that goes to another branch.
LEMMA RehomedIs ==
    ASSUME NEW row \in Row, NEW old, NEW new \in Branches
    PROVE  LET to == Rehomed(row, old, new)
           IN  /\ to \in Row /\ to.branch = new /\ to.sort = Last
               /\ to.life = row.life /\ to.status = row.status
               /\ to.fromMother = (row.fromMother \/ (old = Mother /\ new # Mother))
<1> DEFINE moved == [row EXCEPT !.branch = new, !.sort = Last]
           from == moved.fromMother \/ (old = Mother /\ new # Mother)
<1>1. /\ moved \in Row /\ moved.branch = new /\ moved.sort = Last /\ moved.life = row.life
      /\ moved.status = row.status /\ moved.fromMother = row.fromMother
  BY PositionsAssumption DEF Row
<1>2. from \in BOOLEAN /\ from = (row.fromMother \/ (old = Mother /\ new # Mother))
  BY <1>1
<1> HIDE DEF moved
<1>3. Rehomed(row, old, new) = IF old = new THEN moved
                               ELSE [moved EXCEPT !.logged = new, !.fromMother = from]
  BY DEF Rehomed, Logged, moved
<1>4. CASE old = new
  <2>1. moved.fromMother \in BOOLEAN
    BY <1>1 DEF Row
  <2>2. (row.fromMother \/ (old = Mother /\ new # Mother)) = moved.fromMother
    BY <1>1, <1>4, <2>1
  <2> QED
    BY <1>1, <1>3, <1>4, <2>2
<1>5. CASE old # new
  <2> HIDE DEF from
  <2> DEFINE to == [moved EXCEPT !.logged = new, !.fromMother = from]
  <2>1. /\ to \in Row /\ to.branch = moved.branch /\ to.sort = moved.sort /\ to.life = moved.life
        /\ to.status = moved.status /\ to.fromMother = from
    BY <1>1, <1>2 DEF Row
  <2> QED
    BY <1>1, <1>2, <1>3, <1>5, <2>1
<1> QED
  BY <1>4, <1>5

LEMMA RehomingLands ==
    ASSUME NEW j, Ended(j), NEW new \in Branches,
           \/ j.op \in {"transfer", "take"} /\ new = j.to
           \/ j.op = "restore" /\ new = Mother
    PROVE  LET r == com[j.o]
               K == Landing(com, j)
           IN  /\ K.sort = Last /\ K.branch = new /\ K.status = r.status
               /\ com'[j.o] = At(K, 1) /\ com'[j.o].life = r.life /\ com'[j.o].branch = new
               /\ com'[j.o].status = r.status
               /\ com'[j.o].fromMother = (r.fromMother \/ (r.branch = Mother /\ new # Mother))
<1> DEFINE r == com[j.o]
           i == [j EXCEPT !.row = r]
           K == Landing(com, j)
<1>1. r \in Row
  BY DEF Ended, Jobs
<1>2. i.op = j.op /\ i.to = j.to /\ i.row = r
  BY <1>1, WithRow DEF Ended
<1>3. K = Rehomed(r, r.branch, new)
  BY <1>2 DEF Landing, Written
<1> HIDE DEF K
<1>4. /\ K \in Row /\ K.branch = new /\ K.sort = Last /\ K.life = r.life /\ K.status = r.status
      /\ K.fromMother = (r.fromMother \/ (r.branch = Mother /\ new # Mother))
  BY <1>1, <1>3, RehomedIs
<1>5. com'[j.o] = At(K, 1)
  BY <1>4, EndsFirst DEF GoesToTop, K
<1>6. /\ At(K, 1).life = K.life /\ At(K, 1).branch = K.branch /\ At(K, 1).status = K.status
      /\ At(K, 1).fromMother = K.fromMother
  BY <1>4, AtIs
<1> QED
  BY <1>4, <1>5, <1>6 DEF K

LEMMA TransferImplements ==
    ASSUME NEW j, Ended(j), j.op = "transfer" PROVE Board!TransferBranch(j.o)
<1> DEFINE o == j.o
           r == com[o]
           S == ArriveAtTop(Gapless(com, r), Cards(com, j.to, r.status), o, Last)
<1>1. o \in Orders /\ r \in Row /\ r.life = "Open" /\ j.to \in Children /\ j.to \in Branches
  BY DEF Ended, Jobs, Aims, Sound, Accepts, Branches
<1>2. /\ Landing(com, j).sort = Last /\ Landing(com, j).branch = j.to
      /\ Landing(com, j).status = r.status
      /\ com'[o].life = r.life /\ com'[o].branch = j.to /\ com'[o].status = r.status
      /\ com'[o].fromMother = (r.fromMother \/ (r.branch = Mother /\ j.to # Mother))
  BY <1>1, RehomingLands
<1>3. (r.fromMother \/ (r.branch = Mother /\ j.to # Mother)) = (r.fromMother \/ r.branch = Mother)
  BY <1>1, BoundsAssumption
<1>4. Resorted(o, S)
  BY <1>2, ClosesAndArrives
<1> HIDE DEF S
<1>5. /\ Life' = [Life EXCEPT ![o] = r.life] /\ Branch' = [Branch EXCEPT ![o] = j.to]
      /\ Status' = [Status EXCEPT ![o] = r.status]
      /\ FromMother' = [FromMother EXCEPT ![o] = r.fromMother \/ r.branch = Mother]
      /\ Sorts(com)' = S
  BY <1>1, <1>2, <1>3, <1>4, BoardSees
<1>6. Life' = Life /\ Status' = Status /\ FromMother[o] = r.fromMother /\ Branch[o] = r.branch
  BY <1>1, <1>5 DEF Life, Status, FromMother, Branch
<1>7. FromMother' = [FromMother EXCEPT ![o] = FromMother[o] \/ Branch[o] = Mother]
  BY <1>5, <1>6
<1>8. S = Board!ArriveAtTop(Board!CloseGap(Sorts(com), Board!Peers(o), Sorts(com)[o]),
                            Board!Column(j.to, Status[o]), o, Last)
  BY <1>1, SameShifts, SameColumn DEF S, Gapless, Board!Peers, Sorts, Status
<1> QED
  BY <1>1, <1>5, <1>6, <1>7, <1>8
  DEF Board!TransferBranch, Life, Branch, Status, FromMother, Sorts

LEMMA TakeImplements ==
    ASSUME NEW j, Ended(j), j.op = "take" PROVE Board!Take(j.o)
<1> DEFINE o == j.o
           r == com[o]
           S == ArriveAtTop(Sorts(com), Cards(com, j.to, r.status), o, Last)
<1>1. /\ o \in Orders /\ r \in Row /\ r.life = "Open" /\ j.to \in Children /\ j.to \in Branches
      /\ r.branch = Mother
  BY DEF Ended, Jobs, Aims, Sound, Accepts, Branches
<1>2. /\ Landing(com, j).sort = Last /\ Landing(com, j).branch = j.to
      /\ Landing(com, j).status = r.status
      /\ com'[o].life = r.life /\ com'[o].branch = j.to /\ com'[o].status = r.status
      /\ com'[o].fromMother = (r.fromMother \/ (r.branch = Mother /\ j.to # Mother))
  BY <1>1, RehomingLands
<1>3. (r.fromMother \/ (r.branch = Mother /\ j.to # Mother)) = TRUE
  BY <1>1, BoundsAssumption
<1>4. Resorted(o, S)
  BY <1>2, Arrives
<1> HIDE DEF S
<1>5. /\ Life' = [Life EXCEPT ![o] = r.life] /\ Branch' = [Branch EXCEPT ![o] = j.to]
      /\ Status' = [Status EXCEPT ![o] = r.status]
      /\ FromMother' = [FromMother EXCEPT ![o] = TRUE]
      /\ Sorts(com)' = S
  BY <1>1, <1>2, <1>3, <1>4, BoardSees
<1>6. Life' = Life /\ Status' = Status
  BY <1>1, <1>5 DEF Life, Status
<1>7. S = Board!ArriveAtTop(Sorts(com), Board!Column(j.to, Status[o]), o, Last)
  BY <1>1, SameShifts, SameColumn DEF S, Status
<1> QED
  BY <1>1, <1>5, <1>6, <1>7 DEF Board!Take, Life, Branch, Status, FromMother, Sorts

LEMMA RestoreImplements ==
    ASSUME NEW j, Ended(j), j.op = "restore" PROVE Board!RestoreToMother(j.o)
<1> DEFINE o == j.o
           r == com[o]
           S == ArriveAtTop(Gapless(com, r), Cards(com, Mother, r.status), o, Last)
<1>1. /\ o \in Orders /\ r \in Row /\ r.life = "Open" /\ Mother \in Branches
      /\ r.branch # Mother /\ r.fromMother
  BY DEF Ended, Jobs, Sound, Accepts, Branches
<1>2. /\ Landing(com, j).sort = Last /\ Landing(com, j).branch = Mother
      /\ Landing(com, j).status = r.status
      /\ com'[o].life = r.life /\ com'[o].branch = Mother /\ com'[o].status = r.status
      /\ com'[o].fromMother = (r.fromMother \/ (r.branch = Mother /\ Mother # Mother))
  BY <1>1, RehomingLands
<1>3. (r.fromMother \/ (r.branch = Mother /\ Mother # Mother)) = r.fromMother
  <2>1. r.fromMother \in BOOLEAN
    BY <1>1 DEF Row
  <2> QED
    BY <1>1, <2>1
<1>4. Resorted(o, S)
  BY <1>2, ClosesAndArrives
<1> HIDE DEF S
<1>5. /\ Life' = [Life EXCEPT ![o] = r.life] /\ Branch' = [Branch EXCEPT ![o] = Mother]
      /\ Status' = [Status EXCEPT ![o] = r.status]
      /\ FromMother' = [FromMother EXCEPT ![o] = r.fromMother]
      /\ Sorts(com)' = S
  BY <1>1, <1>2, <1>3, <1>4, BoardSees
<1>6. Life' = Life /\ Status' = Status /\ FromMother' = FromMother
  BY <1>1, <1>5 DEF Life, Status, FromMother
<1>7. S = Board!ArriveAtTop(Board!CloseGap(Sorts(com), Board!Peers(o), Sorts(com)[o]),
                            Board!Column(Mother, Status[o]), o, Last)
  BY <1>1, SameShifts, SameColumn DEF S, Gapless, Board!Peers, Sorts, Status
<1> QED
  BY <1>1, <1>5, <1>6, <1>7
  DEF Board!RestoreToMother, Life, Branch, Status, FromMother, Sorts

LEMMA CreateImplements ==
    ASSUME NEW j, Ended(j), j.op = "create" PROVE Board!Create(j.o)
<1> DEFINE o == j.o
           r == com[o]
<1>1. /\ o \in Orders /\ r \in Row /\ r.life = "None" /\ j.to \in Branches
      /\ r.fromMother = FALSE
  BY DEF Ended, Jobs, Aims, Sound, Low, Row
<1>2. PICK s \in Statuses : j.row = Born(s, j.to)
  BY DEF Ended, Sound
<1> DEFINE S == ArriveAtTop(Sorts(com), Cards(com, j.to, s), o, Last)
<1>3. /\ Landing(com, j).sort = Last /\ Landing(com, j).branch = j.to
      /\ Landing(com, j).status = s /\ Landing(com, j).life = "Open"
      /\ Landing(com, j).fromMother = FALSE /\ Landing(com, j) \in Row
  <2>1. NoRow(s) \in Row /\ Last \in Nat
    BY NoRowIsRow, PositionsAssumption
  <2> QED
    BY <1>1, <1>2, <2>1 DEF Landing, Born, NoRow, Row
<1>4. com'[o] = At(Landing(com, j), 1)
  BY <1>3, EndsFirst DEF GoesToTop
<1>5. com'[o].life = "Open" /\ com'[o].branch = j.to /\ com'[o].status = s
        /\ com'[o].fromMother = FALSE
  BY <1>3, <1>4, AtIs
<1>6. Resorted(o, S)
  BY <1>3, Arrives
<1> HIDE DEF S
<1>7. /\ Life' = [Life EXCEPT ![o] = "Open"] /\ Branch' = [Branch EXCEPT ![o] = j.to]
      /\ Status' = [Status EXCEPT ![o] = s]
      /\ FromMother' = [FromMother EXCEPT ![o] = FALSE]
      /\ Sorts(com)' = S
  BY <1>1, <1>5, <1>6, BoardSees
<1>8. FromMother' = FromMother
  BY <1>1, <1>7 DEF FromMother
<1>9. S = Board!ArriveAtTop(Sorts(com), Board!Column(j.to, s), o, Last)
  BY SameShifts, SameColumn DEF S
<1>10. Board!Insert(o, j.to, s)
  BY <1>1, <1>7, <1>8, <1>9 DEF Board!Insert, Life, Branch, Status, FromMother, Sorts
<1> QED
  BY <1>1, <1>10 DEF Board!Create, Board!Branches, Branches

LEMMA MoveAcrossImplements ==
    ASSUME NEW j, Ended(j), j.op = "across" PROVE Board!MoveAcross(j.o)
<1> DEFINE o == j.o
           r == com[o]
           n == Target(j)
           G == Gapless(com, r)
           T == OpenSlot(G, Cards(com, r.branch, j.to), n)
           S == [T EXCEPT ![o] = n]
           K == Landing(com, j)
<1>1. /\ o \in Orders /\ r \in Row /\ r.life = "Open" /\ j.to \in Statuses \ {r.status}
      /\ <<r.status, j.to>> \in Transitions /\ j.pos \in Positions /\ n \in Nat
      /\ n = IF j.pos = 0 THEN 1 ELSE j.pos
  BY PositionsAssumption DEF Ended, Jobs, Aims, Sound, Accepts, Pointless, Target
<1>2. K = [r EXCEPT !.status = j.to, !.sort = n]
  <2> DEFINE i == [j EXCEPT !.row = r]
  <2>1. i.op = "across" /\ i.to = j.to /\ i.pos = j.pos
    BY <1>1, WithRow DEF Ended
  <2> HIDE DEF i
  <2>2. Written(i, r) = [r EXCEPT !.status = j.to, !.sort = n]
    BY <2>1 DEF Written, Target
  <2> QED
    BY <2>2 DEF Landing, i
<1>3. com'[o] = K
  BY DEF Ended, GoesToTop
<1> HIDE DEF n
<1>4. com'[o].branch = r.branch /\ com'[o].status = j.to /\ com'[o].life = r.life
        /\ com'[o].fromMother = r.fromMother /\ com'[o].sort = n
  BY <1>1, <1>2, <1>3 DEF Row
<1>5. DOMAIN G = Orders /\ DOMAIN T = Orders /\ T = [p \in Orders |-> T[p]]
  BY DEF Gapless, CloseGap, Sorts, OpenSlot
<1>6. ASSUME NEW p \in Orders \ {o} PROVE com'[p] = At(com[p], T[p])
  <2>1. com'[p] = Shifted(Closed(com, j, com[p]), Shift([j EXCEPT !.row = r], "slot"))
    BY DEF Ended, Done
  <2>2. Closed(com, j, com[p]) = At(com[p], G[p]) /\ G[p] \in Nat /\ G[p] <= MaxSort
    BY <1>1, ClosedIs DEF Ended
  <2> HIDE DEF G
  <2>3. Shifted(At(com[p], G[p]), Shift([j EXCEPT !.row = r], "slot")) = At(com[p], T[p])
    BY <1>1, <1>5, <2>2, SlottedIs DEF Ended, n
  <2> QED
    BY <2>1, <2>2, <2>3
<1> HIDE DEF T
<1>7. Resorted(o, S)
  <2>1. DOMAIN S = Orders /\ S[o] = n /\ \A p \in Orders \ {o} : S[p] = T[p]
    BY <1>1, <1>5
  <2>2. S = [p \in Orders |-> S[p]]
    BY <1>5
  <2> QED
    BY <1>4, <1>6, <2>1, <2>2 DEF Resorted, Ended
<1> HIDE DEF S
<1>8. /\ Life' = [Life EXCEPT ![o] = r.life] /\ Branch' = [Branch EXCEPT ![o] = r.branch]
      /\ Status' = [Status EXCEPT ![o] = j.to]
      /\ FromMother' = [FromMother EXCEPT ![o] = r.fromMother]
      /\ Sorts(com)' = S
  BY <1>1, <1>4, <1>7, BoardSees
<1>9. Life' = Life /\ Branch' = Branch /\ FromMother' = FromMother
  BY <1>1, <1>8 DEF Life, Branch, FromMother
<1>10. S = [Board!OpenSlot(Board!CloseGap(Sorts(com), Board!Peers(o), Sorts(com)[o]),
                           Board!Column(Branch[o], j.to), n) EXCEPT ![o] = n]
  <2>1. Branch[o] = r.branch /\ Sorts(com)[o] = r.sort
    BY <1>1 DEF Branch, Sorts
  <2>2. Board!Peers(o) = Cards(com, r.branch, r.status)
    BY <1>1, SameColumn DEF Board!Peers
  <2>3. Board!CloseGap(Sorts(com), Board!Peers(o), Sorts(com)[o]) = G
    BY <2>1, <2>2, SameShifts DEF Gapless
  <2>4. Board!OpenSlot(G, Board!Column(Branch[o], j.to), n) = T
    BY <2>1, SameShifts, SameColumn DEF T
  <2> QED
    BY <2>3, <2>4 DEF S
<1>11. Board!Aimed(Board!Column(Branch[o], j.to), j.pos)
  BY DEF Board!Aimed
<1> DEFINE Lands(s, pos) ==
      LET target == IF pos = 0 THEN 1 ELSE pos
          col    == Board!Column(Branch[o], s)
      IN  /\ <<Status[o], s>> \in Transitions
          /\ Board!Aimed(col, pos)
          /\ Status' = [Status EXCEPT ![o] = s]
          /\ Sorts(com)' = [Board!OpenSlot(Board!CloseGap(Sorts(com), Board!Peers(o), Sorts(com)[o]),
                                           col, target) EXCEPT ![o] = target]
<1>12. Status[o] = r.status
  BY <1>1 DEF Status
<1>13. Lands(j.to, j.pos)
  BY <1>1, <1>8, <1>10, <1>11, <1>12
<1>14. \E s \in Statuses \ {Status[o]}, pos \in Positions : Lands(s, pos)
  BY <1>1, <1>12, <1>13
<1>15. Life[o] = "Open"
  BY <1>1 DEF Life
<1> QED
  BY <1>9, <1>14, <1>15 DEF Board!MoveAcross, Life, Branch, Status, FromMother, Sorts

LEMMA MoveWithinImplements ==
    ASSUME NEW j, Ended(j), j.op \in {"within", "resort"} PROVE Board!MoveWithin(j.o)
<1> DEFINE o == j.o
           r == com[o]
           n == j.to
           T == Slide(Sorts(com), Cards(com, r.branch, r.status), r.sort, n)
           S == [T EXCEPT ![o] = n]
           K == Landing(com, j)
<1>1. /\ o \in Orders /\ r \in Row /\ r.life = "Open" /\ n \in Positions \ {r.sort} /\ n \in Nat
  BY PositionsAssumption DEF Ended, Jobs, Aims, Sound, Accepts, Pointless
<1>2. K = [r EXCEPT !.sort = n]
  <2> DEFINE i == [j EXCEPT !.row = r]
  <2>1. i.op = j.op /\ i.to = j.to
    BY <1>1, WithRow DEF Ended
  <2> HIDE DEF i
  <2>2. Written(i, r) = [r EXCEPT !.sort = n]
    BY <2>1 DEF Written
  <2> QED
    BY <2>2 DEF Landing, i
<1>3. com'[o] = K
  BY DEF Ended, GoesToTop
<1> HIDE DEF n
<1>4. com'[o].branch = r.branch /\ com'[o].status = r.status /\ com'[o].life = r.life
        /\ com'[o].fromMother = r.fromMother /\ com'[o].sort = n
  BY <1>1, <1>2, <1>3 DEF Row
<1>5. DOMAIN T = Orders /\ T = [p \in Orders |-> T[p]]
  BY DEF Slide, Sorts
<1>6. ASSUME NEW p \in Orders \ {o} PROVE com'[p] = At(com[p], T[p])
  <2>1. com'[p] = Shifted(com[p], Shift([j EXCEPT !.row = r], "slide"))
    BY DEF Ended, Done
  <2> QED
    BY <1>1, <2>1, SlidIs DEF Ended, n
<1> HIDE DEF T
<1>7. Resorted(o, S)
  <2>1. DOMAIN S = Orders /\ S[o] = n /\ \A p \in Orders \ {o} : S[p] = T[p]
    BY <1>1, <1>5
  <2>2. S = [p \in Orders |-> S[p]]
    BY <1>5
  <2> QED
    BY <1>4, <1>6, <2>1, <2>2 DEF Resorted, Ended
<1> HIDE DEF S
<1>8. /\ Life' = [Life EXCEPT ![o] = r.life] /\ Branch' = [Branch EXCEPT ![o] = r.branch]
      /\ Status' = [Status EXCEPT ![o] = r.status]
      /\ FromMother' = [FromMother EXCEPT ![o] = r.fromMother]
      /\ Sorts(com)' = S
  BY <1>1, <1>4, <1>7, BoardSees
<1>9. Life' = Life /\ Branch' = Branch /\ Status' = Status /\ FromMother' = FromMother
  BY <1>1, <1>8 DEF Life, Branch, Status, FromMother
<1>10. S = [Board!Slide(Sorts(com), Board!Peers(o), Sorts(com)[o], n) EXCEPT ![o] = n]
  BY <1>1, SameShifts, SameColumn DEF S, T, Board!Peers, Sorts
<1>11. Board!Aimed(Board!Peers(o), n)
  BY DEF Board!Aimed
<1> QED
  BY <1>1, <1>8, <1>9, <1>10, <1>11
  DEF Board!MoveWithin, Life, Branch, Status, FromMother, Sorts

LEMMA SoftDeleteImplements ==
    ASSUME NEW j, Ended(j), j.op = "delete" PROVE Board!SoftDelete(j.o)
<1> DEFINE o == j.o
           r == com[o]
           col == Cards(com, r.branch, r.status)
           S == CloseGap(Sorts(com), col \ {o}, r.sort)
           K == Landing(com, j)
<1>1. o \in Orders /\ r \in Row /\ r.life = "Open" /\ r.sort \in Nat
  BY DEF Ended, Jobs, Sound, Accepts, Row
<1>2. K = [r EXCEPT !.life = "Deleted"]
  <2> DEFINE i == [j EXCEPT !.row = r]
  <2>1. i.op = j.op
    BY <1>1, WithRow DEF Ended
  <2> HIDE DEF i
  <2>2. Written(i, r) = [r EXCEPT !.life = "Deleted"]
    BY <2>1 DEF Written
  <2> QED
    BY <2>2 DEF Landing, i
<1>3. com'[o] = K
  BY DEF Ended, GoesToTop
<1>4. com'[o].branch = r.branch /\ com'[o].status = r.status /\ com'[o].life = "Deleted"
        /\ com'[o].fromMother = r.fromMother /\ com'[o].sort = r.sort
  BY <1>1, <1>2, <1>3 DEF Row
<1>5. DOMAIN S = Orders /\ S = [p \in Orders |-> S[p]]
  BY DEF CloseGap, Sorts
<1>6. S[o] = r.sort
  BY <1>1 DEF CloseGap, Sorts
<1>7. ASSUME NEW p \in Orders \ {o} PROVE com'[p] = At(com[p], S[p])
  <2>1. com'[p] = Closed(com, j, com[p])
    BY DEF Ended, Done
  <2>2. Closed(com, j, com[p]) = At(com[p], Gapless(com, r)[p])
    BY <1>1, ClosedIs DEF Ended
  <2>3. Gapless(com, r)[p] = S[p]
    BY DEF Gapless, CloseGap, Sorts
  <2> QED
    BY <2>1, <2>2, <2>3
<1>8. Resorted(o, S)
  BY <1>4, <1>5, <1>6, <1>7 DEF Resorted, Ended
<1> HIDE DEF S
<1>9. /\ Life' = [Life EXCEPT ![o] = "Deleted"] /\ Branch' = [Branch EXCEPT ![o] = r.branch]
      /\ Status' = [Status EXCEPT ![o] = r.status]
      /\ FromMother' = [FromMother EXCEPT ![o] = r.fromMother]
      /\ Sorts(com)' = S
  BY <1>1, <1>4, <1>8, BoardSees
<1>10. Branch' = Branch /\ Status' = Status /\ FromMother' = FromMother
  BY <1>1, <1>9 DEF Branch, Status, FromMother
<1>11. S = Board!CloseGap(Sorts(com), Board!Peers(o) \ {o}, Sorts(com)[o])
  BY <1>1, SameShifts, SameColumn DEF S, Board!Peers, Sorts
<1> QED
  BY <1>1, <1>9, <1>10, <1>11
  DEF Board!SoftDelete, Life, Branch, Status, FromMother, Sorts

LEMMA CallImplements ==
    ASSUME NEW j, Ended(j), j.op = "call" PROVE Board!CallOnOrder(j.o)
<1> DEFINE o == j.o
           r == com[o]
           col == Cards(com, r.branch, r.status)
           S == MoveToTop(Sorts(com), col, o, r.sort)
<1>1. o \in Orders /\ r \in Row /\ r.life = "Open" /\ r.sort \in Nat /\ r.branch = Mother
        /\ r.status \in Statuses
  BY DEF Ended, Jobs, Sound, Accepts, Row
<1>2. Landing(com, j) = r /\ Kept(com, j) = r
  <2> DEFINE i == [j EXCEPT !.row = r]
  <2>1. i.op = j.op
    BY <1>1, WithRow DEF Ended
  <2> HIDE DEF i
  <2>2. Written(i, r) = r
    BY <2>1 DEF Written
  <2>3. Landing(com, j) = r
    BY <2>2 DEF Landing, i
  <2> QED
    BY <2>3 DEF Kept
<1>3. com'[o] = IF r.sort # 1 THEN At(r, 1) ELSE r
  BY <1>2 DEF Ended, GoesToTop
<1>4. com'[o].branch = r.branch /\ com'[o].status = r.status /\ com'[o].life = r.life
        /\ com'[o].fromMother = r.fromMother /\ com'[o].sort = 1
  BY <1>1, <1>3, AtIs
<1>5. DOMAIN S = Orders /\ S = [p \in Orders |-> S[p]]
  BY DEF MoveToTop, ShiftAbove, Sorts
<1>6. S[o] = 1
  BY <1>1 DEF MoveToTop, ShiftAbove, Sorts
<1>7. ASSUME NEW p \in Orders \ {o} PROVE com'[p] = At(com[p], S[p])
  <2> DEFINE k == com[p].sort
  <2>1. com[p] \in Row /\ k \in Nat
    BY DEF Ended, Row
  <2>2. com'[p] = Raised(com, j, com[p]) /\ com[p] = At(com[p], k)
    BY <2>1, AtIs DEF Ended, Done
  <2>3. S[p] = IF r.sort # 1 /\ p \in col /\ k < r.sort THEN k + 1 ELSE k
    BY <1>1 DEF MoveToTop, ShiftAbove, Sorts
  <2> HIDE DEF S, k
  <2>4. Raised(com, j, At(com[p], k)) =
           At(com[p], IF r.sort # 1 /\ p \in col /\ k < r.sort THEN k + 1 ELSE k)
    BY <1>1, <1>2, <2>1, RaisedIs DEF Ended
  <2> QED
    BY <2>2, <2>3, <2>4
<1>8. Resorted(o, S)
  BY <1>4, <1>5, <1>6, <1>7 DEF Resorted, Ended
<1> HIDE DEF S
<1>9. /\ Life' = [Life EXCEPT ![o] = r.life] /\ Branch' = [Branch EXCEPT ![o] = r.branch]
      /\ Status' = [Status EXCEPT ![o] = r.status]
      /\ FromMother' = [FromMother EXCEPT ![o] = r.fromMother]
      /\ Sorts(com)' = S
  BY <1>1, <1>4, <1>8, BoardSees
<1>10. Life' = Life /\ Branch' = Branch /\ Status' = Status /\ FromMother' = FromMother
  BY <1>1, <1>9 DEF Life, Branch, Status, FromMother
<1>11. S = Board!MoveToTop(Sorts(com), Board!Peers(o), o, Sorts(com)[o])
  BY <1>1, SameShifts, SameColumn DEF S, Board!Peers, Sorts
<1>12. Board!TelephonySees(o)
  BY <1>1 DEF Board!TelephonySees
<1> QED
  BY <1>9, <1>10, <1>11, <1>12 DEF Board!CallOnOrder, Life, Branch, Status, FromMother, Sorts

\* The action of RepairOrderBoard a handler is.
Handled(o) ==
    \/ Board!Create(o) \/ Board!Update(o) \/ Board!MoveAcross(o) \/ Board!MoveWithin(o)
    \/ Board!SoftDelete(o) \/ Board!TransferBranch(o) \/ Board!Take(o)
    \/ Board!RestoreToMother(o) \/ Board!CallOnOrder(o)

LEMMA HandlerImplements == ASSUME NEW j, Ended(j) PROVE j.o \in Orders /\ Handled(j.o)
<1>1. j.op \in AllOps /\ j.o \in Orders
  BY DEF Ended, Jobs
<1> QED
  BY <1>1, CreateImplements, UpdateImplements, MoveAcrossImplements, MoveWithinImplements,
     SoftDeleteImplements, TransferImplements, TakeImplements, RestoreImplements,
     CallImplements DEF AllOps, Handled

\* No order without a row comes from Mother.
LEMMA HandledKeeps ==
    ASSUME NEW o \in Orders, Handled(o), NEW p \in Orders, com'[p].life = "None"
    PROVE  com[p].life = "None" /\ com'[p].fromMother = com[p].fromMother
<1>1. Life'[p] = com'[p].life /\ FromMother'[p] = com'[p].fromMother
  BY DEF Life, FromMother
<1>2. Life[p] = com[p].life /\ FromMother[p] = com[p].fromMother /\ Life[o] = com[o].life
  BY DEF Life, FromMother
<1>3. CASE Board!Create(o)
  <2>1. Life' = [Life EXCEPT ![o] = "Open"] /\ FromMother' = FromMother
    BY <1>3 DEF Board!Create, Board!Insert, Life, FromMother
  <2>2. p # o
    BY <1>1, <2>1 DEF Life
  <2> QED
    BY <1>1, <1>2, <2>1, <2>2 DEF Life
<1>4. CASE Board!SoftDelete(o)
  <2>1. Life' = [Life EXCEPT ![o] = "Deleted"] /\ FromMother' = FromMother
    BY <1>4 DEF Board!SoftDelete, Life, FromMother
  <2>2. p # o
    BY <1>1, <2>1 DEF Life
  <2> QED
    BY <1>1, <1>2, <2>1, <2>2 DEF Life
<1>5. CASE Board!Update(o) \/ Board!MoveAcross(o) \/ Board!MoveWithin(o)
           \/ Board!RestoreToMother(o) \/ Board!CallOnOrder(o)
  <2>1. Life' = Life /\ FromMother' = FromMother
    BY <1>5 DEF Board!Update, Board!MoveAcross, Board!MoveWithin, Board!RestoreToMother,
       Board!CallOnOrder, Life, FromMother
  <2> QED
    BY <1>1, <1>2, <2>1
<1>6. CASE Board!TransferBranch(o) \/ Board!Take(o)
  <2>1. Life' = Life /\ Life[o] = "Open" /\ \E x : FromMother' = [FromMother EXCEPT ![o] = x]
    BY <1>6 DEF Board!TransferBranch, Board!Take, Life, FromMother
  <2>2. p # o
    BY <1>1, <2>1
  <2> QED
    BY <1>1, <1>2, <2>1, <2>2 DEF FromMother
<1> QED
  BY <1>3, <1>4, <1>5, <1>6 DEF Handled

-----------------------------------------------------------------------------
(* The steps of the only connection.                                       *)

LEMMA CommitEnds ==
    ASSUME TInv, LInv, SInv, NEW c, Connections = {c}, Commit(c)
    PROVE  (\E j : Ended(j)) /\ \A p \in Orders : com'[p].sort <= MaxSort
<1>0. PICK j : j = job[c]
  OBVIOUS
<1> DEFINE l == Len(Program(j.op))
<1>1. c \in Connections /\ Working(c)
  BY DEF Commit, Finished
<1>2. /\ j \in Jobs /\ Aims(j) /\ j.op \in AllOps /\ j.o \in Orders /\ j.pc \in Nat \ {0}
      /\ com \in [Orders -> Row] /\ cur \in [Orders -> Row]
  BY <1>0, <1>1, AtWork DEF TInv
<1>3. Alone(com, cur, j) /\ Low(com)
  BY <1>0, <1>1 DEF SInv
<1>4. com' = cur
  <2>1. \A p \in Orders : lock[p] # c => cur[p] = com[p]
    BY DEF TInv, LInv
  <2>2. com' = [p \in Orders |-> IF lock[p] = c THEN cur[p] ELSE com[p]]
    BY DEF Commit
  <2>3. com' = [p \in Orders |-> cur[p]]
    BY <2>1, <2>2
  <2> QED
    BY <1>2, <2>3
<1>5. j.pc > l
  BY <1>0 DEF Commit, Finished
<1>6. l \in 3 .. 5 /\ WriteAt(j.op) \in 1 .. l
  <2>1. l \in 3 .. 5
    BY <1>2, LengthsAre DEF AllOps
  <2>2. CASE j.op = "across"
    <3>1. l = 4 /\ WriteAt(j.op) = 4
      BY <2>2, LengthsAre, WritesAre
    <3> QED
      BY <3>1
  <2>3. CASE j.op # "across"
    <3>1. WriteAt(j.op) \in 1 .. 3
      BY <1>2, <2>3, WritesAre DEF AllOps
    <3> HIDE DEF l
    <3> QED
      BY <2>1, <3>1
  <2> QED
    BY <2>1, <2>2, <2>3
<1> HIDE DEF l
<1>7. j.pc > 1 /\ ~(j.pc <= WriteAt(j.op)) /\ ~(j.pc <= l) /\ j.pc - 1 \in Nat /\ ~(j.pc - 1 < l)
  BY <1>2, <1>5, <1>6
<1>8. com'[j.o] = IF GoesToTop(j.op) /\ Kept(com, j).sort # 1
                  THEN At(Landing(com, j), 1) ELSE Landing(com, j)
  BY <1>3, <1>4, <1>5, <1>7 DEF Alone, Own, At, l
<1>9. ~j.found
  BY <1>3, <1>7 DEF Alone, l
<1>10. ASSUME NEW p \in Orders \ {j.o} PROVE com'[p] = Done(com, j, 5, com[p])
  <2>1. com'[p] = Done(com, j, j.pc - 1, com[p])
    BY <1>3, <1>4, <1>9 DEF Alone
  <2> QED
    BY <1>2, <1>7, <2>1, DoneEnd DEF l
<1>11. \A p \in Orders : com'[p].sort <= MaxSort
  BY <1>3 DEF Commit, Low
<1>12. com' \in [Orders -> Row]
  BY <1>2, <1>4
<1>13. Ended(j)
  BY <1>2, <1>3, <1>7, <1>8, <1>10, <1>12 DEF Ended, Alone
<1> QED
  BY <1>11, <1>13

\* A COMMIT is a step of the board.
LEMMA CommitImplements ==
    ASSUME TInv, LInv, SInv, NEW c, Connections = {c}, Commit(c)
    PROVE  Board!Next /\ SInv'
<1>0. PICK j : Ended(j)
  BY CommitEnds
<1> DEFINE o == j.o
<1>1. \A p \in Orders : com'[p].sort <= MaxSort
  BY CommitEnds
<1>2. o \in Orders /\ Handled(o)
  BY <1>0, HandlerImplements
<1>3. \A p \in Orders : Sorts(com)'[p] <= MaxSort
  BY <1>1 DEF Sorts
<1>4. Board!Handle(o)
  BY <1>2 DEF Board!Handle, Handled
<1>5. Board!Next
  BY <1>2, <1>3, <1>4 DEF Board!Next, Sorts
<1>6. Low(com)'
  <2>1. \A p \in Orders : com'[p].life = "None" => ~com'[p].fromMother
    <3> SUFFICES ASSUME NEW p \in Orders, com'[p].life = "None" PROVE ~com'[p].fromMother
      OBVIOUS
    <3>1. com[p].life = "None" /\ com'[p].fromMother = com[p].fromMother
      BY <1>2, HandledKeeps
    <3> QED
      BY <3>1 DEF SInv, Low
  <2> QED
    BY <1>1, <2>1 DEF Low
<1>7. ~Working(c)'
  <2>1. job'[c] = Idle
    BY DEF Commit, TInv
  <2> QED
    BY <2>1 DEF Working, Idle, AllOps
<1> QED
  BY <1>5, <1>6, <1>7 DEF SInv

LEMMA EndAlone ==
    ASSUME TInv, SInv, NEW c, Connections = {c}, Rollback(c) \/ (Working(c) /\ Leak(c))
    PROVE  SInv' /\ com' = com
<1>1. com' = com
  BY DEF Rollback, Leak
<1>2. ~Working(c)'
  <2>1. CASE Rollback(c)
    <3>1. job'[c] = Idle
      BY <2>1 DEF Rollback, TInv
    <3> QED
      BY <3>1 DEF Working, Idle, AllOps
  <2>2. CASE Working(c) /\ Leak(c)
    <3>1. job[c] \in Jobs
      BY <2>2, AtWork
    <3>2. job'[c].op = "leaked"
      BY <2>2, <3>1 DEF Leak, TInv, Jobs
    <3> QED
      BY <3>2 DEF Working, AllOps
  <2> QED
    BY <2>1, <2>2
<1> QED
  BY <1>1, <1>2, OnlyOne

LEMMA BeginAlone ==
    ASSUME TInv, LInv, SInv, NEW c, Connections = {c}, Begin(c)
    PROVE  SInv' /\ com' = com
<1>1. UNCHANGED <<com, cur, lock>> /\ ~Busy(c)
  BY DEF Begin
<1>2. cur = com
  <2>1. ~Working(c)
    BY <1>1 DEF Busy, Working, AllOps
  <2>2. \A p \in Orders : cur[p] = com[p]
    BY <2>1 DEF TInv, LInv
  <2>3. com \in [Orders -> Row] /\ cur \in [Orders -> Row]
    BY DEF TInv
  <2> QED
    BY <2>2, <2>3
<1>3. PICK op \in Ops, o \in Orders, scope \in Scopes, pos \in Positions,
           to \in Branches \cup Statuses \cup Positions :
        /\ Asks(op, scope, to)
        /\ op # "across" => pos = CHOOSE q \in Positions : TRUE
        /\ op = "call" => com[o].life = "Open" /\ com[o].branch = Mother
        /\ op = "create" <=> cur[o].life = "None"
        /\ job' = [job EXCEPT ![c] = Handler(op, o, scope, pos, to)]
  BY Zenon DEF Begin
<1> DEFINE j == Handler(op, o, scope, pos, to)
<1>4. /\ j.op = op /\ j.o = o /\ j.pc = 1 /\ j.row = com[o] /\ j.todo = {} /\ j.found = FALSE
      /\ op \in AllOps
  BY OpsAssumption DEF Handler
<1>5. job'[c] = j
  BY <1>3 DEF TInv
<1> HIDE DEF j
<1>6. WriteAt(op) \in 1 .. 4
  BY <1>4, WriteAtIs
<1>7. ~(j.pc > WriteAt(j.op)) /\ j.pc <= WriteAt(j.op) /\ ~(j.pc > 1) /\ j.pc - 1 = 0
  BY <1>4, <1>6
<1>8. Sound(com, j)
  BY <1>2, <1>3, <1>4, <1>7 DEF Sound, Held
<1>9. \A p \in Orders : com[p] = Done(com, j, 0, com[p])
  BY <1>4, DoneStart
<1>10. Alone(com, cur', j)
  BY <1>1, <1>2, <1>4, <1>7, <1>8, <1>9 DEF Alone, Own
<1> QED
  BY <1>1, <1>5, <1>10, OnlyOne

LEMMA StatementAlone ==
    ASSUME TInv, LInv, SInv, NEW c, Connections = {c}, Execute(c)
    PROVE  SInv' /\ com' = com
<1> DEFINE o == job[c].o
<1>1. c \in Connections /\ Working(c) /\ ~Finished(c) /\ o \in Orders
  BY AtWork DEF Execute
<1>2. CASE Read(c)
  <2>1. Seen(c, o) = cur[o] /\ Statement(c) = "read"
    BY <1>1, <1>2, SeesAll DEF Read
  <2>2. CASE Rollback(c) \/ Leak(c)
    BY <1>1, <2>2, EndAlone
  <2>3. CASE /\ Accepts(job[c], cur[o]) /\ ~Pointless(job[c], cur[o])
             /\ Advance(c, cur[o]) /\ UNCHANGED <<com, cur, lock, left>>
    BY <1>1, <2>1, <2>3, ReadAlone
  <2> QED
    BY <1>2, <2>1, <2>2, <2>3 DEF Read
<1>3. CASE ReadForUpdate(c)
  <2>1. Statement(c) = "lock" /\ job[c].op \in {"take", "restore"}
    BY <1>1, <1>3, NextStatement DEF ReadForUpdate
  <2>2. ~Pointless(job[c], cur[o])
    BY <2>1 DEF Pointless
  <2>3. CASE Rollback(c)
    BY <2>3, EndAlone
  <2>4. CASE Accepts(job[c], cur[o]) /\ Advance(c, cur[o]) /\ UNCHANGED <<com, cur, left>>
    BY <1>1, <2>1, <2>2, <2>4, ReadAlone
  <2> QED
    BY <1>3, <2>3, <2>4 DEF ReadForUpdate
<1>4. CASE Insert(c)
  BY <1>1, <1>4, InsertAlone DEF Insert
<1>5. CASE Write(c)
  BY <1>1, <1>5, WriteAlone DEF Write
<1>6. CASE PutFirst(c) \/ SkipTop(c) \/ ShiftDone(c)
  BY <1>1, <1>6, TopAlone DEF PutFirst, SkipTop, ShiftDone
<1>7. CASE Find(c)
  BY <1>1, <1>7, FindAlone DEF Find
<1>8. CASE Touch(c)
  BY <1>1, <1>8, TouchAlone DEF Touch
<1> QED
  BY <1>2, <1>3, <1>4, <1>5, <1>6, <1>7, <1>8 DEF Execute

LEMMA StepImplements ==
    ASSUME TInv, LInv, SInv, NEW c, Connections = {c}, [Next]_vars
    PROVE  SInv' /\ [Board!Next]_Board!vars
<1>1. CASE UNCHANGED vars
  <2>1. com' = com /\ cur' = cur /\ job' = job
    BY <1>1 DEF vars
  <2>2. SInv'
    BY <2>1 DEF SInv, Working
  <2> QED
    BY <2>1, <2>2 DEF Board!vars
<1>2. CASE Commit(c)
  BY <1>2, CommitImplements
<1>3. CASE Begin(c) \/ Execute(c) \/ Rollback(c)
  <2>1. SInv' /\ com' = com
    BY <1>3, BeginAlone, StatementAlone, EndAlone
  <2> QED
    BY <2>1 DEF Board!vars
<1> QED
  BY <1>1, <1>2, <1>3 DEF Next, Step, DeadlockAbort

\* One handler at a time, from an empty board: what the statements of create,
\* update, move, updateSort, softDelete, transferBranch, take, restoreToMother
\* and the telephony handlers commit is, handler by handler, the one step
\* RepairOrderBoard takes for it.
THEOREM BoardImplemented ==
    ASSUME NEW c, Connections = {c},
           \A board \in Boards : \E s \in Statuses : board = [o \in Orders |-> NoRow(s)]
    PROVE  Spec => ImplementsBoard
<1>1. Init => SInv /\ Board!Init
  <2> SUFFICES ASSUME Init PROVE SInv /\ Board!Init
    OBVIOUS
  <2>1. PICK s \in Statuses : com = [o \in Orders |-> NoRow(s)]
    BY DEF Init
  <2>2. Board!Init
    BY <2>1 DEF Board!Init, NoRow
  <2>3. Low(com)
    BY <2>1, BoundsAssumption DEF Low, NoRow
  <2>4. ~Working(c)
    BY DEF Init, Working, Idle, AllOps
  <2> QED
    BY <2>2, <2>3, <2>4 DEF SInv
<1>2. TInv /\ LInv /\ SInv /\ [Next]_vars => SInv' /\ [Board!Next]_Board!vars
  BY StepImplements
<1> QED
  BY <1>1, <1>2, Invariant, PTL DEF Spec, ImplementsBoard, Board!Spec
=============================================================================
