-------------------------- MODULE CanonicalStatuses --------------------------
(***************************************************************************)
(* The scripts that keep the statuses of repair orders canonical.  At      *)
(* every start one transaction maps the statuses of child branches to the  *)
(* statuses of Mother that have the same type, or the same name, moves     *)
(* orders, transitions and permissions over, and deletes what is mapped.   *)
(* By hand, statement by statement, another gives each branch the required *)
(* statuses.  Meanwhile the server moves orders and edits the statuses.    *)
(*                                                                         *)
(* Rows of permissions are those of one role and one of their columns,     *)
(* transitions those of one scope: the scripts treat all alike and apart.  *)
(***************************************************************************)
EXTENDS Naturals, FiniteSets, Sequences

CONSTANTS
    Carried,       \* repair orders
    MaxStatus,     \* bound: statuses ever
    StatusStarts,  \* the databases a behaviour starts with
    MaxScripts,    \* bound: scripts run
    MaxEdits       \* bound: requests to the server

StatusIds == 1 .. MaxStatus
Owners == {"mother", "child"}
NoStatus == 0
Absent == [branch |-> "mother", name |-> "other", type |-> "none", state |-> "absent", guarded |-> FALSE]

VARIABLES
    data,      \* what is committed: statuses, orders, permissions, transitions
    draft,     \* what the script's transaction sees
    startup,   \* what the script is doing
    moving,    \* a move of an order that was checked and not written
    runs,      \* scripts run so far
    edits,     \* requests so far
    removed,   \* history: statuses deleted through the server
    strayed    \* history: orders moved by a request that overlapped a script

canonVars == <<data, draft, startup, moving, runs, edits, removed, strayed>>

NoScript == [job |-> "none", pc |-> "rest", map |-> << >>, before |-> << >>, clean |-> FALSE,
             todo |-> << >>, byName |-> NoStatus, byType |-> NoStatus]
NoMove == [id |-> "none", to |-> NoStatus, from |-> NoStatus, overlapped |-> FALSE]

CanonInit ==
    /\ data \in StatusStarts
    /\ draft = data
    /\ startup = NoScript
    /\ moving = NoMove
    /\ runs = 0 /\ edits = 0
    /\ removed = {} /\ strayed = {}

Live(D, b) == {s \in StatusIds : D.status[s].branch = b /\ D.status[s].state = "Open"}

\* A row that may, one that may not, or none.
Joined(S) == IF "may" \in S THEN "may" ELSE IF "no" \in S THEN "no" ELSE "none"

(***************************************************************************)
(* What the statements of the start script do.                             *)
(***************************************************************************)
statusKey(row) == IF row.type # "none" THEN <<"type", row.type>> ELSE <<"name", row.name>>

\* buildStatusMap: of Mother's statuses with the same key the last counts;
\* child statuses that match none are skipped.
StatusMaps(D) ==
    LET Key(s)  == statusKey(D.status[s])
        matched == {s \in Live(D, "child") : \E t \in Live(D, "mother") : Key(s) = Key(t)}
    IN  {map \in [matched -> Live(D, "mother")] :
            /\ \A s \in matched : Key(map[s]) = Key(s)
            /\ \A s, t \in matched : Key(s) = Key(t) => map[s] = map[t]}

Mapped(map, s) == IF s \in DOMAIN map THEN map[s] ELSE s

MoveOrders(D, map) == [D EXCEPT !.order = [o \in Carried |-> Mapped(map, D.order[o])]]

MergeTransitions(D, map) ==
    [D EXCEPT !.rule = @ \cup {r \in {<<Mapped(map, q[1]), Mapped(map, q[2])>> : q \in @} : r[1] # r[2]}]

\* Mutant of MergePermissions: what is merged replaces what was there.
ReplacePermissions(D, map) ==
    [D EXCEPT !.perm = [b \in Owners |-> [s \in StatusIds |->
        LET merged == Joined({D.perm[b][c] : c \in {x \in DOMAIN map : map[x] = s}})
        IN  IF merged = "none" THEN D.perm[b][s] ELSE merged]]]

MergePermissions(D, map) ==
    [D EXCEPT !.perm = [b \in Owners |-> [s \in StatusIds |->
        Joined({D.perm[b][s]} \cup {D.perm[b][c] : c \in {x \in DOMAIN map : map[x] = s}})]]]

DropPermissions(D, map) ==
    [D EXCEPT !.perm = [b \in Owners |-> [s \in StatusIds |->
        IF s \in DOMAIN map THEN "none" ELSE D.perm[b][s]]]]

RetireStatuses(D, map) ==
    [D EXCEPT !.status = [s \in StatusIds |->
        IF s \in DOMAIN map /\ \A o \in Carried : D.order[o] # s
        THEN [D.status[s] EXCEPT !.state = "Deleted"] ELSE D.status[s]]]

\* ensureChildKanbanStatusPermissions: whoever has a row of any status in a
\* branch has one for each status of Mother.
EnsureKanban(D) ==
    [D EXCEPT !.perm = [b \in Owners |-> [s \in StatusIds |->
        IF s \in Live(D, "mother") /\ \E x \in StatusIds : D.perm[b][x] # "none"
        THEN Joined({"no", D.perm[b][s]}) ELSE D.perm[b][s]]]]

\* The whole script.
Hierarchy(D, map) ==
    EnsureKanban(RetireStatuses(DropPermissions(MergePermissions(
        MergeTransitions(MoveOrders(D, map), map), map), map), map))

(***************************************************************************)
(* The start script, a transaction of statements that see what others      *)
(* commit meanwhile.  Where data and draft differ the row is locked.       *)
(***************************************************************************)
Untouched == UNCHANGED <<moving, edits, removed, strayed>>

Overlap == IF moving = NoMove THEN NoMove ELSE [moving EXCEPT !.overlapped = TRUE]

BeginHierarchy ==
    /\ startup.pc = "rest" /\ runs < MaxScripts
    /\ Live(data, "mother") # {}
    /\ \E map \in StatusMaps(data) :
        startup' = [NoScript EXCEPT !.job = "hierarchy", !.map = map, !.before = data, !.clean = TRUE,
                                     !.pc = IF map = << >> THEN "kanban" ELSE "orders"]
    /\ runs' = runs + 1 /\ moving' = Overlap
    /\ UNCHANGED <<data, draft, edits, removed, strayed>>

Statement(from, to, D) ==
    /\ startup.job = "hierarchy" /\ startup.pc = from
    /\ startup' = [startup EXCEPT !.pc = to]
    /\ draft' = D
    /\ UNCHANGED <<data, runs>> /\ Untouched

UpdateOrders == Statement("orders", "rules", MoveOrders(draft, startup.map))
InsertTransitions == Statement("rules", "merge", MergeTransitions(draft, startup.map))
UpsertPermissions == Statement("merge", "drop", MergePermissions(draft, startup.map))
DeletePermissions == Statement("drop", "retire", DropPermissions(draft, startup.map))
DeleteStatuses == Statement("retire", "kanban", RetireStatuses(draft, startup.map))
InsertKanban == Statement("kanban", "commit", EnsureKanban(draft))

CommitHierarchy ==
    /\ startup.pc = "commit"
    /\ data' = draft /\ draft' = draft
    /\ startup' = [startup EXCEPT !.pc = "rest"]
    /\ UNCHANGED runs /\ Untouched

(***************************************************************************)
(* The script run by hand, a branch and a required type after the other.   *)
(***************************************************************************)
Required == <<"Open", "Missed">>
NameOf(type) == IF type = "Open" THEN "lead" ELSE "missed"
OldNameOf(type) == IF type = "Open" THEN "oldlead" ELSE "no name"

Work2(b) == <<<<b, "Open">>, <<b, "Missed">>, <<b, "workflow">>>>

BeginStatuses ==
    /\ startup.pc = "rest" /\ runs < MaxScripts
    /\ startup' = [NoScript EXCEPT !.job = "statuses", !.before = data, !.clean = TRUE, !.pc = "find",
                               !.todo = Work2("mother") \o Work2("child")]
    /\ runs' = runs + 1 /\ moving' = Overlap
    /\ UNCHANGED <<data, draft, edits, removed, strayed>>

Branch2 == startup.todo[1][1]
Type2 == startup.todo[1][2]
Named(name) == {s \in Live(data, Branch2) : data.status[s].name = name}
Typed(type) == {s \in Live(data, Branch2) : data.status[s].type = type}
OneOf(S) == IF S = {} THEN {NoStatus} ELSE S

Advanced ==
    IF Len(startup.todo) = 1 THEN [startup EXCEPT !.pc = "rest", !.todo = << >>]
    ELSE [startup EXCEPT !.pc = "find", !.todo = Tail(@), !.byName = NoStatus, !.byType = NoStatus]

\* Of several statuses the database chooses.
FindStatuses ==
    /\ startup.pc = "find" /\ Type2 \in {"Open", "Missed"}
    /\ \E n \in OneOf(Named(NameOf(Type2))), t \in OneOf(Typed(Type2)) :
        startup' = [startup EXCEPT !.pc = "write", !.byName = n, !.byType = t]
    /\ UNCHANGED <<data, draft, runs>> /\ Untouched

Written(s, row, then) ==
    /\ data' = [data EXCEPT !.status[s] = row] /\ draft' = data'
    /\ startup' = then
    /\ UNCHANGED runs /\ Untouched

\* Found by its name, it is given the type; another that had the type loses it.
TypeNamed ==
    /\ startup.pc = "write" /\ startup.byName # NoStatus
    /\ Written(startup.byName,
               [data.status[startup.byName] EXCEPT !.type = Type2, !.guarded = @ \/ Type2 = "Open"],
               IF startup.byType \in {NoStatus, startup.byName} THEN Advanced
               ELSE [startup EXCEPT !.pc = "clear"])

ClearType ==
    /\ startup.pc = "clear"
    /\ Written(startup.byType, [data.status[startup.byType] EXCEPT !.type = "none"], Advanced)

\* Found by its type it is given the name.
NameTyped ==
    /\ startup.pc = "write" /\ startup.byName = NoStatus /\ startup.byType # NoStatus
    /\ Written(startup.byType,
               [data.status[startup.byType] EXCEPT !.name = NameOf(Type2), !.guarded = TRUE], Advanced)

\* Found by a former name it is renamed; else it is inserted.
RenameOrInsert ==
    /\ startup.pc = "write" /\ startup.byName = NoStatus /\ startup.byType = NoStatus
    /\ LET former == Named(OldNameOf(Type2))
           unused == {s \in StatusIds : data.status[s].state = "absent"}
       IN  \E s \in IF former # {} THEN former
                    ELSE {x \in unused : \A y \in unused : x <= y} :
            Written(s, [branch |-> Branch2, name |-> NameOf(Type2), type |-> Type2,
                        state |-> "Open", guarded |-> TRUE], Advanced)

\* The statuses the Missed workflow joins: protected ones first.
First(type) ==
    LET guarded == {s \in Typed(type) : data.status[s].guarded}
    IN  IF guarded = {} THEN Typed(type) ELSE guarded

FindWorkflow ==
    /\ startup.pc = "find" /\ Type2 = "workflow"
    /\ \E o \in OneOf(First("Open")), t \in OneOf(First("Missed")) :
        startup' = IF NoStatus \in {o, t} THEN Advanced
                   ELSE [startup EXCEPT !.pc = "copy", !.byName = o, !.byType = t]
    /\ UNCHANGED <<data, draft, runs>> /\ Untouched

Wire(pc, D, then) ==
    /\ startup.pc = pc
    /\ data' = D /\ draft' = D
    /\ startup' = then
    /\ UNCHANGED runs /\ Untouched

\* copyOpenPermissionsToMissed
CopyPermissions ==
    LET o == startup.byName
        t == startup.byType
    IN  Wire("copy",
             IF data.perm[Branch2][t] # "none" THEN data
             ELSE [data EXCEPT !.perm[Branch2][t] = data.perm[Branch2][o]],
             [startup EXCEPT !.pc = "there"])

\* insertTransition, there and back
WireTransitions ==
    LET there == <<startup.byName, startup.byType>>
        back  == <<startup.byType, startup.byName>>
    IN  \/ Wire("there", [data EXCEPT !.rule = @ \cup {there}], [startup EXCEPT !.pc = "back"])
        \/ Wire("back", [data EXCEPT !.rule = @ \cup {back}], Advanced)

\* Either script fails or is killed: the transaction is rolled back, what the
\* other wrote stays.
ScriptDies ==
    /\ startup.pc # "rest"
    /\ startup' = [NoScript EXCEPT !.job = startup.job]
    /\ draft' = data
    /\ UNCHANGED <<data, runs>> /\ Untouched

(***************************************************************************)
(* The server.                                                             *)
(***************************************************************************)
Soiled == [startup EXCEPT !.clean = FALSE]
Request ==
    /\ edits < MaxEdits /\ edits' = edits + 1
    /\ startup' = Soiled
    /\ UNCHANGED runs

\* move: the order's status, the transition and the permissions are checked,
\* whether the status is still there is not.
CheckMove(o, s) ==
    /\ Request /\ moving = NoMove
    /\ <<data.order[o], s>> \in data.rule
    /\ \E b \in Owners : data.perm[b][data.order[o]] = "may" /\ data.perm[b][s] # "none"
    /\ moving' = [id |-> o, to |-> s, from |-> data.order[o], overlapped |-> startup.pc # "rest"]
    /\ UNCHANGED <<data, draft, removed, strayed>>

\* It waits for the script where the script moved the order.
WriteMove ==
    /\ moving # NoMove
    /\ LET o == moving.id
       IN  /\ data.order[o] = draft.order[o]
           /\ data' = [data EXCEPT !.order[o] = moving.to]
           /\ draft' = [draft EXCEPT !.order[o] = moving.to]
           /\ strayed' = IF moving.overlapped THEN strayed \cup {o} ELSE strayed \ {o}
    /\ moving' = NoMove
    /\ startup' = Soiled
    /\ UNCHANGED <<runs, edits, removed>>

\* createManyByRole writes permissions for statuses of Mother only.
GrantStatus(b, s, to) ==
    /\ Request
    /\ s \in Live(data, "mother") /\ data.perm[b][s] = draft.perm[b][s]
    /\ data' = [data EXCEPT !.perm[b][s] = to]
    /\ draft' = [draft EXCEPT !.perm[b][s] = to]
    /\ UNCHANGED <<moving, removed, strayed>>

\* delete: orders in the status stay in it; its permissions go.
DeleteStatusByHand(s) ==
    /\ Request
    /\ s \in Live(data, "mother") /\ ~data.status[s].guarded
    /\ \A b \in Owners : data.perm[b][s] = "none" \/ data.perm[b][s] = draft.perm[b][s]
    /\ data' = [data EXCEPT !.status[s].state = "Deleted",
                            !.perm = [b \in Owners |-> [@[b] EXCEPT ![s] = "none"]]]
    /\ draft' = [draft EXCEPT !.status[s].state = "Deleted",
                    !.perm = [b \in Owners |-> IF data.perm[b][s] = draft.perm[b][s]
                                               THEN [@[b] EXCEPT ![s] = "none"] ELSE @[b]]]
    /\ removed' = removed \cup {s}
    /\ UNCHANGED <<moving, strayed>>

CanonNext ==
    \/ BeginHierarchy
    \/ UpdateOrders
    \/ InsertTransitions
    \/ UpsertPermissions
    \/ DeletePermissions
    \/ DeleteStatuses
    \/ InsertKanban
    \/ CommitHierarchy
    \/ BeginStatuses
    \/ FindStatuses
    \/ TypeNamed
    \/ ClearType
    \/ NameTyped
    \/ RenameOrInsert
    \/ FindWorkflow
    \/ CopyPermissions
    \/ WireTransitions
    \/ ScriptDies
    \/ \E o \in Carried, s \in StatusIds : CheckMove(o, s)
    \/ WriteMove
    \/ \E b \in Owners, s \in StatusIds, to \in {"no", "may"} : GrantStatus(b, s, to)
    \/ \E s \in StatusIds : DeleteStatusByHand(s)

CanonSpec == CanonInit /\ [][CanonNext]_canonVars

(***************************************************************************)
(* What must hold.                                                         *)
(***************************************************************************)
\* Types: outside of the start script's transaction there is no draft.
CanonTypeOK ==
    /\ \A s \in StatusIds : data.status[s].state \in {"absent", "Open", "Deleted"}
    /\ \A o \in Carried : data.order[o] \in StatusIds
    /\ \A b \in Owners, s \in StatusIds : data.perm[b][s] \in {"none", "no", "may"}
    /\ data.rule \subseteq StatusIds \X StatusIds
    /\ startup.pc = "rest" => draft = data

Ended(job) == startup.job = job /\ startup.pc = "rest" /\ startup.clean

\* After a start without requests meanwhile: orders are in the status that
\* theirs was mapped to, whoever might do something there still may, every
\* transition is there, nothing is left of what was mapped, and another start
\* would change nothing.
StartReconciles ==
    Ended("hierarchy") =>
        LET before == startup.before
            map    == startup.map
        IN  /\ \A o \in Carried : data.order[o] = Mapped(map, before.order[o])
            /\ \A b \in Owners, s \in StatusIds :
                /\ before.perm[b][s] = "may" => data.perm[b][Mapped(map, s)] = "may"
                /\ data.perm[b][s] = "may" => \E t \in StatusIds :
                        Mapped(map, t) = s /\ before.perm[b][t] = "may"
            /\ \A r \in before.rule :
                    LET to == <<Mapped(map, r[1]), Mapped(map, r[2])>>
                    IN  to \in data.rule \/ to[1] = to[2]
            /\ \A s \in DOMAIN map : data.status[s].state = "Deleted"
            /\ \A next \in StatusMaps(data) : Hierarchy(data, next) = data

\* No order is in a status that is not there: but those whose status was
\* deleted through the server, which does not look for orders, and those that
\* were moved while a script ran.
NobodyStranded ==
    \A o \in Carried :
        \/ data.status[data.order[o]].state = "Open"
        \/ data.order[o] \in removed \/ o \in strayed

\* After the script run by hand, from wherever it was interrupted before: each
\* branch has each required status under its name, whoever may see the orders
\* in the Open one has a row for the Missed one, and the two are joined.  No
\* other status has the type, unless several had it before: of these the script
\* finds one, which may be the one to keep.
RequiredThere ==
    Ended("statuses") => \A b \in Owners :
        LET Has(D, type) == {s \in Live(D, b) : D.status[s].type = type}
        IN  /\ \A type \in {"Open", "Missed"} :
                /\ \E s \in Has(data, type) : data.status[s].name = NameOf(type)
                /\ Cardinality(Has(startup.before, type)) <= 1 => Cardinality(Has(data, type)) = 1
            /\ \E o \in Has(data, "Open"), t \in Has(data, "Missed") :
                /\ {<<o, t>>, <<t, o>>} \subseteq data.rule
                /\ data.perm[b][o] = "none" \/ data.perm[b][t] # "none"

StatusesCanonical == StartReconciles /\ NobodyStranded /\ RequiredThere
=============================================================================
