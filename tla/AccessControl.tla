--------------------------- MODULE AccessControl ---------------------------
(***************************************************************************)
(* What an administrator may do: the roles he holds, the                   *)
(* permissions they grant, the rows that say what a role may do with       *)
(* repair orders of a status, and the four kinds of answer redis remembers *)
(* of them - an admin's permissions, his roles, a role's rows in a branch  *)
(* and the statuses he may view there.  An answer may be computed from     *)
(* another one that redis remembered.  Handlers change the database first  *)
(* and tell redis afterwards; others run in between.                       *)
(***************************************************************************)
EXTENDS Integers, FiniteSets, FiniteSetsExt, Sequences, TLC

CONSTANTS
    Admins,
    Roles,      \* identifiers of roles, in the order of their ids
    Permissions,
    StartRoles, \* the roles behaviours start from
    StartAbilities,  \* what each of them may do with orders of the status
    Workers,   \* handlers that run at the same time
    MaxEvents   \* bound: requests made, commands lost and answers expired

ASSUME RolesAssumption == Roles \subseteq Nat \ {0} /\ Roles # {}
ASSUME StartRolesAssumption ==
    StartRoles \in [Roles -> [open : BOOLEAN, grants : SUBSET Permissions, title : 0 .. 1]]
ASSUME StartAbilitiesAssumption == StartAbilities \in [Roles -> 0 .. 2]
ASSUME MaxEventsAssumption == MaxEvents \in Nat

VARIABLES
    here,       \* the branch this behaviour is about
    role,       \* roles: whether open, what they grant, their name and type
    holds,   \* admin_roles
    rows,       \* what each role may do here with orders of the status; 0: no row
    statusOpen, \* the status: whether it is there
    look,       \* its row and the transitions from it
    redis,      \* the answers redis remembers, by their keys
    work,    \* what each handler knows and has still to do
    events,     \* requests made, commands lost and answers expired so far
    stale        \* history: keys that are wrong and nobody sees to

accessVars == <<here, role, holds, rows, statusOpen, look, redis, work, events, stale>>

Perms(a) == <<"perms", a>>
Names(a) == <<"roles", a>>
Rows(r) == <<"rows", r>>
ViewKey(a, primary) == <<"view", a, primary>>

Keys == {Perms(a) : a \in Admins} \cup {Names(a) : a \in Admins}
        \cup {Rows(r) : r \in Roles} \cup {ViewKey(a, r) : a \in Admins, r \in Roles}
Views(a) == {ViewKey(a, r) : r \in Roles}
AllViews == UNION {Views(a) : a \in Admins}
\* invalidateCachesForPermissions, for the rows of some roles.
Invalidated(roles) == IF roles = {} THEN {} ELSE {Rows(r) : r \in roles} \cup AllViews

\* What handlers of statuses flush.
MotherViews == IF here = "mother" THEN AllViews ELSE {}

Remembered == DOMAIN redis

(***************************************************************************)
(* What the database says.                                                 *)
(***************************************************************************)
Granted(a) == UNION {role[r].grants : r \in {q \in holds[a] : role[q].open}}

RolesOf(a) == {<<r, role[r].title>> : r \in {q \in holds[a] : role[q].open}}

Holders(r) == {a \in Admins : r \in holds[a]}

RowOf(r) == IF role[r].open /\ statusOpen THEN rows[r] ELSE 0

Ids(names) == {n[1] : n \in names}

\* Mutant of Viewable: the first role counts, whether or not it has a row.
ViewableFirst(names, allowed) ==
    IF names = {} \/ ~statusOpen THEN <<>> ELSE <<allowed[Min(Ids(names))], look>>

\* The row that counts is the one of the first role that has any.
Viewable(names, allowed) ==
    LET able == {r \in Ids(names) : allowed[r] > 0}
    IN  IF able = {} \/ ~statusOpen THEN <<>> ELSE <<allowed[Min(able)], look>>

Truth(key) ==
    CASE key[1] = "perms" -> Granted(key[2])
      [] key[1] = "roles" -> RolesOf(key[2])
      [] key[1] = "rows"  -> RowOf(key[2])
      [] key[1] = "view"  -> Viewable(RolesOf(key[2]), [r \in Roles |-> RowOf(r)])

Untrue == {key \in Remembered : redis[key] # Truth(key)}

Recall(key) == IF key \in Remembered THEN redis[key] ELSE Truth(key)

AccessInit ==
    /\ here \in {"mother", "child"}
    /\ role = StartRoles
    /\ holds = [a \in Admins |-> {Min(Roles)}]
    /\ rows = StartAbilities
    /\ statusOpen = TRUE /\ look = 0
    /\ \E known \in {{}, Keys} : redis = [key \in known |-> Truth(key)]
    /\ work = [s \in Workers |-> <<>>]
    /\ events = 0
    /\ stale = {}

(***************************************************************************)
(* The steps of a handler: an empty sequence is a handler that is done.    *)
(***************************************************************************)
Change(of, id, to) == [op |-> "change", of |-> of, id |-> id, to |-> to, told |-> Holders(id)]
ForgetAnswers(keys) == [op |-> "forget", keys |-> keys]
Clear(roles) == [op |-> "clear", roles |-> roles]
Load(key) == [op |-> "load", key |-> key]
StoreAnswers(values, basis) == [op |-> "store", values |-> values, basis |-> basis]
LoadRows(a, names, basis) == [op |-> "rows", admin |-> a, names |-> names, basis |-> basis]
Derive(a, names, allowed, basis) ==
    [op |-> "derive", admin |-> a, names |-> names, allowed |-> allowed, basis |-> basis]

Now(s, op) == work[s] # <<>> /\ Head(work[s]).op = op
Task(s) == Head(work[s])

Go(s, more) == work' = [work EXCEPT ![s] = more \o Tail(@)]

\* Who may serve another request.
ReadyWorkers == {s \in Workers : work[s] = <<>> /\ events < MaxEvents}

TakeUp(s, todo) ==
    /\ s \in ReadyWorkers /\ todo # <<>> /\ events' = events + 1
    /\ work' = [work EXCEPT ![s] = todo]
    /\ UNCHANGED <<here, role, holds, rows, statusOpen, look, redis, stale>>

WithRow(roles) == {r \in roles : rows[r] > 0}

\* The keys a step sees to, and those the rest of a handler sees to.
SeesTo(step) == CASE step.op = "forget" -> step.keys
                  [] step.op = "clear"  -> Invalidated(WithRow(step.roles))
                  [] OTHER              -> {}

Outstanding(s) == UNION {SeesTo(work[s][n]) : n \in DOMAIN work[s]}

AllOwed == UNION {Outstanding(s) : s \in Workers}

\* What others have read may be out of date after a commit.
Outdated(step) ==
    IF step.op \in {"store", "rows", "derive"} THEN [step EXCEPT !.basis = "overtaken"] ELSE step

Overtaken(s, rest) ==
    [q \in Workers |->
        IF q = s THEN rest ELSE [n \in DOMAIN work[q] |-> Outdated(work[q][n])]]

\* The keys nobody sees to when a change is committed: the lists of an admin
\* whose roles changed; the name and type of a role, and that it is gone;
\* admins who got a role while it was updated; rows of a status that
\* were added while it was deleted; lists of child branches.
Neglected(step) ==
    LET named   == {Names(a) : a \in Holders(step.id)}
        late    == {Perms(a) : a \in Holders(step.id) \ step.told}
    IN  CASE step.of = "admin"              -> Views(step.id)
          [] step.of = "gone"               -> named \cup {Perms(a) : a \in Holders(step.id)}
          [] step.of \in {"grants", "title"} -> named \cup late
          [] step.of = "closed"             -> named \cup late \cup Invalidated({step.id})
          [] step.of = "status"             ->
                {Rows(r) : r \in WithRow(Roles)} \cup (AllViews \ MotherViews)
          [] step.of = "look"               -> AllViews \ MotherViews
          [] OTHER                          -> {}

\* The row of a role after a change of it.
Altered(step, row) ==
    CASE step.of = "grants"           -> [row EXCEPT !.grants = step.to]
      [] step.of = "title"            -> [row EXCEPT !.title = step.to]
      [] step.of \in {"closed", "gone"} -> [row EXCEPT !.open = FALSE]
      [] OTHER                        -> row

\* A transaction commits.
CommitChange(s) ==
    /\ Now(s, "change")
    /\ UNCHANGED <<here, redis, events>>
    /\ LET step == Task(s)
       IN  /\ role' = [r \in Roles |-> IF r = step.id THEN Altered(step, role[r]) ELSE role[r]]
           /\ holds' =
                IF step.of = "admin" THEN [holds EXCEPT ![step.id] = step.to] ELSE holds
           /\ rows' =
                IF step.of = "rows" THEN [rows EXCEPT ![step.id] = step.to] ELSE rows
           /\ statusOpen' = (statusOpen /\ step.of # "status")
           /\ look' = IF step.of = "look" THEN 1 - look ELSE look
           /\ work' = Overtaken(s, Tail(work[s]))
           /\ stale' = stale \cup (Neglected(step) \cap Untrue')

\* deletePermissionsByRole, after the role itself was deleted, and
\* deletePermissionsByStatus, before the status is: redis is told if there
\* were any rows.
ClearRows(s) ==
    /\ Now(s, "clear")
    /\ LET had == WithRow(Task(s).roles)
       IN  /\ rows' = [r \in Roles |-> IF r \in had THEN 0 ELSE rows[r]]
           /\ work' = Overtaken(s,
                (IF had = {} THEN <<>> ELSE <<ForgetAnswers(Invalidated(had))>>) \o Tail(work[s]))
    /\ UNCHANGED <<here, role, holds, statusOpen, look, redis, events, stale>>

ForgetKeys(s) ==
    /\ Now(s, "forget")
    /\ redis' = [key \in Remembered \ Task(s).keys |-> redis[key]]
    /\ Go(s, <<>>)
    /\ stale' = stale \ Task(s).keys
    /\ UNCHANGED <<here, role, holds, rows, statusOpen, look, events>>

\* What is stored when redis does not know a key.
Fill(key) ==
    IF key \in Remembered THEN <<>> ELSE <<StoreAnswers([k \in {key} |-> Truth(k)], "current")>>

\* getPermissions, after an admin was updated.
Reload(s) ==
    /\ Now(s, "load")
    /\ Go(s, Fill(Task(s).key))
    /\ UNCHANGED <<here, role, holds, rows, statusOpen, look, redis, events, stale>>

\* findByRolesAndBranch, if redis does not know the list already: rows of
\* some roles come from redis and those of the others from the database.
ReadRows(s) ==
    /\ Now(s, "rows")
    /\ LET step    == Task(s)
           ids     == Ids(step.names)
           allowed == [r \in ids |-> Recall(Rows(r))]
           missing == {Rows(r) : r \in ids} \ Remembered
           basis   == IF \E r \in ids : Rows(r) \in Untrue THEN "overtaken" ELSE step.basis
       IN  IF ViewKey(step.admin, Min(ids)) \in Remembered THEN Go(s, <<>>)
           ELSE Go(s, (IF missing = {} THEN <<>>
                       ELSE <<StoreAnswers([k \in missing |-> Truth(k)], "current")>>)
                      \o <<Derive(step.admin, step.names, allowed, basis)>>)
    /\ UNCHANGED <<here, role, holds, rows, statusOpen, look, redis, events, stale>>

\* The rest of findViewable: the statuses and transitions are read.
ReadStatuses(s) ==
    /\ Now(s, "derive")
    /\ LET step == Task(s)
           key  == ViewKey(step.admin, Min(Ids(step.names)))
       IN  Go(s, <<StoreAnswers([k \in {key} |-> Viewable(step.names, step.allowed)], step.basis)>>)
    /\ UNCHANGED <<here, role, holds, rows, statusOpen, look, redis, events, stale>>

\* Redis is given what was read before: by now it may be wrong.
StoreKeys(s) ==
    /\ Now(s, "store")
    /\ LET given == Task(s).values
       IN  /\ redis' = [key \in DOMAIN given \cup Remembered |->
                IF key \in DOMAIN given THEN given[key] ELSE redis[key]]
           /\ stale' = (stale \ DOMAIN given)
                \cup {k \in DOMAIN given : Task(s).basis = "overtaken" /\ given[k] # Truth(k)}
    /\ Go(s, <<>>)
    /\ UNCHANGED <<here, role, holds, rows, statusOpen, look, events>>

\* Redis does not answer: the handler is not told, and goes on.
AnswersStay(s) ==
    /\ Now(s, "forget") \/ Now(s, "store")
    /\ events < MaxEvents /\ events' = events + 1
    /\ Go(s, <<>>)
    /\ stale' = stale \cup (SeesTo(Task(s)) \cap Untrue)
    /\ UNCHANGED <<here, role, holds, rows, statusOpen, look, redis>>

\* The process stops, or the database does not answer.
WorkerStops(s) ==
    /\ work[s] # <<>>
    /\ work' = [work EXCEPT ![s] = <<>>]
    /\ stale' = stale \cup (Outstanding(s) \cap Untrue)
    /\ UNCHANGED <<here, role, holds, rows, statusOpen, look, redis, events>>

\* Five minutes have passed for permissions, an hour for the others.
AnswerExpires(key) ==
    /\ events < MaxEvents /\ events' = events + 1
    /\ redis' = [k \in Remembered \ {key} |-> redis[k]]
    /\ stale' = stale \ {key}
    /\ UNCHANGED <<here, role, holds, rows, statusOpen, look, work>>

(***************************************************************************)
(* Requests.                                                               *)
(***************************************************************************)
\* getPermissions in the permission guard.
GetPermissions(s, a) == TakeUp(s, Fill(Perms(a)))

\* findViewable: the token names the admin, his roles come from redis.
FindViewable(s, a) ==
    LET names == Recall(Names(a))
        basis == IF Names(a) \in Untrue THEN "overtaken" ELSE "current"
    IN  TakeUp(s, Fill(Names(a)) \o
                 (IF names = {} THEN <<>> ELSE <<LoadRows(a, names, basis)>>))

\* update of a role that is not protected: what it grants, or its name and
\* type, or its state.  The admins to be told about are read before the commit.
UpdateRole(s, r, of, new) ==
    /\ role[r].open
    /\ TakeUp(s, <<Change(of, r, new), ForgetAnswers({Perms(a) : a \in Holders(r)})>>)

DeleteRole(s, r) ==
    /\ role[r].open
    /\ TakeUp(s, <<Change("gone", r, 0), Clear({r})>>)

\* Mutant of UpdateAdmin: only the permissions are forgotten.
UpdateAdminPermissionsOnly(s, a, new) ==
    /\ \A r \in new : role[r].open
    /\ TakeUp(s, <<Change("admin", a, new), ForgetAnswers({Perms(a)}), Load(Perms(a))>>)

\* update of an admin, by somebody who may: other roles.
UpdateAdmin(s, a, new) ==
    /\ \A r \in new : role[r].open
    /\ TakeUp(s, <<Change("admin", a, new), ForgetAnswers({Names(a), Perms(a)}), Load(Perms(a))>>)

\* createManyByRole: keys are deleted and lists flushed at the same time.
AssignPermissions(s, r, value) ==
    /\ role[r].open /\ statusOpen
    /\ \E first \in {{Rows(r)}, AllViews} :
        TakeUp(s, <<Change("rows", r, value), ForgetAnswers(first),
                    ForgetAnswers(Invalidated({r}) \ first)>>)

\* update of a status, and new transitions from it.
ChangeStatus(s) ==
    /\ statusOpen
    /\ TakeUp(s, <<Change("look", 0, 0), ForgetAnswers(MotherViews)>>)

\* delete of a status: while its own transaction is open, its rows are deleted
\* outside of it.
RemoveStatus(s) ==
    /\ statusOpen
    /\ TakeUp(s, <<Clear(Roles), Change("status", 0, 0), ForgetAnswers(MotherViews)>>)

WorkOn(s) ==
    \/ CommitChange(s)
    \/ ClearRows(s)
    \/ ForgetKeys(s)
    \/ Reload(s)
    \/ ReadRows(s)
    \/ ReadStatuses(s)
    \/ StoreKeys(s)
    \/ AnswersStay(s)

AccessNext ==
    \/ \E s \in Workers : WorkOn(s)
    \/ \E s \in Workers : WorkerStops(s)
    \/ \E key \in Remembered : AnswerExpires(key)
    \/ \E s \in ReadyWorkers, a \in Admins : GetPermissions(s, a)
    \/ \E s \in ReadyWorkers, a \in Admins : FindViewable(s, a)
    \/ \E s \in ReadyWorkers, r \in Roles :
        \/ \E new \in SUBSET Permissions : UpdateRole(s, r, "grants", new)
        \/ UpdateRole(s, r, "title", 1)
        \/ UpdateRole(s, r, "closed", 0)
    \/ \E s \in ReadyWorkers, r \in Roles : DeleteRole(s, r)
    \/ \E s \in ReadyWorkers, a \in Admins, new \in SUBSET Roles : UpdateAdmin(s, a, new)
    \/ \E s \in ReadyWorkers, r \in Roles, value \in 1 .. 2 : AssignPermissions(s, r, value)
    \/ \E s \in ReadyWorkers : ChangeStatus(s)
    \/ \E s \in ReadyWorkers : RemoveStatus(s)

AccessSpec == AccessInit /\ [][AccessNext]_accessVars

(***************************************************************************)
(* What must hold.                                                         *)
(***************************************************************************)
\* Types: a key holds an answer of its kind.
Answers(key) ==
    CASE key[1] = "perms" -> SUBSET Permissions
      [] key[1] = "roles" -> SUBSET (Roles \X (0 .. 1))
      [] key[1] = "rows"  -> 0 .. 2
      [] key[1] = "view"  -> {<<>>} \cup (1 .. 2) \X (0 .. 1)

AccessTypeOK ==
    /\ here \in {"mother", "child"} /\ statusOpen \in BOOLEAN /\ look \in 0 .. 1
    /\ role \in [Roles -> [open : BOOLEAN, grants : SUBSET Permissions, title : 0 .. 1]]
    /\ holds \in [Admins -> SUBSET Roles] /\ rows \in [Roles -> 0 .. 2]
    /\ Remembered \subseteq Keys /\ \A key \in Remembered : redis[key] \in Answers(key)
    /\ events \in 0 .. MaxEvents /\ stale \subseteq Keys

\* What redis says of permissions, roles, rows and lists is what the database
\* says, or a handler under way will see to it; excepted are, until they expire
\* or are asked to be forgotten, answers computed from what a commit overtook,
\* those redis was not there to forget, those of a handler that crashed and those
\* nobody sees to (Neglected).
AnswersTrue == Untrue \subseteq stale \cup AllOwed

=============================================================================
