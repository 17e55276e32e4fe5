--------------------------- MODULE CanonicalRoles ---------------------------
(***************************************************************************)
(* The roles the program knows by their type.  At every start, before the  *)
(* statuses, one transaction finds each by its identifier, its type or its *)
(* former names, and makes it what it should be; the server starts only if *)
(* it commits.  Administrators create, rename, retype and delete roles.    *)
(***************************************************************************)
EXTENDS Naturals, FiniteSets, Sequences

CONSTANTS
    RoleTypes,    \* in the order they are reconciled; the first is SuperAdmin's
    RoleRows,     \* rows of roles: those of a type's own identifier, and others
    OwnId,        \* the identifier each type is meant to have
    RoleStarts,   \* the tables a behaviour starts with
    MaxChanges    \* bound: starts, and requests to the server

TypesKnown == {RoleTypes[i] : i \in DOMAIN RoleTypes}
Untyped == "untyped"

\* A name is that of a type, one that was used for the type before, or another.
Proper(type) == <<"name", type>>
Former(type) == <<"former", type>>
Other == <<"other", Untyped>>
NamesOf(type) == {Proper(type), Former(type)}

NoRoleRow == [state |-> "absent", type |-> Untyped, name |-> Other, guarded |-> FALSE, all |-> FALSE]

VARIABLES
    rolesKept,   \* roles: state, type, name; all: has every permission
    rolesSeen,   \* what the script's transaction sees
    reconcile,   \* how many types it has seen to; the row it found
    found,
    outcome,     \* how the last start ended, and whether nobody interfered
    asks         \* starts and requests so far

roleVars == <<rolesKept, rolesSeen, reconcile, found, outcome, asks>>

NoneFound == 0  \* no row: rows are numbered from 1
Resting == 0
RolesInit ==
    /\ rolesKept \in RoleStarts
    /\ rolesSeen = rolesKept
    /\ reconcile = Resting /\ found = NoneFound
    /\ outcome = [end |-> "none", alone |-> FALSE, before |-> rolesKept]
    /\ asks = 0

Present(R) == {r \in RoleRows : R[r].state # "absent"}
ById(R, type) == {OwnId[type]} \cap Present(R)
ByType(R, type) == {r \in Present(R) : R[r].type = type}
ByName(R, type) == {r \in Present(R) : R[r].name \in NamesOf(type)}
OpenFirst(R, S) ==
    LET open == {r \in S : R[r].state = "Open"} IN IF open = {} THEN S ELSE open

\* findRole, deleted ones included; of several the database chooses.
findRole(R, type) ==
    IF ById(R, type) # {} THEN ById(R, type)
    ELSE IF ByType(R, type) # {} THEN ByType(R, type)
    ELSE OpenFirst(R, ByName(R, type))

\* The first type's role is protected.
Canonical(type, all) ==
    [state |-> "Open", type |-> type, name |-> Proper(type),
     guarded |-> type = RoleTypes[1], all |-> all]

\* Names are unique, of deleted roles too; types are among open ones.
Allowed2(R) ==
    \A r, q \in Present(R) : r # q =>
        /\ R[r].name # R[q].name
        /\ {R[r].state, R[q].state} = {"Open"} /\ R[r].type # Untyped => R[r].type # R[q].type

(***************************************************************************)
(* The script.                                                             *)
(***************************************************************************)
Asked == asks < MaxChanges /\ asks' = asks + 1

BeginRoles ==
    /\ reconcile = Resting /\ Asked
    /\ reconcile' = 1
    /\ rolesSeen' = rolesKept
    /\ outcome' = [end |-> "none", alone |-> TRUE, before |-> rolesKept]
    /\ UNCHANGED <<rolesKept, found>>

AtHand == RoleTypes[reconcile]
Seeking == reconcile \in DOMAIN RoleTypes /\ found = NoneFound

FindRole ==
    /\ Seeking
    /\ \E r \in findRole(rolesSeen, AtHand) :
        /\ found' = r
        /\ rolesSeen' = [q \in RoleRows |-> IF q # r /\ rolesSeen[q].type = AtHand
                                           THEN [rolesSeen[q] EXCEPT !.type = Untyped] ELSE rolesSeen[q]]
    /\ UNCHANGED <<rolesKept, reconcile, outcome, asks>>

StartStops ==
    /\ rolesSeen' = rolesKept
    /\ reconcile' = Resting /\ found' = NoneFound
    /\ outcome' = [outcome EXCEPT !.end = "failed"]
    /\ UNCHANGED <<rolesKept, asks>>

\* The row is written, or breaks a unique index: nothing is written then, and
\* what comes after the script is not run.
Becomes2(r, row) ==
    LET written == [rolesSeen EXCEPT ![r] = row]
    IN  IF Allowed2(written)
        THEN /\ rolesSeen' = written
             /\ reconcile' = reconcile + 1 /\ found' = NoneFound
             /\ UNCHANGED <<rolesKept, outcome, asks>>
        ELSE StartStops

\* Mutant of UpdateRoleRow: a role that was deleted stays so.
UpdateLiveRow ==
    /\ reconcile \in DOMAIN RoleTypes /\ found # NoneFound
    /\ Becomes2(found, [Canonical(AtHand, rolesSeen[found].all) EXCEPT !.state = rolesSeen[found].state])

UpdateRoleRow ==
    /\ reconcile \in DOMAIN RoleTypes /\ found # NoneFound
    /\ Becomes2(found, Canonical(AtHand, rolesSeen[found].all))

InsertRoleRow ==
    /\ Seeking /\ findRole(rolesSeen, AtHand) = {}
    /\ Becomes2(OwnId[AtHand], Canonical(AtHand, FALSE))

\* The first type's role gets the permissions it lacks; then it commits.  The
\* rows it wrote are locked, and what the server wrote to others meanwhile
\* stays.
GrantAllAndCommit ==
    /\ reconcile = Len(RoleTypes) + 1
    /\ rolesKept' = [r \in RoleRows |->
            [rolesSeen[r] EXCEPT !.all = @ \/ rolesSeen[r].type = RoleTypes[1]]]
    /\ rolesSeen' = rolesKept'
    /\ reconcile' = Resting
    /\ outcome' = [outcome EXCEPT !.end = "started"]
    /\ UNCHANGED <<found, asks>>

(***************************************************************************)
(* The server.  A row the script has written waits for it, and so does a   *)
(* name or a type it has taken.                                            *)
(***************************************************************************)
Changes(r, row) ==
    /\ Asked
    /\ rolesKept[r] = rolesSeen[r]
    /\ rolesKept' = [rolesKept EXCEPT ![r] = row] /\ Allowed2(rolesKept')
    /\ rolesSeen' = [rolesSeen EXCEPT ![r] = row] /\ Allowed2(rolesSeen')
    /\ outcome' = [outcome EXCEPT !.alone = FALSE]
    /\ UNCHANGED <<reconcile, found>>

\* A new role has an identifier of its own.
CreateRole(r, name, type) ==
    /\ \A t \in TypesKnown : r # OwnId[t]
    /\ rolesKept[r] = NoRoleRow
    /\ Changes(r, [NoRoleRow EXCEPT !.state = "Open", !.type = type, !.name = name])

\* The type of a protected role stays, and it is not deactivated or given other
\* permissions; that it be deleted, or lose all permissions, update lets pass.
EditRole(r, name, type) ==
    /\ rolesKept[r].state = "Open"
    /\ rolesKept[r].guarded => type = rolesKept[r].type
    /\ \E state \in {"Open", "Deleted"}, all \in {rolesKept[r].all, FALSE} :
        Changes(r, [rolesKept[r] EXCEPT !.name = name, !.type = type, !.state = state, !.all = all])

\* delete refuses a protected role.
RemoveRole(r) ==
    /\ rolesKept[r].state = "Open" /\ ~rolesKept[r].guarded
    /\ Changes(r, [rolesKept[r] EXCEPT !.state = "Deleted"])

NameChoices == UNION {NamesOf(t) : t \in TypesKnown} \cup {Other}

RolesNext ==
    \/ BeginRoles
    \/ FindRole
    \/ UpdateRoleRow
    \/ InsertRoleRow
    \/ GrantAllAndCommit
    \/ \E r \in RoleRows :
        \/ \E name \in NameChoices, type \in TypesKnown \cup {Untyped} :
            \/ CreateRole(r, name, type)
            \/ EditRole(r, name, type)
        \/ RemoveRole(r)

RolesSpec == RolesInit /\ [][RolesNext]_roleVars

(***************************************************************************)
(* What must hold.                                                         *)
(***************************************************************************)
RolesTypeOK ==
    /\ \A r \in RoleRows : rolesKept[r].state \in {"absent", "Open", "Deleted"}
    /\ Allowed2(rolesKept) /\ Allowed2(rolesSeen)
    /\ reconcile = Resting => rolesSeen = rolesKept
    /\ reconcile \in 0 .. Len(RoleTypes) + 1

\* A start that nobody interfered with leaves one open role of each type, under
\* its name, the first's with every permission; it loses none and takes no
\* permissions; and another start would find the same ones.
StartedTyped ==
    outcome.end = "started" /\ outcome.alone =>
        /\ \A type \in TypesKnown : \E r \in RoleRows :
            /\ ByType(rolesKept, type) = {r} /\ findRole(rolesKept, type) = {r}
            /\ rolesKept[r] = Canonical(type, rolesKept[r].all)
            /\ type = RoleTypes[1] => rolesKept[r].all
        /\ \A r \in Present(outcome.before) :
            /\ rolesKept[r].state = "Open" \/ outcome.before[r].state = "Deleted"
            /\ outcome.before[r].all => rolesKept[r].all

\* A start fails only when the name of a type is that of a role, perhaps a
\* deleted one, other than the one the script takes for the type.
FailsOnlyOnName ==
    outcome.end = "failed" /\ outcome.alone =>
        \E type \in TypesKnown, r \in Present(outcome.before) :
            /\ outcome.before[r].name = Proper(type)
            /\ findRole(outcome.before, type) # {r}

RolesCanonical == StartedTyped /\ FailsOnlyOnName
=============================================================================
