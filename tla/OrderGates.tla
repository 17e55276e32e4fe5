----------------------------- MODULE OrderGates -----------------------------
(***************************************************************************)
(* What an employee may do with a repair order.  findById offers statuses  *)
(* and branches the order can go to; move, update and transferBranch       *)
(* decide again, in code of their own, when one of them is asked for.  A   *)
(* status may need something of an order: a date agreed on, a cause of     *)
(* rejection.  That is checked when the order is moved there, and, of the  *)
(* date, when it is cleared; the checks and the write are statements of a  *)
(* transaction that locks nothing.                                         *)
(*                                                                         *)
(* One employee with two roles, the first of which is primary, and one     *)
(* order.  That an active rental bars a closing status is in RentalPhones. *)
(***************************************************************************)
EXTENDS Naturals, FiniteSets

CONSTANTS
    Parent,      \* Mother
    Shops,       \* its child branches
    JobStatuses,      \* Mother's statuses
    Setups,      \* how rights and transitions may be set up to begin with
    Changed,     \* the setups they may change to
    Desks,       \* requests handled at a time
    MaxDeeds     \* bound: requests

Premises == {Parent} \cup Shops
TheRoles == {1, 2}
Primary == 1
Anyone == 0      \* a transition without a role
Fields == {"date", "cause"}

ASSUME SetupsAssumption ==
    \A u \in Setups \cup Changed : u.needs \in [JobStatuses -> SUBSET Fields]
ASSUME MaxDeedsAssumption == MaxDeeds \in Nat

VARIABLES
    setup,    \* rights, transitions, branches, and what statuses need
    job,      \* the order
    desk,     \* what each request read and is about to write
    spared,  \* history: what the order may lack
    deeds     \* requests so far

gateVars == <<setup, job, desk, spared, deeds>>

NoJob == [there |-> FALSE, place |-> Parent, stage |-> 0, has |-> {}]
Free == [doing |-> "nothing"]

GatesInit ==
    /\ setup \in Setups
    /\ job \in {NoJob} \cup [there : {TRUE}, place : Premises, stage : JobStatuses, has : {Fields}]
    /\ desk = [d \in Desks |-> Free]
    /\ spared = {}
    /\ deeds = 0

(***************************************************************************)
(* Branches: those of the employee, what he sees and what he may change.   *)
(***************************************************************************)
isSuperAdmin == setup.super

getChildBranchIds == Shops \cap setup.openPlaces
getAdminAssignedBranchIds == setup.assigned \cap setup.openPlaces

ofParent == isSuperAdmin \/ Parent \in getAdminAssignedBranchIds

getVisibleBranchIds ==
    LET mine == getAdminAssignedBranchIds \cap getChildBranchIds
    IN  IF ofParent THEN {Parent} \cup getChildBranchIds
        ELSE IF mine = {} THEN {} ELSE {Parent} \cup mine

\* assertRepairOrderWritable
Writable(place) == place \in getVisibleBranchIds /\ (place = Parent => ofParent)

\* The branch whose rights count.
getPermissionBranchIdForOrder(place) ==
    LET mine == getAdminAssignedBranchIds
    IN  IF place # Parent THEN {place}
        ELSE IF ofParent \/ mine = {} THEN {Parent}
        ELSE mine

(***************************************************************************)
(* Rights: rows of repair_order_status_permissions, and transitions.       *)
(***************************************************************************)
\* u.row[r][s]: what the row of a role for a status says: whether there is one,
\* and whether it allows a change; the branches that have rows at all.  u is
\* the setup when the rows were read.
RowAt(u, place, r, s) == IF place \in u.rowsIn THEN u.row[r][s] ELSE "none"

\* checkPermissionsOrThrow: the first role that has a row decides.
MayChange(u, place, s) ==
    IF RowAt(u, place, Primary, s) # "none" THEN RowAt(u, place, Primary, s) = "yes"
    ELSE \E r \in TheRoles : RowAt(u, place, r, s) = "yes"

\* getTargetStatusPermissionOrThrow: the primary role must have one.
MayEnter(u, place, s) == RowAt(u, place, Primary, s) # "none"

\* A role with any transition of its own has only those.
hasRoleScopedTransitions(r) == \E rule \in setup.rules : rule[1] = r

\* Mutant of getTransitionRule: where the role has no such transition, anyone's will do.
getTransitionRuleOrAnyone(from, to) ==
    <<Primary, from, to>> \in setup.rules \/ <<Anyone, from, to>> \in setup.rules

getTransitionRule(from, to) ==
    <<IF hasRoleScopedTransitions(Primary) THEN Primary ELSE Anyone, from, to>> \in setup.rules

\* Mutant of NeedsDateHere: only the primary role's row is asked.
NeedsDateOfPrimary(u, place, s) ==
    RowAt(u, place, Primary, s) # "none" /\ "date" \in u.needs[s]

\* What a status needs is what all its rows say it does: the first row there is
\* when it is held, the primary role's when it is entered.
NeedsDateHere(u, place, s) ==
    (\E r \in TheRoles : RowAt(u, place, r, s) # "none") /\ "date" \in u.needs[s]

(***************************************************************************)
(* What is offered.                                                        *)
(***************************************************************************)
findAllowedStatusTransitions(place, s) ==
    IF ~MayChange(setup, place, s) THEN {}
    ELSE LET role == IF hasRoleScopedTransitions(Primary) THEN Primary ELSE Anyone
         IN  {t \in JobStatuses \cap setup.openStages :
                RowAt(setup, place, Primary, t) # "none" /\ <<role, s, t>> \in setup.rules}

getTransferTargetBranchIds ==
    IF isSuperAdmin THEN getChildBranchIds
    ELSE getAdminAssignedBranchIds \cap getChildBranchIds

findTransferBranches(rights) ==
    IF (job.place = Parent /\ ~ofParent) \/ ~Writable(job.place)
       \/ ~MayChange(setup, rights, job.stage)
    THEN {}
    ELSE getTransferTargetBranchIds \cap getVisibleBranchIds

(***************************************************************************)
(* What is accepted.                                                       *)
(***************************************************************************)
\* validateStatusTransitionOrThrow, of what the request knows the order has and
\* the rows it has read.
validateStatusTransition(u, rights, known, to) ==
    /\ getTransitionRule(known.stage, to)
    /\ MayEnter(u, rights, to)
    /\ u.needs[to] \subseteq known.has

\* move, of an order that may be written.
MoveAllowed(rights, known, to) ==
    /\ MayChange(setup, rights, known.stage)
    /\ validateStatusTransition(setup, rights, known, to)

\* Mutant of transferAllowed: an order of Mother may be sent by whoever has the branch.
transferAllowedToOwn(rights, place) ==
    /\ MayChange(setup, rights, job.stage)
    /\ place \in getChildBranchIds
    /\ place \in getTransferTargetBranchIds

transferAllowed(rights, place) ==
    /\ job.place = Parent => ofParent
    /\ place \in getChildBranchIds
    /\ Writable(job.place)
    /\ place \in getTransferTargetBranchIds
    /\ MayChange(setup, rights, job.stage)

(***************************************************************************)
(* Requests.                                                               *)
(***************************************************************************)
Receives(d) == desk[d] = Free /\ deeds < MaxDeeds /\ deeds' = deeds + 1

\* resolveCreateStatus and create: an open status of Mother, and its date.
CreateJob(d, s, has) ==
    /\ Receives(d) /\ ~job.there
    /\ s \in setup.openStages /\ MayChange(setup, Parent, s)
    /\ NeedsDateHere(setup, Parent, s) => "date" \in has
    /\ job' = [there |-> TRUE, place |-> Parent, stage |-> s, has |-> has]
    /\ spared' = IF "cause" \in has THEN {} ELSE {"cause"}
    /\ UNCHANGED <<setup, desk>>

\* The order is read, and which rows count; these are read with the gates.
ReadForMove(d, to) ==
    /\ Receives(d) /\ job.there /\ to # job.stage
    /\ \E rights \in getPermissionBranchIdForOrder(job.place) :
        /\ Writable(job.place)
        /\ desk' = [desk EXCEPT ![d] =
             [doing |-> "move", to |-> to, rights |-> rights, known |-> job,
              gives |-> {}, drops |-> {}, seen |-> setup]]
    /\ UNCHANGED <<setup, job, spared>>

\* update may change the status too; it reads the rows with the order.  A cause
\* is written before anything is checked, other fields with the status.
ReadForUpdate(d, to, gives, drops) ==
    /\ Receives(d) /\ job.there /\ gives \cap drops = {}
    /\ gives \cap job.has = {} /\ drops \subseteq job.has
    /\ \E rights \in getPermissionBranchIdForOrder(job.place) :
        /\ Writable(job.place) /\ MayChange(setup, rights, job.stage)
        /\ desk' = [desk EXCEPT ![d] =
             [doing |-> "update", to |-> to, rights |-> rights,
              known |-> [job EXCEPT !.has = (@ \cup (gives \cap {"cause"})) \ (drops \cap {"cause"})],
              gives |-> gives, drops |-> drops, seen |-> setup]]
    /\ UNCHANGED <<setup, job, spared>>

\* Mutant of dateStays: nothing keeps a date from being cleared.
dateMayGo(d) == TRUE

\* A date is not cleared where the status the order was in needs it.
dateStays(d) ==
    "date" \in desk[d].drops => ~NeedsDateHere(desk[d].seen, desk[d].rights, desk[d].known.stage)

\* The gates; where one is shut the request is refused.
PassGates(d) ==
    LET k == desk[d]
    IN  /\ k.doing \in {"move", "update"}
        /\ desk' = [desk EXCEPT ![d] =
            IF /\ \/ k.to = k.known.stage
                  \/ k.doing = "move" /\ MoveAllowed(k.rights, k.known, k.to)
                  \/ /\ k.doing = "update"
                     /\ validateStatusTransition(k.seen, k.rights, k.known, k.to)
               /\ dateStays(d)
            THEN [k EXCEPT !.doing = "write", !.seen = IF k.doing = "move" THEN setup ELSE @]
            ELSE Free]
        /\ UNCHANGED <<setup, job, spared, deeds>>

\* By identifier, whatever the order has become.  The history excuses what was
\* lost since the request read the order, what it drops itself while it moves
\* the order, and a cause dropped later.
WriteJob(d) ==
    LET k == desk[d]
        has == (job.has \cup k.gives) \ k.drops
        moved == k.to # k.known.stage
    IN  /\ k.doing = "write"
        /\ job' = [job EXCEPT !.stage = IF moved THEN k.to ELSE @, !.has = has]
        /\ spared' = (spared \cup (IF moved /\ "date" \in k.drops THEN {"date"} ELSE {})
                               \cup (k.drops \cap {"cause"})
                               \cup (IF moved THEN k.known.has \ job.has ELSE {})
                               \cup (IF job.stage # k.known.stage THEN k.drops ELSE {})
                               \cup (IF setup.needs # k.seen.needs THEN Fields \ has ELSE {})) \ k.gives
        /\ desk' = [desk EXCEPT ![d] = Free]
        /\ UNCHANGED <<setup, deeds>>

TransferJob(d, place) ==
    /\ Receives(d) /\ job.there
    /\ \E rights \in getPermissionBranchIdForOrder(job.place) : transferAllowed(rights, place)
    /\ job' = [job EXCEPT !.place = place]
    /\ UNCHANGED <<setup, desk, spared>>

\* Rights and transitions are set up anew.
ChangeSetup(d) ==
    /\ Receives(d)
    /\ setup' \in Changed
    /\ spared' = spared \cup (IF job.there THEN setup'.needs[job.stage] \ job.has ELSE {})
    /\ UNCHANGED <<job, desk>>

GatesNext ==
    \E d \in Desks :
        \/ \E s \in JobStatuses, has \in SUBSET Fields : CreateJob(d, s, has)
        \/ \E s \in JobStatuses : ReadForMove(d, s)
        \/ \E s \in JobStatuses, gives, drops \in SUBSET Fields : ReadForUpdate(d, s, gives, drops)
        \/ PassGates(d) \/ WriteJob(d)
        \/ \E place \in Premises : TransferJob(d, place)
        \/ ChangeSetup(d)

GatesSpec == GatesInit /\ [][GatesNext]_gateVars

(***************************************************************************)
(* What must hold.                                                         *)
(***************************************************************************)
GatesTypeOK ==
    /\ job.there \in BOOLEAN /\ job.place \in Premises /\ job.has \subseteq Fields
    /\ job.there => job.stage \in JobStatuses
    /\ \A d \in Desks : desk[d].doing \in {"nothing", "move", "update", "write"}
    /\ spared \subseteq Fields /\ deeds \in 0 .. MaxDeeds

\* Where an employee sees an order, the statuses he is offered are those he can
\* move it to once it has what they need, but for closed ones, to which it can
\* still be moved; and the branches he is offered are those he can send it to.
\* An order of Mother is offered statuses to those who may only look at it.
OffersKept ==
    job.there /\ job.place \in getVisibleBranchIds =>
        \A rights \in getPermissionBranchIdForOrder(job.place) :
            LET whole == [job EXCEPT !.has = Fields]
            IN  /\ \A t \in JobStatuses \ {job.stage} :
                    (Writable(job.place) /\ t \in setup.openStages) =>
                        (t \in findAllowedStatusTransitions(rights, job.stage)
                            <=> MoveAllowed(rights, whole, t))
                /\ {p \in Premises : transferAllowed(rights, p)} = findTransferBranches(rights)

\* An order has what its status needs: through the gates of create, move and
\* update, and while requests overlap, but for what the history excuses.
NeedsKept == job.there => setup.needs[job.stage] \subseteq job.has \cup spared

GatesKept == OffersKept /\ NeedsKept
=============================================================================
