----------------------------- MODULE Catalogue -----------------------------
(***************************************************************************)
(* The catalogue and the order that is described with it: the tree of      *)
(* phone categories and the lists of it that redis keeps, the tree of      *)
(* problem categories whose roots are mapped to phone categories, the      *)
(* parts assigned to problems, and the phone category, problems and parts  *)
(* of one repair order.  Every handler runs one transaction, which checks  *)
(* first and commits later; others commit in between.                      *)
(***************************************************************************)
EXTENDS Integers, FiniteSets, Sequences

CONSTANTS
    Phones, Problems, Parts,    \* identifiers of rows, used and unused
    NoPhone, NoProblem,         \* no phone category (the root), no problem
    StartPhones, StartProblems, StartAssigned, \* the catalogue behaviours start from
    Types,                      \* kinds of problems of an order
    Sessions,                   \* requests that run at the same time
    MaxRequests                 \* bound: requests ever made

ASSUME NoneAssumption == {NoPhone, NoProblem} \cap (Phones \cup Problems) = {}
ASSUME TypesAssumption == Types \subseteq {"initial", "final"}
ASSUME MaxRequestsAssumption == MaxRequests \in Nat
ASSUME ProblemsAssumption == IsFiniteSet(Problems)

VARIABLES
    phone,      \* phone_categories
    problem,    \* problem_categories, each with its phone_problem_mappings
    assigned,   \* repair_part_assignments: pairs of a problem and a part
    order,      \* phone category of the order, and its problems with parts
    list,       \* redis: the list of the children of each phone category
    session,    \* what each request has still to do
    requests,   \* requests made so far
    raced,      \* history: rows two requests worked on at the same time
    dormant,    \* history: phone categories that were ever inactive
    excused     \* history: problems of the order nobody checked

catalogueVars == <<phone, problem, assigned, order, list, session, requests, raced, dormant, excused>>

NoSession == [touched |-> {}, todo |-> << >>]
Unknown == [rows |-> {}, parents |-> {}, cached |-> FALSE]
Unborn == [phone |-> NoPhone, born |-> FALSE, rows |-> {}]

PhoneRow(parent, active, state) == [parent |-> parent, active |-> active, state |-> state]
ProblemRow(parent, mapped, active, state) ==
    [parent |-> parent, mapped |-> mapped, active |-> active, state |-> state]

Live(tree, x) == tree[x].state = "Open" /\ tree[x].active
OpenChildren(tree, x) == {c \in DOMAIN tree : tree[c].parent = x /\ tree[c].state = "Open"}

\* Open rows hang from open ones, but for those below some.
HangsTogether(tree, but) ==
    \A x \in DOMAIN tree : tree[x].state = "Open" /\ tree[x].parent \notin but
        => tree[tree[x].parent].state = "Open"

RowStates == {"absent", "Open", "Deleted"}
PhoneRows == [parent : Phones \cup {NoPhone}, active : BOOLEAN, state : RowStates]
ProblemRows == [parent : Problems \cup {NoProblem}, mapped : Phones \cup {NoPhone},
                active : BOOLEAN, state : RowStates]

\* Behaviours start from a catalogue as requests leave it.
ASSUME StartAssumption ==
    /\ StartPhones \in [Phones -> PhoneRows] /\ HangsTogether(StartPhones, {NoPhone})
    /\ StartProblems \in [Problems -> ProblemRows] /\ HangsTogether(StartProblems, {NoProblem})
    /\ \A p \in Problems : LET row == StartProblems[p] IN
        /\ row.state # "absent" /\ row.parent # NoProblem => StartProblems[row.parent].state # "absent"
        /\ row.mapped # NoPhone =>
            /\ row.parent = NoProblem /\ row.state = "Open"
            /\ \A c \in OpenChildren(StartPhones, row.mapped) : ~StartPhones[c].active
    /\ StartAssigned \subseteq Problems \X Parts

MappedTo(c) == {p \in Problems : problem[p].mapped = c}

\* problem_path: a problem and what is above it, whatever their states.
Path(tree, p) ==
    LET up[n \in 0 .. Cardinality(Problems)] ==
            IF n = 0 THEN p
            ELSE IF up[n - 1] = NoProblem THEN NoProblem ELSE tree[up[n - 1]].parent
    IN  {up[n] : n \in 0 .. Cardinality(Problems)} \ {NoProblem}

\* Which problems a phone category may have: those under one mapped to it.
AllowedFor(c) == {p \in Problems : c # NoPhone /\ Path(problem, p) \cap MappedTo(c) # {}}

PartsOf(p) == {k \in Parts : <<p, k>> \in assigned}

CatalogueInit ==
    /\ phone = StartPhones
    /\ problem = StartProblems
    /\ assigned = StartAssigned
    /\ order = Unborn
    /\ list = [c \in Phones \cup {NoPhone} |-> Unknown]
    /\ session = [s \in Sessions |-> NoSession]
    /\ requests = 0
    /\ raced = {}
    /\ dormant = {c \in Phones : ~StartPhones[c].active}
    /\ excused = {}

(***************************************************************************)
(* What a request that passed its checks does, one step at a time.         *)
(***************************************************************************)
\* Who may serve another request.
Ready == {s \in Sessions : session[s] = NoSession /\ requests < MaxRequests}

Start(s, touched, todo) ==
    /\ s \in Ready /\ requests' = requests + 1
    /\ session' = [session EXCEPT ![s] = [touched |-> touched, todo |-> todo]]
    /\ raced' = raced \cup (touched \cap UNION {session[q].touched : q \in Sessions})
    /\ UNCHANGED <<phone, problem, assigned, order, list, dormant, excused>>

Doing(s, op) == session[s] # NoSession /\ Head(session[s].todo).op = op
Step(s) == Head(session[s].todo)

Proceed(s) ==
    /\ LET rest == Tail(session[s].todo)
       IN  session' = [session EXCEPT ![s] =
               IF rest = << >> THEN NoSession ELSE [touched |-> session[s].touched, todo |-> rest]]
    /\ UNCHANGED <<requests, raced>>

\* A row with the columns a statement sets.
Updated(row, set) == [f \in DOMAIN row |-> IF f \in DOMAIN set THEN set[f] ELSE row[f]]

CommitPhone(s) ==
    /\ Doing(s, "phone")
    /\ phone' = [phone EXCEPT ![Step(s).id] = Updated(phone[Step(s).id], Step(s).set)]
    /\ dormant' = IF phone'[Step(s).id].active THEN dormant ELSE dormant \cup {Step(s).id}
    /\ Proceed(s)
    /\ UNCHANGED <<problem, assigned, order, list, excused>>

CommitProblem(s) ==
    /\ Doing(s, "problem")
    /\ problem' = [problem EXCEPT ![Step(s).id] = Updated(problem[Step(s).id], Step(s).set)]
    /\ Proceed(s)
    /\ UNCHANGED <<phone, assigned, order, list, dormant, excused>>

\* A part that is no longer assigned excuses the problems that have it.
CommitAssignment(s) ==
    /\ Doing(s, "assign")
    /\ assigned' = {pair \in assigned : pair[1] # Step(s).id} \cup ({Step(s).id} \X Step(s).parts)
    /\ excused' = excused \cup {r \in order.rows : r.problem = Step(s).id}
    /\ Proceed(s)
    /\ UNCHANGED <<phone, problem, order, list, dormant>>

\* Rows of the types the request replaces, and the rows it deletes, make
\* place for the rows it writes.  Excused are the rows it wrote unchecked, and
\* those that stay when the phone category changes.
CommitDescription(s) ==
    /\ Doing(s, "order")
    /\ LET left == {r \in order.rows : r.type \notin Step(s).types} \ Step(s).gone
       IN  /\ order' = [phone |-> IF Step(s).keep THEN order.phone ELSE Step(s).phone,
                        born |-> TRUE, rows |-> left \cup Step(s).rows]
           /\ excused' = LET stay == excused \cup (IF Step(s).keep THEN {} ELSE left)
                         IN  IF Step(s).checked THEN stay \ Step(s).rows ELSE stay \cup Step(s).rows
    /\ Proceed(s)
    /\ UNCHANGED <<phone, problem, assigned, list, dormant>>

Flush(s) ==
    /\ Doing(s, "flush")
    /\ list' = [c \in DOMAIN list |-> IF c \in Step(s).keys THEN Unknown ELSE list[c]]
    /\ Proceed(s)
    /\ UNCHANGED <<phone, problem, assigned, order, dormant, excused>>

Store(s) ==
    /\ Doing(s, "list")
    /\ list' = [list EXCEPT ![Step(s).key] = Step(s).value]
    /\ Proceed(s)
    /\ UNCHANGED <<phone, problem, assigned, order, dormant, excused>>

\* The process stops after its commit or before its flush, or redis does not
\* answer; an open transaction is rolled back by the database.
Abandoned(s) ==
    /\ session[s] # NoSession
    /\ session' = [session EXCEPT ![s] = NoSession]
    /\ raced' = raced \cup (IF Step(s).op = "flush" THEN Step(s).keys ELSE {})
    /\ UNCHANGED <<phone, problem, assigned, order, list, requests, dormant, excused>>

FlushLists(keys) == [op |-> "flush", keys |-> keys]
EveryList == Phones \cup {NoPhone}

(***************************************************************************)
(* Phone categories.                                                       *)
(***************************************************************************)
\* Mutant of CreatePhone: only the list that gains a row is flushed.
CreatePhoneFlushingParent(s, c, above, active) ==
    /\ phone[c].state = "absent"
    /\ above # NoPhone => Live(phone, above) /\ MappedTo(above) = {}
    /\ Start(s, {c, above},
             <<[op |-> "phone", id |-> c, set |-> PhoneRow(above, active, "Open")], FlushLists({above})>>)

\* Mutant of CreatePhone: a category that has problems may get a child.
CreatePhoneUnderProblems(s, c, above, active) ==
    /\ phone[c].state = "absent"
    /\ above # NoPhone => Live(phone, above)
    /\ Start(s, {c, above},
             <<[op |-> "phone", id |-> c, set |-> PhoneRow(above, active, "Open")], FlushLists(EveryList)>>)

\* create
CreatePhone(s, c, above, active) ==
    /\ phone[c].state = "absent"
    /\ above # NoPhone => Live(phone, above) /\ MappedTo(above) = {}
    /\ Start(s, {c, above},
             <<[op |-> "phone", id |-> c, set |-> PhoneRow(above, active, "Open")], FlushLists(EveryList)>>)

\* update: is_active is the only field a property is about.
UpdatePhone(s, c, active) ==
    /\ phone[c].state = "Open"
    /\ Start(s, {c, phone[c].parent},
             <<[op |-> "phone", id |-> c, set |-> [active |-> active]],
               FlushLists(EveryList)>>)

\* Mutant of DeletePhone: what hangs below does not matter.
DeletePhoneWithChildren(s, c) ==
    /\ phone[c].state = "Open"
    /\ MappedTo(c) = {}
    /\ Start(s, {c, phone[c].parent},
             <<[op |-> "phone", id |-> c, set |-> [state |-> "Deleted"]],
               FlushLists({c, phone[c].parent})>>)

\* delete: flushes its own list and the one it was in, not the one that shows
\* whether its parent has children.
DeletePhone(s, c) ==
    /\ phone[c].state = "Open"
    /\ OpenChildren(phone, c) = {} /\ MappedTo(c) = {}
    /\ Start(s, {c, phone[c].parent},
             <<[op |-> "phone", id |-> c, set |-> [state |-> "Deleted"]],
               FlushLists({c, phone[c].parent})>>)

\* findPhoneCategories on a miss: the rows and their has_children, stored when
\* the answer is complete.
ListPhones(s, c) ==
    /\ ~list[c].cached
    /\ LET rows == OpenChildren(phone, c)
       IN  Start(s, {c} \cup rows,
                 <<[op |-> "list", key |-> c,
                    value |-> [rows |-> rows, cached |-> TRUE,
                               parents |-> {r \in rows : OpenChildren(phone, r) # {}}]]>>)

ListExpires(c) ==
    /\ list[c].cached
    /\ list' = [list EXCEPT ![c] = Unknown]
    /\ UNCHANGED <<phone, problem, assigned, order, session, requests, raced, dormant, excused>>

(***************************************************************************)
(* Problem categories and parts.                                           *)
(***************************************************************************)
\* create: under a problem, or on a phone category none of whose children is
\* active.  Whether that category itself is open is not asked.
CreateProblem(s, p, above, c) ==
    /\ problem[p].state = "absent"
    /\ (above = NoProblem) # (c = NoPhone)
    /\ above # NoProblem => Live(problem, above)
    /\ c # NoPhone => /\ phone[c].state # "absent"
                      /\ \A d \in OpenChildren(phone, c) : ~phone[d].active
    /\ Start(s, {p, above, c} \ {NoProblem, NoPhone},
             <<[op |-> "problem", id |-> p, set |-> ProblemRow(above, c, TRUE, "Open")]>>)

\* update of a problem category
UpdateProblem(s, p, active) ==
    /\ problem[p].state = "Open"
    /\ Start(s, {p}, <<[op |-> "problem", id |-> p, set |-> [active |-> active]]>>)

\* Mutant of DeleteProblem: the mapping stays.
DeleteProblemMapped(s, p) ==
    /\ problem[p].state = "Open"
    /\ OpenChildren(problem, p) = {}
    /\ Start(s, {p}, <<[op |-> "problem", id |-> p, set |-> [state |-> "Deleted"]]>>)

\* delete: a root loses its mapping.
DeleteProblem(s, p) ==
    /\ problem[p].state = "Open"
    /\ OpenChildren(problem, p) = {}
    /\ Start(s, {p}, <<[op |-> "problem", id |-> p,
             set |-> [state |-> "Deleted", mapped |-> NoPhone]]>>)

\* assignRepairPartsToProblemCategory: the given parts instead of the old ones.
AssignParts(s, p, parts) ==
    /\ problem[p].state # "absent"
    /\ Start(s, {p}, <<[op |-> "assign", id |-> p, parts |-> parts]>>)

(***************************************************************************)
(* The repair order.                                                       *)
(***************************************************************************)
\* The phone category an order may have: open, active, without children.
Choosable(c) == c \in Phones /\ Live(phone, c) /\ OpenChildren(phone, c) = {}

\* The rows a change of the order reads and writes.
ProblemsOf(rows) == {"order"} \cup {r.problem : r \in rows}

Write(rows, types, gone, c, keep, checked) ==
    <<[op |-> "order", rows |-> rows, types |-> types, gone |-> gone,
       phone |-> c, keep |-> keep, checked |-> checked]>>

\* What may be chosen for a phone category: problems of some types that are
\* live and allowed, each once per type, with parts that are assigned to them.
Selections(types, c) ==
    LET may == {p \in AllowedFor(c) : Live(problem, p)}
    IN  {rows \in SUBSET [type : types, problem : may, parts : SUBSET Parts] :
            /\ \A r \in rows : r.parts \subseteq PartsOf(r.problem)
            /\ \A r, q \in rows : r.type = q.type /\ r.problem = q.problem => r = q}

\* create with its problems: validateAndInsertProblems, which takes no part
\* twice.
CreateOrderWithProblems(s, c) ==
    /\ ~order.born /\ \A q \in Sessions : "order" \notin session[q].touched
    /\ Choosable(c) \/ c = NoPhone
    /\ \E rows \in Selections(Types, c) :
        /\ \A r, q \in rows : r # q /\ r.type = q.type => r.parts \cap q.parts = {}
        /\ Start(s, ProblemsOf(rows), Write(rows, {}, {}, c, FALSE, TRUE))

\* update of the order: a phone category, problems of some types instead of
\* the old ones, or both.  The problems of the other types stay.
UpdateOrder(s, c, types) ==
    /\ order.born
    /\ c # order.phone => Choosable(c) \/ c = NoPhone
    /\ \E rows \in Selections(types, c) :
        Start(s, ProblemsOf(rows), Write(rows, types, {}, c, c = order.phone, TRUE))

\* Mutant of Cleaned: parts are not looked at.
CleanedOfProblems(rows, c) == {r \in rows : r.problem \in AllowedFor(c)}

\* cleanupProblemTypeForPhoneCategory: problems the category does not allow go,
\* then parts that are not assigned to their problem.
Cleaned(rows, c) ==
    {[r EXCEPT !.parts = @ \cap PartsOf(r.problem)] : r \in {q \in rows : q.problem \in AllowedFor(c)}}

\* updateProduct: changes the phone category and cleans up after it.
UpdateProduct(s, c) ==
    /\ order.born
    /\ Choosable(c) \/ c = NoPhone
    /\ Start(s, ProblemsOf(order.rows), Write(Cleaned(order.rows, c), {}, order.rows, c, FALSE, TRUE))

\* updateProblem: any category and any parts for one problem of the order.
EditProblem(s, r, p, parts) ==
    /\ order.born /\ r \in order.rows
    /\ problem[p].state # "absent"
    /\ Start(s, {"order"}, Write({[r EXCEPT !.problem = p, !.parts = parts]}, {}, {r}, order.phone, TRUE, FALSE))

CatalogueNext ==
    \/ \E s \in Sessions :
        \/ CommitPhone(s)
        \/ CommitProblem(s)
        \/ CommitAssignment(s)
        \/ CommitDescription(s)
        \/ Flush(s)
        \/ Store(s)
        \/ Abandoned(s)
    \/ \E s \in Ready, c \in Phones, above \in Phones \cup {NoPhone}, active \in BOOLEAN :
        CreatePhone(s, c, above, active)
    \/ \E s \in Ready, c \in Phones, active \in BOOLEAN : UpdatePhone(s, c, active)
    \/ \E s \in Ready, c \in Phones : DeletePhone(s, c)
    \/ \E s \in Ready, c \in Phones \cup {NoPhone} : ListPhones(s, c)
    \/ \E c \in Phones \cup {NoPhone} : ListExpires(c)
    \/ \E s \in Ready, p \in Problems, above \in Problems \cup {NoProblem}, c \in Phones \cup {NoPhone} :
        CreateProblem(s, p, above, c)
    \/ \E s \in Ready, p \in Problems, active \in BOOLEAN : UpdateProblem(s, p, active)
    \/ \E s \in Ready, p \in Problems : DeleteProblem(s, p)
    \/ \E s \in Ready, p \in Problems, parts \in SUBSET Parts : AssignParts(s, p, parts)
    \/ \E s \in Ready, c \in Phones \cup {NoPhone} : CreateOrderWithProblems(s, c)
    \/ \E s \in Ready, c \in Phones \cup {NoPhone}, types \in SUBSET Types : UpdateOrder(s, c, types)
    \/ \E s \in Ready, c \in Phones \cup {NoPhone} : UpdateProduct(s, c)
    \/ \E s \in Ready, r \in order.rows, p \in Problems, parts \in SUBSET Parts :
        EditProblem(s, r, p, parts)

CatalogueSpec == CatalogueInit /\ [][CatalogueNext]_catalogueVars

(***************************************************************************)
(* What must hold.                                                         *)
(***************************************************************************)
\* Types: a problem category is under a problem or mapped to a phone category,
\* never both; a problem is mapped to a phone category only while it is open.
CatalogueTypeOK ==
    /\ phone \in [Phones -> PhoneRows] /\ problem \in [Problems -> ProblemRows]
    /\ \A p \in Problems :
        problem[p].mapped # NoPhone => problem[p].parent = NoProblem /\ problem[p].state = "Open"
    /\ assigned \subseteq Problems \X Parts
    /\ order.phone \in Phones \cup {NoPhone}
    /\ order.rows \subseteq [type : Types, problem : Problems, parts : SUBSET Parts]
    /\ requests \in 0 .. MaxRequests

\* No open category hangs below a deleted one: delete refuses while there are
\* open children and create while the parent is not live.  Only a create and a
\* delete that ran at the same time can break it.
LiveParents ==
    HangsTogether(phone, raced \cup {NoPhone}) /\ HangsTogether(problem, raced \cup {NoProblem})

\* Problems hang on the leaves of the tree of phones: a category with problems
\* has no open child that was always active, however creations of children and
\* of problems alternate.  (A child that was inactive may be activated again.)
ProblemsOnLeaves ==
    \A c \in Phones \ raced :
        MappedTo(c) # {} => OpenChildren(phone, c) \subseteq dormant

\* A list served from redis shows the open children of its category, and
\* never shows a category that has children without them, though every writer
\* flushes after its commit and every reader stores after its query; but for
\* lists whose readers and writers overlapped or whose writer died.
ListsTellTheTruth ==
    \A c \in DOMAIN list :
        (/\ list[c].cached
         /\ raced \cap ({c} \cup list[c].rows \cup OpenChildren(phone, c)) = {}
         /\ \A s \in Sessions : session[s] = NoSession)
        => /\ list[c].rows = OpenChildren(phone, c)
           /\ \A r \in list[c].rows : OpenChildren(phone, r) # {} => r \in list[c].parents

\* An open problem of the order is one its phone category allows, with parts
\* that are assigned to it, whatever happened to order and catalogue since it
\* was chosen.  Excused are the rows updateProblem wrote, those whose parts were
\* reassigned, and those an update of the phone category left behind until
\* updateProduct cleans them up.
RowsFit ==
    "order" \notin raced =>
        \A r \in order.rows \ excused :
            problem[r.problem].state = "Open" /\ Path(problem, r.problem) \cap raced = {}
            => r.problem \in AllowedFor(order.phone) /\ r.parts \subseteq PartsOf(r.problem)

=============================================================================
