------------------------- MODULE MCAdministration -------------------------
(***************************************************************************)
(* What administrators keep: accounts, what they may do, the ordered       *)
(* lists, the history of what they changed, its current values and its     *)
(* graph, and the scripts that keep statuses and roles canonical.  These   *)
(* share no state, so no behaviour of one depends on another: each         *)
(* behaviour here is about one of them while the others rest.  Two         *)
(* handlers run at a time.                                                 *)
(***************************************************************************)
EXTENDS AccessControl, AdminAccounts, ReferenceLists, History, HistoryGraph,
    CanonicalStatuses, CanonicalRoles

CONSTANTS rowA, rowB, rowC, x1, x2, s1, s2

VARIABLE about  \* what the behaviour is about

vars == <<about, accessVars, accountVars, listVars, historyVars, graphVars, canonVars, roleVars>>

\* Two roles, the first of which grants a permission.
MCStartRoles ==
    [r \in {1, 2} |-> [open |-> TRUE, grants |-> IF r = 1 THEN Permissions ELSE {}, title |-> 0]]

MCStartAbilities == [r \in {1, 2} |-> r]

\* Two rows of each list, the second perhaps deleted, and room for one more.
MCStarts ==
    {[i \in {rowA, rowB, rowC} |->
        CASE i = rowA -> Row("Open", 1, 0)
          [] i = rowB -> Row(state, 2, 0)
          [] i = rowC -> Row("absent", 0, 0)] : state \in {"Open", "Deleted"}}

\* Mother's lead status, protected, and another; a lead status of the child
\* branch, in which the order is, and another.  The others may be required ones,
\* one that is to be renamed, or further ones of a type.
MCStatusStarts ==
    LET Of(branch, name, type) ==
            [branch |-> branch, name |-> name, type |-> type, state |-> "Open",
             guarded |-> branch = "mother" /\ type = "Open" /\ name = "lead"]
        From(second, third) ==
            [status |-> [s \in StatusIds |->
                CASE s = 1 -> Of("mother", "lead", "Open")
                  [] s = 2 -> second
                  [] s = 3 -> Of("child", "lead", "Open")
                  [] s = 4 -> third
                  [] OTHER -> Absent],
             order |-> [o \in Carried |-> 3],
             perm |-> [owner \in Owners |-> [s \in StatusIds |->
                CASE s \in {1, 2} /\ owner = "mother" -> "may"
                  [] s = 3 /\ owner = "child" -> "may"
                  [] s = 4 /\ owner = "child" -> "no"
                  [] OTHER -> "none"]],
             rule |-> {<<3, 4>>, <<4, 3>>, <<1, 2>>}]
    IN  {From(Of("mother", "missed", "none"), Of("child", "missed", "none")),
         From(Of("mother", "other", "none"), Of("child", "oldlead", "Open")),
         From(Of("mother", "other", "Missed"), Of("child", "other", "none"))}

\* The protected role is there, or no role is; the other is deleted under its
\* own identifier's name, or another row has its former name or its type.
MCRoleTypes == <<"SuperAdmin", "Operator">>
MCOwnId == [type \in {"SuperAdmin", "Operator"} |-> IF type = "SuperAdmin" THEN 1 ELSE 2]
MCRoleStarts ==
    LET OpenRole(type, name) == [NoRoleRow EXCEPT !.state = "Open", !.type = type, !.name = name]
        Operator == OpenRole("Operator", Proper("Operator"))
    IN  {[r \in RoleRows |-> NoRoleRow]} \cup
        {[r \in RoleRows |->
            CASE r = 1 -> Canonical("SuperAdmin", TRUE)
              [] r = 2 -> NoRoleRow
              [] r = 3 -> third
              [] r = 4 -> fourth] :
            third \in {NoRoleRow, [Operator EXCEPT !.state = "Deleted"]},
            fourth \in {OpenRole(Untyped, Former("Operator")), OpenRole("Operator", Other)}}

Symmetry == {s @@ x : s \in Permutations({s1, s2}), x \in Permutations({x1, x2})}

\* Answers remembered from before are those of Mother.
AccessStarts == here = "child" => Remembered = {}

AccessRests == here = "mother" /\ Remembered = {}
AccountsRest == Existing = {}
ListsRest ==
    /\ kind = "os" /\ Open = {rowA, rowB}
    /\ list["own"] = Unknown

\* The rest has no state at all in a behaviour that is not about it.
Off == "off"
NoHistory ==
    /\ entity = Off /\ relation = Off /\ links = Off /\ recorded = Off
    /\ latest = Off /\ writer = Off /\ backlog = Off /\ writes = Off
    /\ surprised = Off

NoGraph ==
    /\ event = Off /\ value = Off /\ recorder = Off /\ settled = Off
    /\ moment = Off

NoScripts ==
    /\ data = Off /\ draft = Off /\ startup = Off /\ moving = Off
    /\ runs = Off /\ edits = Off /\ removed = Off /\ strayed = Off

NoRoles ==
    /\ rolesKept = Off /\ rolesSeen = Off /\ reconcile = Off /\ found = Off
    /\ outcome = Off /\ asks = Off

\* Bound: redis falls silent while a request for an account is under way, not the
\* last one; until it turns again none begins and nothing expires.
SilentBriefly ==
    /\ answers /\ ~answers' => ids < MaxIds /\ \E c \in Clients : client[c] # Idle
    /\ ~answers /\ ~answers' => ids' = ids /\ client' # client

Init ==
    /\ about \in {"access", "accounts", "lists", "history", "graph", "statuses", "roles"}
    /\ AccessInit /\ AccessStarts /\ (about = "access" \/ AccessRests)
    /\ AccountsInit /\ (about = "accounts" \/ AccountsRest)
    /\ ListsInit /\ (about = "lists" \/ ListsRest)
    /\ IF about = "history" THEN HistoryInit ELSE NoHistory
    /\ IF about = "graph" THEN GraphInit ELSE NoGraph
    /\ IF about = "statuses" THEN CanonInit ELSE NoScripts
    /\ IF about = "roles" THEN RolesInit ELSE NoRoles

Next ==
    /\ UNCHANGED about
    /\ \/ about = "access" /\ AccessNext
            /\ UNCHANGED <<accountVars, listVars, historyVars, graphVars, canonVars, roleVars>>
       \/ about = "accounts" /\ AccountsNext /\ SilentBriefly
            /\ UNCHANGED <<accessVars, listVars, historyVars, graphVars, canonVars, roleVars>>
       \/ about = "lists" /\ ListsNext
            /\ UNCHANGED <<accessVars, accountVars, historyVars, graphVars, canonVars, roleVars>>
       \/ about = "history" /\ HistoryNext
            /\ UNCHANGED <<accessVars, accountVars, listVars, graphVars, canonVars, roleVars>>
       \/ about = "graph" /\ GraphNext
            /\ UNCHANGED <<accessVars, accountVars, listVars, historyVars, canonVars, roleVars>>
       \/ about = "statuses" /\ CanonNext
            /\ UNCHANGED <<accessVars, accountVars, listVars, historyVars, graphVars, roleVars>>
       \/ about = "roles" /\ RolesNext
            /\ UNCHANGED <<accessVars, accountVars, listVars, historyVars, graphVars, canonVars>>

Spec == Init /\ [][Next]_vars

\* Types: of what the behaviour is about; the others do not change.
TypeOK ==
    CASE about = "access" -> AccessTypeOK
      [] about = "accounts" -> AccountsTypeOK
      [] about = "lists" -> ListsTypeOK
      [] about = "history" -> HistoryTypeOK
      [] about = "graph" -> GraphTypeOK
      [] about = "statuses" -> CanonTypeOK
      [] about = "roles" -> RolesTypeOK

\* History tells what the rows hold (CurrentValuesTrue), in an order and with
\* a graph that lead back to it (HistoryChained); the scripts leave statuses and
\* roles as the program takes them to be (StatusesCanonical, RolesCanonical).
RecordsTrue ==
    /\ about = "history" => CurrentValuesTrue
    /\ about = "graph" => HistoryChained
    /\ about = "statuses" => StatusesCanonical
    /\ about = "roles" => RolesCanonical
=============================================================================
