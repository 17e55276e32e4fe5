---------------------------- MODULE OrderNotices ----------------------------
(***************************************************************************)
(* Who is told of a repair order: notices are rows of notifications and    *)
(* messages to the browsers that are connected.  A message goes to the     *)
(* room of a branch or to the one socket the gateway remembers of an       *)
(* administrator.  Some messages are sent while the transaction they tell  *)
(* of is open, others after it; a new order's transaction ends when every  *)
(* part of it was written, its notices are not waited for.                 *)
(*                                                                         *)
(* One order of one branch, and each event at most once; several rows of   *)
(* one event to one administrator count as one.                            *)
(***************************************************************************)
EXTENDS Naturals, FiniteSets

CONSTANTS
    Crew,        \* administrators
    Tabs,        \* connections of browsers
    OrderParts,  \* what else a new order is created with
    Events,      \* what happens to the order
    MaxMoves,    \* bound: administrators who join or leave the branch
    NoTab

ASSUME NoTabAssumption == NoTab \notin Tabs

VARIABLES
    roster,      \* admin_branches: who belongs to the branch
    roomsKnown,  \* redis: whether the list of an administrator's branches has it
    unflushed,   \* administrators whose list is still to be forgotten
    shifted,     \* history: who ever joined or left the branch
    tab,         \* each connection: whether it is on, whose, and its room
    socketOf,    \* userSockets
    newest,      \* history: the last connection of each
    repairOrder, \* whether there is a row, deleted or not, and whom it is assigned to
    event,       \* how far each event is
    notices,     \* rows: whom, of which event
    heard        \* history: which connection got a message of which event

memberVars == <<roster, roomsKnown, unflushed, shifted>>
tabVars == <<tab, socketOf, newest>>
orderVars == <<repairOrder, event, notices, heard>>
noticeVars == <<memberVars, tabVars, orderVars>>

NoConnection == [state |-> "closed", owner |-> NoTab, rooms |-> "unread", room |-> FALSE]
NotYet == [kind |-> "none", txn |-> "none", parts |-> {}, aim |-> {}, draft |-> {},
           others |-> {}, listed |-> {}, direct |-> "none", room |-> "none"]

NoticesInit ==
    /\ roster \in SUBSET Crew
    /\ roomsKnown = [a \in Crew |-> "unknown"] /\ unflushed = {} /\ shifted = {}
    /\ tab = [t \in Tabs |-> NoConnection]
    /\ socketOf = [a \in Crew |-> NoTab] /\ newest = socketOf
    /\ repairOrder \in [there : {TRUE}, deleted : {FALSE}, team : {{}} \cup {{a} : a \in Crew}]
                       \cup {[there |-> FALSE, deleted |-> FALSE, team |-> {}]}
    /\ event = [e \in Events |-> NotYet]
    /\ notices = {} /\ heard = {}

(***************************************************************************)
(* The gateway, and who belongs to the branch.                             *)
(***************************************************************************)
\* handleConnection remembers the socket, then awaits the branches.
Connect(t, a) ==
    /\ tab[t].state = "closed"
    /\ tab' = [tab EXCEPT ![t].state = "on", ![t].owner = a]
    /\ socketOf' = [socketOf EXCEPT ![a] = t]
    /\ newest' = [newest EXCEPT ![a] = t]
    /\ UNCHANGED <<memberVars, orderVars>>

\* findBranchesByAdminId: what Redis has, or what the database has.
FindKnownRooms(t) ==
    LET known == roomsKnown[tab[t].owner]
    IN  /\ tab[t].state = "on" /\ tab[t].rooms = "unread" /\ known # "unknown"
        /\ tab' = [tab EXCEPT ![t].rooms = "joined", ![t].room = (known = "yes")]
        /\ UNCHANGED <<memberVars, socketOf, newest, orderVars>>

ReadRooms(t) ==
    LET a == tab[t].owner
    IN  /\ tab[t].state = "on" /\ tab[t].rooms = "unread" /\ roomsKnown[a] = "unknown"
        /\ tab' = [tab EXCEPT ![t].rooms = "read", ![t].room = (a \in roster)]
        /\ UNCHANGED <<memberVars, socketOf, newest, orderVars>>

JoinRooms(t) ==
    /\ tab[t].rooms = "read"
    /\ roomsKnown' = [roomsKnown EXCEPT ![tab[t].owner] = IF tab[t].room THEN "yes" ELSE "no"]
    /\ tab' = [tab EXCEPT ![t].rooms = "joined", ![t].room = (tab[t].room /\ tab[t].state = "on")]
    /\ UNCHANGED <<roster, unflushed, shifted, socketOf, newest, orderVars>>

\* Mutant of handleDisconnect: whichever socket it was, its administrator has none.
ForgetAdmin(t) ==
    /\ tab[t].state = "on"
    /\ tab' = [tab EXCEPT ![t].state = "gone", ![t].room = (tab[t].room /\ tab[t].rooms = "read")]
    /\ socketOf' = [socketOf EXCEPT ![tab[t].owner] = NoTab]
    /\ UNCHANGED <<memberVars, newest, orderVars>>

\* Only the socket that is remembered is forgotten.
handleDisconnect(t) ==
    /\ tab[t].state = "on"
    /\ tab' = [tab EXCEPT ![t].state = "gone", ![t].room = (tab[t].room /\ tab[t].rooms = "read")]
    /\ socketOf' = [a \in Crew |-> IF socketOf[a] = t THEN NoTab ELSE socketOf[a]]
    /\ UNCHANGED <<memberVars, newest, orderVars>>

\* assignAdmins and removeAdmins of a branch; all lists are forgotten afterwards.
ChangeRoster(a) ==
    /\ a \notin shifted /\ Cardinality(shifted) < MaxMoves
    /\ shifted' = shifted \cup {a}
    /\ roster' = IF a \in roster THEN roster \ {a} ELSE roster \cup {a}
    /\ unflushed' = unflushed \cup {a}
    /\ UNCHANGED <<roomsKnown, tabVars, orderVars>>

ForgetRooms(a) ==
    /\ a \in unflushed
    /\ unflushed' = unflushed \ {a}
    /\ roomsKnown' = [x \in Crew |-> "unknown"]
    /\ UNCHANGED <<roster, shifted, tabVars, orderVars>>

(***************************************************************************)
(* What happens to the order.                                              *)
(***************************************************************************)
OnlyEvent(e, how) ==
    /\ event' = [event EXCEPT ![e] = how]
    /\ UNCHANGED <<repairOrder, notices, heard, memberVars, tabVars>>

Happens(e, how) == event[e] = NotYet /\ OnlyEvent(e, how)

InUse == repairOrder.there /\ ~repairOrder.deleted

\* create: the helpers run at the same time on the one transaction.
BeginOrder(e) ==
    /\ ~repairOrder.there /\ \A f \in Events : event[f].kind # "create"
    /\ Happens(e, [NotYet EXCEPT !.kind = "create", !.txn = "open",
                                 !.parts = OrderParts \cup {"admins"}])

\* A helper writes its part of a new order.
WritePart(e, part) ==
    /\ event[e].txn = "open" /\ part \in event[e].parts \ {"admins"}
    /\ OnlyEvent(e, [event[e] EXCEPT !.parts = @ \ {part}])

\* insertAssignAdmins: the creator, if of the branch, and whom the request names;
\* a notice to them begins, and nobody awaits it.
insertAssignAdmins(e, aim) ==
    /\ event[e].txn = "open" /\ "admins" \in event[e].parts /\ aim \subseteq roster
    /\ OnlyEvent(e, [event[e] EXCEPT !.parts = @ \ {"admins"}, !.aim = aim,
                                     !.direct = IF aim = {} THEN "none" ELSE "store"])

\* create of the assignments, also those of a deleted order: rows and notices in
\* the transaction, each awaited.
AssignOrder(e, aim) ==
    /\ repairOrder.there /\ aim \ repairOrder.team # {}
    /\ Happens(e, [NotYet EXCEPT !.kind = "assign", !.txn = "open",
                                 !.aim = aim \ repairOrder.team, !.direct = "store"])

\* create with an empty list removes all, delete one, deleteMany several: what
\* they were told stays.
RemoveFromTeam(gone) ==
    /\ repairOrder.there /\ gone \cap repairOrder.team # {}
    /\ repairOrder' = [repairOrder EXCEPT !.team = @ \ gone]
    /\ UNCHANGED <<event, notices, heard, memberVars, tabVars>>

\* A call, or a move out of an invalid status, gives the order to an administrator
\* and may take it from those assigned that way; nobody is told.
AssignSilently(a, gone) ==
    /\ InUse /\ a \notin repairOrder.team /\ gone \subseteq repairOrder.team
    /\ repairOrder' = [repairOrder EXCEPT !.team = (@ \ gone) \cup {a}]
    /\ UNCHANGED <<event, notices, heard, memberVars, tabVars>>

\* softDelete: assignments and notices stay.
MarkDeleted ==
    /\ InUse
    /\ repairOrder' = [repairOrder EXCEPT !.deleted = TRUE]
    /\ UNCHANGED <<event, notices, heard, memberVars, tabVars>>

\* move: the notice starts before the transaction ends, on another connection.
MoveOrder(e) ==
    /\ InUse
    /\ Happens(e, [NotYet EXCEPT !.kind = "move", !.txn = "open", !.room = "list"])

\* Something is refused, or the server stops: the transaction is rolled back.
UndoEvent(e) ==
    /\ event[e].txn = "open"
    /\ OnlyEvent(e, [event[e] EXCEPT !.txn = "undone", !.parts = {}, !.draft = {}])

EndEvent(e) ==
    /\ event[e].kind = "assign" => event[e].direct = "done"
    /\ repairOrder' = [repairOrder EXCEPT !.there = TRUE, !.team = @ \cup event[e].aim]
    /\ notices' = notices \cup (event[e].draft \X {e})
    /\ event' = [event EXCEPT ![e].txn = "committed", ![e].draft = {},
                              ![e].room = IF event[e].kind = "create" THEN "list" ELSE @]
    /\ UNCHANGED <<heard, memberVars, tabVars>>

\* Mutant of CommitEvent: it does not wait for the parts.
CommitEarly(e) == event[e].txn = "open" /\ EndEvent(e)

\* A new order is then told to the branch.
CommitEvent(e) == event[e].txn = "open" /\ event[e].parts = {} /\ EndEvent(e)

\* A webhook tells the operator first and then the others of the branch, each by
\* their own socket.
TellOperator(e, a) ==
    /\ InUse
    /\ Happens(e, [NotYet EXCEPT !.kind = "webhook", !.txn = "committed", !.aim = {a},
                                 !.others = roster \ {a}, !.direct = "store"])

\* An administrator asks one to open the order.
notifyAdminToOpenRepairOrder(e, a) ==
    /\ InUse
    /\ Happens(e, [NotYet EXCEPT !.kind = "open", !.txn = "committed", !.aim = {a},
                                 !.direct = "store"])

\* Taken from the parent branch or given back: its room is told.
TellBranch(e) ==
    /\ InUse
    /\ Happens(e, [NotYet EXCEPT !.kind = "update", !.txn = "committed", !.room = "list"])

\* A call is only announced, to those assigned who are at work.
AnnounceCall(e, aim) ==
    /\ InUse /\ aim \subseteq repairOrder.team /\ aim # {}
    /\ Happens(e, [NotYet EXCEPT !.kind = "call", !.txn = "committed", !.aim = aim,
                                 !.direct = "send"])

(***************************************************************************)
(* The notification service.                                               *)
(***************************************************************************)
InTransaction(e) == event[e].kind \in {"create", "assign"}

\* notifyAdmins: rows are inserted, those of a new order or an assignment in its
\* transaction; where that is over it is refused and nobody is told.
StoreNotices(e) ==
    /\ event[e].direct = "store"
    /\ IF InTransaction(e)
       THEN /\ event' = IF event[e].txn = "open"
                        THEN [event EXCEPT ![e].direct = "send", ![e].draft = event[e].aim]
                        ELSE [event EXCEPT ![e].direct = "lost"]
            /\ UNCHANGED notices
       ELSE /\ notices' = notices \cup (event[e].aim \X {e})
            /\ event' = [event EXCEPT ![e].direct = "send"]
    /\ UNCHANGED <<repairOrder, heard, memberVars, tabVars>>

\* broadcastToAdmins: whoever has a socket.
broadcastToAdmins(e) ==
    /\ event[e].direct = "send"
    /\ heard' = heard \cup ({t \in Tabs : \E a \in event[e].aim : socketOf[a] = t} \X {e})
    /\ event' = IF event[e].others = {}
                THEN [event EXCEPT ![e].direct = "done"]
                ELSE [event EXCEPT ![e].direct = "store", ![e].aim = event[e].others,
                                   ![e].others = {}]
    /\ UNCHANGED <<repairOrder, notices, memberVars, tabVars>>

\* notifyBranch: who belongs to the branch is read, rows are inserted for them,
\* and its room is told.
ListBranchAdmins(e) ==
    /\ event[e].room = "list"
    /\ OnlyEvent(e, [event[e] EXCEPT !.listed = roster,
                                     !.room = IF roster = {} THEN "done" ELSE "store"])

StoreBranchNotices(e) ==
    /\ event[e].room = "store"
    /\ notices' = notices \cup (event[e].listed \X {e})
    /\ event' = [event EXCEPT ![e].room = "send", ![e].listed = {}]
    /\ UNCHANGED <<repairOrder, heard, memberVars, tabVars>>

broadcastToBranch(e) ==
    /\ event[e].room = "send"
    /\ heard' = heard \cup ({t \in Tabs : tab[t].rooms = "joined" /\ tab[t].room} \X {e})
    /\ event' = [event EXCEPT ![e].room = "done"]
    /\ UNCHANGED <<repairOrder, notices, memberVars, tabVars>>

NoticesNext ==
    \/ \E t \in Tabs :
        \/ \E a \in Crew : Connect(t, a)
        \/ FindKnownRooms(t) \/ ReadRooms(t) \/ JoinRooms(t)
        \/ handleDisconnect(t)
    \/ \E a \in Crew : ChangeRoster(a) \/ ForgetRooms(a)
    \/ \E gone \in SUBSET Crew :
        RemoveFromTeam(gone) \/ \E a \in Crew : AssignSilently(a, gone)
    \/ MarkDeleted
    \/ \E e \in Events :
        \/ BeginOrder(e) \/ MoveOrder(e) \/ TellBranch(e)
        \/ \E aim \in SUBSET Crew :
            insertAssignAdmins(e, aim) \/ AssignOrder(e, aim) \/ AnnounceCall(e, aim)
        \/ \E a \in Crew : TellOperator(e, a) \/ notifyAdminToOpenRepairOrder(e, a)
        \/ \E part \in OrderParts : WritePart(e, part)
        \/ UndoEvent(e) \/ CommitEvent(e)
        \/ StoreNotices(e) \/ broadcastToAdmins(e)
        \/ ListBranchAdmins(e) \/ StoreBranchNotices(e) \/ broadcastToBranch(e)

NoticesSpec == NoticesInit /\ [][NoticesNext]_noticeVars

(***************************************************************************)
(* What must hold.                                                         *)
(***************************************************************************)
NoticesTypeOK ==
    /\ roster \subseteq Crew /\ shifted \subseteq Crew /\ unflushed \subseteq shifted
    /\ \A t \in Tabs : /\ tab[t].state \in {"closed", "on", "gone"}
                       /\ tab[t].rooms \in {"unread", "read", "joined"}
    /\ \A a \in Crew : /\ socketOf[a] \in Tabs \cup {NoTab}
                       /\ roomsKnown[a] \in {"unknown", "yes", "no"}
    /\ repairOrder.team \subseteq Crew
    /\ repairOrder.team # {} \/ repairOrder.deleted => repairOrder.there
    /\ notices \subseteq Crew \X Events /\ heard \subseteq Tabs \X Events

\* Whoever got a message finds it among the notices when they look later, but
\* for calls, which are only announced; for what has not been committed or was
\* rolled back; and for those given to the branch or removed from it meanwhile:
\* who is in its room is settled when a connection begins.
HeardIsKept ==
    \A t \in Tabs, e \in Events : <<t, e>> \in heard =>
        LET a == tab[t].owner
        IN  \/ <<a, e>> \in notices
            \/ event[e].kind = "call"
            \/ InTransaction(e) /\ event[e].txn # "committed"
            \/ event[e].room # "none" /\ a \in shifted

\* A notice is of an order that was committed, deleted since perhaps; none is kept
\* of what was rolled back, but of a move, told before its end.  The notices of an
\* assignment are those of whom it took on, removed since perhaps: once it ended
\* each of them has one, nobody else.
NoticesAreTrue ==
    /\ \A a \in Crew, e \in Events : <<a, e>> \in notices =>
        /\ repairOrder.there
        /\ event[e].txn = "committed" \/ event[e].kind = "move"
        /\ event[e].kind = "assign" => a \in event[e].aim
    /\ \A e \in Events : event[e].kind = "assign" /\ event[e].txn = "committed" =>
        event[e].aim \X {e} \subseteq notices

\* Where an order was created all of it was written.
CreatedWhole ==
    \A e \in Events : event[e].kind = "create" /\ event[e].txn = "committed" => event[e].parts = {}

\* The socket remembered of an administrator is on and theirs, and it is their
\* last connection's as long as that is on.
LatestHears ==
    \A a \in Crew :
        /\ socketOf[a] # NoTab => tab[socketOf[a]].state = "on" /\ tab[socketOf[a]].owner = a
        /\ newest[a] # NoTab /\ tab[newest[a]].state = "on" => socketOf[a] = newest[a]

NoticesTrue == HeardIsKept /\ NoticesAreTrue /\ CreatedWhole /\ LatestHears
=============================================================================
