------------------------------ MODULE MCDetails ------------------------------
(***************************************************************************)
(* Everything a repair order carries with it besides its place on the      *)
(* board: the catalogue of phones and problems it is described with, the   *)
(* phone its customer is lent, the customer, what hangs on the order and   *)
(* the log of it, the comments made from the log, the papers printed for   *)
(* it, the documents published to customers, the lists it is in, who is    *)
(* told of it, and where it may go.  They share no state, so each          *)
(* behaviour here is about one of them while the others rest.  Two         *)
(* requests are served at a time.                                          *)
(***************************************************************************)
EXTENDS Catalogue, RentalPhones, Customers, OrderLog, OrderComments,
        OrderPapers, PublishedDocuments, OrderLists, OrderNotices, OrderGates

CONSTANTS rowA, rowB, rowC, pointP, pointQ, pointR, partK, s1, s2, t1, t2

VARIABLE about  \* what the behaviour is about

vars == <<about, catalogueVars, rentalVars, customersVars, logVars, commentVars,
          papersVars, documentsVars, listingVars, noticeVars, gateVars>>

\* Two phone categories, a problem with one below it and its part, and room
\* for one more of each.
MCStartPhones ==
    [x \in {rowA, rowB, rowC} |-> PhoneRow(NoPhone, TRUE, IF x = rowC THEN "absent" ELSE "Open")]

MCStartProblems ==
    [x \in {pointP, pointQ, pointR} |->
        CASE x = pointP -> ProblemRow(NoProblem, rowA, TRUE, "Open")
          [] x = pointQ -> ProblemRow(pointP, NoPhone, TRUE, "Open")
          [] x = pointR -> ProblemRow(NoProblem, NoPhone, TRUE, "absent")]

MCStartAssigned == {<<pointQ, partK>>}

\* Requests, and values told apart but not ordered: orders, couriers, numbers,
\* statuses, contents.
Symmetry == {s @@ t : s \in Permutations({s1, s2}), t \in Permutations({t1, t2})}

\* Rights and transitions: one plain setup, and from it those in which rows,
\* transitions and closed statuses, or branches, vary.
MCPlaces == {pointP, pointQ}
MCPlain(needs) ==
    [super |-> FALSE, assigned |-> MCPlaces, openPlaces |-> MCPlaces, rowsIn |-> MCPlaces,
     row |-> <<[s \in JobStatuses |-> "yes"], [s \in JobStatuses |-> "none"]>>,
     rules |-> {<<Anyone, 1, 2>>, <<Anyone, 2, 1>>}, openStages |-> JobStatuses, needs |-> needs]
MCNeeded(fields) == [s \in JobStatuses |-> IF s = 2 THEN fields ELSE {}]
MCChanged == {MCPlain(MCNeeded({})), MCPlain(MCNeeded({"date"}))}
MCBySecondRole ==
    [MCPlain(MCNeeded({"date"})) EXCEPT !.row = <<[s \in JobStatuses |-> "none"],
                                                  [s \in JobStatuses |-> "yes"]>>]
MCBusy == MCChanged \cup {MCPlain(MCNeeded({"date", "cause"})), MCBySecondRole}
MCSetups ==
    LET plain == MCPlain(MCNeeded({}))
        Has == {"none", "yes"}
    IN  (MCBusy \ MCChanged)
        \cup {[plain EXCEPT !.row = <<<<x[1], x[2]>>, <<x[3], x[4]>>>>,
                             !.rules = u, !.openStages = o] :
                x \in {"none", "no", "yes"} \X Has \X Has \X Has,
                u \in SUBSET {<<Anyone, 1, 2>>, <<1, 1, 2>>, <<2, 1, 2>>, <<1, 2, 1>>},
                o \in {{1}, {1, 2}}}
        \cup {[plain EXCEPT !.super = x, !.assigned = y, !.openPlaces = z, !.rowsIn = w] :
                x \in BOOLEAN, y \in SUBSET MCPlaces, z \in {{pointP}, MCPlaces},
                w \in SUBSET MCPlaces}

\* What the others are at while a behaviour is not about them.
CustomersRest == \A u \in Customers : customer[u].standing = "absent"
LogRests == staff = {}
CommentsRest ==
    /\ status = NoStatus /\ now = 0 /\ changes = 0
    /\ history = [id \in RowIds |-> NoRow] /\ comments = [id \in RowIds |-> NoStatus]
    /\ editor = [w \in Editors |-> Resting]
    /\ script = NoScript /\ expected = {} /\ late = {}
MCLikes == {"name", "model", "number", "phone"} \X Wherever

\* No search, or a short term that is the last of an order's names.
ListingStarts ==
    /\ term \in {"no", "short"} /\ \A o \in Tickets : like[o] = <<"name", "word">>
    /\ term = "short" => asked.viewable /\ asked.first # Home

\* The rest has no state at all in a behaviour that is not about it.
Off == "off"
NoCatalogue ==
    /\ phone = Off /\ problem = Off /\ assigned = Off /\ order = Off
    /\ list = Off /\ session = Off /\ requests = Off /\ raced = Off
    /\ dormant = Off /\ excused = Off

NoPapers ==
    /\ stored = Off /\ forms = Off /\ clerk = Off /\ papers = Off
    /\ issued = Off /\ agreed = Off /\ astray = Off

NoDocuments ==
    /\ table = Off /\ documents = Off /\ pdf = Off /\ author = Off
    /\ drafts = Off /\ clock = Off /\ unsettled = Off

NoListing ==
    /\ asked = Off /\ term = Off /\ like = Off /\ ticket = Off /\ may = Off
    /\ kept = Off /\ viewer = Off /\ mover = Off /\ steps = Off
    /\ doubtful = Off

NoNotices ==
    /\ roster = Off /\ roomsKnown = Off /\ unflushed = Off /\ shifted = Off
    /\ tab = Off /\ socketOf = Off /\ newest = Off /\ repairOrder = Off
    /\ event = Off /\ notices = Off /\ heard = Off

NoGates ==
    /\ setup = Off /\ job = Off /\ desk = Off /\ spared = Off /\ deeds = Off

\* Bound: where somebody joins or leaves the branch, or the order is deleted, one
\* connection.
OneTab == \/ shifted' = {} /\ ~repairOrder'.deleted
          \/ \E t \in Tabs : tab'[t].state = "closed"

\* Bound: nobody is removed, or assigned without being told, and the order is not
\* deleted, after the one event has begun, unless that is an assignment.
EventIsLast ==
    repairOrder' = repairOrder \/ event' # event \/ \A e \in Events : event[e].kind \in {"none", "assign"}

NobodyServed == \A h \in Handlers : At(h, "free")

\* Bound: of customers' orders only those calls opened go away or are deleted, the
\* latter between requests, and not where a customer is deleted too.
OnlyCalls ==
    \A o \in Calls : opened'[o].state \in {"away", "deleted"} =>
        /\ \A u \in Customers : customer'[u].standing # "Deleted"
        /\ opened'[o].state = opened[o].state
            \/ /\ opened[o].origin \in {"webhook", "answered"}
               /\ opened'[o].state = "deleted" => NobodyServed

Init ==
    /\ about \in {"catalogue", "rental", "customer", "log", "comments", "papers",
                  "documents", "lists", "notices", "gates"}
    /\ RentalInit
    /\ CustomersInit /\ \A u \in Customers : customer[u].standing # "Banned"
    /\ about = "customer" \/ CustomersRest
    /\ LogInit /\ (about = "log" \/ LogRests)
    /\ IF about = "comments" THEN CommentsInit ELSE CommentsRest
    /\ IF about = "catalogue" THEN CatalogueInit ELSE NoCatalogue
    /\ IF about = "papers" THEN PapersInit ELSE NoPapers
    /\ IF about = "documents" THEN DocumentsInit ELSE NoDocuments
    /\ IF about = "lists" THEN ListingInit /\ ListingStarts ELSE NoListing
    /\ IF about = "notices" THEN NoticesInit ELSE NoNotices
    /\ IF about = "gates" THEN GatesInit ELSE NoGates

CatalogueRests == UNCHANGED <<catalogueVars, rentalVars>>
OrderRests == UNCHANGED <<customersVars, logVars, commentVars>>
PaperRests == UNCHANGED <<papersVars, documentsVars, listingVars, noticeVars, gateVars>>

Next ==
    /\ UNCHANGED about
    /\ \/ about = "catalogue" /\ CatalogueNext
            /\ UNCHANGED rentalVars /\ OrderRests /\ PaperRests
       \/ about = "rental" /\ RentalNext
            /\ UNCHANGED catalogueVars /\ OrderRests /\ PaperRests
       \/ about = "customer" /\ CustomersNext /\ OnlyCalls
            /\ UNCHANGED <<logVars, commentVars>> /\ CatalogueRests /\ PaperRests
       \/ about = "log" /\ LogNext
            /\ UNCHANGED <<customersVars, commentVars>> /\ CatalogueRests /\ PaperRests
       \/ about = "comments" /\ CommentsNext
            /\ UNCHANGED <<customersVars, logVars>> /\ CatalogueRests /\ PaperRests
       \/ about = "papers" /\ PapersNext
            /\ UNCHANGED <<documentsVars, listingVars, noticeVars, gateVars>>
            /\ CatalogueRests /\ OrderRests
       \/ about = "documents" /\ DocumentsNext
            /\ UNCHANGED <<papersVars, listingVars, noticeVars, gateVars>>
            /\ CatalogueRests /\ OrderRests
       \/ about = "lists" /\ ListingNext
            /\ UNCHANGED <<papersVars, documentsVars, noticeVars, gateVars>>
            /\ CatalogueRests /\ OrderRests
       \/ about = "notices" /\ NoticesNext /\ OneTab /\ EventIsLast
            /\ UNCHANGED <<papersVars, documentsVars, listingVars, gateVars>>
            /\ CatalogueRests /\ OrderRests
       \/ about = "gates" /\ setup \in MCBusy /\ GatesNext
            /\ UNCHANGED <<papersVars, documentsVars, listingVars, noticeVars>>
            /\ CatalogueRests /\ OrderRests

Spec == Init /\ [][Next]_vars

\* Types: of what the behaviour is about; the others do not change.
TypeOK ==
    CASE about = "catalogue" -> CatalogueTypeOK
      [] about = "rental" -> RentalTypeOK
      [] about = "customer" -> CustomersTypeOK
      [] about = "log" -> LogTypeOK
      [] about = "comments" -> CommentsTypeOK
      [] about = "papers" -> PapersTypeOK
      [] about = "documents" -> DocumentsTypeOK
      [] about = "lists" -> ListingTypeOK
      [] about = "notices" -> NoticesTypeOK
      [] about = "gates" -> GatesTypeOK

\* No open row of the catalogue hangs from a deleted one, problems of an order
\* are leaves, and the rows of an order fit its phone (Catalogue); an order is
\* in a status whose gates let it pass, and what is offered is accepted
\* (OrderGates).  The statements of those modules name the races that are
\* excepted.
OrderSound ==
    /\ about = "catalogue" => LiveParents /\ ProblemsOnLeaves /\ RowsFit
    /\ about = "gates" => GatesKept

\* Lists in Redis are what the database has: those of the catalogue and those of
\* orders, in which a search finds what it should (Catalogue, OrderLists).
CachesTrue ==
    /\ about = "catalogue" => ListsTellTheTruth
    /\ about = "lists" => OrderListsTrue

\* What leaves the server is what it keeps: what is printed is there, what is
\* published is what is active, and what an administrator is told of is found
\* again (OrderPapers, PublishedDocuments, OrderNotices).
OutputsTrue ==
    /\ about = "papers" => PapersKept
    /\ about = "documents" => PublishedIsActive
    /\ about = "notices" => NoticesTrue
=============================================================================
