----------------------------- MODULE OrderLists -----------------------------
(***************************************************************************)
(* The cached lists of repair orders.  A list is asked for one or several  *)
(* branches, kept half an hour under a key that begins with the first of   *)
(* them, and forgotten by handlers that flush the prefix of a branch after *)
(* they commit.  Lists do not depend on each other, so a behaviour follows *)
(* one of them.  An administrator who searches in a branch also finds      *)
(* orders of Mother, but only those that match exactly.                    *)
(***************************************************************************)
EXTENDS Naturals, FiniteSets, Sequences

CONSTANTS
    Home,       \* the branch all others hang from
    Sites,      \* the other branches
    Visible,    \* branches the administrator sees
    Tickets,    \* repair orders
    Searches,   \* kinds of search terms, "no" for none
    Likes,      \* what of an order is like the term, and how
    Viewers,    \* requests for the list served at a time
    Movers,     \* handlers of orders at work at a time
    MaxTouches  \* bound: handlers begun, permissions and details changed

Places == {Home} \cup Sites
ASSUME PlacesAssumption == Home \notin Sites /\ Visible \subseteq Places /\ MaxTouches \in Nat

Away == "away"      \* the place of an order that is not open
ASSUME NamesAssumption == Places \cap {Away, "same"} = {}
ASSUME FiniteAssumption == IsFiniteSet(Tickets) /\ IsFiniteSet(Movers)

NoList == [rows |-> {}, total |-> 0, kept |-> FALSE]

VARIABLES
    asked,     \* the list: its first branch, those wanted and those queried
    term,      \* kind of its search term
    like,      \* how each order is like it
    ticket,    \* where each order is, and a count of what changed on it
    may,       \* what the administrator's role may view, per branch
    kept,      \* the list in Redis
    viewer,    \* what each request for the list has read
    mover,     \* what each handler has done, and the prefixes it has to flush
    steps,     \* handlers begun and changes made so far
    doubtful   \* history: the list in Redis is behind for a reason named below

listingVars == <<asked, term, like, ticket, may, kept, viewer, mover, steps, doubtful>>

(***************************************************************************)
(* Which branches are asked for.                                           *)
(***************************************************************************)
\* The list of one branch; that of Mother has the orders of all branches.
OneBranch(b) ==
    [first |-> b, wanted |-> {b}, viewable |-> FALSE,
     queried |-> IF b = Home THEN Visible ELSE {Home, b} \cap Visible]

\* The list of several: a search looks into Mother, too.
SeveralBranches(branches, q) ==
    [first |-> Head(branches), wanted |-> {branches[i] : i \in DOMAIN branches},
     viewable |-> TRUE,
     queried |-> {branches[i] : i \in DOMAIN branches}
                    \cup IF q # "no" THEN {Home} \cap Visible ELSE {}]

ListRequests(q) ==
    {OneBranch(b) : b \in Visible}
        \cup {SeveralBranches(<<b>>, q) : b \in Visible}
        \cup {SeveralBranches(pair, q) : pair \in {x \in Visible \X Visible : x[1] # x[2]}}

(***************************************************************************)
(* What a search finds.  A term is "text" of letters, or a "short" one of  *)
(* one or two; a "number" of one or two digits, "digits", or enough of     *)
(* them for a "phone"; or letters "mixed" with five digits.  An attribute  *)
(* is the "same" as the term, "starts" with it, has it for one of its      *)
(* parts ("word"), or has it "inside".                                     *)
(***************************************************************************)
Wherever == {"same", "starts", "word", "inside"}

\* In the administrator's branches part of an attribute is enough.
PartialClauses(q) ==
    (IF q \in {"digits", "phone", "mixed"} THEN {"phone"} \X {"same", "inside"} ELSE {})
    \cup (IF q \in {"text", "mixed"} THEN {"name", "model"} \X Wherever ELSE {})
    \cup (IF q = "short" THEN {"name", "model"} \X {"same", "starts"} ELSE {})
    \cup (IF q = "number" THEN {"model"} \X Wherever ELSE {})
    \cup (IF q \in {"number", "digits", "phone"} THEN {"number"} \X {"same", "starts"} ELSE {})

\* In Mother an attribute or a part of a name must be equal to the term.
ExactClauses(q) ==
    (IF q = "phone" THEN {<<"phone", "same">>} ELSE {})
    \cup (IF q \in {"text", "short", "mixed"} THEN {"name", "model"} \X {"same", "word"} ELSE {})
    \cup (IF q \in {"number", "digits", "phone"} THEN {<<"number", "same">>} ELSE {})

Matches(q, l, place) ==
    q = "no" \/ l \in IF place = Home THEN ExactClauses(q) ELSE PartialClauses(q)

Found(o, place) == Matches(term, like[o], place)

\* Rows the role may view: those of Mother with a permission of a wanted branch.
MayView(place) ==
    IF place = Home THEN \E b \in asked.wanted : may[b] = "view" ELSE may[place] = "view"

Listed ==
    {o \in Tickets :
        /\ ticket[o].place \in asked.queried
        /\ Found(o, ticket[o].place)
        /\ asked.viewable => MayView(ticket[o].place)}

\* What the query returns now.
RowsNow == {[id |-> o, as |-> ticket[o]] : o \in Listed}

\* The request is answered without a query when no status may be seen.
NoneAllowed ==
    \A b \in asked.wanted : may[b] \in (IF asked.viewable THEN {"none", "row"} ELSE {"none"})

ListingInit ==
    /\ term \in Searches
    /\ asked \in ListRequests(term)
    /\ like \in [Tickets -> Likes]
    /\ ticket \in [Tickets -> [place : Places \cup {Away}, changed : {0}]]
    /\ may = [b \in Places |-> "view"]
    /\ kept = NoList
    /\ viewer = [v \in Viewers |-> [step |-> "rest"]]
    /\ mover = [h \in Movers |-> [step |-> "rest"]]
    /\ steps = 0
    /\ doubtful = FALSE

Unmoved == UNCHANGED <<ticket, may, mover, steps>>
SameList == UNCHANGED <<asked, term, like>>

(***************************************************************************)
(* Reading a list.                                                         *)
(***************************************************************************)
\* A list that is kept is returned and nothing changes; another is queried.
FindAll(v) ==
    /\ viewer[v].step = "rest" /\ ~NoneAllowed /\ ~kept.kept
    /\ viewer' = [viewer EXCEPT ![v] = [step |-> "querying", left |-> {"rows", "total"},
                                        rows |-> {}, total |-> 0, overtaken |-> FALSE]]
    /\ UNCHANGED <<kept, doubtful>> /\ Unmoved /\ SameList

\* Rows and totals are two queries at the same time.
QueryRows(v) ==
    /\ viewer[v].step = "querying" /\ "rows" \in viewer[v].left
    /\ viewer' = [viewer EXCEPT ![v].rows = RowsNow, ![v].left = @ \ {"rows"}]
    /\ UNCHANGED <<kept, doubtful>> /\ Unmoved /\ SameList

QueryTotal(v) ==
    /\ viewer[v].step = "querying" /\ "total" \in viewer[v].left
    /\ viewer' = [viewer EXCEPT ![v].total = Cardinality(Listed), ![v].left = @ \ {"total"}]
    /\ UNCHANGED <<kept, doubtful>> /\ Unmoved /\ SameList

StoreList(v) ==
    /\ viewer[v].step = "querying" /\ viewer[v].left = {}
    /\ kept' = [rows |-> viewer[v].rows, total |-> viewer[v].total, kept |-> TRUE]
    /\ doubtful' = viewer[v].overtaken
    /\ viewer' = [viewer EXCEPT ![v] = [step |-> "rest"]]
    /\ Unmoved /\ SameList

\* After half an hour.
Expire ==
    /\ kept.kept
    /\ kept' = NoList /\ doubtful' = FALSE
    /\ UNCHANGED viewer /\ Unmoved /\ SameList

(***************************************************************************)
(* Handlers: what they read, commit and flush.                             *)
(***************************************************************************)
Begins(h, work) ==
    /\ mover[h].step = "rest"
    /\ steps < MaxTouches /\ steps' = steps + 1
    /\ mover' = [mover EXCEPT ![h] = work]
    /\ UNCHANGED <<ticket, may, kept, viewer, doubtful>> /\ SameList

Work(o, from, to, locks) ==
    [step |-> "begun", id |-> o, from |-> from, to |-> to, locks |-> locks]

Locked(o) == \E h \in Movers : mover[h].step = "begun" /\ mover[h].id = o /\ mover[h].locks

\* The branch whose prefix is flushed is that of the row as it was read.
BeginHandler(h, o, to) ==
    /\ ticket[o].place # Away
    /\ Begins(h, Work(o, ticket[o].place, to, FALSE))

\* update, move, updateSort and the others keep the branch; softDelete and
\* transferBranch do not.
ChangeTicket(h, o) == BeginHandler(h, o, "same")
DeleteTicket(h, o) == BeginHandler(h, o, Away)
TransferTicket(h, o, to) == BeginHandler(h, o, to)

\* create, createOpenApplication, createFromWebhook, handleCallAnswered.
CreateTicket(h, o, to) ==
    /\ ticket[o].place = Away
    /\ \A g \in Movers : mover[g].step = "begun" => mover[g].id # o
    /\ Begins(h, Work(o, Away, to, FALSE))

\* take and restoreToMother lock the row as they read it.
TakeTicket(h, o, to) ==
    /\ ticket[o].place = Home /\ to # Home /\ ~Locked(o)
    /\ Begins(h, Work(o, Home, to, TRUE))

RestoreTicket(h, o) ==
    /\ ticket[o].place \in Sites /\ ~Locked(o)
    /\ Begins(h, Work(o, ticket[o].place, Home, TRUE))

\* Mutant of FlushedPrefixes: only the branch the order left.
OldPrefix(work) == {work.from} \ {Away}

FlushedPrefixes(work) == {work.from, IF work.to = "same" THEN work.from ELSE work.to} \ {Away}

\* The list is about these branches first; those the handler knew of.
Concerned(work) == asked.first \in {work.from, work.to}

Overtake == [v \in Viewers |-> IF viewer[v].step = "rest" THEN viewer[v]
                               ELSE [viewer[v] EXCEPT !.overtaken = TRUE]]

\* The row is written wherever it is by then.  A list that begins with another
\* branch than the handler knew of is not forgotten.
CommitHandler(h) ==
    /\ mover[h].step = "begun" /\ (Locked(mover[h].id) => mover[h].locks)
    /\ LET work == mover[h]
           was  == ticket[work.id]
           goes == IF work.to = "same" THEN was.place ELSE work.to
       IN  /\ ticket' = [ticket EXCEPT ![work.id] =
                [place |-> goes, changed |-> was.changed + 1]]
           /\ mover' = [mover EXCEPT ![h] = [step |-> "committed", prefixes |-> FlushedPrefixes(work)]]
           /\ doubtful' = 
                \/ doubtful \/ was.place # work.from
                \/ ~Concerned(work) /\ {was.place, goes} \cap asked.queried # {}
    /\ viewer' = Overtake
    /\ UNCHANGED <<may, kept, steps>> /\ SameList

Flushed(h, b) ==
    LET left == mover[h].prefixes \ {b}
    IN  mover' = [mover EXCEPT ![h] = IF left = {} THEN [step |-> "rest"]
                                      ELSE [step |-> "committed", prefixes |-> left]]

FlushByPrefix(h, b) ==
    /\ mover[h].step = "committed" /\ b \in mover[h].prefixes
    /\ Flushed(h, b)
    /\ IF b = asked.first THEN kept' = NoList /\ doubtful' = FALSE
                          ELSE UNCHANGED <<kept, doubtful>>
    /\ UNCHANGED <<ticket, may, viewer, steps>> /\ SameList

\* Redis does not answer, or the process ends: the rest is not flushed.
FlushLost(h) ==
    /\ mover[h].step = "committed"
    /\ mover' = [mover EXCEPT ![h] = [step |-> "rest"]]
    /\ doubtful' = (doubtful \/ asked.first \in mover[h].prefixes)
    /\ UNCHANGED <<ticket, may, kept, viewer, steps>> /\ SameList

\* The transaction fails; a request for the list fails.
AbandonHandler(h) ==
    /\ mover[h].step = "begun"
    /\ mover' = [mover EXCEPT ![h] = [step |-> "rest"]]
    /\ UNCHANGED <<ticket, may, kept, viewer, steps, doubtful>> /\ SameList

\* Comments, problems, rented phones, customers' names and the role's
\* permissions are in the list too, and whoever changes them flushes nothing.
ChangeUnflushed ==
    /\ steps < MaxTouches /\ steps' = steps + 1
    /\ \/ \E o \in Tickets : ticket' = [ticket EXCEPT ![o].changed = @ + 1] /\ UNCHANGED may
       \/ \E b \in Places, grant \in {"none", "row", "view"} :
            may' = [may EXCEPT ![b] = grant] /\ UNCHANGED ticket
    /\ doubtful' = TRUE /\ viewer' = Overtake
    /\ UNCHANGED <<kept, mover>> /\ SameList

ListingNext ==
    \/ \E v \in Viewers : FindAll(v) \/ QueryRows(v) \/ QueryTotal(v) \/ StoreList(v)
    \/ Expire
    \/ \E h \in Movers, o \in Tickets :
        \/ ChangeTicket(h, o)
        \/ DeleteTicket(h, o)
        \/ RestoreTicket(h, o)
        \/ \E to \in Places :
            \/ TransferTicket(h, o, to)
            \/ CreateTicket(h, o, to)
            \/ TakeTicket(h, o, to)
    \/ \E h \in Movers :
        \/ CommitHandler(h)
        \/ \E b \in Places : FlushByPrefix(h, b)
        \/ FlushLost(h)
        \/ AbandonHandler(h)
    \/ ChangeUnflushed

ListingSpec == ListingInit /\ [][ListingNext]_listingVars

(***************************************************************************)
(* What must hold.                                                         *)
(***************************************************************************)
\* Types: the list has orders that were in the branches queried, once each.
ListingTypeOK ==
    /\ ticket \in [Tickets -> [place : Places \cup {Away}, changed : 0 .. MaxTouches]]
    /\ may \in [Places -> {"none", "row", "view"}]
    /\ kept.total \in 0 .. Cardinality(Tickets)
    /\ \A row \in kept.rows : row.id \in Tickets /\ row.as.place \in asked.queried
    /\ steps \in 0 .. MaxTouches

\* Once the handlers that commit have flushed, the kept list is what the query
\* returns, its total included; excepted are lists read before a commit and
\* stored after its flush, orders of branches other than the one the list
\* begins with, orders that had moved since the handler read them, flushes that
\* failed, and what nobody flushes.
ListIsFresh ==
    kept.kept /\ ~doubtful /\ (\A h \in Movers : mover[h].step # "committed") =>
        kept.rows = RowsNow /\ kept.total = Cardinality(Listed)

\* Whatever a search finds among Mother's orders it still finds once a branch
\* took them; unless the term is short and is a whole word, but not the first,
\* of a name.
SearchSurvivesTake ==
    \A q \in Searches, l \in Likes, b \in Sites :
        Matches(q, l, Home) => Matches(q, l, b) \/ (q = "short" /\ l[2] = "word")

OrderListsTrue == ListIsFresh /\ SearchSurvivesTake
=============================================================================
