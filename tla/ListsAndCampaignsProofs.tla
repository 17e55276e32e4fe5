----------------------- MODULE ListsAndCampaignsProofs -----------------------
(***************************************************************************)
(* Theorems about the two parts of the shop whose handlers stop halfway    *)
(* and are run again: the ordered lists and what redis remembers of them,  *)
(* and the messages of a campaign.                                         *)
(***************************************************************************)
EXTENDS ReferenceLists, Campaigns, FiniteSetTheorems, SequenceTheorems, WellFoundedInduction,
        TLAPS

(***************************************************************************)
(* The ordered lists (ReferenceLists), for any number of rows, handlers    *)
(* and requests, wherever handlers stop.                                   *)
(*                                                                         *)
(* What a handler has still to do, and what the variables may hold.        *)
(***************************************************************************)
PutSteps == [op : {"put"}, id : Items, row : ListRows]
EditSteps == [op : {"edit", "remove"}, id : Items]
ShiftSteps == [op : {"shift"}, id : Items, from : Nat, to : Nat, all : BOOLEAN]
ForgetSteps == [op : {"forget"}, rows : SUBSET Items]
ListSteps == [op : {"list"}, key : {"own", "child"}]
OneSteps == [op : {"one"}, id : Items]

Todos ==
    PutSteps \cup EditSteps \cup ShiftSteps \cup [op : {"flush"}] \cup ForgetSteps
        \cup ListSteps \cup OneSteps

Mutates(step) == step.op \in {"put", "edit", "remove", "shift"}

HandlerFits(d) ==
    /\ d = [todo |-> d.todo, got |-> d.got, places |-> d.places, overtaken |-> d.overtaken]
    /\ d.todo \in Seq(Todos) /\ d.places \in BOOLEAN /\ d.overtaken \in BOOLEAN
    /\ d.todo = <<>> => d = NoSession
    /\ d.got = Unknown \/ d.got = Known(d.got.value)

ListsFit ==
    /\ kind \in Kinds
    /\ row \in [Items -> ListRows]
    /\ kind = "cause" => \A i \in Used : row[i].sort >= 1
    /\ one = [i \in Items |-> one[i]]
    /\ \A i \in Items :
        \/ one[i] = Unknown
        \/ /\ one[i] = Known(one[i].value) /\ kind \in CachedById
           /\ one[i].value \in ListRows /\ one[i].value.state \in {"Open", "Deleted"}
    /\ list = [n \in {"own", "child"} |-> list[n]]
    /\ \A n \in {"own", "child"} :
        \/ list[n] = Unknown
        \/ n \in Lists /\ list[n] = Known(list[n].value) /\ DOMAIN list[n].value \subseteq Used
    /\ session = [s \in Sessions |-> session[s]]
    /\ \A s \in Sessions : HandlerFits(session[s])
    /\ late \subseteq Items \cup {"own", "child"}
    /\ requests \in 0 .. MaxRequests /\ blurred \in BOOLEAN

(***************************************************************************)
(* What a handler does after another step of its own, whichever these are. *)
(***************************************************************************)
Planned(T) ==
    /\ \A m, n \in DOMAIN T : Mutates(T[m]) /\ Mutates(T[n]) => m = n
    /\ \A m, n \in DOMAIN T : Mutates(T[m]) => T[n].op # "list"
    /\ \A m, n \in DOMAIN T : Mutates(T[m]) /\ T[n].op = "one" =>
        T[n].id = T[m].id /\ (m < n => T[m].op \in {"put", "edit"})
    /\ \A m \in DOMAIN T :
        Mutates(T[m]) /\ kind # "os" /\ ~(kind = "branch" /\ T[m].op = "put") =>
            \E n \in DOMAIN T : m < n /\ T[n].op = "flush"
    /\ \A m \in DOMAIN T :
        T[m].op \in {"edit", "remove"} /\ kind \in CachedById =>
            \E n \in DOMAIN T : m < n /\ T[m].id \in KeysOf(T[n])
    /\ \A m \in DOMAIN T : T[m].op = "shift" =>
        /\ kind \in Sorted
        /\ kind \in {"status", "cause"} => ~T[m].all
        /\ kind = "cause" => T[m].from >= 1 /\ T[m].to >= 1
        /\ kind = "cause" => \E n \in DOMAIN T : m < n /\ T[m].id \in KeysOf(T[n])
        /\ kind = "branch" =>
            \E n \in DOMAIN T : m < n /\ T[n].op = "forget" /\ T[n].rows = Items
    /\ \A m \in DOMAIN T : T[m].op = "put" =>
        T[m].row.state = "Open" /\ (kind = "cause" => T[m].row.sort >= 1)
    /\ \A n \in DOMAIN T : T[n].op = "one" => kind \in CachedById
    /\ \A n \in DOMAIN T : T[n].op = "list" => T[n].key \in Lists

\* Rows between two places.
Between(j, from, to) == (to <= row[j].sort /\ row[j].sort < from) \/ (from < row[j].sort /\ row[j].sort <= to)

Spans(step, rows) ==
    step.id \in rows /\ \A j \in Open : Between(j, step.from, step.to) => j \in rows

Creates(d) ==
    \A n \in DOMAIN d.todo : d.todo[n].op = "put" =>
        /\ row[d.todo[n].id].state = "absent"
        /\ one[d.todo[n].id].known => one[d.todo[n].id].value = d.todo[n].row
        /\ \A m \in DOMAIN d.todo : m < n /\ d.todo[m].op = "one" => d.got = Known(d.todo[n].row)

\* What is to be stored, read in the database or in redis.
Holds(d) ==
    \A n \in DOMAIN d.todo :
        d.todo[n].op = "one" /\ (\A m \in DOMAIN d.todo : Mutates(d.todo[m]) => n < m /\ d.todo[m].op # "put") =>
            /\ d.todo[n].id \in Used /\ d.got.known /\ d.got.value \in ListRows
            /\ d.got.value.state \in {"Open", "Deleted"}
            /\ ~d.overtaken => d.got.value = row[d.todo[n].id] /\ row[d.todo[n].id].state = "Open"

EditsOf(d) ==
    \A m, n \in DOMAIN d.todo :
        m < n /\ d.todo[m].op = "edit" /\ d.todo[n].op = "one" =>
            d.overtaken \/ row[d.todo[m].id].state = "Open"

Answers(d) ==
    \A n \in DOMAIN d.todo : d.todo[n].op = "list" =>
        /\ d.got.known /\ DOMAIN d.got.value \subseteq Used
        /\ ~d.overtaken => d.got.value = View

Moves(d) ==
    \A m \in DOMAIN d.todo :
        d.todo[m].op = "shift" /\ kind = "status" /\ ~d.overtaken =>
            \E n \in DOMAIN d.todo :
                m < n /\ d.todo[n].op = "forget" /\ Spans(d.todo[m], d.todo[n].rows)

HandlerTrue(d) == Planned(d.todo) /\ Creates(d) /\ Holds(d) /\ EditsOf(d) /\ Answers(d) /\ Moves(d)

\* Creations under way are of different rows.
Apart ==
    \A s, q \in Sessions : s # q =>
        \A m \in DOMAIN session[s].todo, n \in DOMAIN session[q].todo :
            session[s].todo[m].op = "put" /\ session[q].todo[n].op = "put" =>
                session[s].todo[m].id # session[q].todo[n].id

\* The keys a handler sees to whatever it finds: before it has changed a row
\* it may still be refused.
SureOf(T) ==
    {k \in Items \cup {"own"} :
        \E n \in DOMAIN T : k \in KeysOf(T[n]) /\ \A m \in DOMAIN T : m < n => ~Mutates(T[m])}

Covered == \A k \in Wrong : k \in late \/ \E s \in Sessions : k \in SureOf(session[s].todo)

ListsInv ==
    /\ ListsFit
    /\ \A s \in Sessions : HandlerTrue(session[s])
    /\ Apart
    /\ Covered

\* Places.
PlacesTold(d) ==
    kind \in Sorted => \A n \in DOMAIN d.todo : d.todo[n].op \in {"put", "shift"} => d.places

PlacesKnown(d) ==
    \A n \in DOMAIN d.todo :
        /\ d.todo[n].op = "put" => \A j \in Open : row[j].sort < d.todo[n].row.sort
        /\ d.todo[n].op = "shift" =>
            /\ row[d.todo[n].id].sort = d.todo[n].from
            /\ \A j \in Open : j # d.todo[n].id => row[j].sort # d.todo[n].from

PlacesInv ==
    /\ \A s \in Sessions : PlacesTold(session[s])
    /\ kind \in Sorted /\ ~blurred =>
        /\ \A s, q \in Sessions : session[s].places /\ session[q].places => s = q
        /\ \A s \in Sessions : PlacesKnown(session[s])
        /\ \A i, j \in Open : i # j => row[i].sort # row[j].sort
LEMMA TodoIs ==
    ASSUME NEW e \in Todos
    PROVE  /\ e.op \in {"put", "edit", "remove", "shift", "flush", "forget", "list", "one"}
           /\ e.op = "put" => e.id \in Items /\ e.row \in ListRows
           /\ e.op \in {"edit", "remove", "shift", "one"} => e.id \in Items
           /\ e.op = "shift" => e.from \in Nat /\ e.to \in Nat /\ e.all \in BOOLEAN
           /\ e.op = "forget" => e.rows \subseteq Items
           /\ e.op = "list" => e.key \in {"own", "child"}
<1>1. CASE e \in PutSteps
  BY <1>1 DEF PutSteps
<1>2. CASE e \in EditSteps
  BY <1>2 DEF EditSteps
<1>3. CASE e \in ShiftSteps
  BY <1>3 DEF ShiftSteps
<1>4. CASE e \in [op : {"flush"}]
  BY <1>4
<1>5. CASE e \in ForgetSteps
  BY <1>5 DEF ForgetSteps
<1>6. CASE e \in ListSteps
  BY <1>6 DEF ListSteps
<1>7. CASE e \in OneSteps
  BY <1>7 DEF OneSteps
<1> QED
  BY <1>1, <1>2, <1>3, <1>4, <1>5, <1>6, <1>7 DEF Todos

LEMMA KeysOfIs ==
    ASSUME NEW e \in Todos
    PROVE  /\ KeysOf(e) \subseteq Items \cup {"own"}
           /\ e.op = "flush" => KeysOf(e) = {"own"}
           /\ e.op = "forget" => KeysOf(e) = e.rows
           /\ e.op \in {"one", "put"} => KeysOf(e) = {e.id}
           /\ e.op \in {"edit", "remove", "shift", "list"} => KeysOf(e) = {}
BY TodoIs DEF KeysOf

LEMMA RestIs ==
    ASSUME NEW T \in Seq(Todos), T # <<>>
    PROVE  /\ Len(T) \in Nat \ {0} /\ DOMAIN T = 1 .. Len(T)
           /\ 1 \in DOMAIN T /\ Head(T) = T[1] /\ T[1] \in Todos
           /\ \A n \in DOMAIN T : T[n] \in Todos
           /\ Tail(T) \in Seq(Todos) /\ DOMAIN Tail(T) = 1 .. (Len(T) - 1)
           /\ \A n \in DOMAIN Tail(T) : n \in Nat \ {0} /\ n + 1 \in DOMAIN T /\ Tail(T)[n] = T[n + 1]
           /\ \A n \in DOMAIN T : n # 1 => n - 1 \in DOMAIN Tail(T) /\ Tail(T)[n - 1] = T[n]
           /\ Len(T) = 1 <=> Tail(T) = <<>>
<1>1. Len(T) \in Nat \ {0} /\ DOMAIN T = 1 .. Len(T) /\ Head(T) = T[1]
  OBVIOUS
<1>2. \A n \in 1 .. Len(T) : T[n] \in Todos
  OBVIOUS
<1>3. /\ Tail(T) \in Seq(Todos) /\ Len(Tail(T)) = Len(T) - 1
      /\ \A n \in 1 .. (Len(T) - 1) : Tail(T)[n] = T[n + 1]
  OBVIOUS
<1>4. DOMAIN Tail(T) = 1 .. (Len(T) - 1)
  BY <1>1, <1>3
<1>5. Len(T) = 1 <=> Tail(T) = <<>>
  <2>1. Len(Tail(T)) = 0 <=> Tail(T) = <<>>
    BY <1>3, EmptySeq
  <2> QED BY <2>1, <1>1, <1>3
<1>6. \A n \in DOMAIN Tail(T) : n \in Nat \ {0} /\ n + 1 \in DOMAIN T /\ Tail(T)[n] = T[n + 1]
  BY <1>1, <1>3, <1>4
<1>7. \A n \in DOMAIN T : n # 1 => n - 1 \in DOMAIN Tail(T) /\ Tail(T)[n - 1] = T[n]
  <2> TAKE n \in DOMAIN T
  <2> HAVE n # 1
  <2>1. n \in 1 .. Len(T) /\ n - 1 \in 1 .. (Len(T) - 1) /\ (n - 1) + 1 = n
    BY <1>1
  <2> QED BY <2>1, <1>3, <1>4
<1> QED BY <1>1, <1>2, <1>3, <1>4, <1>5, <1>6, <1>7

\* The rest of a handler that goes on, or is done.
LEMMA Onward ==
    ASSUME NEW d, HandlerFits(d), d.todo # <<>>,
           NEW e, e = IF Len(d.todo) = 1 THEN NoSession ELSE [d EXCEPT !.todo = Tail(d.todo)]
    PROVE  /\ HandlerFits(e) /\ e.todo = Tail(d.todo)
           /\ e.places => d.places
           /\ e.todo # <<>> => e.got = d.got /\ e.overtaken = d.overtaken /\ e.places = d.places
<1>1. d.todo \in Seq(Todos)
  BY DEF HandlerFits
<1>2. /\ Len(d.todo) = 1 <=> Tail(d.todo) = <<>>
      /\ Tail(d.todo) \in Seq(Todos)
  BY <1>1, RestIs
<1>3. CASE Len(d.todo) = 1
  <2>1. e = NoSession /\ Tail(d.todo) = <<>>
    BY <1>2, <1>3
  <2>2. /\ NoSession.todo = <<>> /\ NoSession.got = Unknown
        /\ NoSession.places = FALSE /\ NoSession.overtaken = FALSE
        /\ NoSession = [todo |-> <<>>, got |-> Unknown, places |-> FALSE, overtaken |-> FALSE]
    BY DEF NoSession
  <2> QED BY <2>1, <2>2, <1>2 DEF HandlerFits
<1>4. CASE Len(d.todo) # 1
  <2>1. e = [d EXCEPT !.todo = Tail(d.todo)] /\ Tail(d.todo) # <<>>
    BY <1>2, <1>4
  <2>2. e = [todo |-> Tail(d.todo), got |-> d.got, places |-> d.places, overtaken |-> d.overtaken]
    BY <2>1 DEF HandlerFits
  <2> QED BY <2>1, <2>2, <1>2 DEF HandlerFits
<1> QED BY <1>3, <1>4

LEMMA PlannedTail ==
    ASSUME NEW T \in Seq(Todos), T # <<>>, Planned(T)
    PROVE  Planned(Tail(T))
<1> DEFINE U == Tail(T)
<1>1. /\ \A n \in DOMAIN U : n \in Nat \ {0} /\ n + 1 \in DOMAIN T /\ U[n] = T[n + 1]
      /\ \A n \in DOMAIN T : n \in Nat /\ (n # 1 => n - 1 \in DOMAIN U /\ U[n - 1] = T[n])
  BY RestIs
<1> HIDE DEF U
<1>2. \A m, n \in DOMAIN U : Mutates(U[m]) /\ Mutates(U[n]) => m = n
  BY <1>1 DEF Planned
<1>3. \A m, n \in DOMAIN U : Mutates(U[m]) => U[n].op # "list"
  BY <1>1 DEF Planned
<1>4. \A m, n \in DOMAIN U : Mutates(U[m]) /\ U[n].op = "one" =>
        U[n].id = U[m].id /\ (m < n => U[m].op \in {"put", "edit"})
  BY <1>1 DEF Planned
<1>5. ASSUME NEW m \in DOMAIN U, NEW k \in DOMAIN T, m + 1 < k
      PROVE  k - 1 \in DOMAIN U /\ m < k - 1 /\ U[k - 1] = T[k]
  BY <1>1, <1>5
<1>6. \A m \in DOMAIN U :
        Mutates(U[m]) /\ kind # "os" /\ ~(kind = "branch" /\ U[m].op = "put") =>
            \E n \in DOMAIN U : m < n /\ U[n].op = "flush"
  <2> SUFFICES ASSUME NEW m \in DOMAIN U,
                      Mutates(U[m]), kind # "os", ~(kind = "branch" /\ U[m].op = "put")
               PROVE  \E n \in DOMAIN U : m < n /\ U[n].op = "flush"
    OBVIOUS
  <2>1. PICK k \in DOMAIN T : m + 1 < k /\ T[k].op = "flush"
    BY <1>1 DEF Planned
  <2> QED BY <2>1, <1>5
<1>7. \A m \in DOMAIN U :
        U[m].op \in {"edit", "remove"} /\ kind \in CachedById =>
            \E n \in DOMAIN U : m < n /\ U[m].id \in KeysOf(U[n])
  <2> SUFFICES ASSUME NEW m \in DOMAIN U, U[m].op \in {"edit", "remove"}, kind \in CachedById
               PROVE  \E n \in DOMAIN U : m < n /\ U[m].id \in KeysOf(U[n])
    OBVIOUS
  <2>1. PICK k \in DOMAIN T : m + 1 < k /\ U[m].id \in KeysOf(T[k])
    BY <1>1 DEF Planned
  <2> QED BY <2>1, <1>5
<1>8. ASSUME NEW m \in DOMAIN U, U[m].op = "shift"
      PROVE
        /\ kind \in Sorted
        /\ kind \in {"status", "cause"} => ~U[m].all
        /\ kind = "cause" => U[m].from >= 1 /\ U[m].to >= 1
        /\ kind = "cause" => \E n \in DOMAIN U : m < n /\ U[m].id \in KeysOf(U[n])
        /\ kind = "branch" =>
            \E n \in DOMAIN U : m < n /\ U[n].op = "forget" /\ U[n].rows = Items
  <2>1. /\ kind \in Sorted
        /\ kind \in {"status", "cause"} => ~U[m].all
        /\ kind = "cause" => U[m].from >= 1 /\ U[m].to >= 1
    BY <1>1, <1>8 DEF Planned
  <2>2. ASSUME kind = "cause" PROVE \E n \in DOMAIN U : m < n /\ U[m].id \in KeysOf(U[n])
    <3>0. m + 1 \in DOMAIN T /\ T[m + 1] = U[m]
      BY <1>1
    <3>1. PICK k \in DOMAIN T : m + 1 < k /\ U[m].id \in KeysOf(T[k])
      BY <3>0, <1>8, <2>2 DEF Planned
    <3> QED BY <3>1, <1>5
  <2>3. ASSUME kind = "branch"
        PROVE  \E n \in DOMAIN U : m < n /\ U[n].op = "forget" /\ U[n].rows = Items
    <3>1. PICK k \in DOMAIN T : m + 1 < k /\ T[k].op = "forget" /\ T[k].rows = Items
      BY <1>1, <1>8, <2>3 DEF Planned
    <3> QED BY <3>1, <1>5
  <2> QED BY <2>1, <2>2, <2>3
<1>9. /\ \A m \in DOMAIN U : U[m].op = "put" =>
            U[m].row.state = "Open" /\ (kind = "cause" => U[m].row.sort >= 1)
      /\ \A n \in DOMAIN U : U[n].op = "one" => kind \in CachedById
      /\ \A n \in DOMAIN U : U[n].op = "list" => U[n].key \in Lists
  BY <1>1 DEF Planned
<1> QED
  BY <1>2, <1>3, <1>4, <1>6, <1>7, <1>8, <1>9 DEF Planned, U

(***************************************************************************)
(* Steps that change no row.                                               *)
(***************************************************************************)
\* What redis is told agrees with what a handler is about to insert.
OneKept(s) ==
    \A n \in DOMAIN session[s].todo : session[s].todo[n].op = "put" =>
        (one'[session[s].todo[n].id].known =>
            one'[session[s].todo[n].id].value = session[s].todo[n].row)

LEMMA TrueWaiting ==
    ASSUME NEW s \in Sessions, HandlerTrue(session[s]), session'[s] = session[s],
           UNCHANGED <<kind, row>>, OneKept(s)
    PROVE  HandlerTrue(session[s])'
<1>1. Open' = Open /\ Used' = Used /\ Lists' = Lists
  BY DEF Open, Used, Lists
<1>1a. View' = View
  BY <1>1 DEF View
<1>2. Planned(session[s].todo)'
  BY <1>1 DEF HandlerTrue, Planned
<1>3. Creates(session[s])'
  BY DEF HandlerTrue, Creates, OneKept
<1>4. Holds(session[s])' /\ EditsOf(session[s])'
  BY <1>1 DEF HandlerTrue, Holds, EditsOf
<1>5. Answers(session[s])'
  BY <1>1, <1>1a DEF HandlerTrue, Answers
<1>6. Moves(session[s])'
  BY <1>1 DEF HandlerTrue, Moves, Spans, Between
<1> QED BY <1>2, <1>3, <1>4, <1>5, <1>6 DEF HandlerTrue

LEMMA TrueOnward ==
    ASSUME NEW s \in Sessions, HandlerFits(session[s]), session[s].todo # <<>>,
           HandlerTrue(session[s]), ~Mutates(Head(session[s].todo)),
           session'[s].todo = Tail(session[s].todo),
           session'[s].todo # <<>> =>
                session'[s].got = session[s].got /\ session'[s].overtaken = session[s].overtaken,
           UNCHANGED <<kind, row>>, OneKept(s)
    PROVE  HandlerTrue(session[s])'
<1> DEFINE T == session[s].todo
           U == session'[s].todo
<1>1. Open' = Open /\ Used' = Used /\ Lists' = Lists
  BY DEF Open, Used, Lists
<1>1a. View' = View
  BY <1>1 DEF View
<1>2. T \in Seq(Todos) /\ T # <<>>
  BY DEF HandlerFits
<1>3. /\ \A n \in DOMAIN U : n \in Nat \ {0} /\ n + 1 \in DOMAIN T /\ U[n] = T[n + 1]
      /\ \A n \in DOMAIN T : n \in Nat /\ (n # 1 => n - 1 \in DOMAIN U /\ U[n - 1] = T[n])
      /\ ~Mutates(T[1])
  <2>1. Head(T) = T[1] /\ DOMAIN T = 1 .. Len(T) /\ Len(T) \in Nat
    BY <1>2, RestIs
  <2>2. ~Mutates(T[1])
    BY <2>1
  <2>3. /\ \A n \in DOMAIN U : n \in Nat \ {0} /\ n + 1 \in DOMAIN T /\ U[n] = T[n + 1]
        /\ \A n \in DOMAIN T : n # 1 => n - 1 \in DOMAIN U /\ U[n - 1] = T[n]
    BY <1>2, RestIs
  <2>4. \A n \in DOMAIN T : n \in Nat
    BY <2>1
  <2> QED BY <2>2, <2>3, <2>4
<1>4. \A n \in DOMAIN U : session'[s].got = session[s].got /\ session'[s].overtaken = session[s].overtaken
  BY <1>3, <1>2
<1>5. Planned(session[s].todo)'
  <2>1. Planned(U)
    BY <1>2, PlannedTail DEF HandlerTrue
  <2> QED BY <2>1, <1>1 DEF Planned
<1>6. Creates(session[s])'
  <2> SUFFICES ASSUME NEW n \in DOMAIN U, U[n].op = "put"
               PROVE  /\ row'[U[n].id].state = "absent"
                      /\ one'[U[n].id].known => one'[U[n].id].value = U[n].row
                      /\ \A m \in DOMAIN U : m < n /\ U[m].op = "one" =>
                            session'[s].got = Known(U[n].row)
    BY DEF Creates
  <2>1. n + 1 \in DOMAIN T /\ T[n + 1] = U[n]
    BY <1>3
  <2>2. row[U[n].id].state = "absent"
    BY <2>1 DEF HandlerTrue, Creates
  <2>3. one'[U[n].id].known => one'[U[n].id].value = U[n].row
    BY <2>1 DEF OneKept
  <2>4. ASSUME NEW m \in DOMAIN U, m < n, U[m].op = "one" PROVE session'[s].got = Known(U[n].row)
    <3>1. m + 1 \in DOMAIN T /\ T[m + 1].op = "one" /\ m + 1 < n + 1
      BY <1>3, <2>4
    <3>2. session[s].got = Known(U[n].row)
      BY <3>1, <2>1 DEF HandlerTrue, Creates
    <3> QED BY <3>2, <1>4
  <2> QED BY <2>2, <2>3, <2>4
<1>7. Holds(session[s])'
  <2> SUFFICES ASSUME NEW n \in DOMAIN U, U[n].op = "one",
                      \A m \in DOMAIN U : Mutates(U[m]) => n < m /\ U[m].op # "put"
               PROVE  /\ U[n].id \in Used /\ session'[s].got.known /\ session'[s].got.value \in ListRows
                      /\ session'[s].got.value.state \in {"Open", "Deleted"}
                      /\ ~session'[s].overtaken =>
                            session'[s].got.value = row[U[n].id] /\ row[U[n].id].state = "Open"
    BY <1>1 DEF Holds, Mutates
  <2>1. n + 1 \in DOMAIN T /\ T[n + 1] = U[n]
    BY <1>3
  <2>2. ASSUME NEW m \in DOMAIN T, Mutates(T[m]) PROVE n + 1 < m /\ T[m].op # "put"
    <3>1. m \in Nat /\ m - 1 \in DOMAIN U /\ U[m - 1] = T[m]
      BY <2>2, <1>3
    <3>2. n < m - 1 /\ U[m - 1].op # "put"
      BY <3>1, <2>2
    <3>3. n \in Nat
      BY <1>3
    <3> QED BY <3>1, <3>2, <3>3
  <2>3. /\ T[n + 1].id \in Used /\ session[s].got.known /\ session[s].got.value \in ListRows
        /\ session[s].got.value.state \in {"Open", "Deleted"}
        /\ ~session[s].overtaken =>
              session[s].got.value = row[T[n + 1].id] /\ row[T[n + 1].id].state = "Open"
    BY <2>1, <2>2 DEF HandlerTrue, Holds
  <2> QED BY <2>1, <2>3, <1>4
<1>8. EditsOf(session[s])'
  <2> SUFFICES ASSUME NEW m \in DOMAIN U, NEW n \in DOMAIN U,
                      m < n, U[m].op = "edit", U[n].op = "one"
               PROVE  session'[s].overtaken \/ row[U[m].id].state = "Open"
    BY DEF EditsOf
  <2>1. /\ m + 1 \in DOMAIN T /\ T[m + 1] = U[m]
        /\ n + 1 \in DOMAIN T /\ T[n + 1] = U[n] /\ m + 1 < n + 1
    BY <1>3
  <2>2. session[s].overtaken \/ row[U[m].id].state = "Open"
    BY <2>1 DEF HandlerTrue, EditsOf
  <2> QED BY <2>2, <1>4
<1>9. Answers(session[s])'
  <2> SUFFICES ASSUME NEW n \in DOMAIN U, U[n].op = "list"
               PROVE  /\ session'[s].got.known /\ DOMAIN session'[s].got.value \subseteq Used
                      /\ ~session'[s].overtaken => session'[s].got.value = View
    BY <1>1, <1>1a DEF Answers
  <2>1. n + 1 \in DOMAIN T /\ T[n + 1] = U[n]
    BY <1>3
  <2> QED BY <2>1, <1>4 DEF HandlerTrue, Answers
<1>10. Moves(session[s])'
  <2> SUFFICES ASSUME NEW m \in DOMAIN U, U[m].op = "shift", kind = "status", ~session'[s].overtaken
               PROVE  \E n \in DOMAIN U : m < n /\ U[n].op = "forget" /\ Spans(U[m], U[n].rows)
    BY <1>1 DEF Moves, Spans, Between
  <2>1. m + 1 \in DOMAIN T /\ T[m + 1] = U[m] /\ ~session[s].overtaken
    BY <1>3, <1>4
  <2>2. PICK k \in DOMAIN T : m + 1 < k /\ T[k].op = "forget" /\ Spans(U[m], T[k].rows)
    BY <2>1 DEF HandlerTrue, Moves
  <2>3. k - 1 \in DOMAIN U /\ m < k - 1 /\ U[k - 1] = T[k]
    BY <1>3, <2>2
  <2> QED BY <2>2, <2>3
<1> QED BY <1>5, <1>6, <1>7, <1>8, <1>9, <1>10 DEF HandlerTrue

\* What the rest of a handler sees to, a step later.
LEMMA SureOnward ==
    ASSUME NEW T \in Seq(Todos), T # <<>>, ~Mutates(T[1]), NEW k \in SureOf(T), k \notin KeysOf(T[1])
    PROVE  k \in SureOf(Tail(T))
<1> DEFINE U == Tail(T)
<1>1. /\ \A n \in DOMAIN U : n \in Nat \ {0} /\ n + 1 \in DOMAIN T /\ U[n] = T[n + 1]
      /\ \A n \in DOMAIN T : n \in Nat /\ (n # 1 => n - 1 \in DOMAIN U /\ U[n - 1] = T[n])
  BY RestIs
<1> HIDE DEF U
<1>2. PICK n \in DOMAIN T : k \in KeysOf(T[n]) /\ \A m \in DOMAIN T : m < n => ~Mutates(T[m])
  BY DEF SureOf
<1>3. n - 1 \in DOMAIN U /\ U[n - 1] = T[n]
  BY <1>1, <1>2
<1>4. \A m \in DOMAIN U : m < n - 1 => ~Mutates(U[m])
  BY <1>1, <1>2
<1>5. k \in Items \cup {"own"}
  BY DEF SureOf
<1> QED BY <1>2, <1>3, <1>4, <1>5 DEF SureOf, U

LEMMA ProceedIs ==
    ASSUME ListsFit, NEW s \in Sessions, session[s] # NoSession, Proceed(s)
    PROVE  /\ session[s].todo \in Seq(Todos) /\ session[s].todo # <<>>
           /\ session[s].todo[1] \in Todos /\ Step(s) = session[s].todo[1]
           /\ session'[s].todo = Tail(session[s].todo)
           /\ session'[s].todo # <<>> =>
                session'[s].got = session[s].got /\ session'[s].overtaken = session[s].overtaken
           /\ session'[s].places => session[s].places
           /\ session'[s].todo # <<>> => session'[s].places = session[s].places
           /\ \A q \in Sessions \ {s} : session'[q] = session[q]
           /\ session' = [q \in Sessions |-> session'[q]]
           /\ \A q \in Sessions : HandlerFits(session[q])'
<1>0. session = [q \in Sessions |-> session[q]] /\ \A q \in Sessions : HandlerFits(session[q])
  BY DEF ListsFit
<1>1. session[s].todo \in Seq(Todos) /\ session[s].todo # <<>>
  BY <1>0 DEF HandlerFits
<1>2. session[s].todo[1] \in Todos /\ Step(s) = session[s].todo[1]
  BY <1>1, RestIs DEF Step
<1>3. /\ session'[s] = IF Len(session[s].todo) = 1 THEN NoSession
                       ELSE [session[s] EXCEPT !.todo = Tail(session[s].todo)]
      /\ \A q \in Sessions \ {s} : session'[q] = session[q]
      /\ session' = [q \in Sessions |-> session'[q]]
  BY <1>0 DEF Proceed
<1>4. /\ HandlerFits(session'[s]) /\ session'[s].todo = Tail(session[s].todo)
      /\ session'[s].places => session[s].places
      /\ session'[s].todo # <<>> => session'[s].places = session[s].places
      /\ session'[s].todo # <<>> =>
            session'[s].got = session[s].got /\ session'[s].overtaken = session[s].overtaken
  <2> DEFINE d == session[s]
             e == session'[s]
  <2>1. HandlerFits(d) /\ d.todo # <<>>
    BY <1>0, <1>1
  <2>2. e = IF Len(d.todo) = 1 THEN NoSession ELSE [d EXCEPT !.todo = Tail(d.todo)]
    BY <1>3
  <2> HIDE DEF d, e
  <2>3. HandlerFits(e) /\ e.todo = Tail(d.todo) /\ (e.places => d.places)
        /\ (e.todo # <<>> => e.got = d.got /\ e.overtaken = d.overtaken /\ e.places = d.places)
    BY <2>1, <2>2, Onward
  <2> QED BY <2>3 DEF d, e
<1>5. \A q \in Sessions : HandlerFits(session'[q])
  BY <1>0, <1>3, <1>4
<1>6. \A q \in Sessions : HandlerFits(session[q])'
  BY <1>5 DEF HandlerFits
<1> QED BY <1>1, <1>2, <1>3, <1>4, <1>6

LEMMA ProceedKeeps ==
    ASSUME ListsInv, NEW s \in Sessions, session[s] # NoSession, Proceed(s), ~Mutates(Step(s)),
           UNCHANGED row, \A q \in Sessions : OneKept(q),
           \A k \in Wrong' : k \notin late' =>
                \/ k \in Wrong /\ k \notin late /\ k \notin KeysOf(Step(s))
                \/ k \in SureOf(Tail(session[s].todo))
    PROVE  (\A q \in Sessions : HandlerTrue(session[q])') /\ Apart' /\ Covered'
<1>0. ListsFit /\ (\A q \in Sessions : HandlerTrue(session[q])) /\ Apart /\ Covered
  BY DEF ListsInv
<1>1. /\ session[s].todo \in Seq(Todos) /\ session[s].todo # <<>>
      /\ Step(s) = session[s].todo[1]
      /\ session'[s].todo = Tail(session[s].todo)
      /\ session'[s].todo # <<>> =>
                session'[s].got = session[s].got /\ session'[s].overtaken = session[s].overtaken
      /\ \A q \in Sessions \ {s} : session'[q] = session[q]
  BY <1>0, ProceedIs
<1>2. UNCHANGED <<kind, row>>
  BY DEF Proceed
<1>3. ASSUME NEW q \in Sessions PROVE HandlerTrue(session[q])'
  <2>1. CASE q # s
    BY <2>1, <1>0, <1>1, <1>2, TrueWaiting
  <2>2. CASE q = s
    <3>1. HandlerFits(session[s]) /\ ~Mutates(Head(session[s].todo))
      BY <1>0, <1>1 DEF ListsFit, Step
    <3>2. HandlerTrue(session[s])'
      BY <3>1, <1>0, <1>1, <1>2, TrueOnward
    <3> QED BY <3>2, <2>2
  <2> QED BY <2>1, <2>2
<1>4. \A n \in DOMAIN session'[s].todo :
        n + 1 \in DOMAIN session[s].todo /\ session'[s].todo[n] = session[s].todo[n + 1]
  BY <1>1, RestIs
<1>5. Apart'
  <2>1. \A q \in Sessions : \A n \in DOMAIN session'[q].todo :
            \E m \in DOMAIN session[q].todo : session[q].todo[m] = session'[q].todo[n]
    <3> TAKE q \in Sessions
    <3>1. CASE q = s
      BY <3>1, <1>4
    <3>2. CASE q # s
      BY <3>2, <1>1
    <3> QED BY <3>1, <3>2
  <2> QED BY <2>1, <1>0 DEF Apart
<1>6. ASSUME NEW k \in Wrong' PROVE k \in late' \/ \E q \in Sessions : k \in SureOf(session'[q].todo)
  <2>1. CASE k \in Wrong /\ k \notin late /\ k \notin KeysOf(Step(s))
    <3>1. PICK q \in Sessions : k \in SureOf(session[q].todo)
      BY <2>1, <1>0 DEF Covered
    <3>2. CASE q # s
      BY <3>1, <3>2, <1>1
    <3>3. CASE q = s
      <4>1. k \in SureOf(Tail(session[s].todo))
        BY <3>1, <3>3, <2>1, <1>1, SureOnward
      <4> QED BY <4>1, <1>1
    <3> QED BY <3>2, <3>3
  <2> QED BY <2>1, <1>1
<1>7. Covered'
  BY <1>6 DEF Covered, SureOf, Mutates, KeysOf
<1> QED BY <1>3, <1>5, <1>7

LEMMA AnswersFit ==
    ASSUME ListsFit, UNCHANGED <<kind, row>>,
           session' = [q \in Sessions |-> session'[q]],
           \A q \in Sessions : HandlerFits(session[q])',
           requests' \in 0 .. MaxRequests, blurred' \in BOOLEAN,
           late' \subseteq Items \cup {"own", "child"},
           one' = [i \in Items |-> one'[i]],
           \A i \in Items : one'[i] \in {one[i], Unknown}
                \/ /\ one'[i] = Known(one'[i].value) /\ kind \in CachedById
                   /\ one'[i].value \in ListRows /\ one'[i].value.state \in {"Open", "Deleted"},
           list' = [n \in {"own", "child"} |-> list'[n]],
           \A n \in {"own", "child"} : list'[n] \in {list[n], Unknown}
                \/ (n \in Lists /\ list'[n] = Known(list'[n].value) /\ DOMAIN list'[n].value \subseteq Used)
    PROVE  ListsFit'
<1>1. Used' = Used /\ Lists' = Lists
  BY DEF Used, Lists
<1>2. /\ kind' \in Kinds /\ row' \in [Items -> ListRows]
      /\ kind' = "cause" => \A i \in Used' : row'[i].sort >= 1
  BY <1>1 DEF ListsFit
<1>3. \A i \in Items :
        \/ one'[i] = Unknown
        \/ /\ one'[i] = Known(one'[i].value) /\ kind' \in CachedById
           /\ one'[i].value \in ListRows /\ one'[i].value.state \in {"Open", "Deleted"}
  BY DEF ListsFit
<1>4. \A n \in {"own", "child"} :
        \/ list'[n] = Unknown
        \/ n \in Lists' /\ list'[n] = Known(list'[n].value) /\ DOMAIN list'[n].value \subseteq Used'
  BY <1>1 DEF ListsFit
<1> QED BY <1>2, <1>3, <1>4 DEF ListsFit

LEMMA FlushKeeps ==
    ASSUME ListsInv, NEW s \in Sessions, Flush(s)
    PROVE  ListsInv'
<1>0. ListsFit /\ (\A q \in Sessions : HandlerTrue(session[q]))
  BY DEF ListsInv
<1>1. /\ session[s] # NoSession /\ Proceed(s) /\ Step(s).op = "flush"
      /\ list' = [list EXCEPT !["own"] = Unknown]
      /\ late' = late \ {"own"} /\ UNCHANGED <<kind, row, one, requests, blurred>>
  BY DEF Flush, Doing, Step, Proceed
<1>2. /\ Step(s) \in Todos /\ \A q \in Sessions : HandlerFits(session[q])'
      /\ session' = [q \in Sessions |-> session'[q]]
  BY <1>0, <1>1, ProceedIs
<1>3. KeysOf(Step(s)) = {"own"}
  BY <1>1, <1>2, KeysOfIs
<1>4. /\ list' = [n \in {"own", "child"} |-> list'[n]]
      /\ list'["own"] = Unknown /\ list'["child"] = list["child"]
  BY <1>0, <1>1 DEF ListsFit
<1>5. ListsFit'
  <2>1. requests' \in 0 .. MaxRequests /\ blurred' \in BOOLEAN
        /\ late' \subseteq Items \cup {"own", "child"}
        /\ one' = [i \in Items |-> one'[i]]
    BY <1>0, <1>1 DEF ListsFit
  <2>2. \A i \in Items : one'[i] \in {one[i], Unknown}
                \/ /\ one'[i] = Known(one'[i].value) /\ kind \in CachedById
                   /\ one'[i].value \in ListRows /\ one'[i].value.state \in {"Open", "Deleted"}
    BY <1>1
  <2>3. \A n \in {"own", "child"} : list'[n] \in {list[n], Unknown}
                \/ (n \in Lists /\ list'[n] = Known(list'[n].value) /\ DOMAIN list'[n].value \subseteq Used)
    BY <1>4
  <2>4. UNCHANGED <<kind, row>>
    BY <1>1
  <2> QED BY <2>1, <2>2, <2>3, <2>4, <1>0, <1>2, <1>4, AnswersFit
<1>6. \A q \in Sessions : OneKept(q)
  BY <1>0, <1>1 DEF OneKept, HandlerTrue, Creates
<1>7. View' = View /\ Lists' = Lists
  BY <1>1 DEF View, Open, Lists
<1>8. \A k \in Wrong' : k \in Wrong /\ k # "own"
  BY <1>1, <1>4, <1>7, ItemsAssumption DEF Wrong, Unknown, Lists
<1>9. \A k \in Wrong' : k \notin late' =>
                \/ k \in Wrong /\ k \notin late /\ k \notin KeysOf(Step(s))
                \/ k \in SureOf(Tail(session[s].todo))
  BY <1>1, <1>3, <1>8
<1>10. ~Mutates(Step(s))
  BY <1>1 DEF Mutates
<1> QED BY <1>1, <1>5, <1>6, <1>9, <1>10, ProceedKeeps DEF ListsInv

LEMMA KeysStayKeeps ==
    ASSUME ListsInv, NEW s \in Sessions, KeysStay(s)
    PROVE  ListsInv'
<1>0. ListsFit /\ (\A q \in Sessions : HandlerTrue(session[q]))
  BY DEF ListsInv
<1>1. /\ session[s] # NoSession /\ Proceed(s) /\ Step(s).op \in {"flush", "forget", "one", "list"}
      /\ late' = late \cup (KeysOf(Step(s)) \cap Wrong)
      /\ UNCHANGED <<kind, row, list, one, requests, blurred>>
  BY DEF KeysStay, Doing, Step, Proceed
<1>2. /\ \A q \in Sessions : HandlerFits(session[q])'
      /\ session' = [q \in Sessions |-> session'[q]]
  BY <1>0, <1>1, ProceedIs
<1>3. Wrong' = Wrong /\ Wrong \subseteq Items \cup {"own", "child"}
  BY <1>1 DEF Wrong, Lists, View, Open
<1>4. ListsFit'
  <2>1. requests' \in 0 .. MaxRequests /\ blurred' \in BOOLEAN
        /\ late' \subseteq Items \cup {"own", "child"}
        /\ one' = [i \in Items |-> one'[i]]
        /\ list' = [n \in {"own", "child"} |-> list'[n]]
    BY <1>0, <1>1, <1>3 DEF ListsFit
  <2>2. \A i \in Items : one'[i] \in {one[i], Unknown}
                \/ /\ one'[i] = Known(one'[i].value) /\ kind \in CachedById
                   /\ one'[i].value \in ListRows /\ one'[i].value.state \in {"Open", "Deleted"}
    BY <1>1
  <2>3. \A n \in {"own", "child"} : list'[n] \in {list[n], Unknown}
                \/ (n \in Lists /\ list'[n] = Known(list'[n].value) /\ DOMAIN list'[n].value \subseteq Used)
    BY <1>1
  <2>4. UNCHANGED <<kind, row>>
    BY <1>1
  <2> QED BY <2>1, <2>2, <2>3, <2>4, <1>0, <1>2, AnswersFit
<1>5. \A q \in Sessions : OneKept(q)
  BY <1>0, <1>1 DEF OneKept, HandlerTrue, Creates
<1>6. \A k \in Wrong' : k \notin late' =>
                \/ k \in Wrong /\ k \notin late /\ k \notin KeysOf(Step(s))
                \/ k \in SureOf(Tail(session[s].todo))
  BY <1>1, <1>3
<1>7. ~Mutates(Step(s))
  BY <1>1 DEF Mutates
<1> QED BY <1>1, <1>4, <1>5, <1>6, <1>7, ProceedKeeps DEF ListsInv

LEMMA ForgetRowsKeeps ==
    ASSUME ListsInv, NEW s \in Sessions, ForgetRows(s)
    PROVE  ListsInv'
<1>0. ListsFit /\ (\A q \in Sessions : HandlerTrue(session[q]))
  BY DEF ListsInv
<1>1. /\ session[s] # NoSession /\ Proceed(s) /\ Step(s).op = "forget"
      /\ one' = [i \in Items |-> IF i \in Step(s).rows THEN Unknown ELSE one[i]]
      /\ late' = late \ Step(s).rows /\ UNCHANGED <<kind, row, list, requests, blurred>>
  BY DEF ForgetRows, Doing, Step, Proceed
<1>2. /\ Step(s) \in Todos /\ \A q \in Sessions : HandlerFits(session[q])'
      /\ session' = [q \in Sessions |-> session'[q]]
  BY <1>0, <1>1, ProceedIs
<1>3. KeysOf(Step(s)) = Step(s).rows /\ Step(s).rows \subseteq Items
  BY <1>1, <1>2, KeysOfIs, TodoIs
<1>5. ListsFit'
  <2>1. requests' \in 0 .. MaxRequests /\ blurred' \in BOOLEAN
        /\ late' \subseteq Items \cup {"own", "child"}
        /\ one' = [i \in Items |-> one'[i]]
        /\ list' = [n \in {"own", "child"} |-> list'[n]]
    BY <1>0, <1>1 DEF ListsFit
  <2>2. \A i \in Items : one'[i] \in {one[i], Unknown}
                \/ /\ one'[i] = Known(one'[i].value) /\ kind \in CachedById
                   /\ one'[i].value \in ListRows /\ one'[i].value.state \in {"Open", "Deleted"}
    BY <1>1
  <2>3. \A n \in {"own", "child"} : list'[n] \in {list[n], Unknown}
                \/ (n \in Lists /\ list'[n] = Known(list'[n].value) /\ DOMAIN list'[n].value \subseteq Used)
    BY <1>1
  <2>4. UNCHANGED <<kind, row>>
    BY <1>1
  <2> QED BY <2>1, <2>2, <2>3, <2>4, <1>0, <1>2, AnswersFit
<1>6. ASSUME NEW q \in Sessions PROVE OneKept(q)
  <2>1. \A n \in DOMAIN session[q].todo : session[q].todo[n].op = "put" =>
            session[q].todo[n].id \in Items
    <3>1. session[q].todo \in Seq(Todos)
      BY <1>0 DEF ListsFit, HandlerFits
    <3>2. \A n \in DOMAIN session[q].todo : session[q].todo[n] \in Todos
      BY <3>1
    <3> QED BY <3>2, TodoIs
  <2>2. \A i \in Items : one'[i].known => one'[i] = one[i]
    BY <1>1 DEF Unknown
  <2> QED BY <2>1, <2>2, <1>0 DEF OneKept, HandlerTrue, Creates
<1>7. View' = View /\ Lists' = Lists
  BY <1>1 DEF View, Open, Lists
<1>8. \A k \in Wrong' : k \in Wrong /\ k \notin Step(s).rows
  <2> TAKE k \in Wrong'
  <2>1. CASE k \in Lists
    <3>1. k \notin Items
      BY <2>1, ItemsAssumption DEF Lists
    <3> QED BY <3>1, <2>1, <1>1, <1>3, <1>7 DEF Wrong
  <2>2. CASE k \in Items /\ k \notin Lists
    <3>1. one'[k].known /\ (row'[k].state # "Open" \/ one'[k].value # row'[k])
      BY <2>2, <1>7 DEF Wrong
    <3>2. k \notin Step(s).rows
      BY <3>1, <2>2, <1>1 DEF Unknown
    <3>3. one'[k] = one[k]
      BY <3>2, <2>2, <1>1
    <3> QED BY <3>1, <3>2, <3>3, <2>2, <1>1 DEF Wrong
  <2> QED BY <2>1, <2>2, <1>7 DEF Wrong
<1>9. \A k \in Wrong' : k \notin late' =>
                \/ k \in Wrong /\ k \notin late /\ k \notin KeysOf(Step(s))
                \/ k \in SureOf(Tail(session[s].todo))
  BY <1>1, <1>3, <1>8
<1>10. ~Mutates(Step(s))
  BY <1>1 DEF Mutates
<1> QED BY <1>1, <1>5, <1>6, <1>9, <1>10, ProceedKeeps DEF ListsInv

\* What is at hand when it is to be stored: a row that is there, or the one
\* this handler inserts next.
LEMMA AtHand ==
    ASSUME ListsInv, NEW s \in Sessions, session[s] # NoSession, Step(s).op = "one"
    PROVE  /\ kind \in CachedById /\ Step(s).id \in Items
           /\ session[s].got = Known(session[s].got.value)
           /\ session[s].got.value \in ListRows /\ session[s].got.value.state \in {"Open", "Deleted"}
           /\ \/ /\ Step(s).id \in Used
                 /\ ~session[s].overtaken =>
                        session[s].got.value = row[Step(s).id] /\ row[Step(s).id].state = "Open"
              \/ /\ Step(s).id \in SureOf(Tail(session[s].todo))
                 /\ \E n \in DOMAIN session[s].todo :
                        /\ session[s].todo[n].op = "put" /\ session[s].todo[n].id = Step(s).id
                        /\ session[s].got.value = session[s].todo[n].row
<1> DEFINE T == session[s].todo
<1>0. ListsFit /\ HandlerTrue(session[s]) /\ HandlerFits(session[s])
  BY DEF ListsInv, ListsFit
<1>1. T \in Seq(Todos) /\ T # <<>>
  BY <1>0 DEF HandlerFits
<1>2. /\ Head(T) = T[1] /\ 1 \in DOMAIN T /\ T[1] \in Todos
      /\ DOMAIN T = 1 .. Len(T) /\ Len(T) \in Nat \ {0}
      /\ \A n \in DOMAIN T : T[n] \in Todos
      /\ \A n \in DOMAIN T : n # 1 => n - 1 \in DOMAIN Tail(T) /\ Tail(T)[n - 1] = T[n]
      /\ \A n \in DOMAIN Tail(T) : n \in Nat \ {0} /\ n + 1 \in DOMAIN T /\ Tail(T)[n] = T[n + 1]
  BY <1>1, RestIs
<1>3. Step(s) = T[1]
  BY <1>2 DEF Step
<1>4. kind \in CachedById /\ T[1].id \in Items
  BY <1>0, <1>2, <1>3, TodoIs DEF HandlerTrue, Planned
<1>5. CASE \A m \in DOMAIN T : Mutates(T[m]) => T[m].op # "put"
  <2>1. \A m \in DOMAIN T : Mutates(T[m]) => 1 < m /\ T[m].op # "put"
    <3> TAKE m \in DOMAIN T
    <3> HAVE Mutates(T[m])
    <3>1. m # 1
      BY <1>3 DEF Mutates
    <3> QED BY <3>1, <1>2, <1>5
  <2>2. /\ T[1].id \in Used /\ session[s].got.known /\ session[s].got.value \in ListRows
        /\ session[s].got.value.state \in {"Open", "Deleted"}
        /\ ~session[s].overtaken => session[s].got.value = row[T[1].id] /\ row[T[1].id].state = "Open"
    BY <2>1, <1>0, <1>2, <1>3 DEF HandlerTrue, Holds
  <2>3. session[s].got = Known(session[s].got.value)
    BY <2>2, <1>0 DEF HandlerFits, Unknown
  <2> QED BY <2>2, <2>3, <1>3, <1>4
<1>6. CASE ~ \A m \in DOMAIN T : Mutates(T[m]) => T[m].op # "put"
  <2>1. PICK m \in DOMAIN T : Mutates(T[m]) /\ T[m].op = "put"
    BY <1>6
  <2>2. m # 1 /\ 1 < m
    BY <2>1, <1>3, <1>2
  <2>3. T[1].id = T[m].id
    BY <2>1, <2>2, <1>0, <1>2, <1>3 DEF HandlerTrue, Planned
  <2>4. session[s].got = Known(T[m].row)
    BY <2>1, <2>2, <1>0, <1>2, <1>3 DEF HandlerTrue, Creates
  <2>5. T[m].row \in ListRows /\ T[m].row.state = "Open"
    BY <2>1, <1>0, <1>2, TodoIs DEF HandlerTrue, Planned
  <2>6. T[m].id \in KeysOf(T[m]) /\ m - 1 \in DOMAIN Tail(T) /\ Tail(T)[m - 1] = T[m]
    BY <2>1, <2>2, <1>2, KeysOfIs
  <2>7. \A j \in DOMAIN Tail(T) : j < m - 1 => ~Mutates(Tail(T)[j])
    <3> SUFFICES ASSUME NEW j \in DOMAIN Tail(T), j < m - 1, Mutates(Tail(T)[j]) PROVE FALSE
      OBVIOUS
    <3>1. j + 1 \in DOMAIN T /\ Mutates(T[j + 1]) /\ j \in Nat
      BY <1>2
    <3>2. j + 1 = m
      BY <3>1, <2>1, <1>0 DEF HandlerTrue, Planned
    <3> QED BY <3>2, <3>1, <2>1, <1>2
  <2>8. T[m].id \in SureOf(Tail(T))
    BY <2>3, <2>6, <2>7, <1>4 DEF SureOf
  <2> QED BY <2>1, <2>3, <2>4, <2>5, <2>8, <1>3, <1>4 DEF Known
<1> QED BY <1>5, <1>6

LEMMA ListAtHand ==
    ASSUME ListsInv, NEW s \in Sessions, session[s] # NoSession, Step(s).op = "list"
    PROVE  /\ Step(s).key \in Lists
           /\ session[s].got = Known(session[s].got.value)
           /\ DOMAIN session[s].got.value \subseteq Used
           /\ ~session[s].overtaken => session[s].got.value = View
<1> DEFINE T == session[s].todo
<1>0. ListsFit /\ HandlerTrue(session[s]) /\ HandlerFits(session[s])
  BY DEF ListsInv, ListsFit
<1>1. T \in Seq(Todos) /\ T # <<>>
  BY <1>0 DEF HandlerFits
<1>2. Step(s) = T[1] /\ 1 \in DOMAIN T
  BY <1>1, RestIs DEF Step
<1>3. /\ session[s].got.known /\ DOMAIN session[s].got.value \subseteq Used
      /\ ~session[s].overtaken => session[s].got.value = View
      /\ T[1].key \in Lists
  BY <1>0, <1>2 DEF HandlerTrue, Answers, Planned
<1> QED BY <1>0, <1>2, <1>3 DEF HandlerFits, Unknown

\* Handlers that insert a row do not meet one another, nor a row that is there.
LEMMA StoredApart ==
    ASSUME ListsInv, NEW s \in Sessions, session[s] # NoSession, Step(s).op = "one",
           NEW q \in Sessions,
           \A i \in Items : i # Step(s).id => one'[i] = one[i],
           one'[Step(s).id] = session[s].got
    PROVE  OneKept(q)
<1> SUFFICES ASSUME NEW n \in DOMAIN session[q].todo, session[q].todo[n].op = "put",
                    one'[session[q].todo[n].id].known
             PROVE  one'[session[q].todo[n].id].value = session[q].todo[n].row
  BY DEF OneKept
<1> DEFINE i == session[q].todo[n].id
<1>0. ListsFit /\ HandlerTrue(session[q]) /\ HandlerTrue(session[s]) /\ HandlerFits(session[q])
  BY DEF ListsInv, ListsFit
<1>1. session[q].todo[n] \in Todos
  <2>1. session[q].todo \in Seq(Todos)
    BY <1>0 DEF HandlerFits
  <2> QED BY <2>1
<1>2. i \in Items
  BY <1>1, TodoIs
<1>3. row[i].state = "absent" /\ (one[i].known => one[i].value = session[q].todo[n].row)
  BY <1>0 DEF HandlerTrue, Creates
<1>4. CASE i # Step(s).id
  BY <1>2, <1>3, <1>4
<1>5. CASE i = Step(s).id
  <2>1. Step(s).id \notin Used
    BY <1>3, <1>5 DEF Used
  <2>2. PICK m \in DOMAIN session[s].todo :
            /\ session[s].todo[m].op = "put" /\ session[s].todo[m].id = i
            /\ session[s].got.value = session[s].todo[m].row
    BY <2>1, <1>5, AtHand
  <2>3. s = q
    BY <2>2, <1>0 DEF ListsInv, Apart
  <2>4. m = n
    <3>1. \A j, k \in DOMAIN session[q].todo :
            Mutates(session[q].todo[j]) /\ Mutates(session[q].todo[k]) => j = k
      BY <1>0 DEF HandlerTrue, Planned
    <3>2. m \in DOMAIN session[q].todo /\ Mutates(session[q].todo[m]) /\ Mutates(session[q].todo[n])
      BY <2>2, <2>3 DEF Mutates
    <3> QED BY <3>1, <3>2
  <2> QED BY <2>2, <2>3, <2>4, <1>5
<1> QED BY <1>4, <1>5

LEMMA StoreKeeps ==
    ASSUME ListsInv, NEW s \in Sessions, Store(s)
    PROVE  ListsInv'
<1>0. ListsFit /\ (\A q \in Sessions : HandlerTrue(session[q]))
  BY DEF ListsInv
<1>1. /\ session[s] # NoSession /\ Proceed(s) /\ Step(s).op \in {"one", "list"}
      /\ UNCHANGED <<kind, row, requests, blurred>>
  BY DEF Store, Doing, Step, Proceed
<1>2. /\ Step(s) \in Todos /\ \A q \in Sessions : HandlerFits(session[q])'
      /\ session' = [q \in Sessions |-> session'[q]]
  BY <1>0, <1>1, ProceedIs
<1>3. ~Mutates(Step(s))
  BY <1>1 DEF Mutates
<1>4. View' = View /\ Lists' = Lists
  BY <1>1 DEF View, Open, Lists
<1>5. requests' \in 0 .. MaxRequests /\ blurred' \in BOOLEAN /\ UNCHANGED <<kind, row>>
  BY <1>0, <1>1 DEF ListsFit
<1>6. Lists \subseteq {"own", "child"} /\ Lists \cap Items = {}
  BY ItemsAssumption DEF Lists
<1>7. CASE Step(s).op = "one"
  <2> DEFINE i == Step(s).id
             v == session[s].got.value
  <2>1. /\ kind \in CachedById /\ i \in Items /\ session[s].got = Known(v)
        /\ v \in ListRows /\ v.state \in {"Open", "Deleted"}
        /\ \/ i \in Used /\ (~session[s].overtaken => v = row[i] /\ row[i].state = "Open")
           \/ i \in SureOf(Tail(session[s].todo))
    BY <1>1, <1>7, AtHand
  <2>2. /\ one' = [one EXCEPT ![i] = session[s].got] /\ UNCHANGED list
        /\ late' = IF session[s].overtaken THEN late \cup {i} ELSE late \ {i}
    BY <1>7 DEF Store, Step
  <2>3. one' = [j \in Items |-> one'[j]]
    BY <2>1, <2>2, <1>0 DEF ListsFit
  <2>4. one'[i] = session[s].got /\ \A j \in Items : j # i => one'[j] = one[j]
    BY <2>1, <2>2, <1>0 DEF ListsFit
  <2>5. one'[i].known /\ one'[i].value = v
    BY <2>1, <2>4 DEF Known
  <2> HIDE DEF i, v
  <2>6. ListsFit'
    <3>1. \A j \in Items : one'[j] \in {one[j], Unknown}
                \/ /\ one'[j] = Known(one'[j].value) /\ kind \in CachedById
                   /\ one'[j].value \in ListRows /\ one'[j].value.state \in {"Open", "Deleted"}
      BY <2>1, <2>4, <2>5
    <3>2. \A n \in {"own", "child"} : list'[n] \in {list[n], Unknown}
                \/ (n \in Lists /\ list'[n] = Known(list'[n].value) /\ DOMAIN list'[n].value \subseteq Used)
      BY <2>2
    <3>3. late' \subseteq Items \cup {"own", "child"}
      BY <2>1, <2>2, <1>0 DEF ListsFit
    <3>4. list' = [n \in {"own", "child"} |-> list'[n]]
      BY <2>2, <1>0 DEF ListsFit
    <3> QED BY <3>1, <3>2, <3>3, <3>4, <2>3, <1>0, <1>2, <1>5, AnswersFit
  <2>7. ASSUME NEW q \in Sessions PROVE OneKept(q)
    BY <2>4, <1>1, <1>7, StoredApart DEF i
  <2>8. KeysOf(Step(s)) = {i}
    BY <1>2, <1>7, KeysOfIs DEF i
  <2>9. ASSUME NEW k \in Wrong', k \notin late'
        PROVE  \/ k \in Wrong /\ k \notin late /\ k \notin KeysOf(Step(s))
               \/ k \in SureOf(Tail(session[s].todo))
    <3>1. CASE k = i
      <4>1. ~session[s].overtaken
        BY <2>2, <2>9, <3>1
      <4>2. k \in Items /\ k \notin Lists
        BY <2>1, <3>1, <1>6
      <4>3. row[i].state # "Open" \/ v # row[i]
        BY <3>1, <4>2, <2>5, <1>4, <1>5 DEF Wrong
      <4> QED BY <4>1, <4>3, <2>1, <3>1
    <3>2. CASE k # i
      <4>1. k \in Wrong
        BY <3>2, <2>2, <2>4, <1>4, <1>5 DEF Wrong
      <4>2. k \notin late
        BY <3>2, <2>2, <2>9
      <4> QED BY <4>1, <4>2, <3>2, <2>8
    <3> QED BY <3>1, <3>2
  <2> QED BY <1>1, <1>3, <2>6, <2>7, <2>9, <1>5, ProceedKeeps DEF ListsInv
<1>8. CASE Step(s).op = "list"
  <2> DEFINE n == Step(s).key
             v == session[s].got.value
  <2>1. /\ n \in Lists /\ session[s].got = Known(v) /\ DOMAIN v \subseteq Used
        /\ ~session[s].overtaken => v = View
    BY <1>1, <1>8, ListAtHand
  <2>2. /\ list' = [list EXCEPT ![n] = session[s].got] /\ UNCHANGED one
        /\ late' = IF session[s].overtaken THEN late \cup {n} ELSE late \ {n}
    BY <1>8 DEF Store, Step
  <2>3. list' = [j \in {"own", "child"} |-> list'[j]]
    BY <2>1, <2>2, <1>0 DEF ListsFit
  <2>4. list'[n] = session[s].got /\ \A j \in {"own", "child"} : j # n => list'[j] = list[j]
    BY <2>1, <2>2, <1>0, <1>6 DEF ListsFit
  <2>5. list'[n].known /\ list'[n].value = v
    BY <2>1, <2>4 DEF Known
  <2> HIDE DEF n, v
  <2>6. ListsFit'
    <3>1. \A j \in Items : one'[j] \in {one[j], Unknown}
                \/ /\ one'[j] = Known(one'[j].value) /\ kind \in CachedById
                   /\ one'[j].value \in ListRows /\ one'[j].value.state \in {"Open", "Deleted"}
      BY <2>2
    <3>2. \A j \in {"own", "child"} : list'[j] \in {list[j], Unknown}
                \/ (j \in Lists /\ list'[j] = Known(list'[j].value) /\ DOMAIN list'[j].value \subseteq Used)
      BY <2>1, <2>4, <2>5
    <3>3. late' \subseteq Items \cup {"own", "child"}
      BY <2>1, <2>2, <1>0, <1>6 DEF ListsFit
    <3>4. one' = [j \in Items |-> one'[j]]
      BY <2>2, <1>0 DEF ListsFit
    <3> QED BY <3>1, <3>2, <3>3, <3>4, <2>3, <1>0, <1>2, <1>5, AnswersFit
  <2>7. \A q \in Sessions : OneKept(q)
    BY <1>0, <2>2 DEF OneKept, HandlerTrue, Creates
  <2>8. KeysOf(Step(s)) = {}
    BY <1>2, <1>8, KeysOfIs
  <2>9. ASSUME NEW k \in Wrong', k \notin late'
        PROVE  k \in Wrong /\ k \notin late /\ k \notin KeysOf(Step(s))
    <3>1. k # n
      <4> SUFFICES ASSUME k = n PROVE FALSE
        OBVIOUS
      <4>1. ~session[s].overtaken
        BY <2>2, <2>9
      <4>2. k \notin Items /\ k \in Lists
        BY <2>1, <1>6
      <4> QED BY <4>1, <4>2, <2>1, <2>5, <1>4 DEF Wrong
    <3>2. k \in Wrong
      BY <3>1, <2>2, <2>4, <1>4, <1>5, <1>6 DEF Wrong
    <3>3. k \notin late
      BY <3>1, <2>2, <2>9
    <3> QED BY <3>2, <3>3, <2>8
  <2> QED BY <1>1, <1>3, <2>6, <2>7, <2>9, <1>5, ProceedKeeps DEF ListsInv
<1> QED BY <1>1, <1>7, <1>8

LEMMA ExpireKeeps ==
    ASSUME ListsInv, NEW key \in Items \cup {"own", "child"}, Expire(key)
    PROVE  ListsInv'
<1>0. ListsFit /\ (\A q \in Sessions : HandlerTrue(session[q])) /\ Apart /\ Covered
  BY DEF ListsInv
<1>1. UNCHANGED <<kind, row, session, requests, blurred>> /\ late' = late \ {key}
  BY DEF Expire
<1>2. /\ one' = [i \in Items |-> IF i = key THEN Unknown ELSE one[i]]
      /\ list' = [n \in {"own", "child"} |-> IF n = key THEN Unknown ELSE list[n]]
  <2>1. CASE key \in Items
    <3>1. key \notin {"own", "child"}
      BY <2>1, ItemsAssumption
    <3> QED BY <2>1, <3>1, <1>0 DEF Expire, ListsFit
  <2>2. CASE key \notin Items
    BY <2>2, <1>0 DEF Expire, ListsFit
  <2> QED BY <2>1, <2>2
<1>3. View' = View /\ Lists' = Lists /\ Open' = Open
  BY <1>1 DEF View, Open, Lists
<1>4. ListsFit'
  <2>1. requests' \in 0 .. MaxRequests /\ blurred' \in BOOLEAN
        /\ late' \subseteq Items \cup {"own", "child"}
        /\ one' = [i \in Items |-> one'[i]]
        /\ list' = [n \in {"own", "child"} |-> list'[n]]
        /\ session' = [q \in Sessions |-> session'[q]]
    BY <1>0, <1>1, <1>2 DEF ListsFit
  <2>2. \A i \in Items : one'[i] \in {one[i], Unknown}
                \/ /\ one'[i] = Known(one'[i].value) /\ kind \in CachedById
                   /\ one'[i].value \in ListRows /\ one'[i].value.state \in {"Open", "Deleted"}
    BY <1>2
  <2>3. \A n \in {"own", "child"} : list'[n] \in {list[n], Unknown}
                \/ (n \in Lists /\ list'[n] = Known(list'[n].value) /\ DOMAIN list'[n].value \subseteq Used)
    BY <1>2
  <2>4. UNCHANGED <<kind, row>>
    BY <1>1
  <2>5. \A q \in Sessions : HandlerFits(session[q])'
    BY <1>0, <1>1 DEF ListsFit, HandlerFits
  <2> QED BY <2>1, <2>2, <2>3, <2>4, <2>5, <1>0, AnswersFit
<1>5. ASSUME NEW q \in Sessions PROVE HandlerTrue(session[q])'
  <2>1. \A n \in DOMAIN session[q].todo : session[q].todo[n].op = "put" =>
            session[q].todo[n].id \in Items
    <3>1. session[q].todo \in Seq(Todos)
      BY <1>0 DEF ListsFit, HandlerFits
    <3>2. \A n \in DOMAIN session[q].todo : session[q].todo[n] \in Todos
      BY <3>1
    <3> QED BY <3>2, TodoIs
  <2>2. \A i \in Items : one'[i].known => one'[i] = one[i]
    BY <1>2 DEF Unknown
  <2>3. OneKept(q)
    BY <2>1, <2>2, <1>0 DEF OneKept, HandlerTrue, Creates
  <2> QED BY <2>3, <1>0, <1>1, TrueWaiting
<1>6. Apart'
  BY <1>0, <1>1 DEF Apart
<1>7. Covered'
  <2>1. \A k \in Wrong' : k \in Wrong /\ k # key
    <3> TAKE k \in Wrong'
    <3>1. k \in Lists \cup Items
      BY <1>3 DEF Wrong
    <3>2. CASE k \in Lists
      <4>1. k \notin Items /\ k \in {"own", "child"}
        BY <3>2, ItemsAssumption DEF Lists
      <4>2. list'[k].known /\ list'[k].value # View
        BY <4>1, <1>3 DEF Wrong
      <4>3. k # key /\ list'[k] = list[k]
        BY <4>1, <4>2, <1>2 DEF Unknown
      <4> QED BY <4>2, <4>3, <3>2 DEF Wrong
    <3>3. CASE k \in Items
      <4>1. k \notin Lists
        BY <3>3, ItemsAssumption DEF Lists
      <4>2. one'[k].known /\ (row[k].state # "Open" \/ one'[k].value # row[k])
        BY <4>1, <1>1, <1>3 DEF Wrong
      <4>3. k # key /\ one'[k] = one[k]
        BY <3>3, <4>2, <1>2 DEF Unknown
      <4> QED BY <4>2, <4>3, <3>3 DEF Wrong
    <3> QED BY <3>1, <3>2, <3>3
  <2> QED BY <2>1, <1>0, <1>1 DEF Covered, SureOf, Mutates, KeysOf
<1> QED BY <1>4, <1>5, <1>6, <1>7 DEF ListsInv

LEMMA IdleIsTrue == HandlerFits(NoSession) /\ HandlerTrue(NoSession) /\ SureOf(<<>>) = {}
<1>1. /\ NoSession.todo = <<>> /\ NoSession.got = Unknown
      /\ NoSession.places = FALSE /\ NoSession.overtaken = FALSE
      /\ NoSession = [todo |-> <<>>, got |-> Unknown, places |-> FALSE, overtaken |-> FALSE]
  BY DEF NoSession
<1>2. <<>> \in Seq(Todos)
  BY EmptySeq
<1>3. \A n : n \notin DOMAIN <<>>
  OBVIOUS
<1>4. HandlerFits(NoSession)
  BY <1>1, <1>2 DEF HandlerFits
<1>5. Planned(<<>>)
  BY <1>3 DEF Planned
<1>6. SureOf(<<>>) = {}
  BY <1>3 DEF SureOf
<1>7. HandlerTrue(NoSession)
  BY <1>1, <1>3, <1>5 DEF HandlerTrue, Creates, Holds, EditsOf, Answers, Moves
<1> QED BY <1>4, <1>6, <1>7

\* A handler that ends leaves what it would have seen to.
LEMMA EndKeeps ==
    ASSUME ListsInv, NEW s \in Sessions, session' = [session EXCEPT ![s] = NoSession],
           UNCHANGED <<kind, row, list, one, requests, blurred>>,
           late' \subseteq Items \cup {"own", "child"}, late \subseteq late',
           \A k \in SureOf(session[s].todo) : k \in Wrong => k \in late'
    PROVE  ListsInv'
<1>0. ListsFit /\ (\A q \in Sessions : HandlerTrue(session[q])) /\ Apart /\ Covered
  BY DEF ListsInv
<1>1. /\ session'[s] = NoSession /\ \A q \in Sessions \ {s} : session'[q] = session[q]
      /\ session' = [q \in Sessions |-> session'[q]]
  BY <1>0 DEF ListsFit
<1>2. HandlerFits(NoSession)' /\ HandlerTrue(NoSession)' /\ NoSession.todo = <<>>
  <2>1. \A n : n \notin DOMAIN <<>>
    OBVIOUS
  <2>2. NoSession.todo = <<>>
    BY DEF NoSession
  <2>3. HandlerTrue(NoSession)'
    BY <2>1, <2>2 DEF HandlerTrue, Planned, Creates, Holds, EditsOf, Answers, Moves
  <2>4. HandlerFits(NoSession)'
    BY IdleIsTrue DEF HandlerFits
  <2> QED BY <2>2, <2>3, <2>4
<1>3. ASSUME NEW q \in Sessions PROVE HandlerFits(session[q])' /\ HandlerTrue(session[q])'
  <2>1. CASE q = s
    BY <2>1, <1>1, <1>2
  <2>2. CASE q # s
    <3>1. OneKept(q)
      BY <1>0 DEF OneKept, HandlerTrue, Creates
    <3>2. HandlerTrue(session[q])'
      BY <3>1, <2>2, <1>0, <1>1, TrueWaiting
    <3> QED BY <3>2, <2>2, <1>0, <1>1 DEF ListsFit, HandlerFits
  <2> QED BY <2>1, <2>2
<1>4. Apart'
  <2>1. \A n : n \notin DOMAIN session'[s].todo
    BY <1>1, <1>2
  <2> QED BY <2>1, <1>0, <1>1 DEF Apart
<1>5. Used' = Used /\ Lists' = Lists /\ View' = View
  BY DEF Used, Lists, View, Open
<1>6. ListsFit'
  BY <1>0, <1>1, <1>3, <1>5 DEF ListsFit
<1>7. Wrong' = Wrong
  BY <1>5 DEF Wrong
<1>8. Covered'
  <2>1. ASSUME NEW k \in Wrong, k \notin late'
        PROVE  \E q \in Sessions : k \in SureOf(session'[q].todo)
    <3>1. PICK q \in Sessions : k \in SureOf(session[q].todo)
      BY <2>1, <1>0 DEF Covered
    <3>2. q # s
      BY <3>1, <2>1
    <3> QED BY <3>1, <3>2, <1>1
  <2> QED BY <2>1, <1>7 DEF Covered, SureOf, Mutates, KeysOf
<1> QED BY <1>3, <1>4, <1>6, <1>8 DEF ListsInv

LEMMA SureIsOwed ==
    ASSUME NEW s \in Sessions
    PROVE  SureOf(session[s].todo) \subseteq Owed(s)
BY DEF SureOf, Owed

LEMMA CrashKeeps ==
    ASSUME ListsInv, NEW s \in Sessions, Crash(s)
    PROVE  ListsInv'
<1>1. Wrong \subseteq Items \cup {"own", "child"}
  BY DEF Wrong, Lists
<1>2. late' \subseteq Items \cup {"own", "child"} /\ late \subseteq late'
  BY <1>1 DEF Crash, ListsInv, ListsFit
<1>3. \A k \in SureOf(session[s].todo) : k \in Wrong => k \in late'
  BY SureIsOwed DEF Crash
<1> QED BY <1>2, <1>3, EndKeeps DEF Crash

LEMMA NotFoundKeeps ==
    ASSUME ListsInv, NEW s \in Sessions, NotFound(s)
    PROVE  ListsInv'
<1>1. session[s].todo \in Seq(Todos) /\ session[s].todo # <<>>
  BY DEF NotFound, Doing, ListsInv, ListsFit, HandlerFits
<1>2. /\ session[s].todo[1].op = "edit" /\ 1 \in DOMAIN session[s].todo
      /\ session[s].todo[1] \in Todos /\ \A n \in DOMAIN session[s].todo : n = 1 \/ 1 < n
  BY <1>1, RestIs DEF NotFound, Doing
<1>3. SureOf(session[s].todo) = {}
  <2>1. Mutates(session[s].todo[1]) /\ KeysOf(session[s].todo[1]) = {}
    BY <1>2, KeysOfIs DEF Mutates
  <2> QED BY <1>2, <2>1 DEF SureOf
<1> QED BY <1>3, EndKeeps DEF NotFound, ListsInv, ListsFit

(***************************************************************************)
(* Commits.                                                                *)
(***************************************************************************)
LEMMA CommittedIs ==
    ASSUME ListsFit, NEW e \in Todos, Mutates(e),
           e.op = "edit" => e.id \in Used,
           e.op = "put" => row[e.id].state = "absent" /\ e.row.state = "Open"
    PROVE  /\ Committed(e) \in [Items -> ListRows]
           /\ \A i \in Items :
                Committed(e)[i] = row[i] \/ i = e.id
                \/ (e.op = "shift" /\ i \in (IF e.all THEN Used ELSE Open) /\ Between(i, e.from, e.to))
           /\ \A i \in Items : row[i].state # "absent" => Committed(e)[i].state # "absent"
           /\ \A i \in Items : row[i].state = "absent" =>
                Committed(e)[i] = row[i] \/ (e.op = "put" /\ i = e.id)
           /\ e.op = "put" => Committed(e)[e.id] = e.row
           /\ e.op = "edit" => Committed(e)[e.id].state = row[e.id].state
<1>0. row \in [Items -> ListRows]
  BY DEF ListsFit
<1>1. CASE e.op = "put"
  <2>1. e.id \in Items /\ e.row \in ListRows
    BY <1>1, TodoIs
  <2>2. Committed(e) = [row EXCEPT ![e.id] = e.row]
    BY <1>1 DEF Committed
  <2> QED BY <1>0, <1>1, <2>1, <2>2
<1>2. CASE e.op = "edit"
  <2>1. e.id \in Items
    BY <1>2, TodoIs
  <2>2. Committed(e) = [row EXCEPT ![e.id].info = 1 - @]
    BY <1>2 DEF Committed
  <2>3. row[e.id] \in ListRows
    BY <2>1, <1>0
  <2>4. [row[e.id] EXCEPT !.info = 1 - @] \in ListRows
        /\ [row[e.id] EXCEPT !.info = 1 - @].state = row[e.id].state
    BY <2>3 DEF ListRows
  <2>5. Committed(e) = [row EXCEPT ![e.id] = [row[e.id] EXCEPT !.info = 1 - @]]
    BY <2>2, <1>0, <2>1
  <2>6. row[e.id].state # "absent"
    BY <1>2 DEF Used
  <2> QED BY <1>0, <1>2, <2>1, <2>4, <2>5, <2>6
<1>3. CASE e.op = "remove"
  <2>1. e.id \in Items
    BY <1>3, TodoIs
  <2>2. CASE e.id \in Used
    <3>1. Committed(e) = [row EXCEPT ![e.id].state = "Deleted"]
      BY <1>3, <2>2 DEF Committed
    <3>2. row[e.id] \in ListRows
      BY <2>1, <1>0
    <3>3. [row[e.id] EXCEPT !.state = "Deleted"] \in ListRows
          /\ [row[e.id] EXCEPT !.state = "Deleted"].state = "Deleted"
      BY <3>2 DEF ListRows
    <3>4. Committed(e) = [row EXCEPT ![e.id] = [row[e.id] EXCEPT !.state = "Deleted"]]
      BY <3>1, <1>0, <2>1
    <3>5. row[e.id].state # "absent"
      BY <2>2 DEF Used
    <3> QED BY <1>0, <1>3, <2>1, <3>3, <3>4, <3>5
  <2>3. CASE e.id \notin Used
    <3>1. Committed(e) = row
      BY <1>3, <2>3 DEF Committed
    <3> QED BY <1>0, <1>3, <3>1
  <2> QED BY <2>2, <2>3
<1>4. CASE e.op = "shift"
  <2> DEFINE R == Committed(e)
             G == IF e.all THEN Used ELSE Open
  <2>1. e.id \in Items /\ e.from \in Nat /\ e.to \in Nat
    BY <1>4, TodoIs
  <2>2. \A i \in G : row[i].state # "absent"
    BY DEF Open, Used
  <2>3. R = [i \in Items |->
                CASE i = e.id /\ i \in Used -> [row[i] EXCEPT !.sort = e.to]
                  [] i # e.id /\ i \in G /\ e.to <= row[i].sort /\ row[i].sort < e.from ->
                        [row[i] EXCEPT !.sort = @ + 1]
                  [] i # e.id /\ i \in G /\ e.from < row[i].sort /\ row[i].sort <= e.to ->
                        [row[i] EXCEPT !.sort = @ - 1]
                  [] OTHER -> row[i]]
    BY <1>4 DEF Committed
  <2> HIDE DEF R, G
  <2>4. ASSUME NEW i \in Items
        PROVE  /\ R[i] \in ListRows /\ R[i].state = row[i].state
               /\ row[i].state = "absent" => R[i] = row[i]
               /\ R[i] = row[i] \/ i = e.id \/ (i \in G /\ Between(i, e.from, e.to))
    <3>1. row[i] \in ListRows /\ row[i].sort \in Nat
      BY <1>0 DEF ListRows
    <3>2. CASE i = e.id /\ i \in Used
      <4>1. R[i] = [row[i] EXCEPT !.sort = e.to]
        BY <2>3, <3>2
      <4>2. row[i].state # "absent"
        BY <3>2 DEF Used
      <4> QED BY <4>1, <4>2, <3>1, <3>2, <2>1 DEF ListRows
    <3>3. CASE i # e.id /\ i \in G /\ e.to <= row[i].sort /\ row[i].sort < e.from
      <4>1. R[i] = [row[i] EXCEPT !.sort = @ + 1]
        BY <2>3, <3>3, <3>1, <2>1
      <4>2. Between(i, e.from, e.to) /\ row[i].state # "absent"
        BY <3>3, <2>2 DEF Between
      <4>3. R[i] \in ListRows /\ R[i].state = row[i].state
        BY <4>1, <3>1 DEF ListRows
      <4> QED BY <4>2, <4>3, <3>3
    <3>4. CASE i # e.id /\ i \in G /\ e.from < row[i].sort /\ row[i].sort <= e.to
      <4>1. R[i] = [row[i] EXCEPT !.sort = @ - 1]
        BY <2>3, <3>4, <3>1, <2>1
      <4>2. Between(i, e.from, e.to) /\ row[i].state # "absent"
        BY <3>4, <2>2 DEF Between
      <4>3. R[i] \in ListRows /\ R[i].state = row[i].state
        <5>1. row[i].sort - 1 \in Nat
          BY <3>1, <3>4, <2>1
        <5> QED BY <4>1, <5>1, <3>1 DEF ListRows
      <4> QED BY <4>2, <4>3, <3>4
    <3>5. CASE /\ ~(i = e.id /\ i \in Used)
               /\ ~(i # e.id /\ i \in G /\ e.to <= row[i].sort /\ row[i].sort < e.from)
               /\ ~(i # e.id /\ i \in G /\ e.from < row[i].sort /\ row[i].sort <= e.to)
      <4>1. R[i] = row[i]
        BY <2>3, <3>5
      <4> QED BY <4>1, <3>1
    <3> QED BY <3>2, <3>3, <3>4, <3>5
  <2>5. R \in [Items -> ListRows]
    <3>1. R = [i \in Items |-> R[i]]
      BY <2>3
    <3> QED BY <3>1, <2>4
  <2> QED BY <2>4, <2>5, <1>4 DEF R, G
<1> QED BY <1>1, <1>2, <1>3, <1>4 DEF Mutates

\* Reject causes are counted from one.
LEMMA CausesCounted ==
    ASSUME ListsFit, kind = "cause", NEW e \in Todos, Mutates(e),
           e.op = "edit" => e.id \in Used,
           e.op = "put" => row[e.id].state = "absent" /\ e.row.state = "Open" /\ e.row.sort >= 1,
           e.op = "shift" => e.from >= 1 /\ e.to >= 1
    PROVE  \A i \in Items : Committed(e)[i].state # "absent" => Committed(e)[i].sort >= 1
<1>0. row \in [Items -> ListRows] /\ \A i \in Items : row[i].state # "absent" => row[i].sort >= 1
  BY DEF ListsFit, Used
<1>a. \A i \in Items : row[i].sort \in Nat
  BY <1>0 DEF ListRows
<1>1. CASE e.op = "put"
  <2>1. e.id \in Items /\ Committed(e) = [row EXCEPT ![e.id] = e.row]
    BY <1>1, TodoIs DEF Committed
  <2> QED BY <1>0, <1>1, <2>1
<1>2. CASE e.op = "edit"
  <2>1. e.id \in Items /\ Committed(e) = [row EXCEPT ![e.id].info = 1 - @]
    BY <1>2, TodoIs DEF Committed
  <2>2. [row[e.id] EXCEPT !.info = 1 - @].sort = row[e.id].sort
        /\ [row[e.id] EXCEPT !.info = 1 - @].state = row[e.id].state
    BY <2>1, <1>0 DEF ListRows
  <2>3. Committed(e) = [row EXCEPT ![e.id] = [row[e.id] EXCEPT !.info = 1 - @]]
    BY <2>1, <1>0
  <2> QED BY <1>0, <2>1, <2>2, <2>3
<1>3. CASE e.op = "remove"
  <2>1. e.id \in Items
    BY <1>3, TodoIs
  <2>2. CASE e.id \in Used
    <3>1. Committed(e) = [row EXCEPT ![e.id].state = "Deleted"]
      BY <1>3, <2>2 DEF Committed
    <3>2. [row[e.id] EXCEPT !.state = "Deleted"].sort = row[e.id].sort
      BY <2>1, <1>0 DEF ListRows
    <3>3. Committed(e) = [row EXCEPT ![e.id] = [row[e.id] EXCEPT !.state = "Deleted"]]
      BY <3>1, <1>0, <2>1
    <3>4. row[e.id].state # "absent"
      BY <2>2 DEF Used
    <3> QED BY <1>0, <2>1, <3>2, <3>3, <3>4
  <2>3. CASE e.id \notin Used
    <3>1. Committed(e) = row
      BY <1>3, <2>3 DEF Committed
    <3> QED BY <1>0, <3>1
  <2> QED BY <2>2, <2>3
<1>4. CASE e.op = "shift"
  <2> DEFINE R == Committed(e)
             G == IF e.all THEN Used ELSE Open
  <2>1. e.id \in Items /\ e.from \in Nat /\ e.to \in Nat
    BY <1>4, TodoIs
  <2>3. R = [i \in Items |->
                CASE i = e.id /\ i \in Used -> [row[i] EXCEPT !.sort = e.to]
                  [] i # e.id /\ i \in G /\ e.to <= row[i].sort /\ row[i].sort < e.from ->
                        [row[i] EXCEPT !.sort = @ + 1]
                  [] i # e.id /\ i \in G /\ e.from < row[i].sort /\ row[i].sort <= e.to ->
                        [row[i] EXCEPT !.sort = @ - 1]
                  [] OTHER -> row[i]]
    BY <1>4 DEF Committed
  <2> HIDE DEF R, G
  <2>4. ASSUME NEW i \in Items, R[i].state # "absent"
        PROVE  R[i].sort >= 1
    <3>1. row[i] \in ListRows /\ row[i].sort \in Nat
      BY <1>0, <1>a
    <3>2. CASE i = e.id /\ i \in Used
      BY <2>3, <3>2, <3>1, <1>4 DEF ListRows
    <3>3. CASE i # e.id /\ i \in G /\ e.to <= row[i].sort /\ row[i].sort < e.from
      <4>1. R[i] = [row[i] EXCEPT !.sort = @ + 1]
        BY <2>3, <3>3, <3>1, <2>1
      <4>2. R[i].sort = row[i].sort + 1
        BY <4>1, <3>1 DEF ListRows
      <4> QED BY <4>2, <3>1
    <3>4. CASE i # e.id /\ i \in G /\ e.from < row[i].sort /\ row[i].sort <= e.to
      <4>1. R[i] = [row[i] EXCEPT !.sort = @ - 1]
        BY <2>3, <3>4, <3>1, <2>1
      <4>2. R[i].sort = row[i].sort - 1
        BY <4>1, <3>1 DEF ListRows
      <4> QED BY <4>2, <3>1, <3>4, <1>4, <2>1
    <3>5. CASE /\ ~(i = e.id /\ i \in Used)
               /\ ~(i # e.id /\ i \in G /\ e.to <= row[i].sort /\ row[i].sort < e.from)
               /\ ~(i # e.id /\ i \in G /\ e.from < row[i].sort /\ row[i].sort <= e.to)
      <4>1. R[i] = row[i]
        BY <2>3, <3>5
      <4> QED BY <4>1, <1>0, <2>4
    <3> QED BY <3>2, <3>3, <3>4, <3>5
  <2> QED BY <2>4 DEF R
<1> QED BY <1>1, <1>2, <1>3, <1>4 DEF Mutates

LEMMA CommitIs ==
    ASSUME ListsInv, NEW s \in Sessions, Commit(s)
    PROVE  LET T == session[s].todo IN
           /\ T \in Seq(Todos) /\ T # <<>> /\ T[1] \in Todos /\ Step(s) = T[1] /\ Mutates(T[1])
           /\ T[1].op = "edit" => T[1].id \in Used
           /\ T[1].op = "put" => row[T[1].id].state = "absent" /\ T[1].row.state = "Open"
           /\ row' = Committed(T[1])
           /\ session'[s].todo = Tail(T)
           /\ session'[s].todo # <<>> =>
                /\ session'[s].got = Known(row'[T[1].id])
                /\ session'[s].overtaken = session[s].overtaken
           /\ session'[s].places => session[s].places
           /\ session'[s].todo # <<>> => session'[s].places = session[s].places
           /\ \A q \in Sessions \ {s} :
                /\ session'[q].todo = session[q].todo /\ session'[q].got = session[q].got
                /\ session'[q].places = session[q].places
                /\ session[q].todo # <<>> => session'[q].overtaken
           /\ session' = [q \in Sessions |-> session'[q]]
           /\ \A q \in Sessions : HandlerFits(session[q])'
<1> DEFINE T == session[s].todo
<1>0. ListsFit /\ HandlerTrue(session[s]) /\ \A q \in Sessions : HandlerFits(session[q])
  BY DEF ListsInv, ListsFit
<1>1. /\ session[s] # NoSession /\ Step(s).op \in {"put", "edit", "remove", "shift"}
      /\ Step(s).op = "edit" => Step(s).id \in Used
      /\ row' = Committed(Step(s))
  BY DEF Commit, Doing, Step
<1>2. T \in Seq(Todos) /\ T # <<>>
  BY <1>0, <1>1 DEF HandlerFits
<1>3. /\ Step(s) = T[1] /\ 1 \in DOMAIN T /\ T[1] \in Todos
      /\ Tail(T) \in Seq(Todos) /\ (Len(T) = 1 <=> Tail(T) = <<>>) /\ Len(T) \in Nat \ {0}
  BY <1>2, RestIs DEF Step
<1>4. T[1].op = "put" => row[T[1].id].state = "absent" /\ T[1].row.state = "Open"
  BY <1>0, <1>3 DEF HandlerTrue, Creates, Planned
<1>5. session' = [q \in Sessions |->
           CASE q = s /\ Len(session[s].todo) = 1 -> NoSession
             [] q = s /\ Len(session[s].todo) > 1 ->
                    [todo |-> Tail(session[s].todo), got |-> Known(row'[Step(s).id]),
                     places |-> session[s].places, overtaken |-> session[s].overtaken]
             [] OTHER -> [session[q] EXCEPT !.overtaken = session[q] # NoSession]]
  BY DEF Commit
<1>6. /\ HandlerFits(session'[s]) /\ session'[s].todo = Tail(T)
      /\ session'[s].places => session[s].places
      /\ session'[s].todo # <<>> => session'[s].places = session[s].places
      /\ session'[s].todo # <<>> =>
            session'[s].got = Known(row'[T[1].id]) /\ session'[s].overtaken = session[s].overtaken
  <2>1. CASE Len(T) = 1
    <3>1. session'[s] = NoSession
      BY <2>1, <1>5
    <3>2. NoSession.todo = <<>> /\ NoSession.places = FALSE
      BY DEF NoSession
    <3> QED BY <3>1, <3>2, <2>1, <1>3, IdleIsTrue
  <2>2. CASE Len(T) # 1
    <3>1. session'[s] = [todo |-> Tail(T), got |-> Known(row'[T[1].id]),
                         places |-> session[s].places, overtaken |-> session[s].overtaken]
      BY <2>2, <1>3, <1>5
    <3>2. Tail(T) # <<>>
      BY <2>2, <1>3
    <3>3. /\ session'[s].todo = Tail(T) /\ session'[s].got = Known(row'[T[1].id])
          /\ session'[s].places = session[s].places /\ session'[s].overtaken = session[s].overtaken
          /\ session'[s] = [todo |-> session'[s].todo, got |-> session'[s].got,
                            places |-> session'[s].places, overtaken |-> session'[s].overtaken]
      BY <3>1
    <3>4. session'[s].got = Known(session'[s].got.value)
      BY <3>3 DEF Known
    <3>5. HandlerFits(session'[s])
      BY <3>2, <3>3, <3>4, <1>0, <1>3 DEF HandlerFits
    <3> QED BY <3>3, <3>5
  <2> QED BY <2>1, <2>2
<1>7. ASSUME NEW q \in Sessions \ {s}
      PROVE  /\ HandlerFits(session'[q])
             /\ session'[q].todo = session[q].todo /\ session'[q].got = session[q].got
             /\ session'[q].places = session[q].places
             /\ session[q].todo # <<>> => session'[q].overtaken
  <2>1. session'[q] = [session[q] EXCEPT !.overtaken = session[q] # NoSession]
    BY <1>5
  <2>2. HandlerFits(session[q])
    BY <1>0
  <2>3. session'[q] = [todo |-> session[q].todo, got |-> session[q].got,
                       places |-> session[q].places, overtaken |-> session[q] # NoSession]
    BY <2>1, <2>2 DEF HandlerFits
  <2>4. session[q] = NoSession => session'[q] = NoSession
    <3>1. NoSession = [todo |-> <<>>, got |-> Unknown, places |-> FALSE, overtaken |-> FALSE]
      BY DEF NoSession
    <3>2. NoSession.todo = <<>> /\ NoSession.got = Unknown /\ NoSession.places = FALSE
      BY <3>1
    <3> QED BY <2>3, <3>1, <3>2
  <2>5. NoSession.todo = <<>>
    BY DEF NoSession
  <2>6. /\ session'[q].todo = session[q].todo /\ session'[q].got = session[q].got
        /\ session'[q].places = session[q].places /\ session'[q].overtaken = (session[q] # NoSession)
        /\ session'[q] = [todo |-> session'[q].todo, got |-> session'[q].got,
                          places |-> session'[q].places, overtaken |-> session'[q].overtaken]
    BY <2>3
  <2>7. session[q].todo # <<>> => session[q] # NoSession
    BY <2>5
  <2>8. session'[q].todo = <<>> => session'[q] = NoSession
    BY <2>2, <2>4, <2>6 DEF HandlerFits
  <2>9. session'[q].overtaken \in BOOLEAN
    BY <2>6
  <2>10. /\ session'[q].todo \in Seq(Todos) /\ session'[q].places \in BOOLEAN
         /\ session'[q].got = Unknown \/ session'[q].got = Known(session'[q].got.value)
    BY <2>2, <2>6 DEF HandlerFits
  <2>11. HandlerFits(session'[q])
    BY <2>6, <2>8, <2>9, <2>10 DEF HandlerFits
  <2> QED BY <2>6, <2>7, <2>11
<1>8. session' = [q \in Sessions |-> session'[q]]
  BY <1>5
<1>9. \A q \in Sessions : HandlerFits(session[q])'
  <2>1. \A q \in Sessions : HandlerFits(session'[q])
    BY <1>6, <1>7
  <2> QED BY <2>1 DEF HandlerFits
<1> QED BY <1>1, <1>2, <1>3, <1>4, <1>6, <1>7, <1>8, <1>9 DEF Mutates

\* The rest of a handler that commits.
LEMMA NoMoreChanges ==
    ASSUME NEW T \in Seq(Todos), T # <<>>, Planned(T), Mutates(T[1])
    PROVE  /\ \A n \in DOMAIN Tail(T) :
                /\ n \in Nat \ {0} /\ n + 1 \in DOMAIN T /\ Tail(T)[n] = T[n + 1] /\ ~Mutates(Tail(T)[n])
                /\ Tail(T)[n].op # "list"
                /\ Tail(T)[n].op = "one" =>
                        Tail(T)[n].id = T[1].id /\ T[1].op \in {"put", "edit"} /\ T[1].id \in Items
           /\ \A n \in DOMAIN T, k \in Items \cup {"own"} :
                1 < n /\ k \in KeysOf(T[n]) => k \in SureOf(Tail(T))
<1> DEFINE U == Tail(T)
<1>1. /\ \A n \in DOMAIN U : n \in Nat \ {0} /\ n + 1 \in DOMAIN T /\ U[n] = T[n + 1]
      /\ \A n \in DOMAIN T : n # 1 => n - 1 \in DOMAIN U /\ U[n - 1] = T[n]
      /\ 1 \in DOMAIN T /\ T[1] \in Todos
  BY RestIs
<1> HIDE DEF U
<1>2. ASSUME NEW n \in DOMAIN U PROVE ~Mutates(U[n])
  <2>1. n + 1 \in DOMAIN T /\ U[n] = T[n + 1] /\ n + 1 # 1
    BY <1>1
  <2> QED BY <2>1, <1>1 DEF Planned
<1>3. ASSUME NEW n \in DOMAIN U
      PROVE  /\ U[n].op # "list"
             /\ U[n].op = "one" => U[n].id = T[1].id /\ T[1].op \in {"put", "edit"}
  <2>1. n + 1 \in DOMAIN T /\ U[n] = T[n + 1] /\ 1 < n + 1
    BY <1>1
  <2> QED BY <2>1, <1>1 DEF Planned
<1>4. T[1].op \in {"put", "edit"} => T[1].id \in Items
  BY <1>1, TodoIs
<1>5. ASSUME NEW n \in DOMAIN T, NEW k \in Items \cup {"own"}, 1 < n, k \in KeysOf(T[n])
      PROVE  k \in SureOf(U)
  <2>1. n - 1 \in DOMAIN U /\ U[n - 1] = T[n]
    BY <1>1, <1>5
  <2> QED BY <2>1, <1>2, <1>5 DEF SureOf
<1> QED BY <1>1, <1>2, <1>3, <1>4, <1>5 DEF U

LEMMA UnattendedIs ==
    ASSUME NEW s, Step(s) \in Todos
    PROVE  /\ kind = "status" => "child" \in Unattended(s)
           /\ kind = "status" /\ Step(s).op = "shift" /\ session[s].overtaken => Items \subseteq Unattended(s)
           /\ kind = "os" => "own" \in Unattended(s)
           /\ kind = "branch" /\ Step(s).op = "put" => "own" \in Unattended(s)
           /\ kind = "cause" /\ Step(s).op = "shift" => Open \ {Step(s).id} \subseteq Unattended(s)
           /\ Unattended(s) \subseteq Items \cup {"own", "child"}
BY DEF Unattended, Step, Open

LEMMA OthersTrue ==
    ASSUME ListsInv, NEW s \in Sessions, Commit(s), NEW q \in Sessions, q # s
    PROVE  HandlerTrue(session[q])'
<1> DEFINE e == session[s].todo[1]
           V == session[q].todo
<1>0. ListsFit /\ HandlerTrue(session[q]) /\ HandlerFits(session[q]) /\ Apart
  BY DEF ListsInv, ListsFit
<1>1. /\ e \in Todos /\ Mutates(e) /\ 1 \in DOMAIN session[s].todo
      /\ e.op = "edit" => e.id \in Used
      /\ e.op = "put" => row[e.id].state = "absent" /\ e.row.state = "Open"
      /\ row' = Committed(e)
      /\ session'[q].todo = V /\ session'[q].got = session[q].got
      /\ V # <<>> => session'[q].overtaken
  <2>1. session[s].todo \in Seq(Todos) /\ session[s].todo # <<>>
    BY CommitIs
  <2>2. 1 \in DOMAIN session[s].todo
    BY <2>1, RestIs
  <2> QED BY <2>2, CommitIs
<1>2. UNCHANGED <<kind, one, list>>
  BY DEF Commit
<1>3. V \in Seq(Todos) /\ \A n \in DOMAIN V : V[n] \in Todos /\ session'[q].overtaken
  <2>1. V \in Seq(Todos)
    BY <1>0 DEF HandlerFits
  <2> QED BY <2>1, <1>1
<1>4. /\ row' \in [Items -> ListRows]
      /\ \A i \in Items : row[i].state # "absent" => row'[i].state # "absent"
      /\ \A i \in Items : row[i].state = "absent" => row'[i] = row[i] \/ (e.op = "put" /\ i = e.id)
  BY <1>0, <1>1, CommittedIs
<1>5. Used \subseteq Used' /\ Lists' = Lists
  BY <1>2, <1>4 DEF Used, Lists
<1>6. Planned(session[q].todo)'
  <2>1. Planned(session[q].todo)
    BY <1>0 DEF HandlerTrue
  <2>2. session'[q].todo = session[q].todo /\ kind' = kind
    BY <1>1, <1>2
  <2> QED BY <2>1, <2>2, <1>5 DEF Planned
<1> HIDE DEF e
<1>7. ASSUME NEW n \in DOMAIN V, V[n].op = "put"
      PROVE  /\ row'[V[n].id].state = "absent"
             /\ one'[V[n].id].known => one'[V[n].id].value = V[n].row
             /\ \A m \in DOMAIN V : m < n /\ V[m].op = "one" => session'[q].got = Known(V[n].row)
  <2>1. V[n].id \in Items
    BY <1>3, <1>7, TodoIs
  <2>2. e.op = "put" => e.id # V[n].id
    BY <1>0, <1>1, <1>7 DEF Apart, e
  <2>3. /\ row[V[n].id].state = "absent"
        /\ one[V[n].id].known => one[V[n].id].value = V[n].row
        /\ \A m \in DOMAIN V : m < n /\ V[m].op = "one" => session[q].got = Known(V[n].row)
    BY <1>0, <1>7 DEF HandlerTrue, Creates
  <2> QED BY <2>1, <2>2, <2>3, <1>1, <1>2, <1>4
<1>8. Creates(session[q])'
  BY <1>1, <1>7 DEF Creates
<1>9. Holds(session[q])'
  <2>1. \A n \in DOMAIN V :
        V[n].op = "one" /\ (\A m \in DOMAIN V : Mutates(V[m]) => n < m /\ V[m].op # "put") =>
            /\ V[n].id \in Used' /\ session'[q].got.known /\ session'[q].got.value \in ListRows
            /\ session'[q].got.value.state \in {"Open", "Deleted"}
            /\ session'[q].overtaken
    BY <1>0, <1>1, <1>3, <1>5 DEF HandlerTrue, Holds
  <2> QED BY <2>1, <1>1 DEF Holds, Mutates
<1>10. EditsOf(session[q])'
  BY <1>1, <1>3 DEF EditsOf
<1>11. Answers(session[q])'
  BY <1>0, <1>1, <1>3, <1>5 DEF HandlerTrue, Answers
<1>12. Moves(session[q])'
  BY <1>1, <1>3 DEF Moves
<1> QED BY <1>1, <1>6, <1>8, <1>9, <1>10, <1>11, <1>12 DEF HandlerTrue

LEMMA CommitterTrue ==
    ASSUME ListsInv, NEW s \in Sessions, Commit(s)
    PROVE  HandlerTrue(session[s])'
<1> DEFINE T == session[s].todo
           U == session'[s].todo
           e == T[1]
<1>0. ListsFit /\ HandlerTrue(session[s])
  BY DEF ListsInv
<1>1. /\ T \in Seq(Todos) /\ T # <<>> /\ e \in Todos /\ Mutates(e)
      /\ e.op = "edit" => e.id \in Used
      /\ e.op = "put" => row[e.id].state = "absent" /\ e.row.state = "Open"
      /\ row' = Committed(e) /\ U = Tail(T)
      /\ U # <<>> => session'[s].got = Known(row'[e.id]) /\ session'[s].overtaken = session[s].overtaken
  BY CommitIs
<1>2. kind' = kind /\ Lists' = Lists
  BY DEF Commit, Lists
<1>3. Planned(session[s].todo)'
  <2>1. Planned(U)
    BY <1>0, <1>1, PlannedTail DEF HandlerTrue
  <2> QED BY <2>1, <1>2 DEF Planned
<1>4. \A n \in DOMAIN U :
        /\ n \in Nat \ {0} /\ n + 1 \in DOMAIN T /\ U[n] = T[n + 1] /\ ~Mutates(U[n])
        /\ U[n].op # "list"
        /\ U[n].op = "one" => U[n].id = e.id /\ e.op \in {"put", "edit"} /\ e.id \in Items
        /\ session'[s].got = Known(row'[e.id]) /\ session'[s].overtaken = session[s].overtaken
  BY <1>0, <1>1, NoMoreChanges DEF HandlerTrue
<1>5. /\ row' \in [Items -> ListRows]
      /\ \A i \in Items : row[i].state # "absent" => row'[i].state # "absent"
      /\ e.op = "put" => row'[e.id] = e.row
      /\ e.op = "edit" => row'[e.id].state = row[e.id].state
  BY <1>0, <1>1, CommittedIs
<1>6. Creates(session[s])' /\ EditsOf(session[s])' /\ Answers(session[s])' /\ Moves(session[s])'
  BY <1>4 DEF Creates, EditsOf, Answers, Moves, Mutates
<1>7. ASSUME NEW n \in DOMAIN U, U[n].op = "one"
      PROVE  /\ U[n].id \in Used' /\ session'[s].got.known /\ session'[s].got.value \in ListRows
             /\ session'[s].got.value.state \in {"Open", "Deleted"}
             /\ ~session'[s].overtaken =>
                    session'[s].got.value = row'[U[n].id] /\ row'[U[n].id].state = "Open"
  <2>1. U[n].id = e.id /\ e.op \in {"put", "edit"} /\ e.id \in Items
    BY <1>4, <1>7
  <2>2. session'[s].got.known /\ session'[s].got.value = row'[e.id]
    BY <1>4 DEF Known
  <2>3. row'[e.id].state # "absent" /\ row'[e.id] \in ListRows
    BY <2>1, <1>1, <1>5 DEF Used
  <2>4. row'[e.id].state \in {"Open", "Deleted"} /\ e.id \in Used'
    BY <2>1, <2>3 DEF ListRows, Used
  <2>5. ~session[s].overtaken => row'[e.id].state = "Open"
    <3>1. CASE e.op = "put"
      BY <3>1, <1>1, <1>5
    <3>2. CASE e.op = "edit"
      <4>1. n + 1 \in DOMAIN T /\ 1 < n + 1 /\ T[n + 1].op = "one" /\ 1 \in DOMAIN T
        BY <1>1, <1>4, <1>7, RestIs
      <4>2. session[s].overtaken \/ row[e.id].state = "Open"
        BY <4>1, <3>2, <1>0 DEF HandlerTrue, EditsOf
      <4> QED BY <4>2, <3>2, <1>5
    <3> QED BY <3>1, <3>2, <2>1
  <2> QED BY <2>1, <2>2, <2>3, <2>4, <2>5, <1>4
<1>8. Holds(session[s])'
  BY <1>7 DEF Holds, Mutates
<1> QED BY <1>3, <1>6, <1>8 DEF HandlerTrue

LEMMA CommitCovers ==
    ASSUME ListsInv, NEW s \in Sessions, Commit(s), NEW k \in Wrong'
    PROVE  k \in late' \/ \E q \in Sessions : k \in SureOf(session'[q].todo)
<1> DEFINE T == session[s].todo
           e == T[1]
<1>0. ListsFit /\ HandlerTrue(session[s]) /\ Covered
  BY DEF ListsInv
<1>1. /\ T \in Seq(Todos) /\ T # <<>> /\ e \in Todos /\ Mutates(e) /\ Step(s) = e
      /\ e.op = "edit" => e.id \in Used
      /\ e.op = "put" => row[e.id].state = "absent" /\ e.row.state = "Open"
      /\ row' = Committed(e) /\ session'[s].todo = Tail(T)
      /\ \A q \in Sessions \ {s} : session'[q].todo = session[q].todo
  BY CommitIs
<1>2. UNCHANGED <<kind, one, list>> /\ late' = late \cup Unattended(s)
  BY DEF Commit
<1>3. \A n \in DOMAIN T, x \in Items \cup {"own"} :
        1 < n /\ x \in KeysOf(T[n]) => x \in SureOf(session'[s].todo)
  BY <1>0, <1>1, NoMoreChanges DEF HandlerTrue
<1>4. /\ 1 \in DOMAIN T /\ \A n \in DOMAIN T : T[n] \in Todos
      /\ \A n \in DOMAIN T : n # 1 => 1 < n
  BY <1>1, RestIs
<1>5. Lists' = Lists /\ Lists \subseteq {"own", "child"}
  BY <1>2 DEF Lists
<1>6. CASE k = "own"
  <2>1. CASE kind = "os" \/ (kind = "branch" /\ e.op = "put")
    BY <2>1, <1>1, <1>2, <1>6, UnattendedIs
  <2>2. CASE ~(kind = "os" \/ (kind = "branch" /\ e.op = "put"))
    <3>1. PICK n \in DOMAIN T : 1 < n /\ T[n].op = "flush"
      BY <2>2, <1>0, <1>1, <1>4 DEF HandlerTrue, Planned
    <3>2. k \in KeysOf(T[n])
      BY <3>1, <1>4, <1>6, KeysOfIs
    <3> QED BY <3>1, <3>2, <1>3, <1>6
  <2> QED BY <2>1, <2>2
<1>7. CASE k = "child"
  <2>1. kind = "status"
    BY <1>2, <1>7, ItemsAssumption DEF Wrong, Lists
  <2> QED BY <2>1, <1>1, <1>2, <1>7, UnattendedIs
<1>8. CASE k \in Items
  <2>1. one[k].known /\ (row'[k].state # "Open" \/ one[k].value # row'[k])
    BY <1>8, <1>2, ItemsAssumption DEF Wrong, Lists
  <2>2. kind \in CachedById
    BY <2>1, <1>8, <1>0 DEF ListsFit, Unknown
  <2>3. /\ row'[k] = row[k] \/ k = e.id
            \/ (e.op = "shift" /\ k \in (IF e.all THEN Used ELSE Open) /\ Between(k, e.from, e.to))
        /\ e.op = "put" => row'[e.id] = e.row
    BY <1>0, <1>1, <1>8, CommittedIs
  <2>4. ~(e.op = "put" /\ k = e.id)
    BY <2>1, <2>3, <1>0, <1>1, <1>4 DEF HandlerTrue, Creates
  <2>5. CASE row'[k] = row[k]
    <3>1. k \in Wrong
      BY <2>1, <2>5, <1>8 DEF Wrong
    <3>2. CASE k \in late
      BY <3>2, <1>2
    <3>3. CASE k \notin late
      <4>1. PICK q \in Sessions : k \in SureOf(session[q].todo)
        BY <3>1, <3>3, <1>0 DEF Covered
      <4>2. q # s
        <5> SUFFICES ASSUME q = s PROVE FALSE
          OBVIOUS
        <5>1. PICK n \in DOMAIN T : k \in KeysOf(T[n]) /\ \A m \in DOMAIN T : m < n => ~Mutates(T[m])
          BY <4>1 DEF SureOf
        <5>2. n = 1
          BY <5>1, <1>1, <1>4
        <5>3. k \in KeysOf(e)
          BY <5>1, <5>2
        <5>4. e.op = "put" /\ k = e.id
          BY <5>3, <1>1, KeysOfIs DEF Mutates
        <5> QED BY <5>4, <2>4
      <4> QED BY <4>1, <4>2, <1>1
    <3> QED BY <3>2, <3>3
  <2>6. CASE k = e.id /\ e.op \in {"edit", "remove"}
    <3>1. PICK n \in DOMAIN T : 1 < n /\ k \in KeysOf(T[n])
      BY <2>6, <2>2, <1>0, <1>4 DEF HandlerTrue, Planned
    <3> QED BY <3>1, <1>3, <1>8
  <2>7. CASE e.op = "shift" /\ row'[k] # row[k]
    <3>1. k = e.id \/ (k \in (IF e.all THEN Used ELSE Open) /\ Between(k, e.from, e.to))
      BY <2>3, <2>7
    <3>2. kind \in {"branch", "status", "cause"}
      BY <2>2, <2>7, <1>0, <1>4 DEF HandlerTrue, Planned, Sorted, CachedById
    <3>3. CASE kind = "branch"
      <4>1. PICK n \in DOMAIN T : 1 < n /\ T[n].op = "forget" /\ T[n].rows = Items
        BY <2>7, <3>3, <1>0, <1>4 DEF HandlerTrue, Planned
      <4>2. k \in KeysOf(T[n])
        BY <4>1, <1>4, <1>8, KeysOfIs
      <4> QED BY <4>1, <4>2, <1>3, <1>8
    <3>4. CASE kind = "cause"
      <4>1. CASE k = e.id
        <5>1. PICK n \in DOMAIN T : 1 < n /\ e.id \in KeysOf(T[n])
          BY <2>7, <3>4, <1>0, <1>4 DEF HandlerTrue, Planned
        <5> QED BY <4>1, <5>1, <1>3, <1>8
      <4>2. CASE k # e.id
        <5>1. ~e.all
          BY <2>7, <3>4, <1>0, <1>4 DEF HandlerTrue, Planned
        <5>2. k \in Open \ {e.id}
          BY <5>1, <4>2, <3>1
        <5>3. Open \ {Step(s).id} \subseteq Unattended(s)
          BY <1>1, <2>7, <3>4, UnattendedIs
        <5> QED BY <5>2, <5>3, <1>1, <1>2
      <4> QED BY <4>1, <4>2
    <3>5. CASE kind = "status"
      <4>1. CASE session[s].overtaken
        <5>1. Items \subseteq Unattended(s)
          BY <4>1, <1>1, <2>7, <3>5, UnattendedIs
        <5> QED BY <5>1, <1>2, <1>8
      <4>2. CASE ~session[s].overtaken
        <5>1. PICK n \in DOMAIN T : 1 < n /\ T[n].op = "forget" /\ Spans(e, T[n].rows)
          BY <4>2, <2>7, <3>5, <1>0, <1>4 DEF HandlerTrue, Moves
        <5>2. ~e.all
          BY <2>7, <3>5, <1>0, <1>4 DEF HandlerTrue, Planned
        <5>3. k \in T[n].rows
          BY <5>1, <5>2, <3>1 DEF Spans
        <5>4. k \in KeysOf(T[n])
          BY <5>1, <5>3, <1>4, KeysOfIs
        <5> QED BY <5>1, <5>4, <1>3, <1>8
      <4> QED BY <4>1, <4>2
    <3> QED BY <3>2, <3>3, <3>4, <3>5
  <2> QED BY <2>3, <2>4, <2>5, <2>6, <2>7, <1>1 DEF Mutates
<1> QED BY <1>5, <1>6, <1>7, <1>8 DEF Wrong

LEMMA CommitKeeps ==
    ASSUME ListsInv, NEW s \in Sessions, Commit(s)
    PROVE  ListsInv'
<1> DEFINE T == session[s].todo
           e == T[1]
<1>0. ListsFit /\ HandlerTrue(session[s]) /\ Apart
  BY DEF ListsInv
<1>1. /\ T \in Seq(Todos) /\ T # <<>> /\ e \in Todos /\ Mutates(e) /\ Step(s) = e
      /\ e.op = "edit" => e.id \in Used
      /\ e.op = "put" => row[e.id].state = "absent" /\ e.row.state = "Open"
      /\ row' = Committed(e) /\ session'[s].todo = Tail(T)
      /\ \A q \in Sessions \ {s} : session'[q].todo = session[q].todo
      /\ session' = [q \in Sessions |-> session'[q]]
      /\ \A q \in Sessions : HandlerFits(session[q])'
  BY CommitIs
<1>2. UNCHANGED <<kind, one, list, requests, blurred>> /\ late' = late \cup Unattended(s)
  BY DEF Commit
<1>3. \A q \in Sessions : HandlerTrue(session[q])'
  BY OthersTrue, CommitterTrue
<1>4. Apart'
  <2>1. \A q \in Sessions : \A n \in DOMAIN session'[q].todo :
            \E m \in DOMAIN session[q].todo : session[q].todo[m] = session'[q].todo[n]
    <3> TAKE q \in Sessions
    <3>1. CASE q = s
      BY <3>1, <1>1, RestIs
    <3>2. CASE q # s
      BY <3>2, <1>1
    <3> QED BY <3>1, <3>2
  <2> QED BY <2>1, <1>0 DEF Apart
<1>5. Covered'
  <2>1. \A k \in Wrong' : k \in late' \/ \E q \in Sessions : k \in SureOf(session'[q].todo)
    BY CommitCovers
  <2> QED BY <2>1 DEF Covered, SureOf, Mutates, KeysOf
<1>6. /\ row' \in [Items -> ListRows]
      /\ \A i \in Items : row[i].state # "absent" => row'[i].state # "absent"
  BY <1>0, <1>1, CommittedIs
<1>7. kind = "cause" => \A i \in Items : row'[i].state # "absent" => row'[i].sort >= 1
  <2> HAVE kind = "cause"
  <2>1. 1 \in DOMAIN T
    BY <1>1, RestIs
  <2>2. /\ e.op = "put" => e.row.sort >= 1
        /\ e.op = "shift" => e.from >= 1 /\ e.to >= 1
    BY <2>1, <1>0 DEF HandlerTrue, Planned
  <2> QED BY <2>2, <1>0, <1>1, CausesCounted
<1>8. Used \subseteq Used' /\ Lists' = Lists
  BY <1>2, <1>6 DEF Used, Lists
<1>9. ListsFit'
  <2>1. /\ kind' \in Kinds /\ row' \in [Items -> ListRows]
        /\ kind' = "cause" => \A i \in Used' : row'[i].sort >= 1
    BY <1>0, <1>2, <1>6, <1>7 DEF ListsFit, Used
  <2>2. /\ one' = [i \in Items |-> one'[i]]
        /\ list' = [n \in {"own", "child"} |-> list'[n]]
        /\ requests' \in 0 .. MaxRequests /\ blurred' \in BOOLEAN
    BY <1>0, <1>2 DEF ListsFit
  <2>3. \A i \in Items :
        \/ one'[i] = Unknown
        \/ /\ one'[i] = Known(one'[i].value) /\ kind' \in CachedById
           /\ one'[i].value \in ListRows /\ one'[i].value.state \in {"Open", "Deleted"}
    BY <1>0, <1>2 DEF ListsFit
  <2>4. \A n \in {"own", "child"} :
        \/ list'[n] = Unknown
        \/ n \in Lists' /\ list'[n] = Known(list'[n].value) /\ DOMAIN list'[n].value \subseteq Used'
    BY <1>0, <1>2, <1>8 DEF ListsFit
  <2>5. late' \subseteq Items \cup {"own", "child"}
    <3>1. Unattended(s) \subseteq Items \cup {"own", "child"}
      BY <1>1, UnattendedIs
    <3> QED BY <3>1, <1>0, <1>2 DEF ListsFit
  <2> QED BY <2>1, <2>2, <2>3, <2>4, <2>5, <1>1 DEF ListsFit
<1> QED BY <1>3, <1>4, <1>5, <1>9 DEF ListsInv

(***************************************************************************)
(* Requests.                                                               *)
(***************************************************************************)
LEMMA BeginIs ==
    ASSUME ListsFit, NEW s \in Ready, NEW places, NEW got, NEW T, NEW misled,
           Begin(s, places, got, T, misled)
    PROVE  /\ s \in Sessions /\ session[s] = NoSession /\ requests < MaxRequests
           /\ requests' = requests + 1
           /\ session'[s] = [todo |-> T, got |-> got, places |-> places, overtaken |-> misled]
           /\ \A q \in Sessions \ {s} : session'[q] = session[q]
           /\ session' = [q \in Sessions |-> session'[q]]
           /\ UNCHANGED <<kind, row, list, one, late>>
           /\ blurred' = (blurred \/ (places /\ (misled \/ \E q \in Sessions : session[q].places)))
BY DEF ListsFit, Ready, Begin

LEMMA BeginKeeps ==
    ASSUME ListsInv, NEW s \in Ready, NEW places \in BOOLEAN, NEW got, NEW T \in Seq(Todos),
           NEW misled \in BOOLEAN, Begin(s, places, got, T, misled), T # <<>>,
           got = Unknown \/ got = Known(got.value),
           NEW d, d = [todo |-> T, got |-> got, places |-> places, overtaken |-> misled],
           HandlerTrue(d),
           \A n \in DOMAIN T : T[n].op = "put" => Fresh(T[n].id)
    PROVE  ListsInv'
<1>0. ListsFit /\ (\A q \in Sessions : HandlerTrue(session[q])) /\ Apart /\ Covered
  BY DEF ListsInv
<1>1. /\ s \in Sessions /\ session[s] = NoSession /\ requests < MaxRequests
      /\ requests' = requests + 1
      /\ session'[s] = d
      /\ \A q \in Sessions \ {s} : session'[q] = session[q]
      /\ session' = [q \in Sessions |-> session'[q]]
      /\ UNCHANGED <<kind, row, list, one, late>>
      /\ blurred' = (blurred \/ (places /\ (misled \/ \E q \in Sessions : session[q].places)))
  BY <1>0, BeginIs
<1>2. d.todo = T /\ d.got = got /\ d.places = places /\ d.overtaken = misled
  OBVIOUS
<1>3. Used' = Used /\ Lists' = Lists /\ View' = View /\ Open' = Open /\ Wrong' = Wrong
  <2>1. Used' = Used /\ Lists' = Lists /\ Open' = Open
    BY <1>1 DEF Used, Lists, Open
  <2>2. View' = View
    BY <2>1, <1>1 DEF View
  <2> QED BY <2>1, <2>2, <1>1 DEF Wrong
<1>4. HandlerFits(session'[s])
  BY <1>1, <1>2 DEF HandlerFits
<1>5. HandlerTrue(session[s])'
  <2>1. Planned(session[s].todo)'
    BY <1>1, <1>2, <1>3 DEF HandlerTrue, Planned
  <2>2. Creates(session[s])'
    BY <1>1, <1>2 DEF HandlerTrue, Creates
  <2>3. Holds(session[s])'
    BY <1>1, <1>2, <1>3 DEF HandlerTrue, Holds, Mutates
  <2>4. EditsOf(session[s])' /\ Answers(session[s])'
    BY <1>1, <1>2, <1>3 DEF HandlerTrue, EditsOf, Answers
  <2>5. Moves(session[s])'
    BY <1>1, <1>2, <1>3 DEF HandlerTrue, Moves, Spans, Between
  <2> QED BY <2>1, <2>2, <2>3, <2>4, <2>5 DEF HandlerTrue
<1>6. ASSUME NEW q \in Sessions, q # s PROVE HandlerTrue(session[q])'
  <2>1. OneKept(q)
    BY <1>0, <1>1 DEF OneKept, HandlerTrue, Creates
  <2> QED BY <2>1, <1>0, <1>1, <1>6, TrueWaiting
<1>7. Apart'
  <2>1. \A q \in Sessions \ {s} : \A n \in DOMAIN T, m \in DOMAIN session[q].todo :
            T[n].op = "put" /\ session[q].todo[m].op = "put" => session[q].todo[m].id # T[n].id
    BY DEF Fresh
  <2> QED BY <2>1, <1>0, <1>1, <1>2 DEF Apart
<1>8. Covered'
  <2>1. ASSUME NEW k \in Wrong, k \notin late PROVE \E q \in Sessions : k \in SureOf(session'[q].todo)
    <3>1. PICK q \in Sessions : k \in SureOf(session[q].todo)
      BY <2>1, <1>0 DEF Covered
    <3>2. q # s
      BY <3>1, <1>1, IdleIsTrue DEF NoSession
    <3> QED BY <3>1, <3>2, <1>1
  <2> QED BY <2>1, <1>1, <1>3 DEF Covered, SureOf, Mutates, KeysOf
<1>9. ListsFit'
  <2>1. \A q \in Sessions : HandlerFits(session[q])'
    <3>1. \A q \in Sessions : HandlerFits(session'[q])
      BY <1>0, <1>1, <1>4 DEF ListsFit
    <3> QED BY <3>1 DEF HandlerFits
  <2>2. requests' \in 0 .. MaxRequests /\ blurred' \in BOOLEAN
    <3>1. requests' \in 0 .. MaxRequests
      BY <1>0, <1>1, MaxRequestsAssumption DEF ListsFit
    <3>2. (\E q \in Sessions : session[q].places) \in BOOLEAN
      OBVIOUS
    <3> QED BY <3>1, <3>2, <1>0, <1>1 DEF ListsFit
  <2> QED BY <2>1, <2>2, <1>0, <1>1, <1>3 DEF ListsFit
<1> QED BY <1>5, <1>6, <1>7, <1>8, <1>9 DEF ListsInv

\* A program that changes something first, and sees to its keys afterwards.
Leads(T) ==
    /\ Mutates(T[1])
    /\ \A n \in DOMAIN T : n # 1 =>
        /\ ~Mutates(T[n]) /\ T[n].op # "list"
        /\ T[n].op = "one" => T[n].id = T[1].id /\ T[1].op \in {"put", "edit"} /\ kind \in CachedById
    /\ kind # "os" /\ ~(kind = "branch" /\ T[1].op = "put") =>
        \E n \in DOMAIN T : 1 < n /\ T[n].op = "flush"
    /\ T[1].op \in {"edit", "remove"} /\ kind \in CachedById =>
        \E n \in DOMAIN T : 1 < n /\ T[1].id \in KeysOf(T[n])
    /\ T[1].op = "shift" =>
        /\ kind \in Sorted
        /\ kind \in {"status", "cause"} => ~T[1].all
        /\ kind = "cause" => T[1].from >= 1 /\ T[1].to >= 1
        /\ kind = "cause" => \E n \in DOMAIN T : 1 < n /\ T[1].id \in KeysOf(T[n])
        /\ kind = "branch" =>
            \E n \in DOMAIN T : 1 < n /\ T[n].op = "forget" /\ T[n].rows = Items
        /\ kind = "status" =>
            \E n \in DOMAIN T : 1 < n /\ T[n].op = "forget" /\ Spans(T[1], T[n].rows)
    /\ T[1].op = "put" => T[1].row.state = "Open" /\ (kind = "cause" => T[1].row.sort >= 1)

LEMMA LeadsIsPlanned ==
    ASSUME NEW T \in Seq(Todos), T # <<>>, Leads(T)
    PROVE  Planned(T)
<1>1. 1 \in DOMAIN T /\ \A n \in DOMAIN T : n \in Nat \ {0} /\ (Mutates(T[n]) => n = 1)
  BY RestIs DEF Leads
<1>2. Mutates(T[1]) /\ T[1].op \notin {"one", "list"}
  BY DEF Leads, Mutates
<1>3. /\ \A m, n \in DOMAIN T : Mutates(T[m]) /\ Mutates(T[n]) => m = n
      /\ \A m, n \in DOMAIN T : Mutates(T[m]) => T[n].op # "list"
  BY <1>1, <1>2 DEF Leads
<1>4. \A m, n \in DOMAIN T : Mutates(T[m]) /\ T[n].op = "one" =>
        T[n].id = T[m].id /\ (m < n => T[m].op \in {"put", "edit"})
  BY <1>1, <1>2 DEF Leads
<1>5. \A m \in DOMAIN T :
        Mutates(T[m]) /\ kind # "os" /\ ~(kind = "branch" /\ T[m].op = "put") =>
            \E n \in DOMAIN T : m < n /\ T[n].op = "flush"
  BY <1>1 DEF Leads
<1>6. \A m \in DOMAIN T : T[m].op \in {"put", "edit", "remove", "shift"} => m = 1
  BY <1>1 DEF Mutates
<1>7. \A m \in DOMAIN T :
        T[m].op \in {"edit", "remove"} /\ kind \in CachedById =>
            \E n \in DOMAIN T : m < n /\ T[m].id \in KeysOf(T[n])
  BY <1>6 DEF Leads
<1>8. \A m \in DOMAIN T : T[m].op = "shift" =>
        /\ kind \in Sorted
        /\ kind \in {"status", "cause"} => ~T[m].all
        /\ kind = "cause" => T[m].from >= 1 /\ T[m].to >= 1
        /\ kind = "cause" => \E n \in DOMAIN T : m < n /\ T[m].id \in KeysOf(T[n])
        /\ kind = "branch" =>
            \E n \in DOMAIN T : m < n /\ T[n].op = "forget" /\ T[n].rows = Items
  BY <1>6 DEF Leads
<1>9. /\ \A m \in DOMAIN T : T[m].op = "put" =>
            T[m].row.state = "Open" /\ (kind = "cause" => T[m].row.sort >= 1)
      /\ \A n \in DOMAIN T : T[n].op = "one" => kind \in CachedById
      /\ \A n \in DOMAIN T : T[n].op = "list" => T[n].key \in Lists
  BY <1>2, <1>6 DEF Leads
<1> QED BY <1>3, <1>4, <1>5, <1>7, <1>8, <1>9 DEF Planned

LEMMA ChangeBegins ==
    ASSUME ListsInv, NEW s \in Ready, NEW places \in BOOLEAN, NEW got, NEW T \in Seq(Todos),
           NEW misled \in BOOLEAN, Begin(s, places, got, T, misled), T # <<>>,
           got = Unknown \/ got = Known(got.value),
           Leads(T),
           T[1].op = "put" => Fresh(T[1].id) /\ T[1].id \in Items,
           T[1].op = "edit" => misled \/ row[T[1].id].state = "Open"
    PROVE  ListsInv'
<1> DEFINE d == [todo |-> T, got |-> got, places |-> places, overtaken |-> misled]
<1>1. 1 \in DOMAIN T /\ Mutates(T[1]) /\ \A n \in DOMAIN T : n \in Nat \ {0} /\ (Mutates(T[n]) => n = 1)
  BY RestIs DEF Leads
<1>2. /\ T[1].op \notin {"one", "list"}
      /\ \A n \in DOMAIN T : T[n].op # "list"
      /\ \A n \in DOMAIN T : T[n].op \in {"put", "edit", "remove", "shift"} => n = 1
  BY <1>1 DEF Leads, Mutates
<1>3. d.todo = T /\ d.got = got /\ d.places = places /\ d.overtaken = misled
  OBVIOUS
<1> HIDE DEF d
<1>4. Planned(d.todo)
  BY <1>3, LeadsIsPlanned
<1>5. Creates(d)
  <2>1. \A i \in Items : Fresh(i) => row[i].state = "absent" /\ ~one[i].known
    BY DEF Fresh, Used
  <2>2. \A n \in DOMAIN T : ~(n < 1)
    BY <1>1
  <2>3. ASSUME NEW n \in DOMAIN T, T[n].op = "put"
        PROVE  /\ row[T[n].id].state = "absent"
               /\ one[T[n].id].known => one[T[n].id].value = T[n].row
               /\ \A m \in DOMAIN T : m < n /\ T[m].op = "one" => got = Known(T[n].row)
    <3>1. n = 1
      BY <2>3, <1>2
    <3> QED BY <3>1, <2>1, <2>2, <2>3
  <2> QED BY <2>3, <1>3 DEF Creates
<1>6. Holds(d)
  <2>1. \A n \in DOMAIN T : ~(n < 1)
    BY <1>1
  <2> QED BY <2>1, <1>1, <1>3 DEF Holds
<1>7. EditsOf(d) /\ Answers(d)
  BY <1>2, <1>3 DEF EditsOf, Answers
<1>8. Moves(d)
  <2> SUFFICES ASSUME NEW m \in DOMAIN T, T[m].op = "shift", kind = "status"
               PROVE  \E n \in DOMAIN T : m < n /\ T[n].op = "forget" /\ Spans(T[m], T[n].rows)
    BY <1>3 DEF Moves
  <2>1. m = 1
    BY <1>2
  <2> QED BY <2>1 DEF Leads
<1>9. \A n \in DOMAIN T : T[n].op = "put" => Fresh(T[n].id)
  BY <1>2
<1> QED BY <1>4, <1>5, <1>6, <1>7, <1>8, <1>9, BeginKeeps DEF HandlerTrue, d

LEMMA GuardedBegins ==
    ASSUME ListsInv, NEW s \in Ready, NEW i \in Items, NEW places \in BOOLEAN, NEW T \in Seq(Todos),
           StartGuarded(s, i, places, T), T # <<>>,
           Leads(T), T[1].op # "put", T[1].id = i, kind \in CachedById
    PROVE  ListsInv'
<1> DEFINE got == Known(Seen(i))
           misled == i \in Wrong
<1>1. misled \in BOOLEAN /\ got = Known(got.value)
  BY DEF Known
<1>2. Seen(i).state = "Open"
  BY DEF StartGuarded
<1>3. i \notin Lists
  BY ItemsAssumption DEF Lists
<1>4. ~misled => row[i].state = "Open"
  BY <1>2, <1>3 DEF Wrong, Seen
<1>5. CASE one[i].known
  <2>1. (IF one[i].known THEN <<>> ELSE <<StoreOne(i)>>) \o T = T
    BY <1>5
  <2>2. Begin(s, places, got, T, misled)
    BY <2>1 DEF StartGuarded
  <2> QED BY <2>2, <1>1, <1>4, ChangeBegins
<1>6. CASE ~one[i].known
  <2> DEFINE x == StoreOne(i)
             U == <<x>> \o T
             d == [todo |-> U, got |-> got, places |-> places, overtaken |-> misled]
  <2>1. x \in Todos /\ x.op = "one" /\ x.id = i
    BY DEF StoreOne, Todos, OneSteps
  <2>2. Begin(s, places, got, U, misled)
    BY <1>6 DEF StartGuarded
  <2> HIDE DEF x
  <2>3. /\ U \in Seq(Todos) /\ U # <<>> /\ U[1] = x /\ 1 \in DOMAIN U
        /\ \A n \in DOMAIN U : n \in Nat \ {0} /\ (n # 1 => n - 1 \in DOMAIN T /\ U[n] = T[n - 1])
        /\ \A n \in DOMAIN T : n \in Nat \ {0} /\ n + 1 \in DOMAIN U /\ U[n + 1] = T[n]
    <3>1. Len(T) \in Nat /\ <<x>> \in Seq(Todos) /\ Len(<<x>>) = 1
      BY <2>1
    <3>2. /\ U \in Seq(Todos) /\ Len(U) = Len(T) + 1
          /\ \A n \in 1 .. (Len(T) + 1) : U[n] = IF n <= 1 THEN <<x>>[n] ELSE T[n - 1]
      BY <3>1, ConcatProperties
    <3>3. DOMAIN U = 1 .. (Len(T) + 1) /\ DOMAIN T = 1 .. Len(T)
      BY <3>2
    <3>4. U # <<>>
      BY <3>1, <3>2
    <3> HIDE DEF U
    <3> QED BY <3>1, <3>2, <3>3
  <2>4. d.todo = U /\ d.got = got /\ d.places = places /\ d.overtaken = misled
    OBVIOUS
  <2>5. Seen(i) = row[i] /\ row[i] \in ListRows
    BY <1>6 DEF Seen, ListsInv, ListsFit
  <2>6. got.known /\ got.value = row[i]
    BY <2>5 DEF Known
  <2> HIDE DEF U, d, got, misled
  <2>7. Planned(T) /\ 1 \in DOMAIN T
    BY LeadsIsPlanned, RestIs
  <2>8. /\ \A n \in DOMAIN T : Mutates(T[n]) <=> n = 1
        /\ \A n \in DOMAIN U : Mutates(U[n]) <=> n = 2
        /\ 2 \in DOMAIN U /\ U[2] = T[1]
    <3>1. \A n \in DOMAIN T : Mutates(T[n]) <=> n = 1
      BY DEF Leads
    <3>2. ~Mutates(U[1])
      BY <2>1, <2>3 DEF Mutates
    <3>3. 2 \in DOMAIN U /\ U[2] = T[1]
      BY <2>3, <2>7
    <3>4. ASSUME NEW n \in DOMAIN U PROVE Mutates(U[n]) <=> n = 2
      <4>1. CASE n = 1
        BY <4>1, <3>2
      <4>2. CASE n # 1
        <5>1. n - 1 \in DOMAIN T /\ U[n] = T[n - 1] /\ n \in Nat
          BY <4>2, <2>3
        <5>2. Mutates(T[n - 1]) <=> n - 1 = 1
          BY <5>1, <3>1
        <5> QED BY <5>1, <5>2
      <4> QED BY <4>1, <4>2
    <3> QED BY <3>1, <3>3, <3>4
  <2>9. \A n \in DOMAIN T : 1 < n => n + 1 \in DOMAIN U /\ 2 < n + 1 /\ U[n + 1] = T[n]
    BY <2>3
  <2>10. Planned(U)
    <3>1. \A m, n \in DOMAIN U : Mutates(U[m]) /\ Mutates(U[n]) => m = n
      BY <2>8
    <3>2. \A m, n \in DOMAIN U : Mutates(U[m]) => U[n].op # "list"
      BY <2>1, <2>3, <2>7, <2>8 DEF Planned
    <3>3. \A m, n \in DOMAIN U : Mutates(U[m]) /\ U[n].op = "one" =>
            U[n].id = U[m].id /\ (m < n => U[m].op \in {"put", "edit"})
      <4> SUFFICES ASSUME NEW n \in DOMAIN U, U[n].op = "one"
                   PROVE  U[n].id = T[1].id /\ (2 < n => T[1].op \in {"put", "edit"})
        BY <2>8
      <4>1. CASE n = 1
        BY <4>1, <2>1, <2>3
      <4>2. CASE n # 1
        <5>1. n - 1 \in DOMAIN T /\ T[n - 1].op = "one" /\ n - 1 # 1
          BY <4>2, <2>3, <2>8 DEF Mutates
        <5> QED BY <5>1, <4>2, <2>3 DEF Leads
      <4> QED BY <4>1, <4>2
    <3>4. \A m \in DOMAIN U :
            Mutates(U[m]) /\ kind # "os" /\ ~(kind = "branch" /\ U[m].op = "put") =>
                \E n \in DOMAIN U : m < n /\ U[n].op = "flush"
      <4> SUFFICES ASSUME kind # "os", ~(kind = "branch" /\ T[1].op = "put")
                   PROVE  \E n \in DOMAIN U : 2 < n /\ U[n].op = "flush"
        BY <2>8
      <4>1. PICK n \in DOMAIN T : 1 < n /\ T[n].op = "flush"
        BY DEF Leads
      <4> QED BY <4>1, <2>9
    <3>5. \A m \in DOMAIN U : U[m].op \in {"put", "edit", "remove", "shift"} => m = 2
      BY <2>8 DEF Mutates
    <3>6. \A m \in DOMAIN U :
            U[m].op \in {"edit", "remove"} /\ kind \in CachedById =>
                \E n \in DOMAIN U : m < n /\ U[m].id \in KeysOf(U[n])
      <4> SUFFICES ASSUME T[1].op \in {"edit", "remove"}
                   PROVE  \E n \in DOMAIN U : 2 < n /\ T[1].id \in KeysOf(U[n])
        BY <2>8, <3>5
      <4>1. PICK n \in DOMAIN T : 1 < n /\ T[1].id \in KeysOf(T[n])
        BY DEF Leads
      <4> QED BY <4>1, <2>9
    <3>7. \A m \in DOMAIN U : U[m].op = "shift" =>
            /\ kind \in Sorted
            /\ kind \in {"status", "cause"} => ~U[m].all
            /\ kind = "cause" => U[m].from >= 1 /\ U[m].to >= 1
            /\ kind = "cause" => \E n \in DOMAIN U : m < n /\ U[m].id \in KeysOf(U[n])
            /\ kind = "branch" =>
                \E n \in DOMAIN U : m < n /\ U[n].op = "forget" /\ U[n].rows = Items
      <4> SUFFICES ASSUME T[1].op = "shift"
                   PROVE
            /\ kind \in Sorted
            /\ kind \in {"status", "cause"} => ~T[1].all
            /\ kind = "cause" => T[1].from >= 1 /\ T[1].to >= 1
            /\ kind = "cause" => \E n \in DOMAIN U : 2 < n /\ T[1].id \in KeysOf(U[n])
            /\ kind = "branch" =>
                \E n \in DOMAIN U : 2 < n /\ U[n].op = "forget" /\ U[n].rows = Items
        BY <2>8, <3>5
      <4>1. /\ kind \in Sorted
            /\ kind \in {"status", "cause"} => ~T[1].all
            /\ kind = "cause" => T[1].from >= 1 /\ T[1].to >= 1
        BY DEF Leads
      <4>2. ASSUME kind = "cause" PROVE \E n \in DOMAIN U : 2 < n /\ T[1].id \in KeysOf(U[n])
        <5>1. PICK n \in DOMAIN T : 1 < n /\ T[1].id \in KeysOf(T[n])
          BY <4>2 DEF Leads
        <5> QED BY <5>1, <2>9
      <4>3. ASSUME kind = "branch"
            PROVE  \E n \in DOMAIN U : 2 < n /\ U[n].op = "forget" /\ U[n].rows = Items
        <5>1. PICK n \in DOMAIN T : 1 < n /\ T[n].op = "forget" /\ T[n].rows = Items
          BY <4>3 DEF Leads
        <5> QED BY <5>1, <2>9
      <4> QED BY <4>1, <4>2, <4>3
    <3>8. /\ \A m \in DOMAIN U : U[m].op = "put" =>
                U[m].row.state = "Open" /\ (kind = "cause" => U[m].row.sort >= 1)
          /\ \A n \in DOMAIN U : U[n].op = "one" => kind \in CachedById
      BY <2>8, <3>5
    <3>9. \A n \in DOMAIN U : U[n].op = "list" => U[n].key \in Lists
      BY <3>2, <2>8
    <3> QED BY <3>1, <3>2, <3>3, <3>4, <3>6, <3>7, <3>8, <3>9 DEF Planned
  <2>11. \A m \in DOMAIN U : U[m].op \in {"put", "edit", "remove", "shift"} => m = 2
    BY <2>8 DEF Mutates
  <2>12. \A m \in DOMAIN U : U[m].op # "put"
    BY <2>8, <2>11
  <2>13. Creates(d)
    BY <2>4, <2>12 DEF Creates
  <2>14. Holds(d)
    <3> SUFFICES ASSUME NEW n \in DOMAIN U, U[n].op = "one",
                        \A m \in DOMAIN U : Mutates(U[m]) => n < m /\ U[m].op # "put"
                 PROVE  /\ U[n].id \in Used /\ got.known /\ got.value \in ListRows
                        /\ got.value.state \in {"Open", "Deleted"}
                        /\ ~misled => got.value = row[U[n].id] /\ row[U[n].id].state = "Open"
      BY <2>4 DEF Holds
    <3>1. n = 1
      BY <2>3, <2>8
    <3>2. U[n].id = i
      BY <3>1, <2>1, <2>3
    <3> QED BY <3>2, <2>5, <2>6, <1>2 DEF Used
  <2>15. EditsOf(d)
    BY <2>4, <2>8, <2>11, <1>4 DEF EditsOf, misled
  <2>16. Answers(d)
    <3>1. \A n \in DOMAIN U : U[n].op # "list"
      BY <2>8, <2>10 DEF Planned
    <3> QED BY <3>1, <2>4 DEF Answers
  <2>17. Moves(d)
    <3> SUFFICES ASSUME T[1].op = "shift", kind = "status"
                 PROVE  \E n \in DOMAIN U : 2 < n /\ U[n].op = "forget" /\ Spans(T[1], U[n].rows)
      BY <2>4, <2>8, <2>11 DEF Moves
    <3>1. PICK n \in DOMAIN T : 1 < n /\ T[n].op = "forget" /\ Spans(T[1], T[n].rows)
      BY DEF Leads
    <3> QED BY <3>1, <2>9
  <2>18. HandlerTrue(d)
    BY <2>4, <2>10, <2>13, <2>14, <2>15, <2>16, <2>17 DEF HandlerTrue
  <2>19. \A n \in DOMAIN U : U[n].op = "put" => Fresh(U[n].id)
    BY <2>12
  <2>20. d = [todo |-> U, got |-> got, places |-> places, overtaken |-> misled]
    BY DEF d
  <2>21. misled \in BOOLEAN /\ got = Known(got.value)
    BY <1>1
  <2> QED BY <2>2, <2>3, <2>18, <2>19, <2>20, <2>21, BeginKeeps
<1> QED BY <1>5, <1>6

LEMMA LargestIs ==
    ASSUME NEW X, IsFiniteSet(X), X \subseteq Nat, X # {}
    PROVE  Max(X) \in X /\ \A y \in X : y <= Max(X)
<1> DEFINE From(i) == {j \in X : i <= j}
           C == {From(i) : i \in X}
<1>1. \A Y \in SUBSET X : IsFiniteSet(Y)
  BY FS_Subset
<1>2. C \subseteq FiniteSubsetsOf(X) /\ C # {}
  BY <1>1 DEF FiniteSubsetsOf
<1>3. IsWellFoundedOn(StrictSubsetOrdering(X), FiniteSubsetsOf(X))
  BY FS_StrictSubsetOrderingWellFounded
<1> HIDE DEF C
<1>4. \E x \in C : \A y \in C : ~(<<y, x>> \in StrictSubsetOrdering(X))
  BY <1>2, <1>3, WFMin
<1>5. PICK i \in X : \A j \in X : ~(<<From(j), From(i)>> \in StrictSubsetOrdering(X))
  BY <1>4 DEF C
<1>6. ASSUME NEW j \in X, ~(j <= i) PROVE FALSE
  <2>1. i \in Nat /\ j \in Nat /\ i < j
    BY <1>6
  <2>2. From(j) \subseteq From(i) /\ i \in From(i) /\ i \notin From(j)
    <3>1. \A k \in X : j <= k => i <= k
      BY <2>1
    <3>2. i <= i
      BY <2>1
    <3> QED BY <3>1, <3>2, <2>1, <1>6
  <2>3. From(j) \in SUBSET X /\ From(i) \in SUBSET X
    OBVIOUS
  <2> HIDE DEF From
  <2>4. <<From(j), From(i)>> \in StrictSubsetOrdering(X)
    BY <2>2, <2>3 DEF StrictSubsetOrdering
  <2> QED BY <1>5, <2>4
<1>7. \E x \in X : \A y \in X : x >= y
  <2>1. \A y \in X : i >= y
    BY <1>6
  <2> QED BY <2>1
<1>8. Max(X) \in X /\ \A y \in X : Max(X) >= y
  BY <1>7 DEF Max
<1> QED BY <1>8

LEMMA NextSortIs ==
    ASSUME ListsFit, NEW rows \in SUBSET Items
    PROVE  NextSort(rows) \in Nat /\ NextSort(rows) >= 1
           /\ \A i \in rows : row[i].sort < NextSort(rows)
<1> DEFINE S == {row[i].sort : i \in rows}
           X == {0} \cup S
<1>1. \A i \in rows : row[i].sort \in Nat
  BY DEF ListsFit, ListRows
<1>2. IsFiniteSet(rows)
  BY ItemsAssumption, FS_Subset
<1>3. IsFiniteSet(S)
  <2> DEFINE f == [i \in rows |-> row[i].sort]
  <2>1. f \in Surjection(rows, S)
    BY DEF Surjection
  <2> QED BY <1>2, <2>1, FS_Surjection
<1>4. IsFiniteSet(X)
  BY <1>3, FS_Singleton, FS_Union
<1>5. X \subseteq Nat /\ X # {} /\ NextSort(rows) = 1 + Max(X)
  BY <1>1 DEF NextSort
<1>6. \A i \in rows : row[i].sort \in X
  OBVIOUS
<1> HIDE DEF X
<1>7. Max(X) \in X /\ \A y \in X : y <= Max(X)
  BY <1>4, <1>5, LargestIs
<1>8. NextSort(rows) \in Nat /\ NextSort(rows) >= 1
  <2>1. Max(X) \in Nat
    BY <1>5, <1>7
  <2> HIDE DEF S
  <2> QED BY <2>1, <1>5
<1>9. ASSUME NEW i \in rows PROVE row[i].sort < NextSort(rows)
  <2>1. row[i].sort <= Max(X) /\ Max(X) \in Nat /\ row[i].sort \in Nat
    BY <1>1, <1>5, <1>6, <1>7
  <2> QED BY <2>1, <1>5
<1> QED BY <1>8, <1>9

LEMMA Built ==
    /\ \A i \in Items, r \in ListRows :
        Put(i, r) \in Todos /\ Put(i, r).op = "put" /\ Put(i, r).id = i /\ Put(i, r).row = r
    /\ \A i \in Items :
        /\ Edit(i) \in Todos /\ Edit(i).op = "edit" /\ Edit(i).id = i
        /\ Remove(i) \in Todos /\ Remove(i).op = "remove" /\ Remove(i).id = i
        /\ StoreOne(i) \in Todos /\ StoreOne(i).op = "one" /\ StoreOne(i).id = i
        /\ KeysOf(StoreOne(i)) = {i}
    /\ FlushList \in Todos /\ FlushList.op = "flush"
    /\ \A rows \in SUBSET Items :
        /\ Forget(rows) \in Todos /\ Forget(rows).op = "forget" /\ Forget(rows).rows = rows
        /\ KeysOf(Forget(rows)) = rows
    /\ \A n \in {"own", "child"} :
        StoreList(n) \in Todos /\ StoreList(n).op = "list" /\ StoreList(n).key = n
<1>1. \A i \in Items, r \in ListRows :
        Put(i, r) \in Todos /\ Put(i, r).op = "put" /\ Put(i, r).id = i /\ Put(i, r).row = r
  BY DEF Put, Todos, PutSteps
<1>2. \A i \in Items :
        /\ Edit(i) \in Todos /\ Edit(i).op = "edit" /\ Edit(i).id = i
        /\ Remove(i) \in Todos /\ Remove(i).op = "remove" /\ Remove(i).id = i
  BY DEF Edit, Remove, Todos, EditSteps
<1>3. \A i \in Items : StoreOne(i) \in Todos /\ StoreOne(i).op = "one" /\ StoreOne(i).id = i
  BY DEF StoreOne, Todos, OneSteps
<1>5. FlushList \in Todos /\ FlushList.op = "flush"
  BY DEF FlushList, Todos
<1>6. \A rows \in SUBSET Items :
        Forget(rows) \in Todos /\ Forget(rows).op = "forget" /\ Forget(rows).rows = rows
  BY DEF Forget, Todos, ForgetSteps
<1>7. \A n \in {"own", "child"} :
        StoreList(n) \in Todos /\ StoreList(n).op = "list" /\ StoreList(n).key = n
  BY DEF StoreList, Todos, ListSteps
<1> QED BY <1>1, <1>2, <1>3, <1>5, <1>6, <1>7, KeysOfIs

LEMMA BuiltShift ==
    ASSUME NEW i \in Items, NEW from \in Nat, NEW to \in Nat
    PROVE  Shift(i, from, to, TRUE) \in Todos
<1>1. \A b \in BOOLEAN : Shift(i, from, to, b) \in Todos
  BY DEF Shift, Todos, ShiftSteps
<1>2. TRUE \in BOOLEAN
  OBVIOUS
<1> QED BY <1>1, <1>2, Zenon

LEMMA BuiltShiftOpen ==
    ASSUME NEW i \in Items, NEW from \in Nat, NEW to \in Nat
    PROVE  Shift(i, from, to, FALSE) \in Todos
<1>1. \A b \in BOOLEAN : Shift(i, from, to, b) \in Todos
  BY DEF Shift, Todos, ShiftSteps
<1>2. FALSE \in BOOLEAN
  OBVIOUS
<1> QED BY <1>1, <1>2, Zenon

LEMMA OpenOnly ==
    ASSUME NEW i \in Items, NEW from \in Nat, NEW to \in Nat
    PROVE  ~Shift(i, from, to, FALSE).all
BY DEF Shift

LEMMA Programs ==
    ASSUME NEW a \in Todos
    PROVE  /\ <<a>> \in Seq(Todos) /\ <<a>> # <<>> /\ DOMAIN <<a>> = {1} /\ <<a>>[1] = a
           /\ \A b \in Todos :
                /\ <<a, b>> \in Seq(Todos) /\ <<a, b>> # <<>> /\ DOMAIN <<a, b>> = {1, 2}
                /\ <<a, b>>[1] = a /\ <<a, b>>[2] = b
           /\ \A b, c \in Todos :
                /\ <<a, b, c>> \in Seq(Todos) /\ <<a, b, c>> # <<>> /\ DOMAIN <<a, b, c>> = {1, 2, 3}
                /\ <<a, b, c>>[1] = a /\ <<a, b, c>>[2] = b /\ <<a, b, c>>[3] = c
<1>1. <<a>> \in Seq(Todos) /\ <<a>> # <<>> /\ DOMAIN <<a>> = {1} /\ <<a>>[1] = a
  OBVIOUS
<1>2. \A b \in Todos :
                /\ <<a, b>> \in Seq(Todos) /\ <<a, b>> # <<>> /\ DOMAIN <<a, b>> = {1, 2}
                /\ <<a, b>>[1] = a /\ <<a, b>>[2] = b
  OBVIOUS
<1>3. \A b, c \in Todos :
                /\ <<a, b, c>> \in Seq(Todos) /\ <<a, b, c>> # <<>> /\ DOMAIN <<a, b, c>> = {1, 2, 3}
                /\ <<a, b, c>>[1] = a /\ <<a, b, c>>[2] = b /\ <<a, b, c>>[3] = c
  OBVIOUS
<1> QED BY <1>1, <1>2, <1>3

\* A change and what follows it.
LEMMA LeadsThree ==
    ASSUME NEW a \in Todos, NEW b \in Todos, NEW c \in Todos,
           Mutates(a), b.op \in {"flush", "forget", "one"}, c.op \in {"flush", "forget", "one"},
           b.op = "one" => b.id = a.id /\ a.op \in {"put", "edit"} /\ kind \in CachedById,
           c.op = "one" => c.id = a.id /\ a.op \in {"put", "edit"} /\ kind \in CachedById,
           b.op = "flush" \/ c.op = "flush",
           a.op \in {"edit", "remove"} => a.id \in KeysOf(b) \/ a.id \in KeysOf(c),
           a.op = "shift" =>
                /\ kind \in Sorted
                /\ kind \in {"status", "cause"} => ~a.all
                /\ kind = "cause" => a.from >= 1 /\ a.to >= 1 /\ a.id \in KeysOf(c)
                /\ kind = "branch" => c.op = "forget" /\ c.rows = Items
                /\ kind = "status" => b.op = "forget" /\ Spans(a, b.rows),
           a.op = "put" => a.row.state = "Open" /\ (kind = "cause" => a.row.sort >= 1)
    PROVE  Leads(<<a, b, c>>) /\ <<a, b, c>> \in Seq(Todos) /\ <<a, b, c>> # <<>> /\ <<a, b, c>>[1] = a
<1> DEFINE T == <<a, b, c>>
<1>1. T \in Seq(Todos) /\ T # <<>> /\ DOMAIN T = {1, 2, 3} /\ T[1] = a /\ T[2] = b /\ T[3] = c
  BY Programs
<1> HIDE DEF T
<1>2. 1 < 2 /\ 1 < 3 /\ 2 # 1 /\ 3 # 1
  OBVIOUS
<1>3. \A n \in DOMAIN T : n # 1 =>
        /\ ~Mutates(T[n]) /\ T[n].op # "list"
        /\ T[n].op = "one" => T[n].id = T[1].id /\ T[1].op \in {"put", "edit"} /\ kind \in CachedById
  BY <1>1 DEF Mutates
<1>4. \E n \in DOMAIN T : 1 < n /\ T[n].op = "flush"
  BY <1>1, <1>2
<1>5. T[1].op \in {"edit", "remove"} => \E n \in DOMAIN T : 1 < n /\ T[1].id \in KeysOf(T[n])
  BY <1>1, <1>2
<1>6. T[1].op = "shift" =>
        /\ kind \in Sorted
        /\ kind \in {"status", "cause"} => ~T[1].all
        /\ kind = "cause" => T[1].from >= 1 /\ T[1].to >= 1
        /\ kind = "cause" => \E n \in DOMAIN T : 1 < n /\ T[1].id \in KeysOf(T[n])
        /\ kind = "branch" =>
            \E n \in DOMAIN T : 1 < n /\ T[n].op = "forget" /\ T[n].rows = Items
        /\ kind = "status" =>
            \E n \in DOMAIN T : 1 < n /\ T[n].op = "forget" /\ Spans(T[1], T[n].rows)
  BY <1>1, <1>2
<1>7. Leads(T)
  BY <1>1, <1>3, <1>4, <1>5, <1>6 DEF Leads
<1> QED BY <1>1, <1>7 DEF T

LEMMA LeadsTwo ==
    ASSUME NEW a \in Todos, NEW b \in Todos, Mutates(a), b.op = "flush",
           a.op \in {"edit", "remove"} => kind \notin CachedById,
           a.op = "shift" => kind \in Sorted /\ kind \notin {"branch", "status", "cause"},
           a.op = "put" => a.row.state = "Open" /\ (kind = "cause" => a.row.sort >= 1)
    PROVE  Leads(<<a, b>>) /\ <<a, b>> \in Seq(Todos) /\ <<a, b>> # <<>> /\ <<a, b>>[1] = a
<1> DEFINE T == <<a, b>>
<1>1. T \in Seq(Todos) /\ T # <<>> /\ DOMAIN T = {1, 2} /\ T[1] = a /\ T[2] = b
  BY Programs
<1> HIDE DEF T
<1>2. 1 < 2 /\ 2 # 1
  OBVIOUS
<1>3. \A n \in DOMAIN T : n # 1 => ~Mutates(T[n]) /\ T[n].op \notin {"list", "one"}
  BY <1>1 DEF Mutates
<1>4. \E n \in DOMAIN T : 1 < n /\ T[n].op = "flush"
  BY <1>1, <1>2
<1>7. Leads(T)
  BY <1>1, <1>3, <1>4 DEF Leads
<1> QED BY <1>1, <1>7 DEF T

LEMMA LeadsAlone ==
    ASSUME NEW a \in Todos, Mutates(a), kind = "os", a.op # "shift", a.op = "put" => a.row.state = "Open"
    PROVE  Leads(<<a>>) /\ <<a>> \in Seq(Todos) /\ <<a>> # <<>> /\ <<a>>[1] = a
<1> DEFINE T == <<a>>
<1>1. T \in Seq(Todos) /\ T # <<>> /\ DOMAIN T = {1} /\ T[1] = a
  BY Programs
<1> HIDE DEF T
<1>7. Leads(T)
  BY <1>1 DEF Leads, CachedById
<1> QED BY <1>1, <1>7 DEF T

LEMMA OpenRow ==
    ASSUME NEW sort \in Nat
    PROVE  /\ Row("Open", sort, 0) \in ListRows
           /\ Row("Open", sort, 0).state = "Open" /\ Row("Open", sort, 0).sort = sort
BY DEF Row, ListRows

LEMMA RowsAre ==
    ASSUME ListsInv
    PROVE  /\ Used \subseteq Items /\ Open \subseteq Items /\ Open \subseteq Used
           /\ row \in [Items -> ListRows] /\ kind \in Kinds
           /\ \A i \in Items : row[i].sort \in Nat
           /\ kind = "cause" => \A i \in Open : row[i].sort >= 1
BY DEF Used, Open, ListsInv, ListsFit, ListRows

LEMMA FindAllKeeps ==
    ASSUME ListsInv, NEW s \in Ready, NEW n \in {"own", "child"}, FindAll(s, n)
    PROVE  ListsInv'
<1> DEFINE T == <<StoreList(n)>>
           got == Known(View)
           d == [todo |-> T, got |-> got, places |-> FALSE, overtaken |-> FALSE]
<1>1. Begin(s, FALSE, got, T, FALSE) /\ n \in Lists
  BY DEF FindAll, Start
<1>2. StoreList(n) \in Todos /\ StoreList(n).op = "list" /\ StoreList(n).key = n
  BY Built
<1>3. T \in Seq(Todos) /\ T # <<>> /\ DOMAIN T = {1} /\ T[1] = StoreList(n)
  BY <1>2, Programs
<1>4. d.todo = T /\ d.got = got /\ d.places = FALSE /\ d.overtaken = FALSE
  OBVIOUS
<1>5. got = Known(got.value) /\ got.known /\ got.value = View /\ DOMAIN View \subseteq Used
  BY DEF Known, View, Open, Used
<1> HIDE DEF T, d, got
<1>6. \A m \in DOMAIN T : T[m] = StoreList(n) /\ ~Mutates(T[m]) /\ T[m].op = "list"
  BY <1>2, <1>3 DEF Mutates
<1>7. Planned(T)
  BY <1>1, <1>2, <1>6 DEF Planned, Mutates
<1>8. Creates(d) /\ Holds(d) /\ EditsOf(d) /\ Moves(d)
  BY <1>4, <1>6 DEF Creates, Holds, EditsOf, Moves
<1>9. Answers(d)
  BY <1>4, <1>5 DEF Answers
<1>10. HandlerTrue(d)
  BY <1>4, <1>7, <1>8, <1>9 DEF HandlerTrue
<1>11. d = [todo |-> T, got |-> got, places |-> FALSE, overtaken |-> FALSE]
  BY DEF d
<1>12. \A m \in DOMAIN T : T[m].op = "put" => Fresh(T[m].id)
  BY <1>6
<1> QED BY <1>1, <1>3, <1>5, <1>10, <1>11, <1>12, BeginKeeps

LEMMA FindOneKeeps ==
    ASSUME ListsInv, NEW s \in Ready, NEW i \in Items, FindOne(s, i)
    PROVE  ListsInv'
<1> DEFINE T == <<StoreOne(i)>>
           got == Known(row[i])
           d == [todo |-> T, got |-> got, places |-> FALSE, overtaken |-> FALSE]
<1>1. Begin(s, FALSE, got, T, FALSE) /\ i \in Open /\ kind \in CachedById
  BY DEF FindOne, Start
<1>2. StoreOne(i) \in Todos /\ StoreOne(i).op = "one" /\ StoreOne(i).id = i
  BY Built
<1>3. T \in Seq(Todos) /\ T # <<>> /\ DOMAIN T = {1} /\ T[1] = StoreOne(i)
  BY <1>2, Programs
<1>4. d.todo = T /\ d.got = got /\ d.places = FALSE /\ d.overtaken = FALSE
  OBVIOUS
<1>5. got = Known(got.value) /\ got.known /\ got.value = row[i]
  BY DEF Known
<1>5a. row[i] \in ListRows /\ i \in Used /\ row[i].state = "Open"
  BY <1>1, RowsAre DEF Open
<1> HIDE DEF T, d, got
<1>6. \A m \in DOMAIN T : T[m] = StoreOne(i) /\ ~Mutates(T[m]) /\ T[m].op = "one" /\ T[m].id = i
  BY <1>2, <1>3 DEF Mutates
<1>7. Planned(T)
  BY <1>1, <1>2, <1>6 DEF Planned, Mutates
<1>8. Creates(d) /\ Answers(d) /\ EditsOf(d) /\ Moves(d)
  BY <1>4, <1>6 DEF Creates, Answers, EditsOf, Moves
<1>9. Holds(d)
  BY <1>4, <1>5, <1>5a, <1>6 DEF Holds
<1>10. HandlerTrue(d)
  BY <1>4, <1>7, <1>8, <1>9 DEF HandlerTrue
<1>11. d = [todo |-> T, got |-> got, places |-> FALSE, overtaken |-> FALSE]
  BY DEF d
<1>12. \A m \in DOMAIN T : T[m].op = "put" => Fresh(T[m].id)
  BY <1>6
<1> QED BY <1>1, <1>3, <1>5, <1>10, <1>11, <1>12, BeginKeeps

LEMMA CreateBranchKeeps ==
    ASSUME ListsInv, NEW s \in Ready, NEW i \in Items, CreateBranch(s, i)
    PROVE  ListsInv'
<1> DEFINE new == Row("Open", NextSort(Used), 0)
           T == <<FlushList, StoreOne(i), Put(i, new)>>
           got == Known(new)
           d == [todo |-> T, got |-> got, places |-> TRUE, overtaken |-> FALSE]
<1>1. Begin(s, TRUE, got, T, FALSE) /\ Fresh(i) /\ kind = "branch"
  BY DEF CreateBranch, Start
<1>2. new \in ListRows /\ new.state = "Open"
  BY RowsAre, NextSortIs, OpenRow DEF ListsInv
<1>3. got = Known(got.value) /\ got.known /\ got.value = new
  BY DEF Known
<1>4. d.todo = T /\ d.got = got /\ d.places = TRUE /\ d.overtaken = FALSE
  OBVIOUS
<1> HIDE DEF new, got
<1>5. /\ FlushList \in Todos /\ FlushList.op = "flush"
      /\ StoreOne(i) \in Todos /\ StoreOne(i).op = "one" /\ StoreOne(i).id = i
      /\ Put(i, new) \in Todos /\ Put(i, new).op = "put" /\ Put(i, new).id = i /\ Put(i, new).row = new
  BY <1>2, Built
<1>6. /\ T \in Seq(Todos) /\ T # <<>> /\ DOMAIN T = {1, 2, 3}
      /\ T[1] = FlushList /\ T[2] = StoreOne(i) /\ T[3] = Put(i, new)
  BY <1>5, Programs
<1> HIDE DEF T, d
<1>7. /\ \A m \in DOMAIN T : Mutates(T[m]) <=> m = 3
      /\ \A m \in DOMAIN T : T[m].op # "list"
      /\ \A m \in DOMAIN T : T[m].op = "one" <=> m = 2
      /\ \A m \in DOMAIN T : T[m].op \in {"put", "edit", "remove", "shift"} => m = 3 /\ T[m].op = "put"
      /\ 2 < 3 /\ ~(3 < 3) /\ ~(3 < 2)
  BY <1>5, <1>6 DEF Mutates
<1>8. Planned(T)
  <2>1. \A m, n \in DOMAIN T : Mutates(T[m]) /\ Mutates(T[n]) => m = n
    BY <1>7
  <2>2. \A m, n \in DOMAIN T : Mutates(T[m]) /\ T[n].op = "one" =>
            T[n].id = T[m].id /\ (m < n => T[m].op \in {"put", "edit"})
    BY <1>5, <1>6, <1>7
  <2>3. \A m \in DOMAIN T : Mutates(T[m]) => kind = "branch" /\ T[m].op = "put"
    BY <1>1, <1>5, <1>6, <1>7
  <2>4. \A m \in DOMAIN T : T[m].op = "put" => T[m].row.state = "Open"
    BY <1>2, <1>5, <1>6, <1>7
  <2>5. kind \in CachedById /\ kind # "cause"
    BY <1>1 DEF CachedById
  <2> QED BY <2>1, <2>2, <2>3, <2>4, <2>5, <1>7 DEF Planned
<1>9. Creates(d)
  <2>1. row[i].state = "absent" /\ ~one[i].known
    BY <1>1 DEF Fresh, Used
  <2> QED BY <2>1, <1>4, <1>5, <1>6, <1>7 DEF Creates, got
<1>10. Holds(d)
  BY <1>4, <1>5, <1>6, <1>7 DEF Holds
<1>11. EditsOf(d) /\ Answers(d) /\ Moves(d)
  BY <1>4, <1>7 DEF EditsOf, Answers, Moves
<1>12. HandlerTrue(d)
  BY <1>4, <1>8, <1>9, <1>10, <1>11 DEF HandlerTrue
<1>13. d = [todo |-> T, got |-> got, places |-> TRUE, overtaken |-> FALSE]
  BY DEF d
<1>14. \A m \in DOMAIN T : T[m].op = "put" => Fresh(T[m].id)
  BY <1>1, <1>5, <1>6, <1>7
<1> QED BY <1>1, <1>3, <1>6, <1>12, <1>13, <1>14, BeginKeeps

LEMMA SeenIsRow ==
    ASSUME ListsInv, NEW i \in Items, Seen(i).state = "Open"
    PROVE  Seen(i) \in ListRows /\ Seen(i).sort \in Nat
BY DEF Seen, ListsInv, ListsFit, ListRows, Unknown

LEMMA BranchesKeep ==
    ASSUME ListsInv, NEW s \in Ready, NEW i \in Items
    PROVE  /\ UpdateBranch(s, i) => ListsInv'
           /\ DeleteBranch(s, i) => ListsInv'
           /\ \A to \in Sorts : SortBranch(s, i, to) => ListsInv'
<1>0. Edit(i).op = "edit" /\ Remove(i).op = "remove"
  BY Built
<1>1. ASSUME UpdateBranch(s, i) PROVE ListsInv'
  <2> DEFINE T == <<Edit(i), StoreOne(i), FlushList>>
  <2>1. kind = "branch" /\ kind \in CachedById /\ StartGuarded(s, i, FALSE, T)
    BY <1>1 DEF UpdateBranch, CachedById
  <2>2. Leads(T) /\ T \in Seq(Todos) /\ T # <<>> /\ T[1] = Edit(i)
    BY <2>1, Built, LeadsThree DEF Mutates
  <2>3. T[1].op # "put" /\ T[1].id = i /\ FALSE \in BOOLEAN
    BY <2>2, Built
  <2> HIDE DEF T
  <2> QED BY <2>1, <2>2, <2>3, GuardedBegins
<1>2. ASSUME DeleteBranch(s, i) PROVE ListsInv'
  <2> DEFINE T == <<Remove(i), Forget({i}), FlushList>>
  <2>1. kind = "branch" /\ kind \in CachedById /\ StartGuarded(s, i, FALSE, T)
    BY <1>2 DEF DeleteBranch, CachedById
  <2>2. Leads(T) /\ T \in Seq(Todos) /\ T # <<>> /\ T[1] = Remove(i)
    BY <2>1, Built, LeadsThree DEF Mutates
  <2>3. T[1].op # "put" /\ T[1].id = i /\ FALSE \in BOOLEAN
    BY <2>2, Built
  <2> HIDE DEF T
  <2> QED BY <2>1, <2>2, <2>3, GuardedBegins
<1>3. ASSUME NEW to \in Sorts, SortBranch(s, i, to) PROVE ListsInv'
  <2> DEFINE from == Seen(i).sort
             a == Shift(i, from, to, TRUE)
             T == <<a, FlushList, Forget(Items)>>
  <2>1. kind = "branch" /\ kind \in CachedById /\ kind \in Sorted /\ StartGuarded(s, i, TRUE, T)
    BY <1>3 DEF SortBranch, CachedById, Sorted
  <2>2. from \in Nat /\ to \in Nat
    BY <2>1, SeenIsRow, SortsAssumption DEF StartGuarded
  <2>3. a \in Todos /\ a.op = "shift" /\ a.id = i
    <3>1. a \in Todos
      BY <2>2, BuiltShift
    <3>2. a.op = "shift" /\ a.id = i
      BY DEF Shift
    <3> QED BY <3>1, <3>2
  <2> HIDE DEF a
  <2>4. Leads(T) /\ T \in Seq(Todos) /\ T # <<>> /\ T[1] = a
    BY <2>1, <2>3, Built, LeadsThree DEF Mutates
  <2> HIDE DEF T
  <2> QED BY <2>1, <2>3, <2>4, GuardedBegins
<1> QED BY <1>1, <1>2, <1>3

LEMMA CreateStatusKeeps ==
    ASSUME ListsInv, NEW s \in Ready, NEW i \in Items, CreateStatus(s, i)
    PROVE  ListsInv'
<1> DEFINE new == Row("Open", NextSort(Used), 0)
           T == <<Put(i, new), FlushList, StoreOne(i)>>
<1>1. Begin(s, TRUE, Unknown, T, FALSE) /\ Fresh(i) /\ kind = "status" /\ kind \in CachedById
  BY DEF CreateStatus, Start, CachedById
<1>2. new \in ListRows /\ new.state = "Open"
  BY RowsAre, NextSortIs, OpenRow DEF ListsInv
<1> HIDE DEF new
<1>3. Put(i, new) \in Todos /\ Put(i, new).op = "put" /\ Put(i, new).id = i /\ Put(i, new).row = new
  BY <1>2, Built
<1>4. Leads(T) /\ T \in Seq(Todos) /\ T # <<>> /\ T[1] = Put(i, new)
  BY <1>1, <1>2, <1>3, Built, LeadsThree DEF Mutates
<1> HIDE DEF T
<1> QED BY <1>1, <1>3, <1>4, ChangeBegins

\* Creations that leave the list to be asked for again.
LEMMA CreationKeeps ==
    ASSUME ListsInv, NEW s \in Ready, NEW i \in Items, NEW new \in ListRows, NEW places \in BOOLEAN,
           Fresh(i), new.state = "Open", kind = "cause" => new.sort >= 1,
           \/ Start(s, places, Unknown, <<Put(i, new), FlushList>>)
           \/ kind = "os" /\ Start(s, places, Unknown, <<Put(i, new)>>)
    PROVE  ListsInv'
<1>1. Put(i, new) \in Todos /\ Put(i, new).op = "put" /\ Put(i, new).id = i /\ Put(i, new).row = new
  BY Built
<1>2. FlushList \in Todos /\ FlushList.op = "flush"
  BY Built
<1>3. CASE Start(s, places, Unknown, <<Put(i, new), FlushList>>)
  <2> DEFINE T == <<Put(i, new), FlushList>>
  <2>1. Begin(s, places, Unknown, T, FALSE)
    BY <1>3 DEF Start
  <2>2. Leads(T) /\ T \in Seq(Todos) /\ T # <<>> /\ T[1] = Put(i, new)
    BY <1>1, <1>2, LeadsTwo DEF Mutates
  <2> HIDE DEF T
  <2> QED BY <2>1, <2>2, <1>1, ChangeBegins
<1>4. CASE kind = "os" /\ Start(s, places, Unknown, <<Put(i, new)>>)
  <2> DEFINE T == <<Put(i, new)>>
  <2>1. Begin(s, places, Unknown, T, FALSE)
    BY <1>4 DEF Start
  <2>2. Leads(T) /\ T \in Seq(Todos) /\ T # <<>> /\ T[1] = Put(i, new)
    BY <1>1, <1>4, LeadsAlone DEF Mutates
  <2> HIDE DEF T
  <2> QED BY <2>1, <2>2, <1>1, ChangeBegins
<1> QED BY <1>3, <1>4

LEMMA CreationsKeep ==
    ASSUME ListsInv, NEW s \in Ready, NEW i \in Items
    PROVE  /\ CreateCause(s, i) => ListsInv'
           /\ CreateRegion(s, i) => ListsInv'
           /\ CreateOsType(s, i) => ListsInv'
           /\ CreateCategory(s, i) => ListsInv'
<1>0. ListsFit
  BY DEF ListsInv
<1>1. ASSUME CreateCause(s, i) PROVE ListsInv'
  <2>1. NextSort(Open) \in Nat /\ NextSort(Open) >= 1
    BY <1>0, RowsAre, NextSortIs
  <2> DEFINE new == Row("Open", NextSort(Open), 0)
  <2>2. new \in ListRows /\ new.state = "Open" /\ new.sort >= 1
    BY <2>1, OpenRow
  <2>3. Fresh(i) /\ Start(s, TRUE, Unknown, <<Put(i, new), FlushList>>)
    BY <1>1 DEF CreateCause
  <2> HIDE DEF new
  <2> QED BY <2>2, <2>3, CreationKeeps
<1>2. ASSUME CreateCategory(s, i) PROVE ListsInv'
  <2>1. NextSort(Used) \in Nat /\ NextSort(Used) >= 1
    BY <1>0, RowsAre, NextSortIs
  <2> DEFINE new == Row("Open", NextSort(Used), 0)
  <2>2. new \in ListRows /\ new.state = "Open" /\ new.sort >= 1
    BY <2>1, OpenRow
  <2>3. Fresh(i) /\ Start(s, TRUE, Unknown, <<Put(i, new), FlushList>>)
    BY <1>2 DEF CreateCategory
  <2> HIDE DEF new
  <2> QED BY <2>2, <2>3, CreationKeeps
<1>3. ASSUME CreateRegion(s, i) PROVE ListsInv'
  <2> DEFINE new == Row("Open", 0, 0)
  <2>2. new \in ListRows /\ new.state = "Open" /\ kind # "cause"
    BY <1>3, OpenRow DEF CreateRegion
  <2>3. Fresh(i) /\ Start(s, FALSE, Unknown, <<Put(i, new), FlushList>>)
    BY <1>3 DEF CreateRegion
  <2> HIDE DEF new
  <2> QED BY <2>2, <2>3, CreationKeeps
<1>4. ASSUME CreateOsType(s, i) PROVE ListsInv'
  <2> DEFINE new == Row("Open", 0, 0)
  <2>2. new \in ListRows /\ new.state = "Open" /\ kind = "os"
    BY <1>4, OpenRow DEF CreateOsType
  <2>3. Fresh(i) /\ Start(s, FALSE, Unknown, <<Put(i, new)>>)
    BY <1>4 DEF CreateOsType
  <2> HIDE DEF new
  <2> QED BY <2>2, <2>3, CreationKeeps
<1> QED BY <1>1, <1>2, <1>3, <1>4

\* Changes of a row somebody was shown.
LEMMA ChangesKeep ==
    ASSUME ListsInv, NEW s \in Ready, NEW i \in Items, NEW a \in Todos, NEW places \in BOOLEAN,
           a.op \in {"edit", "remove", "shift"}, a.id = i, i \in Open,
           a.op = "shift" => kind \in Sorted,
           \/ /\ kind = "cause" /\ a.op = "shift" => ~a.all /\ a.from >= 1 /\ a.to >= 1
              /\ kind \in {"cause", "region"}
              /\ Start(s, places, Unknown, <<a, FlushList, Forget({i})>>)
           \/ kind \in {"phone", "problem"} /\ Start(s, places, Unknown, <<a, FlushList>>)
           \/ kind = "os" /\ Start(s, places, Unknown, <<a>>)
    PROVE  ListsInv'
<1>1. /\ FlushList \in Todos /\ FlushList.op = "flush"
      /\ Forget({i}) \in Todos /\ Forget({i}).op = "forget" /\ i \in KeysOf(Forget({i}))
  BY Built
<1>2. Mutates(a) /\ a.op # "put" /\ row[i].state = "Open"
  BY DEF Mutates, Open
<1>3. CASE /\ kind = "cause" /\ a.op = "shift" => ~a.all /\ a.from >= 1 /\ a.to >= 1
           /\ kind \in {"cause", "region"}
           /\ Start(s, places, Unknown, <<a, FlushList, Forget({i})>>)
  <2> DEFINE T == <<a, FlushList, Forget({i})>>
  <2>1. Begin(s, places, Unknown, T, FALSE)
    BY <1>3 DEF Start
  <2>2. a.op = "shift" => kind = "cause"
    BY <1>3 DEF Sorted
  <2>3. Leads(T) /\ T \in Seq(Todos) /\ T # <<>> /\ T[1] = a
    BY <1>1, <1>2, <1>3, <2>2, LeadsThree
  <2> HIDE DEF T
  <2> QED BY <2>1, <2>3, <1>2, ChangeBegins
<1>4. CASE kind \in {"phone", "problem"} /\ Start(s, places, Unknown, <<a, FlushList>>)
  <2> DEFINE T == <<a, FlushList>>
  <2>1. Begin(s, places, Unknown, T, FALSE)
    BY <1>4 DEF Start
  <2>2. kind \notin CachedById /\ kind \notin {"branch", "status", "cause"}
    BY <1>4 DEF CachedById
  <2>3. Leads(T) /\ T \in Seq(Todos) /\ T # <<>> /\ T[1] = a
    BY <1>1, <1>2, <2>2, LeadsTwo
  <2> HIDE DEF T
  <2> QED BY <2>1, <2>3, <1>2, ChangeBegins
<1>5. CASE kind = "os" /\ Start(s, places, Unknown, <<a>>)
  <2> DEFINE T == <<a>>
  <2>1. Begin(s, places, Unknown, T, FALSE)
    BY <1>5 DEF Start
  <2>2. a.op # "shift"
    BY <1>5 DEF Sorted
  <2>3. Leads(T) /\ T \in Seq(Todos) /\ T # <<>> /\ T[1] = a
    BY <1>2, <1>5, <2>2, LeadsAlone
  <2> HIDE DEF T
  <2> QED BY <2>1, <2>3, <1>2, ChangeBegins
<1> QED BY <1>3, <1>4, <1>5

\* Where a reject cause is moved to.
LEMMA TargetIs ==
    ASSUME NEW to \in Nat, NEW last \in Nat
    PROVE  Max({1, Min({to, last})}) \in Nat /\ Max({1, Min({to, last})}) >= 1
<1> DEFINE X == {to, last}
           m == Min(X)
<1>1. \E x \in X : \A y \in X : x =< y
  <2>1. CASE to <= last
    BY <2>1
  <2>2. CASE ~(to <= last)
    BY <2>2
  <2> QED BY <2>1, <2>2
<1> HIDE DEF X
<1>2. m \in X
  BY <1>1 DEF Min
<1>3. m \in Nat
  BY <1>2 DEF X
<1> HIDE DEF m
<1> DEFINE Y == {1, m}
<1>4. \E x \in Y : \A y \in Y : x >= y
  <2>1. CASE 1 <= m
    BY <2>1, <1>3
  <2>2. CASE ~(1 <= m)
    BY <2>2, <1>3
  <2> QED BY <2>1, <2>2
<1>4a. Y \subseteq Nat /\ 1 \in Y
  BY <1>3
<1> HIDE DEF Y
<1>5. Max(Y) \in Y /\ \A y \in Y : Max(Y) >= y
  BY <1>4 DEF Max
<1>6. Max(Y) \in Nat /\ Max(Y) >= 1
  BY <1>4a, <1>5
<1> QED BY <1>6 DEF Y, m, X

LEMMA LastIs ==
    ASSUME ListsInv, NEW i \in Open
    PROVE  /\ Max({row[j].sort : j \in Open}) \in Nat
           /\ \A j \in Open : row[j].sort <= Max({row[k].sort : k \in Open})
<1> DEFINE X == {row[j].sort : j \in Open}
           f == [j \in Open |-> row[j].sort]
<1>1. IsFiniteSet(Open)
  BY RowsAre, ItemsAssumption, FS_Subset
<1>2. f \in Surjection(Open, X)
  BY DEF Surjection
<1>3. IsFiniteSet(X)
  BY <1>1, <1>2, FS_Surjection
<1>4. X \subseteq Nat /\ X # {} /\ \A j \in Open : row[j].sort \in X
  BY RowsAre
<1> HIDE DEF X
<1>5. Max(X) \in X /\ \A y \in X : y <= Max(X)
  BY <1>3, <1>4, LargestIs
<1>6. Max(X) \in Nat /\ \A j \in Open : row[j].sort <= Max(X)
  BY <1>4, <1>5
<1> QED BY <1>6 DEF X

LEMMA CausesKeep ==
    ASSUME ListsInv, NEW s \in Ready, NEW i \in Items
    PROVE  /\ UpdateCause(s, i) => ListsInv'
           /\ DeleteCause(s, i) => ListsInv'
           /\ \A to \in Sorts : SortCause(s, i, to) => ListsInv'
<1>0. /\ Edit(i) \in Todos /\ Edit(i).op = "edit" /\ Edit(i).id = i
      /\ Remove(i) \in Todos /\ Remove(i).op = "remove" /\ Remove(i).id = i
  BY Built
<1>1. ASSUME UpdateCause(s, i) PROVE ListsInv'
  BY <1>0, <1>1, ChangesKeep DEF UpdateCause
<1>2. ASSUME DeleteCause(s, i) PROVE ListsInv'
  BY <1>0, <1>2, ChangesKeep DEF DeleteCause
<1>3. ASSUME NEW to \in Sorts, SortCause(s, i, to) PROVE ListsInv'
  <2> DEFINE last == Max({row[j].sort : j \in Open})
             target == Max({1, Min({to, last})})
             from == row[i].sort
             a == Shift(i, from, target, FALSE)
  <2>1. kind = "cause" /\ i \in Open /\ Start(s, TRUE, Unknown, <<a, FlushList, Forget({i})>>)
    BY <1>3 DEF SortCause
  <2>2. last \in Nat /\ to \in Nat
    BY <2>1, LastIs, SortsAssumption
  <2> HIDE DEF last
  <2>3. target \in Nat /\ target >= 1
    BY <2>2, TargetIs
  <2>4. from \in Nat /\ from >= 1
    BY <2>1, RowsAre
  <2> HIDE DEF from, target
  <2>5. a \in Todos /\ a.op = "shift" /\ a.id = i /\ a.from = from /\ a.to = target /\ ~a.all
    <3>1. a \in Todos
      BY <2>3, <2>4, BuiltShiftOpen
    <3>3. a.op = "shift" /\ a.id = i /\ a.from = from /\ a.to = target
      BY DEF Shift
    <3>2. ~a.all
      BY <2>3, <2>4, OpenOnly
    <3> HIDE DEF a
    <3> QED BY <3>1, <3>2, <3>3
  <2> HIDE DEF a
  <2>6. kind \in Sorted
    BY <2>1 DEF Sorted
  <2> QED BY <2>1, <2>3, <2>4, <2>5, <2>6, ChangesKeep
<1> QED BY <1>1, <1>2, <1>3

LEMMA OtherListsKeep ==
    ASSUME ListsInv, NEW s \in Ready, NEW i \in Items
    PROVE  /\ UpdateRegion(s, i) => ListsInv'
           /\ DeleteRegion(s, i) => ListsInv'
           /\ UpdateOsType(s, i) => ListsInv'
           /\ DeleteOsType(s, i) => ListsInv'
           /\ DeleteCategory(s, i) => ListsInv'
           /\ \A to \in Sorts : SortPhoneCategory(s, i, to) => ListsInv'
           /\ \A to \in Sorts : SortProblemCategory(s, i, to) => ListsInv'
<1>0. /\ Edit(i) \in Todos /\ Edit(i).op = "edit" /\ Edit(i).id = i
      /\ Remove(i) \in Todos /\ Remove(i).op = "remove" /\ Remove(i).id = i
  BY Built
<1>1. UpdateRegion(s, i) => ListsInv'
  BY <1>0, ChangesKeep DEF UpdateRegion
<1>2. DeleteRegion(s, i) => ListsInv'
  BY <1>0, ChangesKeep DEF DeleteRegion
<1>3. UpdateOsType(s, i) => ListsInv'
  BY <1>0, ChangesKeep DEF UpdateOsType
<1>4. DeleteOsType(s, i) => ListsInv'
  BY <1>0, ChangesKeep DEF DeleteOsType
<1>5. DeleteCategory(s, i) => ListsInv'
  BY <1>0, ChangesKeep DEF DeleteCategory
<1>6. ASSUME NEW to \in Sorts, SortPhoneCategory(s, i, to) \/ SortProblemCategory(s, i, to)
      PROVE  ListsInv'
  <2> DEFINE from == row[i].sort
             a == Shift(i, from, to, TRUE)
  <2>1. /\ kind \in {"phone", "problem"} /\ kind \in Sorted /\ i \in Open
        /\ Start(s, TRUE, Unknown, <<a, FlushList>>)
    BY <1>6 DEF SortPhoneCategory, SortProblemCategory, Sorted
  <2>2. from \in Nat /\ to \in Nat
    BY RowsAre, SortsAssumption
  <2> HIDE DEF from
  <2>3. a \in Todos /\ a.op = "shift" /\ a.id = i
    <3>1. a \in Todos
      BY <2>2, BuiltShift
    <3>2. a.op = "shift" /\ a.id = i
      BY DEF Shift
    <3> QED BY <3>1, <3>2
  <2> HIDE DEF a
  <2> QED BY <2>1, <2>3, ChangesKeep
<1> QED BY <1>1, <1>2, <1>3, <1>4, <1>5, <1>6

LEMMA StatusesKeep ==
    ASSUME ListsInv, NEW s \in Ready, NEW i \in Items
    PROVE  /\ UpdateStatus(s, i) => ListsInv'
           /\ DeleteStatus(s, i) => ListsInv'
           /\ \A to \in Sorts : SortStatus(s, i, to) => ListsInv'
<1>1. ASSUME UpdateStatus(s, i) PROVE ListsInv'
  <2> DEFINE T == <<Edit(i), StoreOne(i), FlushList>>
  <2>1. kind = "status" /\ kind \in CachedById /\ StartGuarded(s, i, FALSE, T)
    BY <1>1 DEF UpdateStatus, CachedById
  <2>2. Leads(T) /\ T \in Seq(Todos) /\ T # <<>> /\ T[1] = Edit(i)
    BY <2>1, Built, LeadsThree DEF Mutates
  <2>3. T[1].op # "put" /\ T[1].id = i /\ FALSE \in BOOLEAN
    BY <2>2, Built
  <2> HIDE DEF T
  <2> QED BY <2>1, <2>2, <2>3, GuardedBegins
<1>2. ASSUME DeleteStatus(s, i) PROVE ListsInv'
  <2> DEFINE T == <<Remove(i), Forget({i}), FlushList>>
  <2>1. kind = "status" /\ kind \in CachedById /\ StartGuarded(s, i, FALSE, T)
    BY <1>2 DEF DeleteStatus, CachedById
  <2>2. Leads(T) /\ T \in Seq(Todos) /\ T # <<>> /\ T[1] = Remove(i)
    BY <2>1, Built, LeadsThree DEF Mutates
  <2>3. T[1].op # "put" /\ T[1].id = i /\ FALSE \in BOOLEAN
    BY <2>2, Built
  <2> HIDE DEF T
  <2> QED BY <2>1, <2>2, <2>3, GuardedBegins
<1>3. ASSUME NEW to \in Sorts, SortStatus(s, i, to) PROVE ListsInv'
  <2> DEFINE from == row[i].sort
             span == IF to < from THEN to .. from ELSE from .. to
             moved == {j \in Open : row[j].sort \in span}
             a == Shift(i, from, to, FALSE)
             T == <<a, Forget(moved), FlushList>>
  <2>1. kind = "status" /\ kind \in CachedById /\ kind \in Sorted /\ i \in Open
        /\ StartGuarded(s, i, TRUE, T)
    BY <1>3 DEF SortStatus, CachedById, Sorted
  <2>2. from \in Nat /\ to \in Nat /\ \A j \in Items : row[j].sort \in Nat
    BY RowsAre, SortsAssumption
  <2>3. i \in moved
    BY <2>1, <2>2
  <2>4. \A j \in Open : Between(j, from, to) => j \in moved
    BY <2>2, RowsAre DEF Between
  <2>5. moved \subseteq Items
    BY RowsAre
  <2> HIDE DEF moved
  <2> HIDE DEF from
  <2>6. a \in Todos /\ a.op = "shift" /\ a.id = i /\ a.from = from /\ a.to = to /\ ~a.all
    <3>1. a \in Todos
      BY <2>2, BuiltShiftOpen
    <3>3. a.op = "shift" /\ a.id = i /\ a.from = from /\ a.to = to
      BY DEF Shift
    <3>2. ~a.all
      BY <2>2, OpenOnly
    <3> QED BY <3>1, <3>2, <3>3
  <2>7. Spans(a, moved)
    BY <2>3, <2>4, <2>6 DEF Spans
  <2>8. Forget(moved) \in Todos /\ Forget(moved).op = "forget" /\ Forget(moved).rows = moved
    BY <2>5, Built
  <2> HIDE DEF a
  <2>9. Leads(T) /\ T \in Seq(Todos) /\ T # <<>> /\ T[1] = a
    BY <2>1, <2>6, <2>7, <2>8, Built, LeadsThree DEF Mutates
  <2> HIDE DEF T
  <2> QED BY <2>1, <2>6, <2>9, GuardedBegins
<1> QED BY <1>1, <1>2, <1>3

LEMMA ListsStart == ListsInit => ListsInv
<1> SUFFICES ASSUME ListsInit PROVE ListsInv
  OBVIOUS
<1>1. /\ kind \in Kinds /\ row \in [Items -> ListRows]
      /\ kind = "cause" => \A i \in Used : row[i].sort >= 1
      /\ session = [s \in Sessions |-> NoSession] /\ requests = 0 /\ late = {} /\ blurred = FALSE
  BY StartsAssumption DEF ListsInit, Used
<1>2. PICK asked \in {{}, Lists} :
        list = [n \in {"own", "child"} |-> IF n \in asked THEN Known(View) ELSE Unknown]
  BY DEF ListsInit
<1>3. PICK kept \in {{}, IF kind \in CachedById THEN Open ELSE {}} :
        one = [i \in Items |-> IF i \in kept THEN Known(row[i]) ELSE Unknown]
  BY DEF ListsInit
<1>4. asked \subseteq Lists /\ kept \subseteq Open /\ (kept # {} => kind \in CachedById)
  BY <1>2, <1>3
<1>5. /\ Known(View).known /\ Known(View).value = View /\ Unknown.known = FALSE
      /\ \A i \in Items : Known(row[i]).known /\ Known(row[i]).value = row[i]
      /\ DOMAIN View = Open /\ Open \subseteq Used
  BY <1>1 DEF Known, Unknown, View, Open, Used
<1>6. \A i \in Items :
        \/ one[i] = Unknown
        \/ /\ i \in Open /\ one[i] = Known(row[i]) /\ kind \in CachedById
  BY <1>3, <1>4
<1>7. \A n \in {"own", "child"} :
        \/ list[n] = Unknown
        \/ n \in Lists /\ list[n] = Known(View)
  BY <1>2, <1>4
<1>8. \A i \in Open : row[i] \in ListRows /\ row[i].state = "Open"
  BY <1>1 DEF Open
<1>9. ListsFit
  <2>1. /\ one = [i \in Items |-> one[i]] /\ list = [n \in {"own", "child"} |-> list[n]]
        /\ session = [s \in Sessions |-> session[s]]
    BY <1>1, <1>2, <1>3
  <2>2. \A i \in Items :
            \/ one[i] = Unknown
            \/ /\ one[i] = Known(one[i].value) /\ kind \in CachedById
               /\ one[i].value \in ListRows /\ one[i].value.state \in {"Open", "Deleted"}
    BY <1>5, <1>6, <1>8
  <2>3. \A n \in {"own", "child"} :
            \/ list[n] = Unknown
            \/ n \in Lists /\ list[n] = Known(list[n].value) /\ DOMAIN list[n].value \subseteq Used
    BY <1>5, <1>7
  <2>4. \A s \in Sessions : HandlerFits(session[s])
    BY <1>1, IdleIsTrue
  <2>5. requests \in 0 .. MaxRequests
    BY <1>1, MaxRequestsAssumption
  <2>6. blurred \in BOOLEAN /\ late \subseteq Items \cup {"own", "child"}
    BY <1>1
  <2> QED BY <1>1, <2>1, <2>2, <2>3, <2>4, <2>5, <2>6 DEF ListsFit
<1>10. \A s \in Sessions : session[s] = NoSession
  BY <1>1
<1>11. NoSession.todo = <<>> /\ DOMAIN <<>> = {}
  BY DEF NoSession
<1>12. \A s \in Sessions : HandlerTrue(session[s])
  BY <1>10, IdleIsTrue
<1>13. Apart
  BY <1>10, <1>11 DEF Apart
<1>14. Wrong = {}
  <2>1. \A n \in Lists : ~(list[n].known /\ list[n].value # View)
    BY <1>5, <1>7 DEF Lists
  <2>2. \A i \in Items : ~(one[i].known /\ (row[i].state # "Open" \/ one[i].value # row[i]))
    BY <1>5, <1>6, <1>8
  <2> QED BY <2>1, <2>2 DEF Wrong
<1> QED BY <1>9, <1>12, <1>13, <1>14 DEF ListsInv, Covered

\* Every step of every handler keeps it.
LEMMA ListsStep == ListsInv /\ [ListsNext]_listVars => ListsInv'
<1> SUFFICES ASSUME ListsInv, [ListsNext]_listVars PROVE ListsInv'
  OBVIOUS
<1>1. CASE UNCHANGED listVars
  <2>1. UNCHANGED <<kind, row, list, one, session, requests, late, blurred>>
    BY <1>1 DEF listVars
  <2>2. Open' = Open /\ Used' = Used /\ Lists' = Lists
    BY <2>1 DEF Open, Used, Lists
  <2>3. View' = View
    BY <2>1, <2>2 DEF View
  <2>4. Wrong' = Wrong
    BY <2>1, <2>2, <2>3 DEF Wrong
  <2>5. ListsFit'
    BY <2>1, <2>2 DEF ListsInv, ListsFit
  <2>6. Apart' /\ Covered'
    BY <2>1, <2>4 DEF ListsInv, Apart, Covered
  <2>7. ASSUME NEW s \in Sessions PROVE HandlerTrue(session[s])'
    <3>1. HandlerTrue(session[s])
      BY DEF ListsInv
    <3>2. Planned(session[s].todo)'
      BY <2>1, <2>2, <3>1 DEF HandlerTrue, Planned
    <3>3. Creates(session[s])' /\ EditsOf(session[s])'
      BY <2>1, <3>1 DEF HandlerTrue, Creates, EditsOf
    <3>4. Holds(session[s])' /\ Answers(session[s])'
      BY <2>1, <2>2, <2>3, <3>1 DEF HandlerTrue, Holds, Answers
    <3>5. Moves(session[s])'
      BY <2>1, <2>2, <3>1 DEF HandlerTrue, Moves, Spans, Between
    <3> QED BY <3>2, <3>3, <3>4, <3>5 DEF HandlerTrue
  <2> QED BY <2>5, <2>6, <2>7 DEF ListsInv
<1>2. ASSUME NEW s \in Sessions,
             Commit(s) \/ NotFound(s) \/ Flush(s) \/ ForgetRows(s) \/ Store(s)
             \/ KeysStay(s) \/ Crash(s)
      PROVE  ListsInv'
  BY <1>2, CommitKeeps, NotFoundKeeps, FlushKeeps, ForgetRowsKeeps, StoreKeeps, KeysStayKeeps,
     CrashKeeps
<1>3. ASSUME NEW key \in Items \cup {"own", "child"}, Expire(key) PROVE ListsInv'
  BY <1>3, ExpireKeeps
<1>4. ASSUME NEW s \in Ready, NEW n \in {"own", "child"}, FindAll(s, n) PROVE ListsInv'
  BY <1>4, FindAllKeeps
<1>5. ASSUME NEW s \in Ready, NEW i \in Items,
             \/ FindOne(s, i)
             \/ CreateBranch(s, i) \/ UpdateBranch(s, i) \/ DeleteBranch(s, i)
             \/ CreateStatus(s, i) \/ UpdateStatus(s, i) \/ DeleteStatus(s, i)
             \/ CreateCause(s, i) \/ UpdateCause(s, i) \/ DeleteCause(s, i)
             \/ CreateRegion(s, i) \/ UpdateRegion(s, i) \/ DeleteRegion(s, i)
             \/ CreateOsType(s, i) \/ UpdateOsType(s, i) \/ DeleteOsType(s, i)
             \/ CreateCategory(s, i) \/ DeleteCategory(s, i)
      PROVE  ListsInv'
  BY <1>5, FindOneKeeps, CreateBranchKeeps, BranchesKeep, CreateStatusKeeps, StatusesKeep,
     CreationsKeep, CausesKeep, OtherListsKeep
<1>6. ASSUME NEW s \in Ready, NEW i \in Items, NEW to \in Sorts,
             \/ SortBranch(s, i, to) \/ SortStatus(s, i, to) \/ SortCause(s, i, to)
             \/ SortPhoneCategory(s, i, to) \/ SortProblemCategory(s, i, to)
      PROVE  ListsInv'
  BY <1>6, BranchesKeep, StatusesKeep, CausesKeep, OtherListsKeep
<1> QED BY <1>1, <1>2, <1>3, <1>4, <1>5, <1>6 DEF ListsNext

LEMMA ListsInvHolds == ListsSpec => []ListsInv
BY ListsStart, ListsStep, PTL DEF ListsSpec

\* Whatever an administrator asks for, in any order of the steps of any number
\* of handlers, rows, places and redis keep their types.
THEOREM ListsTypeCorrect == ListsSpec => []ListsTypeOK
<1>1. ListsInv => ListsTypeOK
  <2> SUFFICES ASSUME ListsInv PROVE ListsTypeOK
    OBVIOUS
  <2>1. ListsFit
    BY DEF ListsInv
  <2>2. \A i \in Items :
            /\ row[i].state \in {"absent", "Open", "Deleted"} /\ row[i].info \in 0 .. 1
            /\ row[i].sort \in Nat /\ (kind = "cause" /\ i \in Used => row[i].sort >= 1)
    BY <2>1 DEF ListsFit, ListRows
  <2>3. \A i \in Items : one[i].known => one[i].value.state \in {"Open", "Deleted"}
    BY <2>1 DEF ListsFit, Unknown
  <2>4. \A n \in {"own", "child"} : list[n].known => n \in Lists /\ DOMAIN list[n].value \subseteq Used
    BY <2>1 DEF ListsFit, Unknown
  <2> QED BY <2>1, <2>2, <2>3, <2>4 DEF ListsTypeOK, ListsFit
<1> QED BY <1>1, ListsInvHolds, PTL

\* Whatever redis tells wrongly is a key some handler under way will write or
\* delete, or one of those the comment at Unattended names: every handler of
\* branches, statuses, reject causes, regions and categories flushes what its
\* transaction changed.
THEOREM RedisTellsTheTruthHolds == ListsSpec => []RedisTellsTheTruth
<1>1. ListsInv => RedisTellsTheTruth
  BY SureIsOwed DEF ListsInv, Covered, RedisTellsTheTruth
<1> QED BY <1>1, ListsInvHolds, PTL

(***************************************************************************)
(* The places of rows.                                                     *)
(***************************************************************************)
LEMMA PlacesStart == ListsInit => PlacesInv
<1> SUFFICES ASSUME ListsInit PROVE PlacesInv
  OBVIOUS
<1>1. /\ kind \in Kinds /\ row \in Starts
      /\ session = [s \in Sessions |-> NoSession]
  BY DEF ListsInit
<1>2. NoSession.todo = <<>> /\ DOMAIN <<>> = {} /\ NoSession.places = FALSE
  BY DEF NoSession
<1>3. \A s \in Sessions :
        PlacesTold(session[s]) /\ PlacesKnown(session[s]) /\ ~session[s].places
  BY <1>1, <1>2 DEF PlacesTold, PlacesKnown
<1>4. kind \in Sorted => \A i, j \in Open : i # j => row[i].sort # row[j].sort
  BY <1>1, StartsAssumption DEF Open
<1> QED BY <1>3, <1>4 DEF PlacesInv

\* A step that opens no row and leaves each at its place.
LEMMA PlacesStay ==
    ASSUME ListsFit, PlacesInv, kind' = kind, blurred' = blurred,
           \A i \in Items : row'[i].sort = row[i].sort,
           Open' \subseteq Open,
           \A s \in Sessions :
                /\ session'[s].places => session[s].places
                /\ session'[s].todo # <<>> => session'[s].places = session[s].places
                /\ \A n \in DOMAIN session'[s].todo :
                    \E m \in DOMAIN session[s].todo : session'[s].todo[n] = session[s].todo[m]
    PROVE  PlacesInv'
<1>1. Open \subseteq Items
  BY DEF Open
<1>2. ASSUME NEW s \in Sessions PROVE PlacesTold(session[s])'
  <2> SUFFICES ASSUME kind \in Sorted, NEW n \in DOMAIN session'[s].todo,
                      session'[s].todo[n].op \in {"put", "shift"}
               PROVE  session'[s].places
    BY DEF PlacesTold, Sorted
  <2>1. PICK m \in DOMAIN session[s].todo : session'[s].todo[n] = session[s].todo[m]
    OBVIOUS
  <2>2. session[s].places
    BY <2>1 DEF PlacesInv, PlacesTold
  <2>3. session'[s].todo # <<>>
    OBVIOUS
  <2> QED BY <2>2, <2>3
<1>3. ASSUME NEW s \in Sessions, PlacesKnown(session[s]) PROVE PlacesKnown(session[s])'
  <2> SUFFICES ASSUME NEW n \in DOMAIN session'[s].todo
               PROVE  LET t == session'[s].todo[n] IN
                      /\ t.op = "put" => \A j \in Open' : row'[j].sort < t.row.sort
                      /\ t.op = "shift" =>
                            /\ row'[t.id].sort = t.from
                            /\ \A j \in Open' : j # t.id => row'[j].sort # t.from
    BY DEF PlacesKnown
  <2>1. PICK m \in DOMAIN session[s].todo : session'[s].todo[n] = session[s].todo[m]
    OBVIOUS
  <2>2. session[s].todo[m] \in Todos
    BY DEF ListsFit, HandlerFits
  <2>3. session[s].todo[m].op = "shift" => session[s].todo[m].id \in Items
    BY <2>2, TodoIs
  <2>4. \A j \in Open' : j \in Open /\ row'[j].sort = row[j].sort
    BY <1>1
  <2> QED BY <1>3, <2>1, <2>3, <2>4 DEF PlacesKnown
<1>4. \A i \in Open' : i \in Open /\ row'[i].sort = row[i].sort
  BY <1>1
<1> QED BY <1>2, <1>3, <1>4 DEF PlacesInv, Sorted

\* A handler begins.
LEMMA PlacesBegin ==
    ASSUME ListsInv, PlacesInv, NEW s \in Ready, NEW places \in BOOLEAN, NEW got, NEW T \in Seq(Todos),
           NEW misled \in BOOLEAN, Begin(s, places, got, T, misled),
           kind \in Sorted => \A n \in DOMAIN T : T[n].op \in {"put", "shift"} => places,
           kind \in Sorted /\ ~misled => \A n \in DOMAIN T :
                /\ T[n].op = "put" => \A j \in Open : row[j].sort < T[n].row.sort
                /\ T[n].op = "shift" => T[n].id \in Open /\ row[T[n].id].sort = T[n].from
    PROVE  PlacesInv'
<1>0. ListsFit
  BY DEF ListsInv
<1>1. /\ s \in Sessions /\ session[s] = NoSession
      /\ session'[s] = [todo |-> T, got |-> got, places |-> places, overtaken |-> misled]
      /\ \A q \in Sessions \ {s} : session'[q] = session[q]
      /\ kind' = kind /\ row' = row
      /\ blurred' = (blurred \/ (places /\ (misled \/ \E q \in Sessions : session[q].places)))
  BY <1>0, BeginIs
<1>2. session'[s].todo = T /\ session'[s].places = places
  BY <1>1
<1>3. Open' = Open
  BY <1>1 DEF Open
<1>4. ASSUME NEW q \in Sessions PROVE PlacesTold(session[q])'
  <2>1. CASE q = s
    BY <2>1, <1>1, <1>2 DEF PlacesTold, Sorted
  <2>2. CASE q # s
    BY <2>2, <1>1 DEF PlacesInv, PlacesTold, Sorted
  <2> QED BY <2>1, <2>2
<1>5. ASSUME kind \in Sorted, ~blurred'
      PROVE  /\ \A p, q \in Sessions : session'[p].places /\ session'[q].places => p = q
             /\ \A q \in Sessions : PlacesKnown(session[q])'
             /\ \A i, j \in Open' : i # j => row'[i].sort # row'[j].sort
  <2>1. ~blurred /\ (places => ~misled /\ \A q \in Sessions : ~session[q].places)
    BY <1>1, <1>5
  <2>2. /\ \A p, q \in Sessions : session[p].places /\ session[q].places => p = q
        /\ \A q \in Sessions : PlacesKnown(session[q])
        /\ \A i, j \in Open : i # j => row[i].sort # row[j].sort
    BY <2>1, <1>5 DEF PlacesInv
  <2>3. \A p, q \in Sessions : session'[p].places /\ session'[q].places => p = q
    <3> SUFFICES ASSUME NEW p \in Sessions, NEW q \in Sessions,
                        session'[p].places, session'[q].places
                 PROVE  p = q
      OBVIOUS
    <3>1. CASE places
      <4>1. \A r \in Sessions \ {s} : ~session'[r].places
        BY <3>1, <2>1, <1>1
      <4> QED BY <4>1
    <3>2. CASE ~places
      <4>1. p # s /\ q # s
        BY <3>2, <1>2
      <4>2. session[p].places /\ session[q].places
        BY <4>1, <1>1
      <4> QED BY <4>2, <2>2
    <3> QED BY <3>1, <3>2
  <2>4. ASSUME NEW q \in Sessions PROVE PlacesKnown(session[q])'
    <3>1. CASE q # s
      <4>1. session'[q] = session[q]
        BY <3>1, <1>1
      <4> QED BY <4>1, <1>1, <1>3, <2>2 DEF PlacesKnown
    <3>2. CASE q = s
      <4> SUFFICES ASSUME NEW n \in DOMAIN T
                   PROVE  /\ T[n].op = "put" => \A j \in Open : row[j].sort < T[n].row.sort
                          /\ T[n].op = "shift" =>
                                /\ row[T[n].id].sort = T[n].from
                                /\ \A j \in Open : j # T[n].id => row[j].sort # T[n].from
        BY <3>2, <1>1, <1>2, <1>3 DEF PlacesKnown
      <4>1. CASE T[n].op \in {"put", "shift"}
        <5>1. ~misled
          BY <4>1, <1>5, <2>1
        <5> QED BY <5>1, <1>5, <2>2
      <4>2. CASE T[n].op \notin {"put", "shift"}
        BY <4>2
      <4> QED BY <4>1, <4>2
    <3> QED BY <3>1, <3>2
  <2> QED BY <2>2, <2>3, <2>4, <1>1, <1>3
<1> QED BY <1>1, <1>4, <1>5 DEF PlacesInv

\* Where a shift leaves a row: the moved one at its new place, those between
\* one further, and no two at the same place.
LEMMA ShiftedIs ==
    ASSUME ListsFit, NEW e \in Todos, e.op = "shift"
    PROVE  /\ \A i \in Items : Committed(e)[i].state = row[i].state
           /\ e.id \in Used => Committed(e)[e.id].sort = e.to
           /\ \A i \in Open : i # e.id =>
                Committed(e)[i].sort =
                    IF e.to <= row[i].sort /\ row[i].sort < e.from THEN row[i].sort + 1
                    ELSE IF e.from < row[i].sort /\ row[i].sort <= e.to THEN row[i].sort - 1
                    ELSE row[i].sort
<1>0. /\ row \in [Items -> ListRows] /\ e.id \in Items /\ e.from \in Nat /\ e.to \in Nat
      /\ \A i \in Items : row[i].sort \in Nat
  BY TodoIs DEF ListsFit, ListRows
<1>1. Open \subseteq Items /\ Open \subseteq Used
  BY DEF Open, Used
<1>2. Committed(e) =
            [i \in Items |->
                CASE i = e.id /\ i \in Used -> [row[i] EXCEPT !.sort = e.to]
                  [] i # e.id /\ i \in (IF e.all THEN Used ELSE Open)
                     /\ e.to <= row[i].sort /\ row[i].sort < e.from ->
                        [row[i] EXCEPT !.sort = @ + 1]
                  [] i # e.id /\ i \in (IF e.all THEN Used ELSE Open)
                     /\ e.from < row[i].sort /\ row[i].sort <= e.to ->
                        [row[i] EXCEPT !.sort = @ - 1]
                  [] OTHER -> row[i]]
  BY DEF Committed
<1>3. \A i \in Items : \A v : [row[i] EXCEPT !.sort = v].state = row[i].state
                                   /\ [row[i] EXCEPT !.sort = v].sort = v
  BY <1>0 DEF ListRows
<1>4. ASSUME NEW i \in Items PROVE Committed(e)[i].state = row[i].state
  BY <1>2, <1>3
<1>5. e.id \in Used => Committed(e)[e.id].sort = e.to
  BY <1>0, <1>2, <1>3
<1>6. ASSUME NEW i \in Open, i # e.id
      PROVE  Committed(e)[i].sort =
                    IF e.to <= row[i].sort /\ row[i].sort < e.from THEN row[i].sort + 1
                    ELSE IF e.from < row[i].sort /\ row[i].sort <= e.to THEN row[i].sort - 1
                    ELSE row[i].sort
  <2>1. i \in (IF e.all THEN Used ELSE Open) /\ i \in Items
    BY <1>1
  <2>2. Committed(e)[i] =
            CASE e.to <= row[i].sort /\ row[i].sort < e.from -> [row[i] EXCEPT !.sort = row[i].sort + 1]
              [] e.from < row[i].sort /\ row[i].sort <= e.to -> [row[i] EXCEPT !.sort = row[i].sort - 1]
              [] OTHER -> row[i]
    BY <1>2, <1>6, <2>1
  <2>3. /\ [row[i] EXCEPT !.sort = row[i].sort + 1].sort = row[i].sort + 1
        /\ [row[i] EXCEPT !.sort = row[i].sort - 1].sort = row[i].sort - 1
    BY <2>1, <1>3
  <2> QED BY <2>1, <2>2, <2>3, <1>0
<1> QED BY <1>4, <1>5, <1>6

LEMMA ShiftKeepsApart ==
    ASSUME ListsFit, NEW e \in Todos, e.op = "shift",
           row[e.id].sort = e.from,
           \A j \in Open : j # e.id => row[j].sort # e.from,
           \A i, j \in Open : i # j => row[i].sort # row[j].sort,
           NEW i \in Open, NEW j \in Open, i # j
    PROVE  Committed(e)[i].sort # Committed(e)[j].sort
<1>1. /\ e.from \in Nat /\ e.to \in Nat /\ Open \subseteq Used
      /\ \A k \in Open : row[k].sort \in Nat
  BY TodoIs DEF ListsFit, ListRows, Open, Used
<1>2. CASE i = e.id
  BY <1>1, <1>2, ShiftedIs
<1>3. CASE j = e.id
  BY <1>1, <1>3, ShiftedIs
<1>4. CASE i # e.id /\ j # e.id
  BY <1>1, <1>4, ShiftedIs
<1> QED BY <1>2, <1>3, <1>4

LEMMA PlacesCommit ==
    ASSUME ListsInv, PlacesInv, NEW s \in Sessions, Commit(s)
    PROVE  PlacesInv'
<1> DEFINE T == session[s].todo
           e == T[1]
<1>0. ListsFit /\ HandlerTrue(session[s])
  BY DEF ListsInv
<1>1. /\ T \in Seq(Todos) /\ T # <<>> /\ e \in Todos /\ Mutates(e)
      /\ e.op = "put" => row[e.id].state = "absent" /\ e.row.state = "Open"
      /\ e.op = "edit" => e.id \in Used
      /\ row' = Committed(e)
      /\ session'[s].todo = Tail(T)
      /\ session'[s].places => session[s].places
      /\ session'[s].todo # <<>> => session'[s].places = session[s].places
      /\ \A q \in Sessions \ {s} :
            session'[q].todo = session[q].todo /\ session'[q].places = session[q].places
  BY CommitIs
<1>2. kind' = kind /\ blurred' = blurred
  BY DEF Commit
<1>3. /\ \A n \in DOMAIN Tail(T) : n + 1 \in DOMAIN T /\ Tail(T)[n] = T[n + 1] /\ ~Mutates(Tail(T)[n])
      /\ 1 \in DOMAIN T
  BY <1>0, <1>1, NoMoreChanges, RestIs DEF HandlerTrue
<1>4. /\ row \in [Items -> ListRows] /\ \A i \in Items : row[i].sort \in Nat
      /\ Open \subseteq Items
  BY <1>0, RowsAre
<1> HIDE DEF e, T
<1>5. CASE e.op \in {"edit", "remove"}
  <2>1. e.id \in Items
    BY <1>1, <1>5, TodoIs
  <2>2. /\ \A i \in Items : row'[i].sort = row[i].sort
        /\ \A i \in Items : row'[i].state = "Open" => row[i].state = "Open"
    <3>1. CASE e.op = "edit"
      <4>1. Committed(e) = [row EXCEPT ![e.id] = [row[e.id] EXCEPT !.info = 1 - row[e.id].info]]
        BY <3>1, <1>4, <2>1 DEF Committed
      <4>2. Committed(e)[e.id].sort = row[e.id].sort /\ Committed(e)[e.id].state = row[e.id].state
        BY <4>1, <1>4, <2>1 DEF ListRows
      <4>3. \A i \in Items : i # e.id => Committed(e)[i] = row[i]
        BY <4>1, <1>4
      <4> QED BY <1>1, <4>2, <4>3
    <3>2. CASE e.op = "remove" /\ e.id \in Used
      <4>1. Committed(e) = [row EXCEPT ![e.id] = [row[e.id] EXCEPT !.state = "Deleted"]]
        BY <3>2, <1>4, <2>1 DEF Committed
      <4>2. Committed(e)[e.id].sort = row[e.id].sort /\ Committed(e)[e.id].state = "Deleted"
        BY <4>1, <1>4, <2>1 DEF ListRows
      <4>3. \A i \in Items : i # e.id => Committed(e)[i] = row[i]
        BY <4>1, <1>4
      <4> QED BY <1>1, <4>2, <4>3
    <3>3. CASE e.op = "remove" /\ e.id \notin Used
      BY <3>3, <1>1 DEF Committed
    <3> QED BY <1>5, <3>1, <3>2, <3>3
  <2>3. Open' \subseteq Open
    BY <2>2 DEF Open
  <2>4. ASSUME NEW q \in Sessions
        PROVE  /\ session'[q].places => session[q].places
               /\ session'[q].todo # <<>> => session'[q].places = session[q].places
               /\ \A n \in DOMAIN session'[q].todo :
                    \E m \in DOMAIN session[q].todo : session'[q].todo[n] = session[q].todo[m]
    <3>1. CASE q = s
      BY <3>1, <1>1, <1>3 DEF T
    <3>2. CASE q # s
      BY <3>2, <1>1
    <3> QED BY <3>1, <3>2
  <2> QED BY <2>2, <2>3, <2>4, <1>0, <1>2, PlacesStay
<1>6. CASE e.op \in {"put", "shift"}
  <2>1. ASSUME NEW q \in Sessions PROVE PlacesTold(session[q])'
    <3>1. CASE q = s
      BY <3>1, <1>1, <1>3 DEF PlacesTold, Mutates
    <3>2. CASE q # s
      BY <3>2, <1>1, <1>2 DEF PlacesInv, PlacesTold, Sorted
    <3> QED BY <3>1, <3>2
  <2>2. ASSUME kind \in Sorted, ~blurred'
        PROVE  /\ \A p, q \in Sessions : session'[p].places /\ session'[q].places => p = q
               /\ \A q \in Sessions : PlacesKnown(session[q])'
               /\ \A i, j \in Open' : i # j => row'[i].sort # row'[j].sort
    <3>1. /\ \A p, q \in Sessions : session[p].places /\ session[q].places => p = q
          /\ \A q \in Sessions : PlacesKnown(session[q])
          /\ \A i, j \in Open : i # j => row[i].sort # row[j].sort
      BY <2>2, <1>2 DEF PlacesInv
    <3>2. session[s].places
      BY <1>3, <1>6, <2>2 DEF PlacesInv, PlacesTold, e, T
    <3>3. \A p, q \in Sessions : session'[p].places /\ session'[q].places => p = q
      BY <3>1, <1>1
    <3>4. ASSUME NEW q \in Sessions, NEW n \in DOMAIN session'[q].todo
          PROVE  session'[q].todo[n].op \notin {"put", "shift"}
      <4>1. CASE q = s
        BY <4>1, <1>1, <1>3 DEF Mutates
      <4>2. CASE q # s
        <5>1. ~session[q].places
          BY <4>2, <3>1, <3>2
        <5> QED BY <5>1, <4>2, <1>1, <2>2 DEF PlacesInv, PlacesTold
      <4> QED BY <4>1, <4>2
    <3>5. \A q \in Sessions : PlacesKnown(session[q])'
      BY <3>4 DEF PlacesKnown
    <3>6. PlacesKnown(session[s]) /\ 1 \in DOMAIN session[s].todo /\ session[s].todo[1] = e
      BY <3>1, <1>3 DEF e, T
    <3>7. \A i, j \in Open' : i # j => row'[i].sort # row'[j].sort
      <4>1. CASE e.op = "put"
        <5>1. e.id \in Items /\ e.row \in ListRows /\ e.row.sort \in Nat
          BY <4>1, <1>1, TodoIs DEF ListRows
        <5>2. row' = [row EXCEPT ![e.id] = e.row]
          BY <4>1, <1>1 DEF Committed
        <5>3. \A i \in Items : row'[i] = IF i = e.id THEN e.row ELSE row[i]
          BY <5>1, <5>2, <1>4
        <5>4. \A i \in Open' : i \in Items /\ (i # e.id => i \in Open)
          BY <5>3 DEF Open
        <5>5. \A j \in Open : row[j].sort < e.row.sort
          BY <3>6, <4>1 DEF PlacesKnown
        <5> QED BY <5>1, <5>3, <5>4, <5>5, <3>1, <1>4
      <4>2. CASE e.op = "shift"
        <5>1. Open' = Open
          BY <4>2, <1>0, <1>1, ShiftedIs DEF Open
        <5>2. row[e.id].sort = e.from /\ \A j \in Open : j # e.id => row[j].sort # e.from
          BY <3>6, <4>2 DEF PlacesKnown
        <5> QED BY <5>1, <5>2, <4>2, <3>1, <1>0, <1>1, ShiftKeepsApart
      <4> QED BY <1>6, <4>1, <4>2
    <3> QED BY <3>3, <3>5, <3>7
  <2> QED BY <2>1, <2>2, <1>2 DEF PlacesInv
<1> QED BY <1>1, <1>5, <1>6 DEF Mutates

\* Steps that change no row.
LEMMA PlacesProceed ==
    ASSUME ListsInv, PlacesInv, NEW s \in Sessions, session[s] # NoSession, Proceed(s), row' = row
    PROVE  PlacesInv'
<1> DEFINE T == session[s].todo
<1>0. ListsFit
  BY DEF ListsInv
<1>1. /\ T \in Seq(Todos) /\ T # <<>> /\ session'[s].todo = Tail(T)
      /\ session'[s].places => session[s].places
      /\ session'[s].todo # <<>> => session'[s].places = session[s].places
      /\ \A q \in Sessions \ {s} : session'[q] = session[q]
  BY <1>0, ProceedIs
<1>2. \A n \in DOMAIN Tail(T) : n + 1 \in DOMAIN T /\ Tail(T)[n] = T[n + 1]
  BY <1>1, RestIs
<1>3. kind' = kind /\ blurred' = blurred /\ Open' = Open
  BY DEF Proceed, Open
<1>4. ASSUME NEW q \in Sessions
      PROVE  /\ session'[q].places => session[q].places
             /\ session'[q].todo # <<>> => session'[q].places = session[q].places
             /\ \A n \in DOMAIN session'[q].todo :
                    \E m \in DOMAIN session[q].todo : session'[q].todo[n] = session[q].todo[m]
  <2>1. CASE q = s
    BY <2>1, <1>1, <1>2
  <2>2. CASE q # s
    BY <2>2, <1>1
  <2> QED BY <2>1, <2>2
<1> QED BY <1>0, <1>3, <1>4, PlacesStay

LEMMA PlacesEnd ==
    ASSUME ListsInv, PlacesInv, kind' = kind, row' = row, blurred' = blurred,
           session' = session
           \/ \E s \in Sessions : session' = [session EXCEPT ![s] = NoSession]
    PROVE  PlacesInv'
<1>0. ListsFit
  BY DEF ListsInv
<1>1. Open' = Open
  BY DEF Open
<1>2. NoSession.todo = <<>> /\ DOMAIN <<>> = {} /\ NoSession.places = FALSE
  BY DEF NoSession
<1>3. ASSUME NEW q \in Sessions
      PROVE  session'[q] = session[q] \/ session'[q] = NoSession
  BY <1>0 DEF ListsFit
<1>4. ASSUME NEW q \in Sessions
      PROVE  /\ session'[q].places => session[q].places
             /\ session'[q].todo # <<>> => session'[q].places = session[q].places
             /\ \A n \in DOMAIN session'[q].todo :
                    \E m \in DOMAIN session[q].todo : session'[q].todo[n] = session[q].todo[m]
  BY <1>2, <1>3
<1> QED BY <1>0, <1>1, <1>4, PlacesStay

LEMMA HandlersKeepPlaces ==
    ASSUME ListsInv, PlacesInv, NEW s \in Sessions
    PROVE  /\ NotFound(s) => PlacesInv'
           /\ Flush(s) => PlacesInv'
           /\ ForgetRows(s) => PlacesInv'
           /\ Store(s) => PlacesInv'
           /\ KeysStay(s) => PlacesInv'
           /\ Crash(s) => PlacesInv'
<1>1. NotFound(s) => PlacesInv'
  BY PlacesEnd DEF NotFound
<1>2. Flush(s) => PlacesInv'
  BY PlacesProceed DEF Flush, Doing
<1>3. ForgetRows(s) => PlacesInv'
  BY PlacesProceed DEF ForgetRows, Doing
<1>4. Store(s) => PlacesInv'
  BY PlacesProceed DEF Store, Doing
<1>5. Crash(s) => PlacesInv'
  BY PlacesEnd DEF Crash
<1>6. KeysStay(s) => PlacesInv'
  BY PlacesProceed DEF KeysStay, Doing
<1> QED BY <1>1, <1>2, <1>3, <1>4, <1>5, <1>6

\* A handler that places no row begins.
LEMMA PlacesRead ==
    ASSUME ListsInv, PlacesInv, NEW s \in Ready, NEW got, NEW T \in Seq(Todos),
           Begin(s, FALSE, got, T, FALSE),
           \A n \in DOMAIN T : T[n].op \notin {"put", "shift"}
    PROVE  PlacesInv'
<1>1. FALSE \in BOOLEAN
  OBVIOUS
<1>2. kind \in Sorted => \A n \in DOMAIN T : T[n].op \in {"put", "shift"} => FALSE
  OBVIOUS
<1>3. kind \in Sorted /\ ~FALSE => \A n \in DOMAIN T :
                /\ T[n].op = "put" => \A j \in Open : row[j].sort < T[n].row.sort
                /\ T[n].op = "shift" => T[n].id \in Open /\ row[T[n].id].sort = T[n].from
  OBVIOUS
<1> QED BY <1>1, <1>2, <1>3, PlacesBegin, Zenon

\* One that creates a row begins.
LEMMA PlacesCreate ==
    ASSUME ListsInv, PlacesInv, NEW s \in Ready, NEW places \in BOOLEAN, NEW got, NEW T \in Seq(Todos),
           Begin(s, places, got, T, FALSE), kind \in Sorted => places,
           NEW i \in Items, NEW sort \in Nat,
           kind \in Sorted => \A j \in Open : row[j].sort < sort,
           \A n \in DOMAIN T :
                T[n] = Put(i, Row("Open", sort, 0)) \/ T[n].op \notin {"put", "shift"}
    PROVE  PlacesInv'
<1>1. /\ Put(i, Row("Open", sort, 0)).op = "put"
      /\ Put(i, Row("Open", sort, 0)).row.sort = sort
  BY DEF Put, Row
<1>2. FALSE \in BOOLEAN
  OBVIOUS
<1>3. kind \in Sorted => \A n \in DOMAIN T :
                /\ T[n].op = "put" => \A j \in Open : row[j].sort < T[n].row.sort
                /\ T[n].op = "shift" => T[n].id \in Open /\ row[T[n].id].sort = T[n].from
  BY <1>1
<1> QED BY <1>2, <1>3, PlacesBegin

\* One that moves a row, or changes it without moving, begins after its guard.
LEMMA PlacesGuarded ==
    ASSUME ListsInv, PlacesInv, NEW s \in Ready, NEW i \in Items, NEW places \in BOOLEAN,
           NEW T \in Seq(Todos), StartGuarded(s, i, places, T),
           \A n \in DOMAIN T :
                \/ T[n].op \notin {"put", "shift"}
                \/ places /\ T[n].op = "shift" /\ T[n].id = i /\ T[n].from \in {Seen(i).sort, row[i].sort}
    PROVE  PlacesInv'
<1> DEFINE got == Known(Seen(i))
           misled == i \in Wrong
           x == StoreOne(i)
           U == (IF one[i].known THEN <<>> ELSE <<x>>) \o T
<1>1. misled \in BOOLEAN /\ Begin(s, places, got, U, misled)
  BY DEF StartGuarded
<1>2. i \notin Lists
  BY ItemsAssumption DEF Lists
<1>3. ~misled => i \in Open /\ Seen(i).sort = row[i].sort
  BY <1>2 DEF StartGuarded, Wrong, Seen, Open
<1>4. x \in Todos /\ x.op = "one" /\ Len(<<x>>) = 1 /\ <<x>>[1] = x
  BY Built
<1> HIDE DEF x
<1>5. /\ U \in Seq(Todos)
      /\ \A n \in DOMAIN U : U[n] = x \/ \E m \in DOMAIN T : U[n] = T[m]
  <2>1. CASE one[i].known
    <3>1. U = T
      BY <2>1
    <3> QED BY <3>1
  <2>2. CASE ~one[i].known
    <3>0. U = <<x>> \o T /\ <<x>> \in Seq(Todos) /\ Len(T) \in Nat /\ DOMAIN T = 1 .. Len(T)
      BY <2>2, <1>4
    <3>1. /\ U \in Seq(Todos) /\ Len(U) = Len(T) + 1
          /\ \A n \in 1 .. (Len(T) + 1) : U[n] = IF n <= 1 THEN <<x>>[n] ELSE T[n - 1]
      BY <3>0, <1>4, ConcatProperties
    <3>2. DOMAIN U = 1 .. (Len(T) + 1)
      BY <3>0, <3>1
    <3> HIDE DEF U
    <3>3. ASSUME NEW n \in DOMAIN U PROVE U[n] = x \/ \E m \in DOMAIN T : U[n] = T[m]
      <4>1. CASE n = 1
        BY <4>1, <3>0, <3>1, <3>2, <1>4
      <4>2. CASE n # 1
        <5>1. n - 1 \in DOMAIN T /\ U[n] = T[n - 1]
          BY <4>2, <3>0, <3>1, <3>2
        <5> QED BY <5>1
      <4> QED BY <4>1, <4>2
    <3> QED BY <3>1, <3>3
  <2> QED BY <2>1, <2>2
<1> HIDE DEF U, got, misled
<1>6. \A n \in DOMAIN U :
        \/ U[n].op \notin {"put", "shift"}
        \/ places /\ U[n].op = "shift" /\ U[n].id = i /\ U[n].from \in {Seen(i).sort, row[i].sort}
  BY <1>4, <1>5
<1>7. ~misled => \A n \in DOMAIN U :
                /\ U[n].op = "put" => \A j \in Open : row[j].sort < U[n].row.sort
                /\ U[n].op = "shift" => U[n].id \in Open /\ row[U[n].id].sort = U[n].from
  BY <1>3, <1>6
<1> QED BY <1>1, <1>5, <1>6, <1>7, PlacesBegin

LEMMA PlacesUntouched ==
    ASSUME ListsInv, PlacesInv, NEW s \in Ready, NEW i \in Items,
           NEW T \in Seq(Todos), StartGuarded(s, i, FALSE, T),
           \A n \in DOMAIN T : T[n].op \notin {"put", "shift"}
    PROVE  PlacesInv'
<1>1. FALSE \in BOOLEAN
  OBVIOUS
<1>2. \A n \in DOMAIN T :
                \/ T[n].op \notin {"put", "shift"}
                \/ FALSE /\ T[n].op = "shift" /\ T[n].id = i /\ T[n].from \in {Seen(i).sort, row[i].sort}
  OBVIOUS
<1> QED BY <1>1, <1>2, PlacesGuarded, Zenon

LEMMA ReadersKeepPlaces ==
    ASSUME ListsInv, PlacesInv, NEW s \in Ready
    PROVE  /\ \A n \in {"own", "child"} : FindAll(s, n) => PlacesInv'
           /\ \A i \in Items : FindOne(s, i) => PlacesInv'
<1>1. ASSUME NEW n \in {"own", "child"}, FindAll(s, n) PROVE PlacesInv'
  <2> DEFINE a == StoreList(n)
  <2>1. Begin(s, FALSE, Known(View), <<a>>, FALSE)
    BY <1>1 DEF FindAll, Start
  <2>2. a \in Todos /\ a.op = "list"
    BY Built
  <2> HIDE DEF a
  <2>3. <<a>> \in Seq(Todos) /\ \A m \in DOMAIN <<a>> : <<a>>[m].op \notin {"put", "shift"}
    BY <2>2, Programs
  <2> QED BY <2>1, <2>3, PlacesRead
<1>2. ASSUME NEW i \in Items, FindOne(s, i) PROVE PlacesInv'
  <2> DEFINE a == StoreOne(i)
  <2>1. Begin(s, FALSE, Known(row[i]), <<a>>, FALSE)
    BY <1>2 DEF FindOne, Start
  <2>2. a \in Todos /\ a.op = "one"
    BY Built
  <2> HIDE DEF a
  <2>3. <<a>> \in Seq(Todos) /\ \A m \in DOMAIN <<a>> : <<a>>[m].op \notin {"put", "shift"}
    BY <2>2, Programs
  <2> QED BY <2>1, <2>3, PlacesRead
<1> QED BY <1>1, <1>2

\* Handlers that neither create nor move a row.
LEMMA ChangersKeepPlaces ==
    ASSUME ListsInv, PlacesInv, NEW s \in Ready, NEW i \in Items
    PROVE  /\ UpdateBranch(s, i) \/ DeleteBranch(s, i) => PlacesInv'
           /\ UpdateStatus(s, i) \/ DeleteStatus(s, i) => PlacesInv'
           /\ UpdateCause(s, i) \/ DeleteCause(s, i) => PlacesInv'
           /\ UpdateRegion(s, i) \/ DeleteRegion(s, i) => PlacesInv'
           /\ UpdateOsType(s, i) \/ DeleteOsType(s, i) => PlacesInv'
           /\ DeleteCategory(s, i) => PlacesInv'
<1> DEFINE a == Edit(i)
           b == Remove(i)
           x == StoreOne(i)
           f == FlushList
           g == Forget({i})
<1>1. /\ a \in Todos /\ a.op = "edit" /\ b \in Todos /\ b.op = "remove"
      /\ x \in Todos /\ x.op = "one" /\ f \in Todos /\ f.op = "flush"
      /\ g \in Todos /\ g.op = "forget"
  BY Built
<1>2. /\ UpdateBranch(s, i) => StartGuarded(s, i, FALSE, <<a, x, f>>)
      /\ DeleteBranch(s, i) => StartGuarded(s, i, FALSE, <<b, g, f>>)
      /\ UpdateStatus(s, i) => StartGuarded(s, i, FALSE, <<a, x, f>>)
      /\ DeleteStatus(s, i) => StartGuarded(s, i, FALSE, <<b, g, f>>)
  BY DEF UpdateBranch, DeleteBranch, UpdateStatus, DeleteStatus
<1>3. /\ UpdateCause(s, i) => Begin(s, FALSE, Unknown, <<a, f, g>>, FALSE)
      /\ DeleteCause(s, i) => Begin(s, FALSE, Unknown, <<b, f, g>>, FALSE)
      /\ UpdateRegion(s, i) => Begin(s, FALSE, Unknown, <<a, f, g>>, FALSE)
      /\ DeleteRegion(s, i) => Begin(s, FALSE, Unknown, <<b, f, g>>, FALSE)
      /\ UpdateOsType(s, i) => Begin(s, FALSE, Unknown, <<a>>, FALSE)
      /\ DeleteOsType(s, i) => Begin(s, FALSE, Unknown, <<b>>, FALSE)
      /\ DeleteCategory(s, i) => Begin(s, FALSE, Unknown, <<b, f>>, FALSE)
  BY DEF UpdateCause, DeleteCause, UpdateRegion, DeleteRegion, UpdateOsType, DeleteOsType,
         DeleteCategory, Start
<1> HIDE DEF a, b, x, f, g
<1>4. \A T \in {<<a, x, f>>, <<b, g, f>>, <<a, f, g>>, <<b, f, g>>, <<a>>, <<b>>, <<b, f>>} :
        T \in Seq(Todos) /\ \A n \in DOMAIN T : T[n].op \notin {"put", "shift"}
  <2>1. <<a, x, f>> \in Seq(Todos) /\ \A n \in DOMAIN <<a, x, f>> : <<a, x, f>>[n].op \notin {"put", "shift"}
    BY <1>1, Programs
  <2>2. <<b, g, f>> \in Seq(Todos) /\ \A n \in DOMAIN <<b, g, f>> : <<b, g, f>>[n].op \notin {"put", "shift"}
    BY <1>1, Programs
  <2>3. <<a, f, g>> \in Seq(Todos) /\ \A n \in DOMAIN <<a, f, g>> : <<a, f, g>>[n].op \notin {"put", "shift"}
    BY <1>1, Programs
  <2>4. <<b, f, g>> \in Seq(Todos) /\ \A n \in DOMAIN <<b, f, g>> : <<b, f, g>>[n].op \notin {"put", "shift"}
    BY <1>1, Programs
  <2>5. <<a>> \in Seq(Todos) /\ \A n \in DOMAIN <<a>> : <<a>>[n].op \notin {"put", "shift"}
    BY <1>1, Programs
  <2>6. <<b>> \in Seq(Todos) /\ \A n \in DOMAIN <<b>> : <<b>>[n].op \notin {"put", "shift"}
    BY <1>1, Programs
  <2>7. <<b, f>> \in Seq(Todos) /\ \A n \in DOMAIN <<b, f>> : <<b, f>>[n].op \notin {"put", "shift"}
    BY <1>1, Programs
  <2> QED BY <2>1, <2>2, <2>3, <2>4, <2>5, <2>6, <2>7, Zenon
<1>5. ASSUME NEW T \in {<<a, x, f>>, <<b, g, f>>}, StartGuarded(s, i, FALSE, T) PROVE PlacesInv'
  BY <1>4, <1>5, PlacesUntouched
<1>6. ASSUME NEW T \in {<<a, f, g>>, <<b, f, g>>, <<a>>, <<b>>, <<b, f>>},
             Begin(s, FALSE, Unknown, T, FALSE)
      PROVE  PlacesInv'
  BY <1>4, <1>6, PlacesRead
<1>7. <<a, x, f>> \in {<<a, x, f>>, <<b, g, f>>} /\ <<b, g, f>> \in {<<a, x, f>>, <<b, g, f>>}
  OBVIOUS
<1>8. \A T : T \in {<<a, f, g>>, <<b, f, g>>, <<a>>, <<b>>, <<b, f>>} <=>
                T = <<a, f, g>> \/ T = <<b, f, g>> \/ T = <<a>> \/ T = <<b>> \/ T = <<b, f>>
  OBVIOUS
<1>9. (UpdateBranch(s, i) => PlacesInv') /\ (DeleteBranch(s, i) => PlacesInv')
      /\ (UpdateStatus(s, i) => PlacesInv') /\ (DeleteStatus(s, i) => PlacesInv')
  BY <1>2, <1>5, <1>7
<1>10. (UpdateCause(s, i) => PlacesInv') /\ (DeleteCause(s, i) => PlacesInv')
       /\ (UpdateRegion(s, i) => PlacesInv') /\ (DeleteRegion(s, i) => PlacesInv')
       /\ (UpdateOsType(s, i) => PlacesInv') /\ (DeleteOsType(s, i) => PlacesInv')
       /\ (DeleteCategory(s, i) => PlacesInv')
  BY <1>3, <1>6, <1>8
<1> QED BY <1>9, <1>10

\* Handlers that create a row.
LEMMA CreatorsKeepPlaces ==
    ASSUME ListsInv, PlacesInv, NEW s \in Ready, NEW i \in Items
    PROVE  /\ CreateBranch(s, i) \/ CreateStatus(s, i) => PlacesInv'
           /\ CreateCause(s, i) \/ CreateCategory(s, i) => PlacesInv'
           /\ CreateRegion(s, i) \/ CreateOsType(s, i) => PlacesInv'
<1> DEFINE new(sort) == Row("Open", sort, 0)
           a(sort) == Put(i, new(sort))
           x == StoreOne(i)
           f == FlushList
<1>0. ListsFit /\ Used \subseteq Items /\ Open \subseteq Items /\ Open \subseteq Used
  BY RowsAre DEF ListsInv
<1>1. \A sort \in Nat : new(sort) \in ListRows /\ a(sort) \in Todos /\ a(sort).op = "put"
  BY Built, OpenRow
<1>2. x \in Todos /\ x.op = "one" /\ f \in Todos /\ f.op = "flush"
  BY Built
<1>3. /\ NextSort(Used) \in Nat /\ \A j \in Open : row[j].sort < NextSort(Used)
      /\ NextSort(Open) \in Nat /\ \A j \in Open : row[j].sort < NextSort(Open)
  BY <1>0, NextSortIs
<1>4. 0 \in Nat /\ TRUE \in BOOLEAN /\ FALSE \in BOOLEAN
  OBVIOUS
<1>5. /\ CreateBranch(s, i) =>
            Begin(s, TRUE, Known(new(NextSort(Used))), <<f, x, a(NextSort(Used))>>, FALSE)
      /\ CreateStatus(s, i) => Begin(s, TRUE, Unknown, <<a(NextSort(Used)), f, x>>, FALSE)
      /\ CreateCause(s, i) => Begin(s, TRUE, Unknown, <<a(NextSort(Open)), f>>, FALSE)
      /\ CreateCategory(s, i) => Begin(s, TRUE, Unknown, <<a(NextSort(Used)), f>>, FALSE)
      /\ CreateRegion(s, i) => kind = "region" /\ Begin(s, FALSE, Unknown, <<a(0), f>>, FALSE)
      /\ CreateOsType(s, i) => kind = "os" /\ Begin(s, FALSE, Unknown, <<a(0)>>, FALSE)
  BY DEF CreateBranch, CreateStatus, CreateCause, CreateCategory, CreateRegion, CreateOsType, Start
<1>6. ASSUME NEW sort \in Nat, NEW places \in BOOLEAN, kind \in Sorted => places,
             kind \in Sorted => \A j \in Open : row[j].sort < sort,
             NEW got, NEW T \in {<<f, x, a(sort)>>, <<a(sort), f, x>>, <<a(sort), f>>, <<a(sort)>>},
             Begin(s, places, got, T, FALSE)
      PROVE  PlacesInv'
  <2> DEFINE p == a(sort)
  <2>1. p \in Todos /\ p = Put(i, Row("Open", sort, 0))
    BY <1>1
  <2> HIDE DEF p, x, f
  <2>2. T \in {<<f, x, p>>, <<p, f, x>>, <<p, f>>, <<p>>}
    BY DEF p
  <2>3. T \in Seq(Todos) /\ \A n \in DOMAIN T : T[n] = p \/ T[n].op \notin {"put", "shift"}
    <3>1. CASE T = <<f, x, p>>
      BY <3>1, <2>1, <1>2, Programs
    <3>2. CASE T = <<p, f, x>>
      BY <3>2, <2>1, <1>2, Programs
    <3>3. CASE T = <<p, f>>
      BY <3>3, <2>1, <1>2, Programs
    <3>4. CASE T = <<p>>
      BY <3>4, <2>1, <1>2, Programs
    <3> QED BY <2>2, <3>1, <3>2, <3>3, <3>4
  <2>4. \A n \in DOMAIN T :
            T[n] = Put(i, Row("Open", sort, 0)) \/ T[n].op \notin {"put", "shift"}
    BY <2>1, <2>3
  <2>5. T \in Seq(Todos) /\ Begin(s, places, got, T, FALSE)
    BY <2>3, <1>6
  <2>6. (kind \in Sorted => places) /\ (kind \in Sorted => \A j \in Open : row[j].sort < sort)
    BY <1>6
  <2> HIDE DEF new
  <2> QED BY <2>4, <2>5, <2>6, PlacesCreate, ZenonT(60)
<1> HIDE DEF a, new, x, f
<1>7. kind \in {"region", "os"} => kind \notin Sorted
  BY DEF Sorted
<1>8. CreateBranch(s, i) => PlacesInv'
  BY <1>3, <1>4, <1>5, <1>6
<1>9. CreateStatus(s, i) => PlacesInv'
  BY <1>3, <1>4, <1>5, <1>6
<1>10. (CreateCause(s, i) => PlacesInv') /\ (CreateCategory(s, i) => PlacesInv')
  BY <1>3, <1>4, <1>5, <1>6
<1>11. (CreateRegion(s, i) => PlacesInv') /\ (CreateOsType(s, i) => PlacesInv')
  BY <1>4, <1>5, <1>6, <1>7
<1> QED BY <1>8, <1>9, <1>10, <1>11

\* Handlers that move a row.
LEMMA MoversKeepPlaces ==
    ASSUME ListsInv, PlacesInv, NEW s \in Ready, NEW i \in Items, NEW to \in Sorts
    PROVE  /\ SortBranch(s, i, to) => PlacesInv'
           /\ SortStatus(s, i, to) => PlacesInv'
           /\ SortCause(s, i, to) => PlacesInv'
           /\ SortPhoneCategory(s, i, to) \/ SortProblemCategory(s, i, to) => PlacesInv'
<1> DEFINE f == FlushList
<1>0. /\ to \in Nat /\ row[i].sort \in Nat /\ Open \subseteq Items
      /\ f \in Todos /\ f.op = "flush"
  BY SortsAssumption, RowsAre, Built
<1>1. ASSUME NEW places \in BOOLEAN, places, NEW a \in Todos, NEW g \in Todos,
             a.op = "shift", a.id = i, a.from \in {Seen(i).sort, row[i].sort}, g.op = "forget",
             \/ StartGuarded(s, i, places, <<a, f, g>>)
             \/ StartGuarded(s, i, places, <<a, g, f>>)
      PROVE  PlacesInv'
  <2> HIDE DEF f
  <2>1. /\ <<a, f, g>> \in Seq(Todos)
        /\ \A n \in DOMAIN <<a, f, g>> : <<a, f, g>>[n] = a \/ <<a, f, g>>[n].op \notin {"put", "shift"}
    BY <1>0, <1>1, Programs
  <2>2. /\ <<a, g, f>> \in Seq(Todos)
        /\ \A n \in DOMAIN <<a, g, f>> : <<a, g, f>>[n] = a \/ <<a, g, f>>[n].op \notin {"put", "shift"}
    BY <1>0, <1>1, Programs
  <2>3. ASSUME NEW T \in Seq(Todos), StartGuarded(s, i, places, T),
               \A n \in DOMAIN T : T[n] = a \/ T[n].op \notin {"put", "shift"}
        PROVE  PlacesInv'
    <3>1. \A n \in DOMAIN T :
                \/ T[n].op \notin {"put", "shift"}
                \/ places /\ T[n].op = "shift" /\ T[n].id = i /\ T[n].from \in {Seen(i).sort, row[i].sort}
      BY <1>1, <2>3
    <3> QED BY <2>3, <3>1, PlacesGuarded
  <2> QED BY <1>1, <2>1, <2>2, <2>3
<1>2. ASSUME NEW places \in BOOLEAN, places, NEW misled \in BOOLEAN, NEW a \in Todos, NEW T \in Seq(Todos),
             a.op = "shift", a.id = i, a.from = row[i].sort, i \in Open,
             \A n \in DOMAIN T : T[n] = a \/ T[n].op \notin {"put", "shift"},
             Begin(s, places, Unknown, T, misled)
      PROVE  PlacesInv'
  <2>1. \A n \in DOMAIN T :
                /\ T[n].op = "put" => \A j \in Open : row[j].sort < T[n].row.sort
                /\ T[n].op = "shift" => T[n].id \in Open /\ row[T[n].id].sort = T[n].from
    BY <1>2
  <2> QED BY <1>2, <2>1, PlacesBegin
<1>3. ASSUME SortBranch(s, i, to) PROVE PlacesInv'
  <2> DEFINE a == Shift(i, Seen(i).sort, to, TRUE)
             g == Forget(Items)
  <2>1. StartGuarded(s, i, TRUE, <<a, f, g>>)
    BY <1>3 DEF SortBranch
  <2>2. Seen(i).sort \in Nat
    BY <2>1, SeenIsRow DEF StartGuarded
  <2>3. a \in Todos /\ a.op = "shift" /\ a.id = i
    <3>1. to \in Nat
      BY <1>0
    <3>2. a \in Todos
      BY <2>2, <3>1, BuiltShift
    <3>3. a.op = "shift" /\ a.id = i
      BY DEF Shift
    <3> QED BY <3>2, <3>3
  <2>4. a.from = Seen(i).sort
    BY DEF Shift
  <2>5. g \in Todos /\ g.op = "forget"
    BY Built
  <2> HIDE DEF a, g
  <2> QED BY <1>1, <2>1, <2>3, <2>4, <2>5, Zenon
<1>4. ASSUME SortStatus(s, i, to) PROVE PlacesInv'
  <2> DEFINE from == row[i].sort
             span == IF to < from THEN to .. from ELSE from .. to
             moved == {j \in Open : row[j].sort \in span}
             a == Shift(i, from, to, FALSE)
             g == Forget(moved)
  <2>1. StartGuarded(s, i, TRUE, <<a, g, f>>)
    BY <1>4 DEF SortStatus
  <2>2. moved \subseteq Items
    BY <1>0
  <2> HIDE DEF moved
  <2>3. g \in Todos /\ g.op = "forget"
    BY <2>2, Built
  <2>4. a.from = row[i].sort
    BY DEF Shift
  <2>5. from \in Nat
    BY <1>0
  <2> HIDE DEF from
  <2>6. a \in Todos /\ a.op = "shift" /\ a.id = i
    <3>1. to \in Nat
      BY <1>0
    <3>2. a \in Todos
      BY <2>5, <3>1, BuiltShiftOpen
    <3>3. a.op = "shift" /\ a.id = i
      BY DEF Shift
    <3> QED BY <3>2, <3>3
  <2> HIDE DEF a, g
  <2> QED BY <1>1, <2>1, <2>3, <2>4, <2>6, Zenon
<1>5. ASSUME SortCause(s, i, to) PROVE PlacesInv'
  <2> DEFINE last == Max({row[j].sort : j \in Open})
             target == Max({1, Min({to, last})})
             from == row[i].sort
             a == Shift(i, from, target, FALSE)
             g == Forget({i})
  <2>1. i \in Open /\ Begin(s, TRUE, Unknown, <<a, f, g>>, FALSE)
    BY <1>5 DEF SortCause, Start
  <2>2. last \in Nat
    BY <2>1, LastIs
  <2> HIDE DEF last
  <2>3. target \in Nat
    BY <1>0, <2>2, TargetIs
  <2>4. from \in Nat
    BY <1>0
  <2>5. a.from = row[i].sort
    BY DEF Shift
  <2> HIDE DEF from, target
  <2>6. a \in Todos /\ a.op = "shift" /\ a.id = i
    <3>1. a \in Todos
      BY <2>3, <2>4, BuiltShiftOpen
    <3>2. a.op = "shift" /\ a.id = i
      BY DEF Shift
    <3> QED BY <3>1, <3>2
  <2>7. g \in Todos /\ g.op = "forget"
    BY Built
  <2> HIDE DEF a, g, f
  <2>8. /\ <<a, f, g>> \in Seq(Todos)
        /\ \A n \in DOMAIN <<a, f, g>> : <<a, f, g>>[n] = a \/ <<a, f, g>>[n].op \notin {"put", "shift"}
    BY <1>0, <2>6, <2>7, Programs
  <2>9. TRUE /\ TRUE \in BOOLEAN /\ FALSE \in BOOLEAN
    OBVIOUS
  <2> QED BY <1>2, <2>1, <2>5, <2>6, <2>8, <2>9, Zenon
<1>6. ASSUME SortPhoneCategory(s, i, to) \/ SortProblemCategory(s, i, to) PROVE PlacesInv'
  <2> DEFINE from == row[i].sort
             a == Shift(i, from, to, TRUE)
  <2>1. i \in Open /\ Begin(s, TRUE, Unknown, <<a, f>>, FALSE)
    BY <1>6 DEF SortPhoneCategory, SortProblemCategory, Start
  <2>2. from \in Nat
    BY <1>0
  <2>3. a.from = row[i].sort
    BY DEF Shift
  <2> HIDE DEF from
  <2>4. a \in Todos /\ a.op = "shift" /\ a.id = i
    <3>1. to \in Nat
      BY <1>0
    <3>2. a \in Todos
      BY <2>2, <3>1, BuiltShift
    <3>3. a.op = "shift" /\ a.id = i
      BY DEF Shift
    <3> QED BY <3>2, <3>3
  <2> HIDE DEF a, f
  <2>5. /\ <<a, f>> \in Seq(Todos)
        /\ \A n \in DOMAIN <<a, f>> : <<a, f>>[n] = a \/ <<a, f>>[n].op \notin {"put", "shift"}
    BY <1>0, <2>4, Programs
  <2>6. TRUE /\ TRUE \in BOOLEAN /\ FALSE \in BOOLEAN
    OBVIOUS
  <2> QED BY <1>2, <2>1, <2>3, <2>4, <2>5, <2>6, Zenon
<1> QED BY <1>3, <1>4, <1>5, <1>6

LEMMA PlacesStep == ListsInv /\ PlacesInv /\ [ListsNext]_listVars => PlacesInv'
<1> SUFFICES ASSUME ListsInv, PlacesInv, [ListsNext]_listVars PROVE PlacesInv'
  OBVIOUS
<1>1. CASE UNCHANGED listVars
  BY <1>1, PlacesEnd DEF listVars
<1>2. ASSUME NEW s \in Sessions,
             Commit(s) \/ NotFound(s) \/ Flush(s) \/ ForgetRows(s) \/ Store(s)
             \/ KeysStay(s) \/ Crash(s)
      PROVE  PlacesInv'
  BY <1>2, PlacesCommit, HandlersKeepPlaces
<1>3. ASSUME NEW key \in Items \cup {"own", "child"}, Expire(key) PROVE PlacesInv'
  BY <1>3, PlacesEnd DEF Expire
<1>4. ASSUME NEW s \in Ready, NEW n \in {"own", "child"}, FindAll(s, n) PROVE PlacesInv'
  BY <1>4, ReadersKeepPlaces
<1>5. ASSUME NEW s \in Ready, NEW i \in Items,
             \/ FindOne(s, i)
             \/ CreateBranch(s, i) \/ UpdateBranch(s, i) \/ DeleteBranch(s, i)
             \/ CreateStatus(s, i) \/ UpdateStatus(s, i) \/ DeleteStatus(s, i)
             \/ CreateCause(s, i) \/ UpdateCause(s, i) \/ DeleteCause(s, i)
             \/ CreateRegion(s, i) \/ UpdateRegion(s, i) \/ DeleteRegion(s, i)
             \/ CreateOsType(s, i) \/ UpdateOsType(s, i) \/ DeleteOsType(s, i)
             \/ CreateCategory(s, i) \/ DeleteCategory(s, i)
      PROVE  PlacesInv'
  BY <1>5, ReadersKeepPlaces, CreatorsKeepPlaces, ChangersKeepPlaces
<1>6. ASSUME NEW s \in Ready, NEW i \in Items, NEW to \in Sorts,
             \/ SortBranch(s, i, to) \/ SortStatus(s, i, to) \/ SortCause(s, i, to)
             \/ SortPhoneCategory(s, i, to) \/ SortProblemCategory(s, i, to)
      PROVE  PlacesInv'
  BY <1>6, MoversKeepPlaces
<1> QED BY <1>1, <1>2, <1>3, <1>4, <1>5, <1>6 DEF ListsNext

\* No sequence of creations, moves and deletions, each placing rows while no
\* other handler does and from what redis knows rightly, gives two open rows
\* the same place, whatever the number of rows, handlers and places.
THEOREM PlacesDistinctHolds == ListsSpec => []PlacesDistinct
<1>1. PlacesInv => PlacesDistinct
  BY DEF PlacesInv, PlacesDistinct
<1>2. ListsSpec => []PlacesInv
  BY PlacesStart, PlacesStep, ListsInvHolds, PTL DEF ListsSpec
<1> QED BY <1>1, <1>2, PTL

-----------------------------------------------------------------------------
(***************************************************************************)
(* What Campaigns promises, for any users, workers, A/B splits and number  *)
(* of deliveries: nobody gets two messages, a row tells the truth about    *)
(* the message, and a completed campaign has nobody left.                  *)
(*                                                                         *)
(* None of the three is inductive.  IInv adds who holds a recipient: at    *)
(* most one worker is between the claim of a recipient and the record of   *)
(* its message, the row is then in processing or deleted, and nothing      *)
(* makes a row pending again.                                              *)
(***************************************************************************)
Running == [at : Places, user : Users, try : 1 .. MaxDeliveries]

\* A job that waits may still be delivered.
Deliverable == \A u \in Users : job[u] = "waiting" => tries[u] < MaxDeliveries

\* Before create there is nothing: no rows, no jobs, nobody at work.
NothingYet ==
    campaign = "absent" =>
        /\ \A u \in Users : /\ recipient[u] = "none" /\ job[u] = "none"
                            /\ tries[u] = 0 /\ messages[u] = 0
        /\ \A w \in Workers : worker[w] = Idle
        /\ edit = "none"

\* A job that is not enqueued was never delivered.
UnbornUntried == \A u \in Users : job[u] = "unborn" => tries[u] = 0

Carries(w) == worker[w].at \in {"send", "sent"}

\* Between the claim and the record the row is in processing, or was deleted,
\* and the message is sent when the worker says so.
HeldTruly ==
    \A w \in Workers : Carries(w) =>
        /\ recipient[worker[w].user] \in {"processing", "none"}
        /\ messages[worker[w].user] = IF worker[w].at = "send" THEN 0 ELSE 1

\* No two workers hold one recipient.
HeldOnce ==
    \A v, w \in Workers :
        Carries(v) /\ Carries(w) /\ worker[v].user = worker[w].user => v = w

\* Who has counted nobody left is still right.
CountedRight == \A w \in Workers : worker[w].at = "complete" => Remaining = {}

TInv == TypeOK /\ Deliverable /\ NothingYet /\ UnbornUntried

HInv == HeldTruly /\ HeldOnce /\ OneMessage /\ RowTellsTheTruth
CInv == CountedRight /\ CompletedMeansSettled

IInv == TInv /\ HInv /\ CInv

-----------------------------------------------------------------------------
(* Types.                                                                  *)

\* A worker that is not idle runs a job of some user.
LEMMA RunningOrIdle ==
    ASSUME TypeOK, NEW w \in Workers, worker[w] # Idle
    PROVE  worker[w] \in Running /\ worker[w].user \in Users /\ worker[w].at \in Places
                /\ worker[w].try \in 1 .. MaxDeliveries
BY DEF TypeOK, Running

\* An idle worker is at no place of a job.
LEMMA IdleIsNowhere == Idle.at = "idle" /\ Idle.at \notin Places
BY DEF Idle, Places

\* The next place of a running worker.
LEMMA GotoRuns ==
    ASSUME TypeOK, NEW w \in Workers, worker[w] # Idle, NEW place \in Places, Goto(w, place)
    PROVE  /\ worker' \in [Workers -> {Idle} \cup Running]
           /\ worker'[w] = [worker[w] EXCEPT !.at = place]
           /\ worker'[w].at = place /\ worker'[w].user = worker[w].user
           /\ \A v \in Workers : v # w => worker'[v] = worker[v]
  <1>1. worker[w] \in Running /\ worker \in [Workers -> {Idle} \cup Running]
    BY RunningOrIdle DEF TypeOK, Running
  <1>2. [worker[w] EXCEPT !.at = place] \in Running
    BY <1>1 DEF Running
  <1>3. worker' = [worker EXCEPT ![w] = [worker[w] EXCEPT !.at = place]]
    BY DEF Goto
  <1>4. QED
    BY <1>1, <1>2, <1>3 DEF Running

\* Finish leaves the worker idle and the job gone or as it was.
LEMMA FinishTypes ==
    ASSUME TypeOK, NEW w \in Workers, worker[w] # Idle, Finish(w)
    PROVE  /\ worker' \in [Workers -> {Idle} \cup Running]
           /\ worker'[w] = Idle
           /\ \A v \in Workers : v # w => worker'[v] = worker[v]
           /\ job' \in [Users -> {"none", "unborn", "waiting", "active", "gone"}]
           /\ \A u \in Users : job'[u] \in {job[u], "gone"}
  <1>1. worker[w].user \in Users
    BY RunningOrIdle
  <1>2. QED
    BY <1>1 DEF Finish, TypeOK, Running

-----------------------------------------------------------------------------
(* What holds of types and of the life of a job before anything else.      *)

LEMMA TInvInit == Init => TInv
  <1> SUFFICES ASSUME Init PROVE TInv
    OBVIOUS
  <1> USE DEF Init
  <1>1. TypeOK
    <2>1. 0 \in 0 .. MaxDeliveries
      BY DeliveriesAssumption
    <2>2. worker \in [Workers -> {Idle} \cup [at : Places, user : Users, try : 1 .. MaxDeliveries]]
      OBVIOUS
    <2>3. /\ tries \in [Users -> 0 .. MaxDeliveries]
          /\ messages \in [Users -> Nat]
      BY <2>1
    <2>4. QED
      BY <2>2, <2>3 DEF TypeOK
  <1>2. Deliverable /\ NothingYet /\ UnbornUntried
    BY DEF Deliverable, NothingYet, UnbornUntried
  <1>3. QED
    BY <1>1, <1>2 DEF TInv

\* What employees do.
LEMMA EmployeesKeepTypes ==
    ASSUME TInv,
           Create \/ Enqueue \/ EnqueueFails \/ UpdateReads \/ UpdateWrites \/ Pause
           \/ PauseRemovesJobs \/ Resume \/ RemoveCampaign
    PROVE  TInv'
  <1> USE DEF TInv, TypeOK, Deliverable, NothingYet, UnbornUntried
  <1>1. CASE Create
    BY <1>1 DEF Create
  <1>2. CASE Enqueue
    BY <1>2, DeliveriesAssumption DEF Enqueue
  <1>3. CASE EnqueueFails
    BY <1>3 DEF EnqueueFails
  <1>4. CASE UpdateReads
    BY <1>4 DEF UpdateReads
  <1>5. CASE UpdateWrites
    BY <1>5, EditsAssumption DEF UpdateWrites
  <1>6. CASE Pause
    BY <1>6 DEF Pause
  <1>7. CASE PauseRemovesJobs
    BY <1>7 DEF PauseRemovesJobs
  <1>8. CASE Resume
    BY <1>8 DEF Resume
  <1>9. CASE RemoveCampaign
    BY <1>9 DEF RemoveCampaign
  <1>10. QED
    BY <1>1, <1>2, <1>3, <1>4, <1>5, <1>6, <1>7, <1>8, <1>9

\* What the queue does.
LEMMA QueueKeepsTypes ==
    ASSUME TInv, NEW w \in Workers,
           (\E u \in Users : Fetch(w, u)) \/ Stall(w) \/ Abandon(w)
    PROVE  TInv'
  <1> USE DEF TInv, TypeOK, Deliverable, NothingYet, UnbornUntried
  <1>1. ASSUME NEW u \in Users, Fetch(w, u) PROVE TInv'
    <2>1. tries[u] + 1 \in 1 .. MaxDeliveries
      BY <1>1, DeliveriesAssumption DEF Fetch
    <2>2. [at |-> "read", user |-> u, try |-> tries[u] + 1]
            \in [at : Places, user : Users, try : 1 .. MaxDeliveries]
      BY <2>1 DEF Places
    <2>3. TypeOK'
      BY <1>1, <2>1, <2>2 DEF Fetch
    <2>4. QED
      BY <1>1, <2>3 DEF Fetch
  <1>2. CASE Stall(w)
    <2>1. worker[w].user \in Users
      BY <1>2, RunningOrIdle DEF Stall
    <2>2. QED
      BY <1>2, <2>1 DEF Stall
  <1>3. CASE Abandon(w)
    <2>1. worker[w].user \in Users
      BY <1>3, RunningOrIdle DEF Abandon
    <2>2. QED
      BY <1>3, <2>1 DEF Abandon
  <1>4. QED
    BY <1>1, <1>2, <1>3

\* A worker in a step of process is not idle, so the campaign was created.
LEMMA ProcessRuns ==
    ASSUME TInv, NEW w \in Workers, Process(w)
    PROVE  worker[w] # Idle /\ campaign # "absent" /\ worker[w].user \in Users
  <1>1. worker[w] # Idle
    BY IdleIsNowhere DEF Process, ReadCampaign, Claim, Send, CannotSend, Record,
                         CountRemaining, Close, Places, Idle
  <1>2. QED
    BY <1>1, RunningOrIdle DEF TInv, NothingYet

\* A step of process goes to a place or finishes.
LEMMA ProcessGoesOn ==
    ASSUME NEW w \in Workers, Process(w)
    PROVE  (\E place \in Places : Goto(w, place) /\ UNCHANGED job) \/ Finish(w)
BY DEF Process, ReadCampaign, Claim, Send, CannotSend, Record, CountRemaining, Close, Places

LEMMA ProcessKeepsTypes ==
    ASSUME TInv, NEW w \in Workers, Process(w)
    PROVE  TInv'
  <1>1. worker[w] # Idle /\ campaign # "absent" /\ worker[w].user \in Users /\ TypeOK
    BY ProcessRuns DEF TInv
  <1>2. /\ worker' \in [Workers -> {Idle} \cup Running]
        /\ job' \in [Users -> {"none", "unborn", "waiting", "active", "gone"}]
        /\ \A u \in Users : job'[u] \in {job[u], "gone"}
    BY <1>1, ProcessGoesOn, GotoRuns, FinishTypes DEF TypeOK
  <1>3. /\ campaign' \in {campaign, "sending", "completed"}
        /\ recipient' \in [Users -> {"none", "pending", "processing", "sent", "failed"}]
        /\ messages' \in [Users -> Nat]
        /\ UNCHANGED <<tries, edit, pausing>>
    BY <1>1 DEF Process, ReadCampaign, Claim, Send, CannotSend, Record, CountRemaining, Close,
                TypeOK
  <1>4. QED
    BY <1>1, <1>2, <1>3 DEF TInv, TypeOK, Deliverable, NothingYet, UnbornUntried, Running

LEMMA TInvNext == TInv /\ [Next]_vars => TInv'
  <1> SUFFICES ASSUME TInv, [Next]_vars PROVE TInv'
    OBVIOUS
  <1>1. CASE UNCHANGED vars
    BY <1>1 DEF vars, TInv, TypeOK, Deliverable, NothingYet, UnbornUntried
  <1>2. CASE Next
    BY <1>2, EmployeesKeepTypes, QueueKeepsTypes, ProcessKeepsTypes DEF Next
  <1>3. QED
    BY <1>1, <1>2

\* A campaign's row, its recipients, jobs, workers and messages have their
\* types.  The content is that no job is delivered more often than it may be:
\* a job waits only while a delivery is left.
THEOREM TypeCorrect == Spec => []TypeOK
  <1>1. Spec => []TInv
    BY TInvInit, TInvNext, PTL DEF Spec
  <1>2. QED
    BY <1>1, PTL DEF TInv

-----------------------------------------------------------------------------
(* Messages.                                                               *)

\* A step that touches no row and no message and lets nobody begin to hold a
\* recipient changes nothing about who holds what.
LEMMA NobodyTakesHold ==
    ASSUME HInv, UNCHANGED <<recipient, messages>>,
           \A w \in Workers : worker'[w] = worker[w] \/ ~Carries(w)'
    PROVE  HInv'
BY DEF HInv, HeldTruly, HeldOnce, OneMessage, RowTellsTheTruth, Carries

\* What employees do to the rows: create them, all pending and nobody at work,
\* or delete them.
LEMMA EmployeesKeepHeld ==
    ASSUME TInv, HInv,
           Create \/ Enqueue \/ EnqueueFails \/ UpdateReads \/ UpdateWrites \/ Pause
           \/ PauseRemovesJobs \/ Resume \/ RemoveCampaign
    PROVE  HInv'
  <1>1. CASE Create
    <2>1. \A w \in Workers : ~Carries(w)'
      BY <1>1, IdleIsNowhere DEF Create, TInv, NothingYet, Carries, Places
    <2>2. \A u \in Users : messages'[u] = 0 /\ recipient'[u] \in {"none", "pending"}
      BY <1>1 DEF Create, TInv, NothingYet
    <2>3. QED
      BY <2>1, <2>2 DEF HInv, HeldTruly, HeldOnce, OneMessage, RowTellsTheTruth
  <1>2. CASE RemoveCampaign
    <2>1. \A u \in Users : recipient'[u] = "none" /\ messages'[u] = messages[u]
      BY <1>2 DEF RemoveCampaign
    <2>2. \A w \in Workers : worker'[w] = worker[w] /\ (Carries(w)' <=> Carries(w))
      BY <1>2 DEF RemoveCampaign, Carries
    <2>3. \A w \in Workers : Carries(w) => worker[w].user \in Users
      BY RunningOrIdle, IdleIsNowhere DEF Carries, Places, TInv
    <2>4. HeldTruly'
      BY <2>1, <2>2, <2>3 DEF HInv, HeldTruly
    <2>5. QED
      BY <2>1, <2>2, <2>4 DEF HInv, HeldOnce, OneMessage, RowTellsTheTruth
  <1>3. CASE ~Create /\ ~RemoveCampaign
    <2>1. UNCHANGED <<recipient, messages, worker>>
      BY <1>3 DEF Enqueue, EnqueueFails, UpdateReads, UpdateWrites, Pause, PauseRemovesJobs, Resume
    <2>2. QED
      BY <2>1, NobodyTakesHold
  <1>4. QED
    BY <1>1, <1>2, <1>3

\* The queue moves jobs, not rows.
LEMMA QueueKeepsHeld ==
    ASSUME TInv, HInv, NEW w \in Workers,
           (\E u \in Users : Fetch(w, u)) \/ Stall(w) \/ Abandon(w)
    PROVE  HInv'
  <1>1. UNCHANGED <<recipient, messages>>
    BY DEF Fetch, Stall, Abandon
  <1>2. \A v \in Workers : worker'[v] = worker[v] \/ ~Carries(v)'
    BY DEF Fetch, Stall, Abandon, Carries, Idle, TInv, TypeOK
  <1>3. QED
    BY <1>1, <1>2, NobodyTakesHold

\* One step of process per statement of the job handler.
LEMMA ProcessKeepsHeld ==
    ASSUME TInv, HInv, NEW w \in Workers, Process(w)
    PROVE  HInv'
  <1> DEFINE u == worker[w].user
  <1>1. worker[w] # Idle /\ u \in Users /\ TypeOK
    BY ProcessRuns DEF TInv
  <1>2. ASSUME NEW place \in Places, Goto(w, place)
        PROVE  /\ worker'[w].at = place /\ worker'[w].user = u
               /\ \A v \in Workers : v # w => worker'[v] = worker[v]
    BY <1>1, <1>2, GotoRuns
  <1>3. ASSUME Finish(w)
        PROVE  /\ ~Carries(w)'
               /\ \A v \in Workers : v # w => worker'[v] = worker[v]
    BY <1>1, <1>3, FinishTypes DEF Carries, Idle
  <1>4. \A v \in Workers : Carries(v) => worker[v].user \in Users
    BY <1>1, RunningOrIdle, IdleIsNowhere DEF Carries, Places
  <1>5. CASE ReadCampaign(w) \/ CountRemaining(w) \/ Close(w)
    <2>1. UNCHANGED <<recipient, messages>>
      BY <1>5 DEF ReadCampaign, CountRemaining, Close
    <2>2. Finish(w) \/ \E place \in Places \ {"send", "sent"} : Goto(w, place)
      BY <1>5 DEF ReadCampaign, CountRemaining, Close, Places
    <2>3. \A v \in Workers : worker'[v] = worker[v] \/ ~Carries(v)'
      BY <1>2, <1>3, <2>2 DEF Carries
    <2>4. QED
      BY <2>1, <2>3, NobodyTakesHold
  <1>6. CASE Claim(w) /\ recipient[u] # "pending"
    <2>1. UNCHANGED <<recipient, messages>> /\ Finish(w)
      BY <1>6 DEF Claim
    <2>2. QED
      BY <1>3, <2>1, NobodyTakesHold
  <1>7. CASE Claim(w) /\ recipient[u] = "pending"
    \* Nobody holds a recipient whose row is pending.
    <2>1. /\ recipient' = [recipient EXCEPT ![u] = "processing"]
          /\ Goto(w, "send") /\ messages' = messages
      BY <1>7 DEF Claim
    <2>2. messages[u] = 0
      BY <1>1, <1>7 DEF HInv, RowTellsTheTruth
    <2>3. \A v \in Workers : Carries(v) => worker[v].user # u
      BY <1>7 DEF HInv, HeldTruly
    <2>4. /\ worker'[w].at = "send" /\ worker'[w].user = u
          /\ \A v \in Workers : v # w => worker'[v] = worker[v]
      BY <1>2, <2>1 DEF Places
    <2>5. HeldTruly'
      BY <1>1, <1>4, <2>1, <2>2, <2>3, <2>4 DEF HInv, HeldTruly, Carries, TypeOK
    <2>6. HeldOnce'
      BY <2>3, <2>4 DEF HInv, HeldOnce, Carries
    <2>7. (OneMessage /\ RowTellsTheTruth)'
      BY <1>1, <2>1 DEF HInv, OneMessage, RowTellsTheTruth, TypeOK
    <2>8. QED
      BY <2>5, <2>6, <2>7 DEF HInv
  <1>8. CASE Send(w)
    \* The one who holds it has not sent it yet.
    <2>1. /\ messages' = [messages EXCEPT ![u] = @ + 1]
          /\ Goto(w, "sent") /\ recipient' = recipient /\ worker[w].at = "send"
      BY <1>8 DEF Send
    <2>2. Carries(w) /\ messages[u] = 0 /\ recipient[u] \in {"processing", "none"}
      BY <2>1 DEF HInv, HeldTruly, Carries
    <2>3. \A v \in Workers : Carries(v) /\ v # w => worker[v].user # u
      BY <2>2 DEF HInv, HeldOnce
    <2>4. /\ worker'[w].at = "sent" /\ worker'[w].user = u
          /\ \A v \in Workers : v # w => worker'[v] = worker[v]
      BY <1>2, <2>1 DEF Places
    <2>5. messages'[u] = 1 /\ \A x \in Users : x # u => messages'[x] = messages[x]
      BY <1>1, <2>1, <2>2 DEF TypeOK
    <2>6. HeldTruly'
      BY <1>4, <2>1, <2>2, <2>3, <2>4, <2>5 DEF HInv, HeldTruly, Carries
    <2>7. HeldOnce'
      BY <2>2, <2>4 DEF HInv, HeldOnce, Carries
    <2>8. (OneMessage /\ RowTellsTheTruth)'
      BY <2>1, <2>2, <2>5 DEF HInv, OneMessage, RowTellsTheTruth
    <2>9. QED
      BY <2>6, <2>7, <2>8 DEF HInv
  <1>9. CASE CannotSend(w) \/ Record(w)
    <2> DEFINE result == IF worker[w].at = "sent" THEN "sent" ELSE "failed"
    <2>1. /\ recipient' = [recipient EXCEPT ![u] = IF @ = "none" THEN @ ELSE result]
          /\ Goto(w, "count") /\ messages' = messages /\ Carries(w)
      BY <1>9 DEF CannotSend, Record, Carries
    <2>2. /\ worker[w].at = "send" => messages[u] = 0
          /\ worker[w].at = "sent" => messages[u] = 1
      BY <2>1 DEF HInv, HeldTruly
    <2>3. \A v \in Workers : Carries(v) /\ v # w => worker[v].user # u
      BY <2>1 DEF HInv, HeldOnce
    <2>4. /\ ~Carries(w)'
          /\ \A v \in Workers : v # w => worker'[v] = worker[v]
      BY <1>2, <2>1 DEF Places, Carries
    <2>5. HeldTruly'
      BY <1>1, <1>4, <2>1, <2>3, <2>4 DEF HInv, HeldTruly, Carries, TypeOK
    <2>6. HeldOnce'
      BY <2>4 DEF HInv, HeldOnce, Carries
    <2>7. (OneMessage /\ RowTellsTheTruth)'
      BY <1>1, <2>1, <2>2 DEF HInv, OneMessage, RowTellsTheTruth, TypeOK, Carries
    <2>8. QED
      BY <2>5, <2>6, <2>7 DEF HInv
  <1>10. QED
    BY <1>5, <1>6, <1>7, <1>8, <1>9 DEF Process

-----------------------------------------------------------------------------
(* Completion.                                                             *)

\* Nobody left stays nobody left, and who has just counted nobody is right.
LEMMA SettledStays ==
    ASSUME CInv, Remaining' \subseteq Remaining,
           \A w \in Workers :
               worker'[w].at = "complete" => worker[w].at = "complete" \/ Remaining = {},
           campaign' = "completed" => campaign = "completed" \/ Remaining = {}
    PROVE  CInv'
BY DEF CInv, CountedRight, CompletedMeansSettled

LEMMA CompletionKept ==
    ASSUME TInv, CInv, Next
    PROVE  CInv'
  <1>1. CASE Create
    <2>1. \A w \in Workers : worker'[w].at # "complete"
      <3>1. worker' = worker /\ campaign = "absent"
        BY <1>1 DEF Create
      <3>2. QED
        BY <3>1, IdleIsNowhere DEF TInv, NothingYet, Places
    <2>2. campaign' # "completed"
      BY <1>1 DEF Create
    <2>3. QED
      BY <2>1, <2>2 DEF CInv, CountedRight, CompletedMeansSettled
  <1>2. CASE Enqueue \/ EnqueueFails \/ UpdateReads \/ UpdateWrites \/ Pause
             \/ PauseRemovesJobs \/ Resume \/ RemoveCampaign
    <2>1. Remaining' \subseteq Remaining /\ worker' = worker
      BY <1>2 DEF Enqueue, EnqueueFails, UpdateReads, UpdateWrites, Pause, PauseRemovesJobs,
                  Resume, RemoveCampaign, Remaining, Rows
    <2>2. campaign' = "completed" => campaign = "completed"
      BY <1>2, EditsAssumption
         DEF Enqueue, EnqueueFails, UpdateReads, UpdateWrites, Pause, PauseRemovesJobs,
             Resume, RemoveCampaign, TInv, TypeOK
    <2>3. QED
      BY <2>1, <2>2, SettledStays
  <1>3. ASSUME NEW w \in Workers, (\E u \in Users : Fetch(w, u)) \/ Stall(w) \/ Abandon(w)
        PROVE  CInv'
    <2>1. UNCHANGED <<campaign, recipient>> /\ Remaining' = Remaining
      BY <1>3 DEF Fetch, Stall, Abandon, Remaining, Rows
    <2>2. \A v \in Workers : worker'[v].at = "complete" => worker[v].at = "complete"
      BY <1>3 DEF Fetch, Stall, Abandon, Idle, TInv, TypeOK
    <2>3. QED
      BY <2>1, <2>2, SettledStays
  <1>4. ASSUME NEW w \in Workers, Process(w) PROVE CInv'
    <2>1. worker[w] # Idle /\ worker[w].user \in Users /\ TypeOK
      BY <1>4, ProcessRuns DEF TInv
    <2>2. Remaining' \subseteq Remaining
      BY <1>4, <2>1 DEF Process, ReadCampaign, Claim, Send, CannotSend, Record, CountRemaining,
                        Close, Remaining, Rows, TypeOK
    <2>3. campaign' = "completed" => campaign = "completed" \/ Remaining = {}
      BY <1>4 DEF Process, ReadCampaign, Claim, Send, CannotSend, Record, CountRemaining, Close,
                  CInv, CountedRight
    <2>4. \A v \in Workers :
              worker'[v].at = "complete" => worker[v].at = "complete" \/ Remaining = {}
      <3>1. Finish(w) \/ (CountRemaining(w) /\ (Remaining = {} \/ Goto(w, "continue")))
            \/ \E place \in Places \ {"complete"} : Goto(w, place)
        BY <1>4 DEF Process, ReadCampaign, Claim, Send, CannotSend, Record, CountRemaining, Close,
                    Places
      <3>2. CASE Finish(w)
        BY <2>1, <3>2, FinishTypes DEF Idle
      <3>3. ASSUME NEW place \in Places \ {"complete"}, Goto(w, place)
            PROVE  \A v \in Workers : worker'[v].at = "complete" => worker[v].at = "complete"
        BY <2>1, <3>3, GotoRuns
      <3>4. "continue" \in Places \ {"complete"}
        BY DEF Places
      <3>5. QED
        BY <3>1, <3>2, <3>3, <3>4
    <2>5. QED
      BY <2>2, <2>3, <2>4, SettledStays
  <1>5. QED
    BY <1>1, <1>2, <1>3, <1>4 DEF Next

-----------------------------------------------------------------------------
(* The invariant.                                                          *)

LEMMA IInvInit == Init => IInv
  <1> SUFFICES ASSUME Init PROVE IInv
    OBVIOUS
  <1>1. TInv
    BY TInvInit
  <1>2. \A w \in Workers : worker[w].at = "idle"
    BY DEF Init, Idle
  <1>3. HInv
    BY <1>2 DEF Init, HInv, HeldTruly, HeldOnce, Carries, OneMessage, RowTellsTheTruth
  <1>4. CInv
    BY <1>2 DEF Init, CInv, CountedRight, CompletedMeansSettled
  <1>5. QED
    BY <1>1, <1>3, <1>4 DEF IInv

LEMMA IInvNext == IInv /\ [Next]_vars => IInv'
  <1> SUFFICES ASSUME IInv, [Next]_vars PROVE IInv'
    OBVIOUS
  <1>1. TInv /\ HInv /\ CInv /\ TInv'
    BY TInvNext DEF IInv
  <1>2. CASE UNCHANGED vars
    <2>1. HInv'
      BY <1>1, <1>2 DEF vars, HInv, HeldTruly, HeldOnce, Carries, OneMessage, RowTellsTheTruth
    <2>2. CInv'
      BY <1>1, <1>2 DEF vars, CInv, CountedRight, CompletedMeansSettled, Remaining, Rows
    <2>3. QED
      BY <1>1, <2>1, <2>2 DEF IInv
  <1>3. CASE Next
    BY <1>1, <1>3, EmployeesKeepHeld, QueueKeepsHeld, ProcessKeepsHeld, CompletionKept
       DEF Next, IInv
  <1>4. QED
    BY <1>2, <1>3

LEMMA Invariant == Spec => []IInv
BY IInvInit, IInvNext, PTL DEF Spec

\* However often a job is delivered and to however many workers at a time, no
\* customer is sent more than one message of the campaign.
THEOREM OneMessageHolds == Spec => []OneMessage
  <1>1. IInv => OneMessage
    BY DEF IInv, HInv
  <1>2. QED
    BY <1>1, Invariant, PTL

\* A row that says pending or failed belongs to a customer who was sent
\* nothing, a row that says sent to one who was.
THEOREM RowTellsTheTruthHolds == Spec => []RowTellsTheTruth
  <1>1. IInv => RowTellsTheTruth
    BY DEF IInv, HInv
  <1>2. QED
    BY <1>1, Invariant, PTL

\* A completed campaign has no recipient that is pending or in a worker's
\* hands, though the count and the write are two statements.
THEOREM CompletedMeansSettledHolds == Spec => []CompletedMeansSettled
  <1>1. IInv => CompletedMeansSettled
    BY DEF IInv, CInv
  <1>2. QED
    BY <1>1, Invariant, PTL
=============================================================================
