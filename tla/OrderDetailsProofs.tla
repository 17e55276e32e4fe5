------------------------- MODULE OrderDetailsProofs -------------------------
(***************************************************************************)
(* Theorems about the phones lent with an order, the list of orders and    *)
(* what redis remembers of it, the documents published and the catalogue   *)
(* orders are described with: for any number of rows and requests beside   *)
(* each other, wherever requests stop.                                     *)
(***************************************************************************)
EXTENDS RentalPhones, Catalogue, PublishedDocuments, OrderLists, FiniteSetTheorems,
        WellFoundedInduction, TLAPS

(***************************************************************************)
(* Rental phones (RentalPhones).                                           *)
(***************************************************************************)
(***************************************************************************)
(* Statements.                                                             *)
(***************************************************************************)
AnyDevice == Devices \cup {NoDevice}

Row == [order : Orders, status : RentalStatuses \cup {"removed"}, device : AnyDevice]

RowEntry == [op : {"row"}, row : Nat, status : RentalStatuses, device : AnyDevice]
DeviceEntry == [op : {"device"}, device : AnyDevice, status : {"Available", "Rented"}]
InsertEntry == [op : {"insert"}, row : [order : Orders, status : RentalStatuses, device : AnyDevice]]
BirthEntry == [op : {"birth"}, device : Devices]
StageEntry == [op : {"stage"}, to : Stages \ {"unborn"}]
Entry == RowEntry \cup DeviceEntry \cup InsertEntry \cup BirthEntry \cup StageEntry

\* Of the rentals R: those of an order, its active ones, those of a phone.
Rows(R, o) == {i \in DOMAIN R : R[i].order = o /\ R[i].status # "removed"}
Actives(R, o) == {i \in Rows(R, o) : R[i].status = "Active"}
Out(R, d) == {i \in DOMAIN R : R[i].device = d /\ R[i].status = "Active"}

(***************************************************************************)
(* A statement e of a request on order o, while R are the rentals, O the   *)
(* orders requests have overlapped on and S the types the orders are in.   *)
(***************************************************************************)
\* The rental it writes is one of the order's, stays closed once it is, and is
\* the newest if it becomes or stays active.
RentalRowFits(e, o, R, O) ==
    /\ e.row \in DOMAIN R /\ R[e.row].order = o
    /\ o \notin O => /\ R[e.row].status \in Terminal => e.status = R[e.row].status
                     /\ e.status = "Active" => \A j \in Rows(R, o) : j <= e.row

EntryFits(e, o, R, O, S) ==
    /\ e.op = "row" => RentalRowFits(e, o, R, O)
    /\ e.op = "insert" => e.row.order = o /\ (o \notin O => Actives(R, o) = {})
    /\ (e.op = "birth") <=> (S[o] = "unborn")

\* A statement names only phones the request has in hand, and the rental it
\* writes has one of these, or one whose history is not clean.
Names(e, D, R, T) ==
    /\ e.op \in {"row", "device", "birth"} => e.device \in D \cup {NoDevice}
    /\ e.op = "insert" => e.row.device \in D \cup {NoDevice}
    /\ e.op = "row" => R[e.row].device \in D \cup {NoDevice} \cup T

(***************************************************************************)
(* What a request does to a phone d it has in hand, when it is done.       *)
(***************************************************************************)
TodoPlaces(q) == 1 .. Len(q.todo)

WritesAt(q, k, d) == q.todo[k].op = "device" /\ q.todo[k].device = d

Writes(q, d, s) == \E k \in TodoPlaces(q) : WritesAt(q, k, d) /\ q.todo[k].status = s

\* The active rentals of d once e has been executed.
Left(e, d, R) ==
    (Out(R, d) \ {e.row}) \cup
        (IF e.status = "Active" /\ e.device = d /\ R[e.row].status # "removed" THEN {e.row} ELSE {})

Single(X) == \E i \in X : X = {i}

\* X are the active rentals of d, s is its status.
Agree(X, s) == IF s = "Rented" THEN Single(X) ELSE X = {}

\* Once it has written the status it still has to write, if any.
WillAgree(q, d, X, s) ==
    IF Writes(q, d, "Available") THEN X = {}
    ELSE Agree(X, IF Writes(q, d, "Rented") THEN "Rented" ELSE s)

\* The only statement that is not about a phone's status decides which active
\* rentals d has in the end.
Settles(q, d, R, s) ==
    /\ \A k, m \in TodoPlaces(q) : WritesAt(q, k, d) /\ WritesAt(q, m, d) => k = m
    /\ \A k \in TodoPlaces(q) : LET e == q.todo[k] IN
          /\ e.op = "insert" => /\ Out(R, d) = {} /\ e.row.status = "Active" /\ e.row.device = d
                                /\ \A i \in Nat : WillAgree(q, d, {i}, s)
          /\ e.op = "birth" => Out(R, d) = {} /\ e.device = d
          /\ e.op = "row" => WillAgree(q, d, Left(e, d, R), s)
          /\ e.op # "stage"
    /\ (\A k \in TodoPlaces(q) : q.todo[k].op = "device") => WillAgree(q, d, Out(R, d), s)

(***************************************************************************)
(* The inductive invariant.                                                *)
(***************************************************************************)
TypesFit ==
    /\ device \in [Devices -> [status : DeviceStatuses, open : BOOLEAN]]
    /\ stage \in [Orders -> Stages] /\ calls \in 0 .. MaxCalls
    /\ cached \subseteq Devices /\ overlapped \subseteq Orders /\ tainted \subseteq Devices
    /\ rental \in Seq(Row)
    /\ DOMAIN request = Requests

RowsBorn == \A i \in DOMAIN rental : stage[rental[i].order] # "unborn"

RequestFits(q, R, O, S, T) ==
    /\ q \in [order : Orders, devices : SUBSET Devices, todo : Seq(Entry), begun : BOOLEAN]
    /\ q.todo # <<>>
    /\ \A k \in TodoPlaces(q) : EntryFits(q.todo[k], q.order, R, O, S)
    /\ \A k \in TodoPlaces(q) : Names(q.todo[k], q.devices, R, T)
    /\ \A k, m \in TodoPlaces(q) : q.todo[k].op # "device" /\ q.todo[m].op # "device" => k = m

RequestsFit == \A r \in Requests : request[r] = Idle \/ RequestFits(request[r], rental, overlapped, stage, tainted)

\* Two requests that work on one order, or have one phone in hand.
Disjoint(p, q, O, T) ==
    /\ p.devices \cap q.devices \subseteq T
    /\ p # Idle /\ q # Idle /\ p.order = q.order =>
          /\ p.order \in O
          /\ p.devices \subseteq T /\ q.devices \subseteq T

Creating(q) == \E k \in TodoPlaces(q) : q.todo[k].op = "birth"

RequestsApart ==
    \A r, q \in Requests : r # q =>
        /\ Disjoint(request[r], request[q], overlapped, tainted)
        /\ Creating(request[r]) => /\ request[r].order # NoDevice
                                   /\ request[q].order # request[r].order

NewestFits(R, O) == \A o \in Orders \ O : \A i \in Actives(R, o), j \in Rows(R, o) : j <= i

\* A phone in nobody's hand agrees with its rentals; one in hand will.
DeviceFits(d) ==
    /\ (\A r \in Requests : d \notin request[r].devices) => Agree(Out(rental, d), device[d].status)
    /\ \A r \in Requests : d \in request[r].devices => Settles(request[r], d, rental, device[d].status)

RInv ==
    /\ TypesFit /\ RowsBorn /\ RequestsFit /\ RequestsApart
    /\ NewestFits(rental, overlapped)
    /\ \A d \in Devices \ tainted : DeviceFits(d)

(***************************************************************************)
(* What a request on order o with the phones D in hand may do to the       *)
(* rentals, and what that leaves the other requests.                       *)
(***************************************************************************)
Changes(R, Q, o, D, T) ==
    /\ Q \in Seq(Row) /\ DOMAIN R \subseteq DOMAIN Q
    /\ \A i \in DOMAIN Q :
        \/ i \in DOMAIN R /\ Q[i] = R[i]
        \/ /\ Q[i].order = o /\ Q[i].device \in D \cup {NoDevice}
           /\ i \in DOMAIN R => R[i].order = o /\ R[i].device \in D \cup {NoDevice} \cup T

LEMMA OtherRows ==
    ASSUME NEW R, NEW Q, NEW o, NEW D, NEW T, Changes(R, Q, o, D, T), NEW x, x # o
    PROVE  Rows(Q, x) = Rows(R, x) /\ Actives(Q, x) = Actives(R, x)
<1>1. Rows(Q, x) = Rows(R, x)
    BY DEF Changes, Rows
<1>2. \A i \in Rows(Q, x) : Q[i] = R[i]
    BY DEF Changes, Rows
<1> QED BY <1>1, <1>2 DEF Actives

LEMMA OthersFit ==
    ASSUME NEW q, NEW R, NEW Q, NEW O, NEW P, NEW S, NEW Z, NEW T, NEW U, NEW o, NEW D,
           RequestFits(q, R, O, S, T), Changes(R, Q, o, D, T), O \subseteq P, T \subseteq U,
           q.order # o => Z[q.order] = S[q.order],
           q.order = o => o \in P /\ D \subseteq U /\ (Z[o] = "unborn" <=> S[o] = "unborn")
    PROVE  RequestFits(q, Q, P, Z, U)
<1>1. ASSUME NEW k \in TodoPlaces(q)
      PROVE  EntryFits(q.todo[k], q.order, Q, P, Z) /\ Names(q.todo[k], q.devices, Q, U)
    <2> DEFINE e == q.todo[k]
    <2>1. EntryFits(e, q.order, R, O, S) /\ Names(e, q.devices, R, T)
        BY DEF RequestFits
    <2> HIDE DEF e
    <2>2. (e.op = "birth") <=> (Z[q.order] = "unborn")
        BY <2>1 DEF EntryFits
    <2>3. e.op = "insert" => e.row.order = q.order /\ (q.order \notin P => Actives(Q, q.order) = {})
        BY <2>1, OtherRows DEF EntryFits
    <2>4. ASSUME e.op = "row"
          PROVE  /\ RentalRowFits(e, q.order, Q, P)
                 /\ Q[e.row].device \in q.devices \cup {NoDevice} \cup U
        <3>1. /\ RentalRowFits(e, q.order, R, O) /\ e.row \in DOMAIN R /\ R[e.row].order = q.order
              /\ R[e.row].device \in q.devices \cup {NoDevice} \cup T
            BY <2>1, <2>4 DEF EntryFits, RentalRowFits, Names
        <3> DEFINE i == e.row
        <3> HIDE DEF i
        <3>2. i \in DOMAIN R /\ R[i].order = q.order
            BY <3>1 DEF i
        <3>5. i \in DOMAIN Q /\ Q[i].order = q.order
            BY <3>2 DEF Changes
        <3>3. CASE q.order # o
            <4>1. Q[i] = R[i]
                BY <3>2, <3>3 DEF Changes
            <4>2. Rows(Q, q.order) = Rows(R, q.order)
                BY <3>3, OtherRows
            <4> QED BY <3>1, <3>5, <4>1, <4>2 DEF RentalRowFits, i
        <3>4. CASE q.order = o
            <4>1. o \in P /\ Q[i].device \in q.devices \cup {NoDevice} \cup U
                BY <3>1, <3>2, <3>5, <3>4 DEF Changes, i
            <4> QED BY <3>4, <3>5, <4>1 DEF RentalRowFits, i
        <3> QED BY <3>3, <3>4
    <2>5. Names(e, q.devices, Q, U)
        BY <2>1, <2>4 DEF Names
    <2> QED BY <2>2, <2>3, <2>4, <2>5 DEF EntryFits, e
<1> QED BY <1>1 DEF RequestFits

\* Neither do the rentals of a phone change that is not among D.
LEMMA PhoneKept ==
    ASSUME NEW R, NEW Q, NEW o, NEW D, NEW T, Changes(R, Q, o, D, T),
           NEW d \in Devices, d \notin D, d \notin T
    PROVE  /\ Out(Q, d) = Out(R, d)
           /\ \A e : /\ e.row \in DOMAIN R
                     /\ R[e.row].order # o
                     => Left(e, d, Q) = Left(e, d, R)
<1>1. d # NoDevice
    BY NoDeviceAssumption
<1>2. Out(Q, d) = Out(R, d)
    BY <1>1 DEF Changes, Out
<1>3. ASSUME NEW e, e.row \in DOMAIN R, R[e.row].order # o
      PROVE  Left(e, d, Q) = Left(e, d, R)
    <2>1. Q[e.row] = R[e.row]
        BY <1>3 DEF Changes
    <2> QED BY <1>2, <2>1 DEF Left
<1> QED BY <1>2, <1>3

LEMMA SettlesKept ==
    ASSUME NEW R, NEW Q, NEW o, NEW D, NEW T, Changes(R, Q, o, D, T),
           NEW d \in Devices, d \notin D, d \notin T,
           NEW q, NEW O, NEW S, RequestFits(q, R, O, S, T), q.order # o,
           NEW s, Settles(q, d, R, s)
    PROVE  Settles(q, d, Q, s)
<1>1. Out(Q, d) = Out(R, d)
    BY PhoneKept
<1>2. ASSUME NEW k \in TodoPlaces(q), q.todo[k].op = "row"
      PROVE  Left(q.todo[k], d, Q) = Left(q.todo[k], d, R)
    <2>1. q.todo[k].row \in DOMAIN R /\ R[q.todo[k].row].order # o
        BY <1>2 DEF RequestFits, EntryFits, RentalRowFits
    <2> QED BY <2>1, PhoneKept
<1> QED BY <1>1, <1>2 DEF Settles

\* A step of request r on order o, with the phones D in hand before it or after
\* it, that leaves r as p: what it may change, what it notes of the requests it
\* overlaps with, and what becomes of the phones.
Frame(o, D) ==
    /\ Changes(rental, rental', o, D, tainted)
    /\ overlapped \subseteq overlapped' /\ tainted \subseteq tainted'
    /\ \A x \in Orders \ {o} : stage'[x] = stage[x]
    /\ \A d \in Devices \ D : device'[d].status = device[d].status
    /\ o \notin overlapped' => \A i \in Actives(rental', o), j \in Rows(rental', o) : j <= i

NotesRaces(r, p, o, D) ==
    \A q \in Requests \ {r} :
        /\ Disjoint(p, request[q], overlapped', tainted')
        /\ request[q] # Idle /\ request[q].order = o =>
             /\ o \in overlapped' /\ D \subseteq tainted' /\ request[q].devices \subseteq tainted'
             /\ stage'[o] = "unborn" <=> stage[o] = "unborn"
        /\ D \cap request[q].devices \subseteq tainted'

CreatesAlone(r, p) ==
    \A q \in Requests \ {r} :
        /\ Creating(p) => p.order # NoDevice
        /\ Creating(p) \/ Creating(request[q]) => request[q].order # p.order

PhonesSettle(p, D) ==
    \A d \in D \ tainted' :
        IF d \in p.devices THEN Settles(p, d, rental', device'[d].status)
        ELSE Agree(Out(rental', d), device'[d].status)

\* Such a step keeps the invariant.
LEMMA StepKeeps ==
    ASSUME RInv, NEW r \in Requests, NEW p, NEW o, NEW D \in SUBSET Devices,
           request' = [request EXCEPT ![r] = p], TypesFit', RowsBorn',
           p = Idle \/ RequestFits(p, rental', overlapped', stage', tainted'),
           p.devices \subseteq D /\ request[r].devices \subseteq D,
           Frame(o, D), NotesRaces(r, p, o, D), CreatesAlone(r, p), PhonesSettle(p, D)
    PROVE  RInv'
<1>1. request'[r] = p /\ \A q \in Requests \ {r} : request'[q] = request[q]
    BY DEF RInv, TypesFit
<1>2. ASSUME NEW q \in Requests \ {r}
      PROVE  request[q] = Idle \/ RequestFits(request[q], rental', overlapped', stage', tainted')
    <2> SUFFICES ASSUME request[q] # Idle
                 PROVE  RequestFits(request[q], rental', overlapped', stage', tainted')
        OBVIOUS
    <2>1. RequestFits(request[q], rental, overlapped, stage, tainted)
        BY DEF RInv, RequestsFit
    <2>2. request[q].order \in Orders
        BY <2>1 DEF RequestFits
    <2> QED BY <2>1, <2>2, OthersFit DEF Frame, NotesRaces
<1>3. RequestsFit'
    BY <1>1, <1>2 DEF RequestsFit
<1>4. ASSUME NEW q \in Requests, NEW k \in Requests, q # k
      PROVE  /\ Disjoint(request'[q], request'[k], overlapped', tainted')
             /\ Creating(request'[q]) => /\ request'[q].order # NoDevice
                                         /\ request'[k].order # request'[q].order
    <2>1. CASE q = r
        BY <1>1, <1>4, <2>1 DEF NotesRaces, CreatesAlone
    <2>2. CASE k = r
        <3>1. Disjoint(p, request[q], overlapped', tainted')
            BY <1>4, <2>2 DEF NotesRaces
        <3>2. Disjoint(request[q], p, overlapped', tainted')
            BY <3>1 DEF Disjoint
        <3>3. Creating(request[q]) => request[q].order # NoDevice
            BY <1>4 DEF RInv, RequestsApart
        <3> QED BY <1>1, <1>4, <2>2, <3>2, <3>3 DEF CreatesAlone
    <2>3. CASE q # r /\ k # r
        <3>1. /\ Disjoint(request[q], request[k], overlapped, tainted)
              /\ Creating(request[q]) => /\ request[q].order # NoDevice
                                         /\ request[k].order # request[q].order
            BY <1>4 DEF RInv, RequestsApart
        <3>2. Disjoint(request[q], request[k], overlapped', tainted')
            BY <3>1 DEF Disjoint, Frame
        <3> QED BY <1>1, <2>3, <3>1, <3>2
    <2> QED BY <2>1, <2>2, <2>3
<1>5. RequestsApart'
    BY <1>4 DEF RequestsApart
<1>6. NewestFits(rental', overlapped')
    <2> SUFFICES ASSUME NEW x \in Orders \ overlapped'
                 PROVE  \A i \in Actives(rental', x), j \in Rows(rental', x) : j <= i
        BY DEF NewestFits
    <2>1. CASE x = o
        BY <2>1 DEF Frame
    <2>2. CASE x # o
        BY <2>2, OtherRows DEF RInv, NewestFits, Frame
    <2> QED BY <2>1, <2>2
<1>7. ASSUME NEW d \in Devices \ tainted'
      PROVE  /\ (\A q \in Requests : d \notin request'[q].devices) =>
                    Agree(Out(rental', d), device'[d].status)
             /\ \A q \in Requests : d \in request'[q].devices =>
                    Settles(request'[q], d, rental', device'[d].status)
    <2>1. DeviceFits(d)
        BY DEF RInv, Frame
    <2>2. CASE d \in D
        <3>1. \A q \in Requests \ {r} : d \notin request'[q].devices
            BY <1>1, <2>2 DEF NotesRaces
        <3> QED BY <1>1, <2>2, <3>1 DEF PhonesSettle
    <2>3. CASE d \notin D
        <3>1. /\ d \notin request[r].devices /\ d \notin request'[r].devices /\ d \notin tainted
              /\ device'[d].status = device[d].status
            BY <1>1, <2>3 DEF Frame
        <3>2. Out(rental', d) = Out(rental, d)
            BY <2>3, <3>1, PhoneKept DEF Frame
        <3>3. ASSUME NEW q \in Requests, d \in request'[q].devices
              PROVE  Settles(request'[q], d, rental', device'[d].status)
            <4>1. q # r /\ request'[q] = request[q] /\ d \in request[q].devices
                BY <1>1, <3>1, <3>3
            <4>2. request[q] # Idle
                BY <4>1 DEF Idle
            <4>3. RequestFits(request[q], rental, overlapped, stage, tainted)
                BY <4>2 DEF RInv, RequestsFit
            <4>4. request[q].order # o
                BY <4>1, <4>2, <1>7 DEF NotesRaces
            <4>5. Settles(request[q], d, rental, device[d].status)
                BY <2>1, <4>1 DEF DeviceFits
            <4> QED BY <2>3, <3>1, <4>1, <4>3, <4>4, <4>5, SettlesKept DEF Frame
        <3> QED BY <1>1, <2>1, <3>1, <3>2, <3>3 DEF DeviceFits
    <2> QED BY <2>2, <2>3
<1>8. \A d \in Devices \ tainted' : DeviceFits(d)'
    BY <1>7 DEF DeviceFits
<1> QED BY <1>3, <1>5, <1>6, <1>8 DEF RInv

(***************************************************************************)
(* Requests that begin.                                                    *)
(***************************************************************************)
Starts(todo, o, D, R) ==
    /\ todo \in Seq(Entry) /\ todo # <<>>
    /\ \A k \in 1 .. Len(todo) : EntryFits(todo[k], o, R, overlapped, stage) /\ Names(todo[k], D, R, tainted)
    /\ \A k, m \in 1 .. Len(todo) : todo[k].op # "device" /\ todo[m].op # "device" => k = m
    /\ (\E k \in 1 .. Len(todo) : todo[k].op = "birth") => \A q \in Requests : request[q].order # o

LEMMA BeginStep ==
    ASSUME RInv, NEW r \in Requests, NEW o \in Orders, NEW D \in SUBSET Devices, NEW todo,
           NEW suspect \in SUBSET Devices, NEW begun \in BOOLEAN,
           Begin(r, o, D, todo, suspect, begun), UNCHANGED <<device, stage>>, cached' \subseteq Devices,
           Changes(rental, rental', o, D, tainted), DOMAIN rental' = DOMAIN rental,
           Starts(todo, o, D, rental'),
           o \notin overlapped => \A i \in Actives(rental', o), j \in Rows(rental', o) : j <= i,
           \A d \in D \ (tainted \cup suspect) :
               Agree(Out(rental, d), device[d].status) =>
                   Settles([order |-> o, devices |-> D, todo |-> todo, begun |-> begun],
                           d, rental', device[d].status)
    PROVE  RInv'
<1> DEFINE p == [order |-> o, devices |-> D, todo |-> todo, begun |-> begun]
           others == {q \in Requests \ {r} : Busy(q)}
           rivals == {q \in others : request[q].order = o}
<1>1. /\ request[r] = Idle /\ request' = [request EXCEPT ![r] = p]
      /\ overlapped' = IF rivals = {} THEN overlapped ELSE overlapped \cup {o}
      /\ tainted' = tainted \cup suspect \cup (D \cap UNION {request[q].devices : q \in others}) \cup
            (IF rivals = {} THEN {} ELSE D \cup UNION {request[q].devices : q \in rivals})
      /\ calls' \in 0 .. MaxCalls
    BY MaxCallsAssumption DEF Begin, Busy, RInv, TypesFit
<1>2. /\ p.order = o /\ p.devices = D /\ p.todo = todo /\ p.begun = begun /\ p # Idle
      /\ TodoPlaces(p) = 1 .. Len(todo)
      /\ p \in [order : Orders, devices : SUBSET Devices, todo : Seq(Entry), begun : BOOLEAN]
    BY DEF Idle, TodoPlaces, Starts
<1> HIDE DEF p
<1>3. \A q \in Requests : request[q] = Idle \/ RequestFits(request[q], rental, overlapped, stage, tainted)
    BY DEF RInv, RequestsFit
<1>4. \A q \in Requests : request[q].devices \subseteq Devices
    BY <1>3 DEF Idle, RequestFits
<1>5. overlapped \subseteq overlapped' /\ tainted \subseteq tainted' /\ tainted' \subseteq Devices
    <2>1. UNION {request[q].devices : q \in rivals} \subseteq Devices
        BY <1>4
    <2> QED BY <1>1, <2>1 DEF RInv, TypesFit
<1>6. ASSUME NEW q \in Requests \ {r}
      PROVE  /\ D \cap request[q].devices \subseteq tainted'
             /\ request[q] # Idle /\ request[q].order = o =>
                    /\ o \in overlapped' /\ D \subseteq tainted' /\ request[q].devices \subseteq tainted'
    <2>1. request[q] = Idle => request[q].devices = {}
        BY DEF Idle
    <2>2. request[q] # Idle => q \in others
        BY DEF Busy
    <2>3. q \in others => D \cap request[q].devices \subseteq tainted'
        BY <1>1
    <2>4. ASSUME q \in others, request[q].order = o
          PROVE  o \in overlapped' /\ D \subseteq tainted' /\ request[q].devices \subseteq tainted'
        <3>1. q \in rivals
            BY <2>4
        <3> QED BY <1>1, <3>1
    <2> QED BY <2>1, <2>2, <2>3, <2>4
<1>7. TypesFit'
    <2>1. overlapped' \subseteq Orders
        BY <1>1 DEF RInv, TypesFit
    <2>2. DOMAIN request' = Requests
        BY <1>1 DEF RInv, TypesFit
    <2>3. rental' \in Seq(Row)
        BY DEF Changes
    <2> QED BY <1>1, <1>5, <2>1, <2>2, <2>3 DEF RInv, TypesFit
<1>8. RowsBorn'
    <2>1. \A i \in DOMAIN rental' : rental'[i].order = rental[i].order
        BY DEF Changes
    <2> QED BY <2>1 DEF RInv, RowsBorn
<1>9. RequestFits(p, rental', overlapped', stage', tainted')
    <2>1. ASSUME NEW k \in 1 .. Len(todo)
          PROVE  /\ EntryFits(todo[k], o, rental', overlapped', stage')
                 /\ Names(todo[k], D, rental', tainted')
        <3>1. EntryFits(todo[k], o, rental', overlapped, stage) /\ Names(todo[k], D, rental', tainted)
            BY DEF Starts
        <3>2. EntryFits(todo[k], o, rental', overlapped', stage')
            BY <1>5, <3>1 DEF EntryFits, RentalRowFits
        <3>3. Names(todo[k], D, rental', tainted')
            BY <1>5, <3>1 DEF Names
        <3> QED BY <3>2, <3>3
    <2> QED BY <1>2, <2>1 DEF RequestFits, Starts
<1>10. ASSUME NEW q \in Requests \ {r} PROVE Disjoint(p, request[q], overlapped', tainted')
    BY <1>2, <1>6 DEF Disjoint
<1>11. ASSUME NEW q \in Requests \ {r}, Creating(request[q])
       PROVE  o # request[q].order
    <2> SUFFICES ASSUME o = request[q].order, \A k \in 1 .. Len(todo) : todo[k].op # "birth"
                 PROVE  FALSE
        BY DEF Starts
    <2>1. 1 \in 1 .. Len(todo)
        BY DEF Starts
    <2>2. stage[o] # "unborn"
        BY <2>1 DEF Starts, EntryFits
    <2>3. PICK k \in TodoPlaces(request[q]) : request[q].todo[k].op = "birth"
        BY <1>11 DEF Creating
    <2>4. request[q] # Idle
        BY <2>3 DEF Idle, TodoPlaces
    <2>5. EntryFits(request[q].todo[k], o, rental, overlapped, stage)
        BY <1>3, <2>3, <2>4 DEF RequestFits
    <2> QED BY <2>2, <2>3, <2>5 DEF EntryFits
<1>12. Creating(p) => o # NoDevice /\ \A q \in Requests : request[q].order # o
    <2>1. request[r].order = NoDevice
        BY <1>1 DEF Idle
    <2> QED BY <1>2, <2>1 DEF Creating, Starts
<1>13. ASSUME NEW d \in D \ tainted' PROVE Settles(p, d, rental', device'[d].status)
    <2>1. \A q \in Requests : d \notin request[q].devices
        BY <1>1, <1>6 DEF Idle
    <2>2. d \in Devices \ tainted /\ d \notin suspect
        BY <1>1, <1>5
    <2>3. Agree(Out(rental, d), device[d].status)
        BY <2>1, <2>2 DEF RInv, DeviceFits
    <2> QED BY <2>1, <2>2, <2>3 DEF p
<1>14. request[r].devices \subseteq D /\ p.devices \subseteq D
    BY <1>1, <1>2 DEF Idle
<1>15. Frame(o, D)
    BY <1>5 DEF Frame
<1>16. NotesRaces(r, p, o, D)
    BY <1>6, <1>10 DEF NotesRaces
<1>17. CreatesAlone(r, p)
    BY <1>2, <1>11, <1>12 DEF CreatesAlone
<1>18. PhonesSettle(p, D)
    BY <1>2, <1>13 DEF PhonesSettle
<1>19. request' = [request EXCEPT ![r] = p]
    BY <1>1
<1> HIDE DEF others, rivals
<1> QED BY <1>7, <1>8, <1>9, <1>14, <1>15, <1>16, <1>17, <1>18, <1>19, StepKeeps

(***************************************************************************)
(* The statements requests begin with.                                     *)
(***************************************************************************)
LEMMA RowWriteIs ==
    ASSUME NEW i \in Nat, NEW s \in RentalStatuses, NEW d \in AnyDevice
    PROVE  LET e == RowWrite(i, s, d)
           IN  e \in Entry /\ e.op = "row" /\ e.row = i /\ e.status = s /\ e.device = d
BY DEF RowWrite, Entry, RowEntry

LEMMA DeviceWriteIs ==
    ASSUME NEW d \in AnyDevice, NEW s \in {"Available", "Rented"}
    PROVE  LET e == DeviceWrite(d, s)
           IN  e \in Entry /\ e.op = "device" /\ e.device = d /\ e.status = s
BY DEF DeviceWrite, Entry, DeviceEntry

LEMMA InsertionIs ==
    ASSUME NEW o \in Orders, NEW s \in RentalStatuses, NEW d \in AnyDevice
    PROVE  LET e == Insertion(o, s, d)
           IN  /\ e \in Entry /\ e.op = "insert"
               /\ e.row.order = o /\ e.row.status = s /\ e.row.device = d
BY DEF Insertion, Entry, InsertEntry

Asks(o, D, todo, begun) == [order |-> o, devices |-> D, todo |-> todo, begun |-> begun]

LEMMA OneEntry ==
    ASSUME NEW o, NEW D, NEW begun, NEW a \in Entry
    PROVE  LET p == Asks(o, D, <<a>>, begun)
           IN  /\ <<a>> \in Seq(Entry) /\ <<a>> # <<>> /\ 1 .. Len(<<a>>) = {1} /\ <<a>>[1] = a
               /\ p.todo = <<a>> /\ TodoPlaces(p) = {1} /\ p.todo[1] = a
BY DEF Asks, TodoPlaces

\* A set of places is finite; were each of them followed by another, the sets of
\* those from one on would get smaller forever.
LEMMA HasLargest ==
    ASSUME NEW n \in Nat, NEW X \in SUBSET (1 .. n), X # {}
    PROVE  \E i \in X : \A j \in X : j <= i
<1> DEFINE From(i) == {j \in X : i <= j}
           T == {From(i) : i \in X}
           N == 1 .. n
<1>1. IsFiniteSet(N)
    BY FS_Interval
<1>2. \A Y \in SUBSET X : IsFiniteSet(Y)
    BY <1>1, FS_Subset
<1>3. T \subseteq FiniteSubsetsOf(N) /\ T # {}
    BY <1>2 DEF FiniteSubsetsOf
<1>4. IsWellFoundedOn(StrictSubsetOrdering(N), FiniteSubsetsOf(N))
    BY FS_StrictSubsetOrderingWellFounded
<1> HIDE DEF T
<1>5. \E x \in T : \A y \in T : ~(<<y, x>> \in StrictSubsetOrdering(N))
    BY <1>3, <1>4, WFMin
<1>6. PICK i \in X : \A j \in X : ~(<<From(j), From(i)>> \in StrictSubsetOrdering(N))
    BY <1>5 DEF T
<1>7. ASSUME NEW j \in X, ~(j <= i) PROVE FALSE
    <2>0. X \subseteq Int
        OBVIOUS
    <2>1. From(j) \subseteq From(i) /\ i \in From(i) /\ i \notin From(j)
        <3>1. i \in Int /\ j \in Int /\ i < j
            BY <1>7, <2>0
        <3>2. \A k \in X : j <= k => i <= k
            BY <2>0, <3>1
        <3>3. i <= i
            BY <3>1
        <3> QED BY <1>7, <3>1, <3>2, <3>3
    <2>2. From(j) \in SUBSET N /\ From(i) \in SUBSET N
        OBVIOUS
    <2> HIDE DEF From
    <2>3. <<From(j), From(i)>> \in StrictSubsetOrdering(N)
        BY <2>1, <2>2 DEF StrictSubsetOrdering
    <2> QED BY <1>6, <2>3
<1> QED BY <1>7

LEMMA NewestIs ==
    ASSUME rental \in Seq(Row), NEW o, RowsOf(o) # {}
    PROVE  /\ Newest(o) \in RowsOf(o)
           /\ \A j \in RowsOf(o) : j <= Newest(o)
<1>1. \E i \in RowsOf(o) : \A j \in RowsOf(o) : j <= i
    <2>1. RowsOf(o) \in SUBSET (1 .. Len(rental)) /\ Len(rental) \in Nat
        BY DEF RowsOf
    <2> QED BY <2>1, HasLargest
<1> QED BY <1>1 DEF Newest

\* Most requests change nothing when they begin.
LEMMA BeginOnly ==
    ASSUME RInv, NEW r \in Requests, NEW o \in Orders, NEW D \in SUBSET Devices, NEW todo,
           NEW suspect \in SUBSET Devices, NEW begun \in BOOLEAN,
           Begin(r, o, D, todo, suspect, begun), UNCHANGED <<device, rental, stage>>,
           cached' \subseteq Devices, Starts(todo, o, D, rental),
           \A d \in D \ (tainted \cup suspect) :
               Agree(Out(rental, d), device[d].status) =>
                   Settles(Asks(o, D, todo, begun), d, rental, device[d].status)
    PROVE  RInv'
<1>1. Changes(rental, rental', o, D, tainted) /\ DOMAIN rental' = DOMAIN rental
    BY DEF Changes, RInv, TypesFit
<1>2. o \notin overlapped => \A i \in Actives(rental', o), j \in Rows(rental', o) : j <= i
    BY DEF RInv, NewestFits
<1> QED BY <1>1, <1>2, BeginStep DEF Asks

\* A phone that is free and agrees with its rentals is in none of the active ones.
LEMMA FreeIsIdle ==
    ASSUME NEW d \in Devices, IsFree(d), Agree(Out(rental, d), device[d].status)
    PROVE  Out(rental, d) = {}
BY DEF IsFree, Agree

\* create: the order has no active rental.
LEMMA CreateRentalStep ==
    ASSUME RInv, NEW r \in Requests, NEW o \in Orders, NEW s \in Births, NEW d \in Devices \cup {NoDevice},
           CreateRental(r, o, s, d)
    PROVE  RInv'
<1>1. /\ Actives(rental, o) = {} /\ stage[o] # "unborn" /\ cached' = cached
      /\ UNCHANGED <<device, rental, stage>> /\ s \in RentalStatuses
    BY BirthsAssumption DEF CreateRental, ActiveOf, RowsOf, Actives, Rows
<1>2. cached' \subseteq Devices
    BY <1>1 DEF RInv, TypesFit
<1>3. CASE s = "Active"
    <2> DEFINE a == Insertion(o, s, d)
               b == DeviceWrite(d, "Rented")
               p == Asks(o, {d}, <<a, b>>, FALSE)
    <2>1. d \in Devices /\ IsFree(d) /\ {d} \ {NoDevice} = {d} /\ d \in AnyDevice
        BY <1>3, NoDeviceAssumption DEF CreateRental, IsFree, AnyDevice
    <2>2. Begin(r, o, {d}, <<a, b>>, {}, FALSE)
        BY <1>3, <2>1 DEF CreateRental
    <2>3. /\ a \in Entry /\ a.op = "insert" /\ a.row.order = o /\ a.row.status = "Active"
          /\ a.row.device = d
        BY <1>1, <1>3, <2>1, InsertionIs
    <2>4. b \in Entry /\ b.op = "device" /\ b.device = d /\ b.status = "Rented"
        BY <2>1, DeviceWriteIs
    <2> HIDE DEF a, b
    <2>5. /\ <<a, b>> \in Seq(Entry) /\ <<a, b>> # <<>> /\ 1 .. Len(<<a, b>>) = {1, 2}
          /\ <<a, b>>[1] = a /\ <<a, b>>[2] = b
          /\ TodoPlaces(p) = {1, 2} /\ p.todo[1] = a /\ p.todo[2] = b
        BY <2>3, <2>4 DEF Asks, TodoPlaces
    <2>6. Starts(<<a, b>>, o, {d}, rental)
        BY <1>1, <2>3, <2>4, <2>5 DEF Starts, EntryFits, Names
    <2> HIDE DEF p
    <2>7. ASSUME Agree(Out(rental, d), device[d].status)
          PROVE  Settles(p, d, rental, device[d].status)
        <3>1. Out(rental, d) = {}
            BY <2>1, <2>7, FreeIsIdle
        <3>2. Writes(p, d, "Rented") /\ ~Writes(p, d, "Available")
            BY <2>3, <2>4, <2>5 DEF Writes, WritesAt
        <3>3. \A i \in Nat : WillAgree(p, d, {i}, device[d].status)
            BY <3>2 DEF WillAgree, Agree, Single
        <3>4. \A k \in TodoPlaces(p) : WritesAt(p, k, d) => k = 2
            BY <2>3, <2>5 DEF WritesAt
        <3> QED BY <2>3, <2>4, <2>5, <3>1, <3>3, <3>4 DEF Settles
    <2>8. \A x \in {d} \ (tainted \cup {}) :
            Agree(Out(rental, x), device[x].status) =>
                Settles(Asks(o, {d}, <<a, b>>, FALSE), x, rental, device[x].status)
        BY <2>7 DEF p
    <2>9. {d} \in SUBSET Devices
        BY <2>1
    <2> QED BY <1>1, <1>2, <2>2, <2>6, <2>8, <2>9, BeginOnly
<1>4. CASE s # "Active"
    <2> DEFINE a == Insertion(o, s, NoDevice)
    <2>1. d = NoDevice /\ {d} \ {NoDevice} = {} /\ NoDevice \in AnyDevice
        BY <1>4 DEF CreateRental, AnyDevice
    <2>2. Begin(r, o, {}, <<a>>, {}, FALSE)
        BY <1>4, <2>1 DEF CreateRental
    <2>3. a \in Entry /\ a.op = "insert" /\ a.row.order = o /\ a.row.device = NoDevice
        BY <1>1, <2>1, InsertionIs
    <2> HIDE DEF a
    <2>4. <<a>> \in Seq(Entry) /\ <<a>> # <<>> /\ 1 .. Len(<<a>>) = {1} /\ <<a>>[1] = a
        BY <2>3, OneEntry
    <2>5. Starts(<<a>>, o, {}, rental)
        BY <1>1, <2>3, <2>4 DEF Starts, EntryFits, Names
    <2> QED BY <1>1, <1>2, <2>2, <2>5, BeginOnly
<1> QED BY <1>3, <1>4

\* A statement that writes a rental of the order.
LEMMA RowEntryStarts ==
    ASSUME RInv, NEW o \in Orders, NEW i \in Rows(rental, o), NEW s \in RentalStatuses, NEW d \in AnyDevice,
           rental[i].status \in Terminal => s = rental[i].status,
           o \notin overlapped /\ s = "Active" => \A j \in Rows(rental, o) : j <= i,
           NEW D, d \in D \cup {NoDevice}, rental[i].device \in D \cup {NoDevice}
    PROVE  LET e == RowWrite(i, s, d)
           IN  /\ e \in Entry /\ e.op = "row" /\ e.row = i /\ e.status = s /\ e.device = d
               /\ EntryFits(e, o, rental, overlapped, stage) /\ Names(e, D, rental, tainted)
               /\ stage[o] # "unborn"
<1> DEFINE e == RowWrite(i, s, d)
<1>1. i \in DOMAIN rental /\ i \in Nat /\ rental[i].order = o
    BY DEF Rows, RInv, TypesFit
<1>2. e \in Entry /\ e.op = "row" /\ e.row = i /\ e.status = s /\ e.device = d
    BY <1>1, RowWriteIs
<1>3. stage[o] # "unborn"
    BY <1>1 DEF RInv, RowsBorn
<1> HIDE DEF e
<1>4. EntryFits(e, o, rental, overlapped, stage)
    BY <1>1, <1>2, <1>3 DEF EntryFits, RentalRowFits
<1>5. Names(e, D, rental, tainted)
    BY <1>2 DEF Names
<1> QED BY <1>2, <1>3, <1>4, <1>5 DEF e

LEMMA DeviceEntryStarts ==
    ASSUME NEW o, stage[o] # "unborn", NEW d \in AnyDevice, NEW s \in {"Available", "Rented"},
           NEW D, d \in D \cup {NoDevice}
    PROVE  LET e == DeviceWrite(d, s)
           IN  /\ e \in Entry /\ e.op = "device" /\ e.device = d /\ e.status = s
               /\ EntryFits(e, o, rental, overlapped, stage) /\ Names(e, D, rental, tainted)
BY DeviceWriteIs DEF EntryFits, Names

\* update: the newest rental, which stays closed once it is.
LEMMA UpdateRentalStep ==
    ASSUME RInv, NEW r \in Requests, NEW o \in Orders, NEW new \in RentalStatuses,
           NEW d \in Devices \cup {NoDevice}, UpdateRental(r, o, new, d)
    PROVE  RInv'
<1> DEFINE i == Newest(o)
           row == rental[i]
           rent == row.status = "Pending" /\ new = "Active"
           D == {d, row.device} \ {NoDevice}
           last == RowWrite(i, new, IF rent THEN d ELSE row.device)
           statusFor(x) == device[x].status
<1>1. /\ RowsOf(o) # {} /\ RowsOf(o) = Rows(rental, o) /\ rental \in Seq(Row)
      /\ UNCHANGED <<device, rental, stage>> /\ cached' \subseteq Devices
    BY DEF UpdateRental, RInv, TypesFit, Rows, RowsOf
<1>2. i \in Rows(rental, o) /\ \A j \in Rows(rental, o) : j <= i
    BY <1>1, NewestIs
<1>3. /\ i \in DOMAIN rental /\ i \in Nat /\ row \in Row /\ row.order = o /\ row.status \in RentalStatuses
      /\ row.device \in AnyDevice /\ D \in SUBSET Devices
    <2>1. i \in DOMAIN rental /\ row.order = o /\ row.status # "removed"
        BY <1>2 DEF Rows
    <2>2. i \in Nat /\ row \in Row
        BY <1>1, <2>1
    <2>3. row.device \in AnyDevice /\ row.status \in RentalStatuses
        BY <2>1, <2>2 DEF Row
    <2> QED BY <2>1, <2>2, <2>3 DEF AnyDevice
<1>4. /\ Allowed(row.status, new)
      /\ IF rent THEN IsFree(d) /\ row.device \in {NoDevice, d} ELSE d = NoDevice
      /\ Begin(r, o, D, CASE rent                      -> <<DeviceWrite(d, "Rented"), last>>
                          [] Releases(row.status, new) -> <<DeviceWrite(row.device, "Available"), last>>
                          [] OTHER                     -> <<last>>, {}, FALSE)
    BY DEF UpdateRental
<1> HIDE DEF i
<1>5. row.status \in Terminal => new = row.status
    BY <1>4 DEF Allowed
<1>6. ASSUME rent PROVE RInv'
    <2> DEFINE a == DeviceWrite(d, "Rented")
               p == Asks(o, D, <<a, last>>, FALSE)
    <2>1. d \in Devices /\ IsFree(d) /\ D = {d} /\ last = RowWrite(i, new, d) /\ d \in AnyDevice
        BY <1>4, <1>6, NoDeviceAssumption DEF IsFree, AnyDevice
    <2>2. /\ last \in Entry /\ last.op = "row" /\ last.row = i /\ last.status = "Active" /\ last.device = d
          /\ EntryFits(last, o, rental, overlapped, stage) /\ Names(last, D, rental, tainted)
          /\ stage[o] # "unborn"
        BY <1>2, <1>3, <1>4, <1>5, <1>6, <2>1, RowEntryStarts
    <2>3. /\ a \in Entry /\ a.op = "device" /\ a.device = d /\ a.status = "Rented"
          /\ EntryFits(a, o, rental, overlapped, stage) /\ Names(a, D, rental, tainted)
        BY <2>1, <2>2, DeviceEntryStarts
    <2>4. Begin(r, o, D, <<a, last>>, {}, FALSE)
        <3>1. ~Releases(row.status, new)
            BY <1>6 DEF Releases
        <3> HIDE DEF a, last, D, row
        <3> QED BY <1>4, <1>6, <3>1 DEF a
    <2> HIDE DEF a, last, D
    <2>5. /\ <<a, last>> \in Seq(Entry) /\ <<a, last>> # <<>> /\ 1 .. Len(<<a, last>>) = {1, 2}
          /\ <<a, last>>[1] = a /\ <<a, last>>[2] = last
          /\ TodoPlaces(p) = {1, 2} /\ p.todo[1] = a /\ p.todo[2] = last
        BY <2>2, <2>3 DEF Asks, TodoPlaces
    <2>6. Starts(<<a, last>>, o, D, rental)
        BY <2>2, <2>3, <2>5 DEF Starts
    <2> HIDE DEF p
    <2>7. ASSUME Agree(Out(rental, d), statusFor(d))
          PROVE  Settles(p, d, rental, statusFor(d))
        <3>1. Out(rental, d) = {}
            BY <2>1, <2>7, FreeIsIdle
        <3>2. Left(last, d, rental) = {i}
            BY <1>3, <2>2, <3>1 DEF Left, RentalStatuses
        <3>3. Writes(p, d, "Rented") /\ ~Writes(p, d, "Available")
            BY <2>2, <2>3, <2>5 DEF Writes, WritesAt
        <3>4. WillAgree(p, d, Left(last, d, rental), statusFor(d))
            BY <3>2, <3>3 DEF WillAgree, Agree, Single
        <3>5. \A k \in TodoPlaces(p) : WritesAt(p, k, d) => k = 1
            BY <2>2, <2>5 DEF WritesAt
        <3> QED BY <2>2, <2>3, <2>5, <3>4, <3>5 DEF Settles
    <2>8. \A x \in D \ (tainted \cup {}) :
            Agree(Out(rental, x), device[x].status) =>
                Settles(Asks(o, D, <<a, last>>, FALSE), x, rental, device[x].status)
        BY <2>1, <2>7 DEF p
    <2> QED BY <1>1, <1>3, <2>4, <2>6, <2>8, BeginOnly DEF D
<1>7. ASSUME ~rent, Releases(row.status, new) PROVE RInv'
    <2> DEFINE x == row.device
               a == DeviceWrite(x, "Available")
               p == Asks(o, D, <<a, last>>, FALSE)
    <2>1. /\ d = NoDevice /\ D = {x} \ {NoDevice} /\ last = RowWrite(i, new, x)
          /\ row.status = "Active" /\ new \in Terminal
        BY <1>4, <1>7 DEF Releases
    <2>2. /\ last \in Entry /\ last.op = "row" /\ last.row = i /\ last.status = new /\ last.device = x
          /\ EntryFits(last, o, rental, overlapped, stage) /\ Names(last, D, rental, tainted)
          /\ stage[o] # "unborn"
        BY <1>2, <1>3, <1>5, <2>1, RowEntryStarts
    <2>3. /\ a \in Entry /\ a.op = "device" /\ a.device = x /\ a.status = "Available"
          /\ EntryFits(a, o, rental, overlapped, stage) /\ Names(a, D, rental, tainted)
        BY <1>3, <2>1, <2>2, DeviceEntryStarts
    <2>4. Begin(r, o, D, <<a, last>>, {}, FALSE)
        BY <1>4, <1>7
    <2> HIDE DEF a, last, D
    <2>5. /\ <<a, last>> \in Seq(Entry) /\ <<a, last>> # <<>> /\ 1 .. Len(<<a, last>>) = {1, 2}
          /\ <<a, last>>[1] = a /\ <<a, last>>[2] = last
          /\ TodoPlaces(p) = {1, 2} /\ p.todo[1] = a /\ p.todo[2] = last
        BY <2>2, <2>3 DEF Asks, TodoPlaces
    <2>6. Starts(<<a, last>>, o, D, rental)
        BY <2>2, <2>3, <2>5 DEF Starts
    <2> HIDE DEF p
    <2>7. ASSUME x \in Devices, Agree(Out(rental, x), statusFor(x))
          PROVE  Settles(p, x, rental, statusFor(x))
        <3>1. Out(rental, x) = {i}
            <4>1. i \in Out(rental, x)
                BY <1>3, <2>1 DEF Out
            <4> QED BY <2>7, <4>1 DEF Agree, Single
        <3>2. Left(last, x, rental) = {}
            BY <2>1, <2>2, <3>1 DEF Left, Terminal
        <3>3. Writes(p, x, "Available")
            BY <2>2, <2>3, <2>5 DEF Writes, WritesAt
        <3>4. WillAgree(p, x, Left(last, x, rental), statusFor(x))
            BY <3>2, <3>3 DEF WillAgree
        <3>5. \A k \in TodoPlaces(p) : WritesAt(p, k, x) => k = 1
            BY <2>2, <2>5 DEF WritesAt
        <3> QED BY <2>2, <2>3, <2>5, <3>4, <3>5 DEF Settles
    <2>8. \A y \in D \ (tainted \cup {}) :
            Agree(Out(rental, y), device[y].status) =>
                Settles(Asks(o, D, <<a, last>>, FALSE), y, rental, device[y].status)
        BY <1>3, <2>1, <2>7 DEF p
    <2> QED BY <1>1, <1>3, <2>4, <2>6, <2>8, BeginOnly DEF D
<1>8. ASSUME ~rent, ~Releases(row.status, new) PROVE RInv'
    <2> DEFINE x == row.device
               p == Asks(o, D, <<last>>, FALSE)
    <2>1. d = NoDevice /\ D = {x} \ {NoDevice} /\ last = RowWrite(i, new, x)
        BY <1>4, <1>8
    <2>2. /\ last \in Entry /\ last.op = "row" /\ last.row = i /\ last.status = new /\ last.device = x
          /\ EntryFits(last, o, rental, overlapped, stage) /\ Names(last, D, rental, tainted)
        BY <1>2, <1>3, <1>5, <2>1, RowEntryStarts
    <2>3. Begin(r, o, D, <<last>>, {}, FALSE)
        BY <1>4, <1>8
    <2> HIDE DEF last, D
    <2>4. /\ <<last>> \in Seq(Entry) /\ <<last>> # <<>> /\ 1 .. Len(<<last>>) = {1} /\ <<last>>[1] = last
          /\ TodoPlaces(p) = {1} /\ p.todo[1] = last
        BY <2>2 DEF Asks, TodoPlaces
    <2>5. Starts(<<last>>, o, D, rental)
        BY <2>2, <2>4 DEF Starts
    <2> HIDE DEF p
    <2>6. (new = "Active") <=> (row.status = "Active")
        BY <1>3, <1>4, <1>8 DEF Allowed, Releases, RentalStatuses, Terminal
    <2>7. ASSUME x \in Devices, Agree(Out(rental, x), statusFor(x))
          PROVE  Settles(p, x, rental, statusFor(x))
        <3>1. Left(last, x, rental) = Out(rental, x)
            BY <1>3, <2>2, <2>6 DEF Left, Out, RentalStatuses
        <3>2. \A k \in TodoPlaces(p) : ~WritesAt(p, k, x)
            BY <2>2, <2>4 DEF WritesAt
        <3>3. WillAgree(p, x, Left(last, x, rental), statusFor(x))
            BY <2>7, <3>1, <3>2 DEF WillAgree, Writes
        <3> QED BY <2>2, <2>4, <3>2, <3>3 DEF Settles
    <2>8. \A y \in D \ (tainted \cup {}) :
            Agree(Out(rental, y), device[y].status) =>
                Settles(Asks(o, D, <<last>>, FALSE), y, rental, device[y].status)
        BY <1>3, <2>1, <2>7 DEF p
    <2> QED BY <1>1, <1>3, <2>3, <2>5, <2>8, BeginOnly DEF D
<1> QED BY <1>6, <1>7, <1>8

\* delete: an active rental of the order.
LEMMA CancelRentalStep ==
    ASSUME RInv, NEW r \in Requests, NEW o \in Orders, CancelRental(r, o)
    PROVE  RInv'
<1>1. PICK i \in ActiveOf(o) :
        Begin(r, o, {rental[i].device} \ {NoDevice},
              <<RowWrite(i, "Cancelled", rental[i].device),
                DeviceWrite(rental[i].device, "Available")>>, {}, FALSE)
    BY DEF CancelRental
<1> DEFINE x == rental[i].device
           D == {x} \ {NoDevice}
           a == RowWrite(i, "Cancelled", x)
           b == DeviceWrite(x, "Available")
           p == Asks(o, D, <<a, b>>, FALSE)
           statusFor(y) == device[y].status
<1>2. /\ i \in Rows(rental, o) /\ i \in DOMAIN rental /\ rental[i] \in Row /\ rental[i].status = "Active"
      /\ UNCHANGED <<device, rental, stage>> /\ cached' \subseteq Devices
    BY DEF CancelRental, RInv, TypesFit, ActiveOf, RowsOf, Rows
<1>3. x \in AnyDevice /\ D \in SUBSET Devices
    BY <1>2 DEF Row, AnyDevice
<1>4. /\ a \in Entry /\ a.op = "row" /\ a.row = i /\ a.status = "Cancelled" /\ a.device = x
      /\ EntryFits(a, o, rental, overlapped, stage) /\ Names(a, D, rental, tainted)
      /\ stage[o] # "unborn"
    BY <1>2, <1>3, RowEntryStarts DEF Terminal, RentalStatuses
<1>5. /\ b \in Entry /\ b.op = "device" /\ b.device = x /\ b.status = "Available"
      /\ EntryFits(b, o, rental, overlapped, stage) /\ Names(b, D, rental, tainted)
    BY <1>3, <1>4, DeviceEntryStarts
<1>6. Begin(r, o, D, <<a, b>>, {}, FALSE)
    BY <1>1
<1> HIDE DEF a, b, D
<1>7. /\ <<a, b>> \in Seq(Entry) /\ <<a, b>> # <<>> /\ 1 .. Len(<<a, b>>) = {1, 2}
      /\ <<a, b>>[1] = a /\ <<a, b>>[2] = b
      /\ TodoPlaces(p) = {1, 2} /\ p.todo[1] = a /\ p.todo[2] = b
    BY <1>4, <1>5 DEF Asks, TodoPlaces
<1>8. Starts(<<a, b>>, o, D, rental)
    BY <1>4, <1>5, <1>7 DEF Starts
<1> HIDE DEF p
<1>9. ASSUME x \in Devices, Agree(Out(rental, x), statusFor(x))
      PROVE  Settles(p, x, rental, statusFor(x))
    <2>1. Out(rental, x) = {i}
        <3>1. i \in Out(rental, x)
            BY <1>2 DEF Out
        <3> QED BY <1>9, <3>1 DEF Agree, Single
    <2>2. Left(a, x, rental) = {}
        BY <1>4, <2>1 DEF Left
    <2>3. Writes(p, x, "Available")
        BY <1>5, <1>7 DEF Writes, WritesAt
    <2>4. WillAgree(p, x, Left(a, x, rental), statusFor(x))
        BY <2>2, <2>3 DEF WillAgree
    <2>5. \A k \in TodoPlaces(p) : WritesAt(p, k, x) => k = 2
        BY <1>4, <1>7 DEF WritesAt
    <2> QED BY <1>4, <1>5, <1>7, <2>4, <2>5 DEF Settles
<1>10. \A y \in D \ (tainted \cup {}) :
        Agree(Out(rental, y), device[y].status) =>
            Settles(Asks(o, D, <<a, b>>, FALSE), y, rental, device[y].status)
    <2>1. \A y \in D : y = x /\ y \in Devices
        BY <1>3 DEF D
    <2> QED BY <1>9, <2>1 DEF p
<1> QED BY <1>2, <1>3, <1>6, <1>8, <1>10, BeginOnly

\* updateRentalPhone: the phones of a rental that is active, if the new one is
\* free; any others are not vouched for.
LEMMA ExchangePhoneStep ==
    ASSUME RInv, NEW r \in Requests, NEW i \in DOMAIN rental, NEW d \in Devices \cup {NoDevice},
           ExchangePhone(r, i, d)
    PROVE  RInv'
<1> DEFINE o == rental[i].order
           x == rental[i].device
           D == {d, x} \ {NoDevice}
           a == DeviceWrite(x, "Available")
           b == DeviceWrite(d, "Rented")
           c == RowWrite(i, rental[i].status, d)
           p == Asks(o, D, <<a, b, c>>, FALSE)
           good == rental[i].status = "Active" /\ (d = NoDevice \/ IsFree(d))
           suspect == IF good THEN {} ELSE D
           statusFor(y) == device[y].status
<1>1. /\ rental[i] \in Row /\ rental[i].status # "removed" /\ d # x
      /\ UNCHANGED <<device, rental, stage>> /\ cached' \subseteq Devices
      /\ Begin(r, o, D, <<a, b, c>>, suspect, FALSE)
    <2>1. rental[i] \in Row /\ cached \subseteq Devices
        BY DEF RInv, TypesFit
    <2>2. /\ rental[i].status # "removed" /\ d # x /\ UNCHANGED <<device, rental, stage, cached>>
          /\ Begin(r, o, D, <<a, b, c>>, suspect, FALSE)
        BY Zenon DEF ExchangePhone
    <2> QED BY <2>1, <2>2
<1>2. /\ o \in Orders /\ x \in AnyDevice /\ d \in AnyDevice /\ rental[i].status \in RentalStatuses
      /\ i \in Rows(rental, o) /\ D \in SUBSET Devices /\ suspect \in SUBSET Devices
    BY <1>1 DEF Row, AnyDevice, Rows
<1>3. o \notin overlapped /\ rental[i].status = "Active" => \A j \in Rows(rental, o) : j <= i
    BY <1>2 DEF RInv, NewestFits, Actives
<1>4. /\ c \in Entry /\ c.op = "row" /\ c.row = i /\ c.status = rental[i].status /\ c.device = d
      /\ EntryFits(c, o, rental, overlapped, stage) /\ Names(c, D, rental, tainted)
      /\ stage[o] # "unborn"
    BY <1>2, <1>3, RowEntryStarts
<1>5. /\ a \in Entry /\ a.op = "device" /\ a.device = x /\ a.status = "Available"
      /\ EntryFits(a, o, rental, overlapped, stage) /\ Names(a, D, rental, tainted)
    BY <1>2, <1>4, DeviceEntryStarts
<1>6. /\ b \in Entry /\ b.op = "device" /\ b.device = d /\ b.status = "Rented"
      /\ EntryFits(b, o, rental, overlapped, stage) /\ Names(b, D, rental, tainted)
    BY <1>2, <1>4, DeviceEntryStarts
<1>7. \A y \in D : (y = x \/ y = d) /\ y \in Devices
    BY <1>2
<1> HIDE DEF a, b, c, D
<1>8. /\ <<a, b, c>> \in Seq(Entry) /\ <<a, b, c>> # <<>> /\ 1 .. Len(<<a, b, c>>) = {1, 2, 3}
      /\ <<a, b, c>>[1] = a /\ <<a, b, c>>[2] = b /\ <<a, b, c>>[3] = c
      /\ TodoPlaces(p) = {1, 2, 3} /\ p.todo[1] = a /\ p.todo[2] = b /\ p.todo[3] = c
    BY <1>4, <1>5, <1>6 DEF Asks, TodoPlaces
<1>9. Starts(<<a, b, c>>, o, D, rental)
    BY <1>4, <1>5, <1>6, <1>8 DEF Starts
<1> HIDE DEF p
<1>10. ASSUME good, NEW y \in Devices, y = x \/ y = d, Agree(Out(rental, y), statusFor(y))
       PROVE  Settles(p, y, rental, statusFor(y))
    <2>1. CASE y = x
        <3>1. i \in Out(rental, x) /\ Out(rental, x) = {i}
            <4>1. i \in Out(rental, x)
                BY <1>10 DEF Out
            <4> QED BY <1>10, <2>1, <4>1 DEF Agree, Single
        <3>2. Left(c, y, rental) = {}
            BY <1>1, <1>4, <2>1, <3>1 DEF Left
        <3>3. Writes(p, y, "Available")
            BY <1>5, <1>8, <2>1 DEF Writes, WritesAt
        <3>4. WillAgree(p, y, Left(c, y, rental), statusFor(y))
            BY <3>2, <3>3 DEF WillAgree
        <3>5. \A k \in TodoPlaces(p) : WritesAt(p, k, y) => k = 1
            BY <1>1, <1>4, <1>6, <1>8, <2>1 DEF WritesAt
        <3> QED BY <1>4, <1>5, <1>6, <1>8, <3>4, <3>5 DEF Settles
    <2>2. CASE y = d
        <3>1. IsFree(d) /\ d \in Devices
            BY <1>10, <2>2, NoDeviceAssumption
        <3>2. Out(rental, y) = {}
            BY <1>10, <2>2, <3>1, FreeIsIdle
        <3>3. Left(c, y, rental) = {i}
            BY <1>1, <1>4, <1>10, <2>2, <3>2 DEF Left
        <3>4. Writes(p, y, "Rented") /\ ~Writes(p, y, "Available")
            BY <1>1, <1>4, <1>5, <1>6, <1>8, <2>2 DEF Writes, WritesAt
        <3>5. WillAgree(p, y, Left(c, y, rental), statusFor(y))
            BY <3>3, <3>4 DEF WillAgree, Agree, Single
        <3>6. \A k \in TodoPlaces(p) : WritesAt(p, k, y) => k = 2
            BY <1>1, <1>4, <1>5, <1>8, <2>2 DEF WritesAt
        <3> QED BY <1>4, <1>5, <1>6, <1>8, <3>5, <3>6 DEF Settles
    <2> QED BY <1>10, <2>1, <2>2
<1>11. \A y \in D \ (tainted \cup suspect) :
        Agree(Out(rental, y), device[y].status) =>
            Settles(Asks(o, D, <<a, b, c>>, FALSE), y, rental, device[y].status)
    <2> SUFFICES ASSUME NEW y \in D \ (tainted \cup suspect), Agree(Out(rental, y), device[y].status)
                 PROVE  Settles(p, y, rental, device[y].status)
        BY DEF p
    <2>1. good
        OBVIOUS
    <2> QED BY <1>7, <1>10, <2>1
<1> HIDE DEF suspect
<1> QED BY <1>1, <1>2, <1>9, <1>11, BeginOnly

\* removeRentalPhone: any rental; the phone of an active one is vouched for.
LEMMA RemoveRentalStep ==
    ASSUME RInv, NEW r \in Requests, NEW i \in DOMAIN rental, RemoveRental(r, i)
    PROVE  RInv'
<1> DEFINE o == rental[i].order
           x == rental[i].device
           D == {x} \ {NoDevice}
           a == DeviceWrite(x, "Available")
           p == Asks(o, D, <<a>>, TRUE)
           suspect == IF rental[i].status = "Active" THEN {} ELSE D
           new == [rental EXCEPT ![i].status = "removed", ![i].device = NoDevice]
<1>1. /\ UNCHANGED <<device, stage, cached>> /\ rental' = new /\ rental[i].status # "removed"
      /\ Begin(r, o, D, <<a>>, suspect, TRUE)
    BY Zenon DEF RemoveRental
<1>2. /\ rental \in Seq(Row) /\ rental[i] \in Row /\ cached \subseteq Devices
    BY DEF RInv, TypesFit
<1>3. /\ o \in Orders /\ x \in AnyDevice /\ stage[o] # "unborn"
      /\ D \in SUBSET Devices /\ suspect \in SUBSET Devices
    BY <1>2 DEF Row, AnyDevice, RInv, RowsBorn
<1>4. /\ rental' \in Seq(Row) /\ DOMAIN rental' = DOMAIN rental
      /\ \A j \in DOMAIN rental : j # i => rental'[j] = rental[j]
      /\ rental'[i].order = o /\ rental'[i].status = "removed" /\ rental'[i].device = NoDevice
    <2>1. rental' = [rental EXCEPT ![i] = [rental[i] EXCEPT !.status = "removed", !.device = NoDevice]]
        BY <1>1, <1>2
    <2> DEFINE row == [rental[i] EXCEPT !.status = "removed", !.device = NoDevice]
    <2>2. row \in Row /\ row.order = o /\ row.status = "removed" /\ row.device = NoDevice
        BY <1>2 DEF Row, AnyDevice
    <2> HIDE DEF row
    <2>3. rental' = [rental EXCEPT ![i] = row]
        BY <2>1 DEF row
    <2> HIDE DEF new
    <2> QED BY <1>2, <2>2, <2>3
<1>5. Changes(rental, rental', o, D, tainted)
    BY <1>3, <1>4 DEF Changes, AnyDevice
<1>6. o \notin overlapped => \A k \in Actives(rental', o), j \in Rows(rental', o) : j <= k
    <2>1. Actives(rental', o) \subseteq Actives(rental, o) /\ Rows(rental', o) \subseteq Rows(rental, o)
        BY <1>4 DEF Actives, Rows
    <2> QED BY <1>3, <2>1 DEF RInv, NewestFits
<1>7. /\ a \in Entry /\ a.op = "device" /\ a.device = x /\ a.status = "Available"
    BY <1>3, DeviceWriteIs
<1> HIDE DEF a, new
<1>8. /\ EntryFits(a, o, rental', overlapped, stage) /\ Names(a, D, rental', tainted)
    BY <1>3, <1>7 DEF EntryFits, Names
<1>9. /\ <<a>> \in Seq(Entry) /\ <<a>> # <<>> /\ 1 .. Len(<<a>>) = {1} /\ <<a>>[1] = a
      /\ TodoPlaces(p) = {1} /\ p.todo[1] = a
    BY <1>7 DEF Asks, TodoPlaces
<1>10. Starts(<<a>>, o, D, rental')
    BY <1>7, <1>8, <1>9 DEF Starts
<1> HIDE DEF p
<1>11. ASSUME rental[i].status = "Active", NEW s, Agree(Out(rental, x), s)
       PROVE  Settles(p, x, rental', s)
    <2>1. Out(rental, x) = {i}
        <3>1. i \in Out(rental, x)
            BY <1>11 DEF Out
        <3> QED BY <1>11, <3>1 DEF Agree, Single
    <2>2. Out(rental', x) = {}
        BY <1>4, <2>1 DEF Out
    <2>3. Writes(p, x, "Available")
        BY <1>7, <1>9 DEF Writes, WritesAt
    <2>4. WillAgree(p, x, Out(rental', x), s)
        BY <2>2, <2>3 DEF WillAgree
    <2> QED BY <1>7, <1>9, <2>4 DEF Settles
<1>12. \A y \in D \ (tainted \cup suspect) :
        Agree(Out(rental, y), device[y].status) =>
            Settles([order |-> o, devices |-> D, todo |-> <<a>>, begun |-> TRUE], y, rental',
                    device[y].status)
    <2> SUFFICES ASSUME NEW y \in D \ (tainted \cup suspect), Agree(Out(rental, y), device[y].status)
                 PROVE  Settles(p, y, rental', device[y].status)
        BY DEF p, Asks
    <2>1. rental[i].status = "Active" /\ y = x
        OBVIOUS
    <2> QED BY <1>11, <2>1
<1>13. cached' \subseteq Devices /\ UNCHANGED <<device, stage>> /\ DOMAIN rental' = DOMAIN rental
    BY <1>1, <1>2, <1>4
<1>14. Begin(r, o, D, <<a>>, suspect, TRUE) /\ TRUE \in BOOLEAN
    BY <1>1
<1> HIDE DEF suspect, D, o
<1> QED BY <1>3, <1>5, <1>6, <1>10, <1>12, <1>13, <1>14, BeginStep

\* The phone an order is created with, unless redis thought it free.
LEMMA CreateOrderStep ==
    ASSUME RInv, NEW r \in Requests, NEW o \in Orders, NEW d \in Devices, CreateOrder(r, o, d)
    PROVE  RInv'
<1> DEFINE a == [op |-> "birth", device |-> d]
           D == {d}
           p == Asks(o, D, <<a>>, FALSE)
           suspect == IF IsFree(d) THEN {} ELSE D
<1>1. /\ stage[o] = "unborn" /\ \A q \in Requests : request[q].order # o
      /\ UNCHANGED <<device, rental, stage>> /\ cached' \subseteq Devices
      /\ Begin(r, o, D, <<a>>, suspect, FALSE)
    BY DEF CreateOrder, RInv, TypesFit
<1>2. a \in Entry /\ a.op = "birth" /\ a.device = d
    BY DEF Entry, BirthEntry
<1> HIDE DEF a
<1>3. EntryFits(a, o, rental, overlapped, stage) /\ Names(a, D, rental, tainted)
    BY <1>1, <1>2 DEF EntryFits, Names
<1>4. /\ <<a>> \in Seq(Entry) /\ <<a>> # <<>> /\ 1 .. Len(<<a>>) = {1} /\ <<a>>[1] = a
      /\ TodoPlaces(p) = {1} /\ p.todo[1] = a
    BY <1>2 DEF Asks, TodoPlaces
<1>5. Starts(<<a>>, o, D, rental)
    BY <1>1, <1>2, <1>3, <1>4 DEF Starts
<1> HIDE DEF p
<1>6. ASSUME IsFree(d), Agree(Out(rental, d), device[d].status)
      PROVE  Settles(p, d, rental, device[d].status)
    <2>1. Out(rental, d) = {}
        BY <1>6, FreeIsIdle
    <2>2. \A k \in TodoPlaces(p) : ~WritesAt(p, k, d)
        BY <1>2, <1>4 DEF WritesAt
    <2> QED BY <1>2, <1>4, <2>1, <2>2 DEF Settles
<1>7. \A y \in D \ (tainted \cup suspect) :
        Agree(Out(rental, y), device[y].status) =>
            Settles(Asks(o, D, <<a>>, FALSE), y, rental, device[y].status)
    BY <1>6 DEF p
<1>8. D \in SUBSET Devices /\ suspect \in SUBSET Devices
    OBVIOUS
<1> HIDE DEF suspect, D
<1> QED BY <1>1, <1>5, <1>7, <1>8, BeginOnly

LEMMA ChangeStatusStep ==
    ASSUME RInv, NEW r \in Requests, NEW o \in Orders, NEW to \in Targets, ChangeStatus(r, o, to)
    PROVE  RInv'
<1> DEFINE a == [op |-> "stage", to |-> to]
<1>1. /\ stage[o] # "unborn" /\ UNCHANGED <<device, rental, stage>> /\ cached' \subseteq Devices
      /\ Begin(r, o, {}, <<a>>, {}, FALSE)
    BY DEF ChangeStatus, RInv, TypesFit
<1>2. a \in Entry /\ a.op = "stage"
    BY TargetsAssumption DEF Entry, StageEntry
<1> HIDE DEF a
<1>3. EntryFits(a, o, rental, overlapped, stage) /\ Names(a, {}, rental, tainted)
    BY <1>1, <1>2 DEF EntryFits, Names
<1>4. <<a>> \in Seq(Entry) /\ <<a>> # <<>> /\ 1 .. Len(<<a>>) = {1} /\ <<a>>[1] = a
    BY <1>2
<1>5. Starts(<<a>>, o, {}, rental)
    BY <1>2, <1>3, <1>4 DEF Starts
<1> QED BY <1>1, <1>5, BeginOnly

(***************************************************************************)
(* Requests that execute their next statement.                             *)
(***************************************************************************)
\* p has left what q has after its first statement.
Follows(p, q) ==
    /\ \A k \in TodoPlaces(p) : k \in Nat \ {0} /\ k + 1 \in TodoPlaces(q) /\ p.todo[k] = q.todo[k + 1]
    /\ \A k \in TodoPlaces(q) : k # 1 => \E j \in TodoPlaces(p) : k = j + 1

Rest(q, p) ==
    /\ p.order = q.order /\ p.devices = q.devices /\ p.todo # <<>>
    /\ p \in [order : Orders, devices : SUBSET Devices, todo : Seq(Entry), begun : BOOLEAN]

LEMMA FollowsAfter ==
    ASSUME NEW p, NEW q, Follows(p, q), NEW k \in TodoPlaces(p)
    PROVE  k \in Nat \ {0} /\ k + 1 \in TodoPlaces(q) /\ k + 1 # 1 /\ p.todo[k] = q.todo[k + 1]
BY DEF Follows

LEMMA TailIs ==
    ASSUME NEW t \in Seq(Entry), t # <<>>
    PROVE  /\ Tail(t) \in Seq(Entry) /\ (Len(t) # 1 => Tail(t) # <<>>)
           /\ \A k \in 1 .. Len(Tail(t)) : k + 1 \in 1 .. Len(t) /\ Tail(t)[k] = t[k + 1]
           /\ \A k \in 1 .. Len(t) : k # 1 => \E j \in 1 .. Len(Tail(t)) : k = j + 1
<1>1. Len(t) \in Nat \ {0}
    OBVIOUS
<1>2. Tail(t) \in Seq(Entry)
    OBVIOUS
<1>3. Len(Tail(t)) = Len(t) - 1
    BY <1>1
<1>4. \A k \in 1 .. Len(Tail(t)) : Tail(t)[k] = t[k + 1]
    BY <1>1, <1>3
<1>5. Len(t) # 1 => Tail(t) # <<>>
    <2>1. Len(<<>>) = 0
        OBVIOUS
    <2>2. \A x : x = <<>> => Len(x) = 0
        BY <2>1, Zenon
    <2>3. Len(t) # 1 => Len(Tail(t)) # 0
        BY <1>1, <1>3
    <2> QED BY <2>2, <2>3, Zenon
<1>6. \A k \in 1 .. Len(Tail(t)) : k + 1 \in 1 .. Len(t)
    BY <1>1, <1>3
<1>7. ASSUME NEW k \in 1 .. Len(t), k # 1
      PROVE  \E j \in 1 .. Len(Tail(t)) : k = j + 1
    <2>1. k - 1 \in 1 .. Len(Tail(t)) /\ k = (k - 1) + 1
        BY <1>1, <1>3, <1>7
    <2> QED BY <2>1
<1> QED BY <1>2, <1>4, <1>5, <1>6, <1>7

LEMMA AdvanceIs ==
    ASSUME RInv, NEW r \in Requests, Busy(r), Advance(r)
    PROVE  LET q == request[r]
               p == request'[r]
           IN  /\ RequestFits(q, rental, overlapped, stage, tainted)
               /\ request' = [request EXCEPT ![r] = p]
               /\ 1 \in TodoPlaces(q) /\ q.todo[1] = Next1(r) /\ q.todo[1] \in Entry
               /\ Follows(p, q)
               /\ p # Idle => Rest(q, p)
<1> DEFINE q == request[r]
           p == [q EXCEPT !.todo = Tail(q.todo), !.begun = TRUE]
<1>1. RequestFits(q, rental, overlapped, stage, tainted) /\ DOMAIN request = Requests
    BY DEF RInv, RequestsFit, Busy, TypesFit
<1>2. q.todo \in Seq(Entry) /\ q.todo # <<>>
    BY <1>1 DEF RequestFits
<1>3. Len(q.todo) \in Nat \ {0}
    BY <1>2
<1>4. 1 \in TodoPlaces(q) /\ q.todo[1] = Next1(r) /\ q.todo[1] \in Entry
    BY <1>2, <1>3 DEF TodoPlaces, Next1
<1>5. request' = [request EXCEPT ![r] = IF Len(q.todo) = 1 THEN Idle ELSE p]
    BY DEF Advance
<1>6. request'[r] = (IF Len(q.todo) = 1 THEN Idle ELSE p) /\ request' = [request EXCEPT ![r] = request'[r]]
    BY <1>1, <1>5
<1>7. CASE Len(q.todo) = 1
    <2>1. TodoPlaces(q) = {1} /\ TodoPlaces(Idle) = {}
        BY <1>7 DEF TodoPlaces, Idle
    <2>2. Follows(Idle, q)
        BY <2>1 DEF Follows
    <2> QED BY <1>1, <1>4, <1>6, <1>7, <2>2
<1>8. CASE Len(q.todo) # 1
    <2>1. /\ p.order = q.order /\ p.devices = q.devices /\ p.todo = Tail(q.todo)
          /\ p \in [order : Orders, devices : SUBSET Devices, todo : Seq(Entry), begun : BOOLEAN]
        BY <1>1, <1>2, TailIs DEF RequestFits
    <2>2. request'[r] = p
        BY <1>6, <1>8
    <2> HIDE DEF p
    <2>3. /\ p.todo \in Seq(Entry) /\ p.todo # <<>>
          /\ \A k \in TodoPlaces(p) : k + 1 \in TodoPlaces(q) /\ p.todo[k] = q.todo[k + 1]
          /\ \A k \in TodoPlaces(q) : k # 1 => \E j \in TodoPlaces(p) : k = j + 1
        BY <1>2, <1>8, <2>1, TailIs DEF TodoPlaces
    <2>4. p # Idle /\ \A k \in TodoPlaces(p) : k \in Nat \ {0}
        BY <2>3 DEF Idle, TodoPlaces
    <2>5. Rest(q, p) /\ Follows(p, q)
        BY <2>1, <2>3, <2>4 DEF Rest, Follows
    <2> QED BY <1>1, <1>4, <1>6, <2>2, <2>4, <2>5
<1> QED BY <1>7, <1>8

\* What it has still to write of a phone d is what it had, but for the first.
LEMMA WritesLeft ==
    ASSUME NEW p, NEW q, Follows(p, q), 1 \in TodoPlaces(q), NEW d
    PROVE  /\ \A s : Writes(p, d, s) => \E k \in TodoPlaces(q) : k # 1 /\ WritesAt(q, k, d) /\ q.todo[k].status = s
           /\ ~WritesAt(q, 1, d) => \A s : Writes(p, d, s) <=> Writes(q, d, s)
<1>1. \A k \in TodoPlaces(p) : k + 1 \in TodoPlaces(q) /\ k + 1 # 1 /\ p.todo[k] = q.todo[k + 1]
    BY DEF Follows
<1>2. \A k \in TodoPlaces(p) : WritesAt(p, k, d) <=> WritesAt(q, k + 1, d)
    BY <1>1 DEF WritesAt
<1>3. ASSUME NEW s, Writes(p, d, s)
      PROVE  \E k \in TodoPlaces(q) : k # 1 /\ WritesAt(q, k, d) /\ q.todo[k].status = s
    <2>1. PICK k \in TodoPlaces(p) : WritesAt(p, k, d) /\ p.todo[k].status = s
        BY <1>3 DEF Writes
    <2> QED BY <1>1, <1>2, <2>1
<1>4. ASSUME NEW s, Writes(q, d, s), ~WritesAt(q, 1, d)
      PROVE  Writes(p, d, s)
    <2>1. PICK k \in TodoPlaces(q) : WritesAt(q, k, d) /\ q.todo[k].status = s
        BY <1>4 DEF Writes
    <2>2. PICK j \in TodoPlaces(p) : k = j + 1
        BY <1>4, <2>1 DEF Follows
    <2> QED BY <1>1, <1>2, <2>1, <2>2 DEF Writes
<1> QED BY <1>3, <1>4 DEF Writes

\* The next statement writes the status of a phone.
LEMMA DeviceDone ==
    ASSUME NEW p, NEW q, Follows(p, q), 1 \in TodoPlaces(q), NEW R, NEW d, NEW s, Settles(q, d, R, s),
           q.todo[1].op = "device", q.todo[1].status \in {"Available", "Rented"}
    PROVE  Settles(p, d, R, IF q.todo[1].device = d THEN q.todo[1].status ELSE s)
<1> DEFINE t == IF q.todo[1].device = d THEN q.todo[1].status ELSE s
<1>1. \A k \in TodoPlaces(p) : /\ k \in Nat \ {0} /\ k + 1 \in TodoPlaces(q) /\ k + 1 # 1
                           /\ p.todo[k] = q.todo[k + 1]
    BY FollowsAfter
<1>2. \A k, m \in TodoPlaces(q) : WritesAt(q, k, d) /\ WritesAt(q, m, d) => k = m
    BY DEF Settles
<1>3. ASSUME NEW X, WillAgree(q, d, X, s)
      PROVE  WillAgree(p, d, X, t)
    <2>1. CASE q.todo[1].device # d
        <3>1. ~WritesAt(q, 1, d)
            BY <2>1 DEF WritesAt
        <3>2. \A v : Writes(p, d, v) <=> Writes(q, d, v)
            BY <3>1, WritesLeft
        <3> QED BY <1>3, <2>1, <3>2 DEF WillAgree
    <2>2. CASE q.todo[1].device = d
        <3>1. WritesAt(q, 1, d) /\ t = q.todo[1].status
            BY <2>2 DEF WritesAt
        <3>2. \A v : ~Writes(p, d, v)
            BY <1>2, <3>1, WritesLeft
        <3>3. \A v : Writes(q, d, v) <=> v = t
            BY <1>2, <3>1 DEF Writes
        <3> HIDE DEF t
        <3>4. t \in {"Available", "Rented"}
            BY <3>1
        <3> QED BY <1>3, <3>2, <3>3, <3>4 DEF WillAgree, Agree
    <2> QED BY <2>1, <2>2
<1> HIDE DEF t
<1>4. \A k, m \in TodoPlaces(p) : WritesAt(p, k, d) /\ WritesAt(p, m, d) => k = m
    <2>1. \A k \in TodoPlaces(p) : WritesAt(p, k, d) => WritesAt(q, k + 1, d)
        BY <1>1 DEF WritesAt
    <2> QED BY <1>1, <1>2, <2>1
<1>5. ASSUME NEW k \in TodoPlaces(p)
      PROVE  LET e == p.todo[k]
             IN  /\ e.op = "insert" => /\ Out(R, d) = {} /\ e.row.status = "Active" /\ e.row.device = d
                                       /\ \A i \in Nat : WillAgree(p, d, {i}, t)
                 /\ e.op = "birth" => Out(R, d) = {} /\ e.device = d
                 /\ e.op = "row" => WillAgree(p, d, Left(e, d, R), t)
                 /\ e.op # "stage"
    BY <1>1, <1>3 DEF Settles
<1>6. ASSUME \A k \in TodoPlaces(p) : p.todo[k].op = "device"
      PROVE  WillAgree(p, d, Out(R, d), t)
    <2>1. \A k \in TodoPlaces(q) : q.todo[k].op = "device"
        BY <1>1, <1>6 DEF Follows
    <2> QED BY <1>3, <2>1 DEF Settles
<1>7. Settles(p, d, R, t)
    BY <1>4, <1>5, <1>6 DEF Settles
<1> QED BY <1>7 DEF t

\* It is the one that is not about a status: it leaves the rentals Q.
LEMMA OtherDone ==
    ASSUME NEW p, NEW q, Follows(p, q), 1 \in TodoPlaces(q), NEW R, NEW Q, NEW d, NEW s, Settles(q, d, R, s),
           q.todo[1].op # "device",
           \A k, m \in TodoPlaces(q) : q.todo[k].op # "device" /\ q.todo[m].op # "device" => k = m,
           WillAgree(q, d, Out(Q, d), s)
    PROVE  Settles(p, d, Q, s)
<1>1. \A k \in TodoPlaces(p) : /\ k \in Nat \ {0} /\ k + 1 \in TodoPlaces(q) /\ k + 1 # 1
                           /\ p.todo[k] = q.todo[k + 1]
    BY FollowsAfter
<1>2. \A k \in TodoPlaces(p) : p.todo[k].op = "device"
    BY <1>1
<1>3. \A v : Writes(p, d, v) <=> Writes(q, d, v)
    <2>1. ~WritesAt(q, 1, d)
        BY DEF WritesAt
    <2> QED BY <2>1, WritesLeft
<1>4. WillAgree(p, d, Out(Q, d), s)
    BY <1>3 DEF WillAgree
<1>5. \A k, m \in TodoPlaces(p) : WritesAt(p, k, d) /\ WritesAt(p, m, d) => k = m
    <2>1. \A k \in TodoPlaces(p) : WritesAt(p, k, d) => WritesAt(q, k + 1, d)
        BY <1>1 DEF WritesAt
    <2>2. \A k, m \in TodoPlaces(q) : WritesAt(q, k, d) /\ WritesAt(q, m, d) => k = m
        BY DEF Settles
    <2> QED BY <1>1, <2>1, <2>2
<1> QED BY <1>2, <1>4, <1>5 DEF Settles

LEMMA LastDone ==
    ASSUME NEW R, NEW d, NEW s, Settles(Idle, d, R, s)
    PROVE  Agree(Out(R, d), s)
<1>1. TodoPlaces(Idle) = {}
    BY DEF TodoPlaces, Idle
<1> QED BY <1>1 DEF Settles, WillAgree, Writes

\* A statement of request r that touches no more than its order and phones
\* keeps the invariant, once the phones it has in hand will agree.
LEMMA AdvanceKeeps ==
    ASSUME RInv, NEW r \in Requests, Busy(r), Advance(r), UNCHANGED <<cached, calls, overlapped, tainted>>,
           device' \in [Devices -> [status : DeviceStatuses, open : BOOLEAN]],
           stage' \in [Orders -> Stages],
           NEW o, o = request[r].order, NEW D, D = request[r].devices,
           Changes(rental, rental', o, D, tainted),
           o \notin overlapped => \A i \in Actives(rental', o), j \in Rows(rental', o) : j <= i,
           stage'[o] # "unborn", \A x \in Orders \ {o} : stage'[x] = stage[x],
           Next1(r).op = "device" => UNCHANGED <<rental, stage>>,
           \A d \in Devices \ D : device'[d].status = device[d].status,
           \A d \in D \ tainted : Settles(request[r], d, rental, device[d].status) =>
                                      Settles(request'[r], d, rental', device'[d].status)
    PROVE  RInv'
<1> DEFINE q == request[r]
           p == request'[r]
<1>1. /\ RequestFits(q, rental, overlapped, stage, tainted) /\ q # Idle
      /\ request' = [request EXCEPT ![r] = p]
      /\ 1 \in TodoPlaces(q) /\ q.todo[1] = Next1(r) /\ q.todo[1] \in Entry /\ Follows(p, q)
      /\ p # Idle => Rest(q, p)
    BY AdvanceIs DEF Busy
<1> HIDE DEF p
<1>2. /\ q.order = o /\ q.devices = D /\ o \in Orders /\ D \in SUBSET Devices /\ q.begun \in BOOLEAN
      /\ \A k \in TodoPlaces(q) : EntryFits(q.todo[k], o, rental, overlapped, stage)
      /\ \A k \in TodoPlaces(q) : Names(q.todo[k], D, rental, tainted)
      /\ \A k, m \in TodoPlaces(q) : q.todo[k].op # "device" /\ q.todo[m].op # "device" => k = m
    BY <1>1 DEF RequestFits
<1>3. \A k \in TodoPlaces(p) : /\ k \in Nat \ {0} /\ k + 1 \in TodoPlaces(q) /\ k + 1 # 1
                           /\ p.todo[k] = q.todo[k + 1]
    BY <1>1, FollowsAfter
<1>4. TypesFit'
    <2>1. DOMAIN request' = Requests
        BY <1>1 DEF RInv, TypesFit
    <2> QED BY <2>1 DEF RInv, TypesFit, Changes
<1>5. RowsBorn'
    <2>1. \A i \in DOMAIN rental' : rental'[i].order = o \/ stage[rental'[i].order] # "unborn"
        BY DEF Changes, RInv, RowsBorn
    <2>2. \A i \in DOMAIN rental' : rental'[i].order \in Orders
        <3>1. \A i \in DOMAIN rental' : rental'[i] \in Row
            BY DEF Changes
        <3> QED BY <3>1 DEF Row
    <2> QED BY <2>1, <2>2 DEF RowsBorn
<1>6. ASSUME p # Idle
      PROVE  RequestFits(p, rental', overlapped', stage', tainted')
    <2>1. /\ p.order = o /\ p.devices = D /\ p.todo # <<>>
          /\ p \in [order : Orders, devices : SUBSET Devices, todo : Seq(Entry), begun : BOOLEAN]
        BY <1>1, <1>2, <1>6 DEF Rest
    <2>2. ASSUME NEW k \in TodoPlaces(p)
          PROVE  /\ EntryFits(p.todo[k], o, rental', overlapped', stage')
                 /\ Names(p.todo[k], D, rental', tainted')
        <3> DEFINE e == q.todo[k + 1]
        <3>1. e = p.todo[k] /\ EntryFits(e, o, rental, overlapped, stage) /\ Names(e, D, rental, tainted)
            BY <1>2, <1>3
        <3>2. CASE Next1(r).op = "device"
            BY <3>1, <3>2
        <3>3. CASE Next1(r).op # "device"
            <4>1. e.op = "device"
                BY <1>1, <1>2, <1>3, <3>3
            <4> QED BY <3>1, <4>1 DEF EntryFits, Names
        <3> QED BY <3>2, <3>3
    <2>3. \A k, m \in TodoPlaces(p) : p.todo[k].op # "device" /\ p.todo[m].op # "device" => k = m
        BY <1>2, <1>3
    <2> QED BY <2>1, <2>2, <2>3 DEF RequestFits
<1>7. p.devices \subseteq D /\ (p # Idle => p.devices = D /\ p.order = o)
    BY <1>1, <1>2 DEF Rest, Idle
<1>8. Frame(o, D)
    BY DEF Frame
<1>9. Creating(p) => Creating(q)
    BY <1>3 DEF Creating
<1>10. ASSUME NEW x \in Requests \ {r}
       PROVE  /\ Disjoint(q, request[x], overlapped, tainted)
              /\ Creating(q) => q.order # NoDevice /\ request[x].order # q.order
              /\ Creating(request[x]) => request[x].order # NoDevice /\ request[x].order # q.order
    BY DEF RInv, RequestsApart
<1>11. NotesRaces(r, p, o, D)
    <2> SUFFICES ASSUME NEW x \in Requests \ {r}
                 PROVE  /\ Disjoint(p, request[x], overlapped', tainted')
                        /\ request[x] # Idle /\ request[x].order = o =>
                             /\ o \in overlapped' /\ D \subseteq tainted' /\ request[x].devices \subseteq tainted'
                             /\ stage'[o] = "unborn" <=> stage[o] = "unborn"
                        /\ D \cap request[x].devices \subseteq tainted'
        BY DEF NotesRaces
    <2>1. Disjoint(p, request[x], overlapped', tainted')
        <3>1. CASE p = Idle
            BY <3>1 DEF Disjoint, Idle
        <3>2. CASE p # Idle
            <4>1. p.devices = q.devices /\ p.order = q.order /\ q # Idle
                BY <1>1, <1>2, <1>7, <3>2
            <4> QED BY <1>10, <4>1 DEF Disjoint
        <3> QED BY <3>1, <3>2
    <2>2. D \cap request[x].devices \subseteq tainted'
        BY <1>2, <1>10 DEF Disjoint
    <2>3. ASSUME request[x] # Idle, request[x].order = o
          PROVE  /\ o \in overlapped' /\ D \subseteq tainted' /\ request[x].devices \subseteq tainted'
                 /\ stage'[o] = "unborn" <=> stage[o] = "unborn"
        <3>1. o \in overlapped' /\ D \subseteq tainted' /\ request[x].devices \subseteq tainted'
            BY <1>1, <1>2, <1>10, <2>3 DEF Disjoint
        <3>2. ~Creating(q)
            BY <1>2, <1>10, <2>3
        <3>3. stage[o] # "unborn"
            BY <1>1, <1>2, <3>2 DEF Creating, EntryFits
        <3> QED BY <3>1, <3>3
    <2> QED BY <2>1, <2>2, <2>3
<1>12. CreatesAlone(r, p)
    <2>1. Creating(p) => p # Idle
        BY DEF Creating, Idle, TodoPlaces
    <2>2. Idle.order = NoDevice
        BY DEF Idle
    <2>3. ASSUME NEW x \in Requests \ {r}, Creating(p)
          PROVE  p.order # NoDevice
        BY <1>2, <1>7, <1>9, <1>10, <2>1, <2>3
    <2>4. ASSUME NEW x \in Requests \ {r}, Creating(p) \/ Creating(request[x])
          PROVE  request[x].order # p.order
        <3>1. CASE p = Idle
            BY <1>10, <2>1, <2>2, <2>4, <3>1
        <3>2. CASE p # Idle
            BY <1>2, <1>7, <1>9, <1>10, <2>4, <3>2
        <3> QED BY <3>1, <3>2
    <2> QED BY <2>3, <2>4 DEF CreatesAlone
<1>13. PhonesSettle(p, D)
    <2> SUFFICES ASSUME NEW d \in D \ tainted'
                 PROVE  IF d \in p.devices THEN Settles(p, d, rental', device'[d].status)
                        ELSE Agree(Out(rental', d), device'[d].status)
        BY DEF PhonesSettle
    <2>1. d \in Devices \ tainted
        BY <1>2
    <2>2. Settles(q, d, rental, device[d].status)
        BY <1>2, <2>1 DEF RInv, DeviceFits
    <2>3. Settles(p, d, rental', device'[d].status)
        BY <2>1, <2>2 DEF p
    <2>4. d \notin p.devices => p = Idle
        BY <1>7
    <2> QED BY <2>3, <2>4, LastDone
<1>14. p = Idle \/ RequestFits(p, rental', overlapped', stage', tainted')
    BY <1>6
<1>15. request[r].devices \subseteq D /\ D \in SUBSET Devices
    BY <1>2
<1> HIDE DEF q
<1> QED BY <1>1, <1>4, <1>5, <1>7, <1>8, <1>11, <1>12, <1>13, <1>14, <1>15, StepKeeps

\* The next statement of a busy request.
LEMMA NextEntry ==
    ASSUME RInv, NEW r \in Requests, Busy(r), Advance(r)
    PROVE  LET q == request[r]
               e == Next1(r)
           IN  /\ RequestFits(q, rental, overlapped, stage, tainted)
               /\ q.order \in Orders /\ q.devices \subseteq Devices
               /\ EntryFits(e, q.order, rental, overlapped, stage) /\ Names(e, q.devices, rental, tainted)
               /\ e \in Entry /\ 1 \in TodoPlaces(q) /\ q.todo[1] = e /\ Follows(request'[r], q)
               /\ (e.op # "birth" => stage[q.order] # "unborn")
               /\ \A k, m \in TodoPlaces(q) : q.todo[k].op # "device" /\ q.todo[m].op # "device" => k = m
<1>1. LET q == request[r]
      IN  /\ RequestFits(q, rental, overlapped, stage, tainted)
          /\ 1 \in TodoPlaces(q) /\ q.todo[1] = Next1(r) /\ q.todo[1] \in Entry /\ Follows(request'[r], q)
    BY AdvanceIs
<1> QED BY <1>1 DEF RequestFits, EntryFits

\* A rental is written: if it is active, it is the newest of the order.
LEMMA WriteRentalStep ==
    ASSUME RInv, NEW r \in Requests, WriteRental(r)
    PROVE  RInv'
<1> DEFINE q == request[r]
           e == Next1(r)
           o == q.order
           D == q.devices
           i == e.row
           new == [rental[i] EXCEPT !.status = e.status, !.device = e.device]
<1>1. /\ Busy(r) /\ e.op = "row" /\ Advance(r)
      /\ rental' = IF rental[i].status = "removed" THEN rental
                   ELSE [rental EXCEPT ![i].status = e.status, ![i].device = e.device]
      /\ UNCHANGED <<device, stage, cached, calls, overlapped, tainted>>
    BY DEF WriteRental
<1>2. /\ RequestFits(q, rental, overlapped, stage, tainted)
      /\ o \in Orders /\ D \subseteq Devices
      /\ EntryFits(e, o, rental, overlapped, stage) /\ Names(e, D, rental, tainted)
      /\ e \in Entry /\ 1 \in TodoPlaces(q) /\ q.todo[1] = e /\ Follows(request'[r], q)
      /\ stage[o] # "unborn"
      /\ \A k, m \in TodoPlaces(q) : q.todo[k].op # "device" /\ q.todo[m].op # "device" => k = m
    BY <1>1, NextEntry
<1>3. RentalRowFits(e, o, rental, overlapped) /\ e \in RowEntry
    BY <1>1, <1>2 DEF EntryFits, Entry, RowEntry, DeviceEntry, InsertEntry, BirthEntry, StageEntry
<1>4. /\ i \in DOMAIN rental /\ rental[i].order = o /\ rental \in Seq(Row) /\ rental[i] \in Row
      /\ e.status \in RentalStatuses /\ e.device \in AnyDevice /\ e.device \in D \cup {NoDevice}
      /\ rental[i].device \in D \cup {NoDevice} \cup tainted
      /\ o \notin overlapped /\ e.status = "Active" => \A j \in Rows(rental, o) : j <= i
    BY <1>1, <1>2, <1>3 DEF RentalRowFits, RowEntry, Names, RInv, TypesFit
<1>5. new \in Row /\ new.order = o /\ new.status = e.status /\ new.device = e.device
    BY <1>4 DEF Row
<1>6. rental[i].status # "removed" => rental' = [rental EXCEPT ![i] = new]
    BY <1>1, <1>4
<1> HIDE DEF new
<1>7. /\ rental' \in Seq(Row) /\ DOMAIN rental' = DOMAIN rental
      /\ \A j \in DOMAIN rental : j # i => rental'[j] = rental[j]
      /\ rental'[i] = IF rental[i].status = "removed" THEN rental[i] ELSE new
    BY <1>1, <1>4, <1>5, <1>6
<1>8. Changes(rental, rental', o, D, tainted)
    BY <1>4, <1>5, <1>7 DEF Changes
<1>9. \A k \in Actives(rental', o), j \in Rows(rental', o) : o \notin overlapped => j <= k
    <2>1. Rows(rental', o) = Rows(rental, o)
        BY <1>4, <1>5, <1>7 DEF Rows, RentalStatuses
    <2>2. \A k \in Actives(rental', o) : k \in Actives(rental, o) \/ (k = i /\ e.status = "Active")
        BY <1>4, <1>5, <1>7 DEF Actives, Rows
    <2> QED BY <1>2, <1>4, <2>1, <2>2 DEF RInv, NewestFits
<1>10. ASSUME NEW d, Settles(q, d, rental, device[d].status)
       PROVE  Settles(request'[r], d, rental', device'[d].status)
    <2>1. Out(rental', d) = Left(e, d, rental)
        BY <1>4, <1>5, <1>7 DEF Out, Left
    <2>2. WillAgree(q, d, Out(rental', d), device[d].status)
        BY <1>1, <1>2, <1>10, <2>1 DEF Settles
    <2>3. device' = device /\ q.todo[1].op # "device"
        BY <1>1, <1>2
    <2> HIDE DEF q, e, i
    <2> QED BY <1>2, <1>10, <2>2, <2>3, OtherDone
<1>11. /\ UNCHANGED <<cached, calls, overlapped, tainted>> /\ Next1(r).op # "device"
       /\ device' \in [Devices -> [status : DeviceStatuses, open : BOOLEAN]]
       /\ stage' \in [Orders -> Stages] /\ device' = device /\ stage' = stage
    BY <1>1 DEF RInv, TypesFit
<1> QED BY <1>1, <1>2, <1>8, <1>9, <1>10, <1>11, AdvanceKeeps

\* A rental is inserted: it is the newest, and the only active one.
Inserts(R, Q, row, o, D, T) ==
    /\ R \in Seq(Row) /\ Q = Append(R, row)
    /\ row \in Row /\ row.order = o /\ row.device \in D \cup {NoDevice}

LEMMA RentalInserted ==
    ASSUME NEW R, NEW Q, NEW row, NEW o, NEW D, NEW T, Inserts(R, Q, row, o, D, T)
    PROVE  /\ Changes(R, Q, o, D, T)
           /\ Actives(R, o) = {} => \A i \in Actives(Q, o), j \in Rows(Q, o) : j <= i
           /\ \A d : Out(R, d) = {} /\ row.status = "Active" /\ row.device = d
                     => \E i \in Nat : Out(Q, d) = {i}
<1> DEFINE n == Len(R) + 1
<1>1. /\ Q \in Seq(Row) /\ DOMAIN Q = DOMAIN R \cup {n} /\ n \in Nat /\ n \notin DOMAIN R
      /\ Q[n] = row /\ \A i \in DOMAIN R : Q[i] = R[i] /\ i <= n
    BY DEF Inserts
<1> HIDE DEF n
<1>2. Changes(R, Q, o, D, T)
    BY <1>1 DEF Changes, Inserts
<1>3. ASSUME Actives(R, o) = {}, NEW i \in Actives(Q, o), NEW j \in Rows(Q, o)
      PROVE  j <= i
    <2>1. i = n
        BY <1>1, <1>3 DEF Actives, Rows
    <2>2. j \in DOMAIN R \cup {n} /\ n <= n
        BY <1>1 DEF Rows
    <2> QED BY <1>1, <2>1, <2>2
<1>4. ASSUME NEW d, Out(R, d) = {}, row.status = "Active", row.device = d
      PROVE  Out(Q, d) = {n}
    BY <1>1, <1>4 DEF Out
<1> QED BY <1>1, <1>2, <1>3, <1>4

LEMMA InsertRentalStep ==
    ASSUME RInv, NEW r \in Requests, InsertRental(r)
    PROVE  RInv'
<1> DEFINE q == request[r]
           e == Next1(r)
           o == q.order
           D == q.devices
<1>1. /\ Busy(r) /\ e.op = "insert" /\ Advance(r) /\ rental' = Append(rental, e.row)
      /\ UNCHANGED <<device, stage, cached, calls, overlapped, tainted>>
    BY DEF InsertRental
<1>2. /\ RequestFits(q, rental, overlapped, stage, tainted)
      /\ o \in Orders /\ D \subseteq Devices
      /\ EntryFits(e, o, rental, overlapped, stage) /\ Names(e, D, rental, tainted)
      /\ e \in Entry /\ 1 \in TodoPlaces(q) /\ q.todo[1] = e /\ Follows(request'[r], q)
      /\ stage[o] # "unborn"
      /\ \A k, m \in TodoPlaces(q) : q.todo[k].op # "device" /\ q.todo[m].op # "device" => k = m
    BY <1>1, NextEntry
<1>3. e \in InsertEntry
    BY <1>1, <1>2 DEF Entry, RowEntry, DeviceEntry, InsertEntry, BirthEntry, StageEntry
<1>4. /\ e.row \in Row /\ e.row.order = o /\ e.row.device \in D \cup {NoDevice}
      /\ o \notin overlapped => Actives(rental, o) = {}
    BY <1>1, <1>2, <1>3 DEF InsertEntry, Row, EntryFits, Names
<1>5. /\ Changes(rental, rental', o, D, tainted)
      /\ Actives(rental, o) = {} => \A i \in Actives(rental', o), j \in Rows(rental', o) : j <= i
      /\ \A d : Out(rental, d) = {} /\ e.row.status = "Active" /\ e.row.device = d
                => \E i \in Nat : Out(rental', d) = {i}
    <2>1. rental \in Seq(Row)
        BY DEF RInv, TypesFit
    <2>2. Inserts(rental, rental', e.row, o, D, tainted)
        BY <1>1, <1>4, <2>1 DEF Inserts
    <2> HIDE DEF e, o, D
    <2> QED BY <2>2, RentalInserted
<1>6. ASSUME NEW d, Settles(q, d, rental, device[d].status)
      PROVE  Settles(request'[r], d, rental', device'[d].status)
    <2>1. /\ Out(rental, d) = {} /\ e.row.status = "Active" /\ e.row.device = d
          /\ \A i \in Nat : WillAgree(q, d, {i}, device[d].status)
        BY <1>1, <1>2, <1>6 DEF Settles
    <2>2. WillAgree(q, d, Out(rental', d), device[d].status)
        BY <1>5, <2>1
    <2>3. device' = device /\ q.todo[1].op # "device"
        BY <1>1, <1>2
    <2> HIDE DEF q, e
    <2> QED BY <1>2, <1>6, <2>2, <2>3, OtherDone
<1>7. /\ UNCHANGED <<cached, calls, overlapped, tainted>> /\ Next1(r).op # "device"
      /\ device' \in [Devices -> [status : DeviceStatuses, open : BOOLEAN]]
      /\ stage' \in [Orders -> Stages] /\ device' = device /\ stage' = stage
    BY <1>1 DEF RInv, TypesFit
<1> QED BY <1>1, <1>2, <1>4, <1>5, <1>6, <1>7, AdvanceKeeps

LEMMA WriteDeviceStep ==
    ASSUME RInv, NEW r \in Requests, WriteDevice(r)
    PROVE  RInv'
<1> DEFINE q == request[r]
           e == Next1(r)
           o == q.order
           D == q.devices
<1>1. /\ Busy(r) /\ e.op = "device" /\ Advance(r)
      /\ device' = IF e.device = NoDevice THEN device ELSE [device EXCEPT ![e.device].status = e.status]
      /\ UNCHANGED <<rental, stage, cached, calls, overlapped, tainted>>
    BY DEF WriteDevice
<1>2. /\ RequestFits(q, rental, overlapped, stage, tainted)
      /\ o \in Orders /\ D \subseteq Devices
      /\ EntryFits(e, o, rental, overlapped, stage) /\ Names(e, D, rental, tainted)
      /\ e \in Entry /\ 1 \in TodoPlaces(q) /\ q.todo[1] = e /\ Follows(request'[r], q)
      /\ stage[o] # "unborn"
    BY <1>1, NextEntry
<1>3. e \in DeviceEntry
    BY <1>1, <1>2 DEF Entry, RowEntry, DeviceEntry, InsertEntry, BirthEntry, StageEntry
<1>4. /\ e.device \in D \cup {NoDevice} /\ e.status \in {"Available", "Rented"}
      /\ device \in [Devices -> [status : DeviceStatuses, open : BOOLEAN]]
    BY <1>1, <1>2, <1>3 DEF DeviceEntry, Names, RInv, TypesFit
<1>5. /\ device' \in [Devices -> [status : DeviceStatuses, open : BOOLEAN]]
      /\ \A d \in Devices : device'[d].status = IF d = e.device THEN e.status ELSE device[d].status
    <2>1. CASE e.device = NoDevice
        BY <1>1, <1>4, <2>1, NoDeviceAssumption
    <2>2. CASE e.device # NoDevice
        BY <1>1, <1>2, <1>4, <2>2 DEF DeviceStatuses
    <2> QED BY <2>1, <2>2
<1>6. \A d \in Devices \ D : device'[d].status = device[d].status
    BY <1>4, <1>5, NoDeviceAssumption
<1>7. ASSUME NEW d \in Devices, Settles(q, d, rental, device[d].status)
      PROVE  Settles(request'[r], d, rental', device'[d].status)
    <2>1. /\ device'[d].status = (IF q.todo[1].device = d THEN q.todo[1].status ELSE device[d].status)
          /\ q.todo[1].op = "device" /\ q.todo[1].status \in {"Available", "Rented"} /\ rental' = rental
        BY <1>1, <1>2, <1>4, <1>5
    <2> HIDE DEF q, e
    <2> QED BY <1>2, <1>7, <2>1, DeviceDone
<1>8. Changes(rental, rental', o, D, tainted)
    BY <1>1 DEF Changes, RInv, TypesFit
<1>9. o \notin overlapped => \A i \in Actives(rental', o), j \in Rows(rental', o) : j <= i
    BY <1>1, <1>2 DEF RInv, NewestFits
<1>10. /\ UNCHANGED <<cached, calls, overlapped, tainted>> /\ stage' \in [Orders -> Stages]
       /\ UNCHANGED <<rental, stage>>
    BY <1>1 DEF RInv, TypesFit
<1> QED BY <1>1, <1>2, <1>5, <1>6, <1>7, <1>8, <1>9, <1>10, AdvanceKeeps

\* A request that creates an order has nothing else to do.
LEMMA CommitOrderStep ==
    ASSUME RInv, NEW r \in Requests, CommitOrder(r)
    PROVE  RInv'
<1> DEFINE q == request[r]
           e == Next1(r)
           o == q.order
           D == q.devices
           d == e.device
           row == [order |-> o, status |-> "Active", device |-> d]
<1>1. /\ Busy(r) /\ e.op = "birth" /\ Advance(r) /\ rental' = Append(rental, row)
      /\ stage' = [stage EXCEPT ![o] = "Open"] /\ device' = [device EXCEPT ![d].status = "Rented"]
      /\ UNCHANGED <<cached, calls, overlapped, tainted>>
    BY DEF CommitOrder
<1>2. /\ RequestFits(q, rental, overlapped, stage, tainted)
      /\ o \in Orders /\ D \subseteq Devices
      /\ EntryFits(e, o, rental, overlapped, stage) /\ Names(e, D, rental, tainted)
      /\ e \in Entry /\ 1 \in TodoPlaces(q) /\ q.todo[1] = e /\ Follows(request'[r], q)
      /\ \A k, m \in TodoPlaces(q) : q.todo[k].op # "device" /\ q.todo[m].op # "device" => k = m
    BY <1>1, NextEntry
<1>3. e \in BirthEntry
    BY <1>1, <1>2 DEF Entry, RowEntry, DeviceEntry, InsertEntry, BirthEntry, StageEntry
<1>4. /\ d \in D /\ d \in Devices /\ stage[o] = "unborn"
      /\ device \in [Devices -> [status : DeviceStatuses, open : BOOLEAN]]
      /\ stage \in [Orders -> Stages] /\ rental \in Seq(Row)
    BY <1>1, <1>2, <1>3, NoDeviceAssumption DEF BirthEntry, Names, EntryFits, RInv, TypesFit
<1>5. row \in Row /\ row.order = o /\ row.status = "Active" /\ row.device = d
    BY <1>2, <1>4 DEF Row, RentalStatuses, AnyDevice
<1>6. /\ device' \in [Devices -> [status : DeviceStatuses, open : BOOLEAN]]
      /\ device'[d].status = "Rented"
      /\ \A x \in Devices \ D : device'[x].status = device[x].status
      /\ stage' \in [Orders -> Stages] /\ stage'[o] # "unborn"
      /\ \A x \in Orders \ {o} : stage'[x] = stage[x]
    BY <1>1, <1>2, <1>4 DEF DeviceStatuses, Stages
<1> HIDE DEF row
<1>7. /\ Changes(rental, rental', o, D, tainted)
      /\ Actives(rental, o) = {} => \A i \in Actives(rental', o), j \in Rows(rental', o) : j <= i
      /\ \A x : Out(rental, x) = {} /\ row.status = "Active" /\ row.device = x
                => \E i \in Nat : Out(rental', x) = {i}
    <2>1. Inserts(rental, rental', row, o, D, tainted)
        BY <1>1, <1>4, <1>5 DEF Inserts
    <2> HIDE DEF o, D, d, e, q
    <2> QED BY <2>1, RentalInserted
<1>8. Actives(rental, o) = {}
    BY <1>4 DEF Actives, Rows, RInv, RowsBorn
<1>9. TodoPlaces(request'[r]) = {}
    <2>1. \A k \in TodoPlaces(q) : q.todo[k].op = "birth"
        BY <1>2, <1>4 DEF RequestFits, EntryFits
    <2>2. \A k \in TodoPlaces(q) : k = 1
        BY <1>2, <2>1
    <2> HIDE DEF q
    <2> QED BY <1>2, <2>2, FollowsAfter
<1>10. ASSUME NEW x, Settles(q, x, rental, device[x].status)
       PROVE  Settles(request'[r], x, rental', device'[x].status)
    <2>1. Out(rental, x) = {} /\ x = d
        BY <1>1, <1>2, <1>10 DEF Settles
    <2>2. Agree(Out(rental', x), device'[x].status)
        BY <1>5, <1>6, <1>7, <2>1 DEF Agree, Single
    <2> QED BY <1>9, <2>2 DEF Settles, WillAgree, Writes
<1>11. UNCHANGED <<cached, calls, overlapped, tainted>> /\ Next1(r).op # "device"
    BY <1>1
<1> QED BY <1>1, <1>2, <1>6, <1>7, <1>8, <1>10, <1>11, AdvanceKeeps

LEMMA CommitStatusStep ==
    ASSUME RInv, NEW r \in Requests, CommitStatus(r)
    PROVE  RInv'
<1> DEFINE q == request[r]
           e == Next1(r)
           o == q.order
           D == q.devices
<1>1. /\ Busy(r) /\ e.op = "stage" /\ Advance(r) /\ stage' = [stage EXCEPT ![o] = e.to]
      /\ UNCHANGED <<device, rental, cached, calls, overlapped, tainted>>
    BY DEF CommitStatus
<1>2. /\ RequestFits(q, rental, overlapped, stage, tainted)
      /\ o \in Orders /\ D \subseteq Devices
      /\ e \in Entry /\ 1 \in TodoPlaces(q) /\ q.todo[1] = e
    BY <1>1, NextEntry
<1>3. e \in StageEntry
    BY <1>1, <1>2 DEF Entry, RowEntry, DeviceEntry, InsertEntry, BirthEntry, StageEntry
<1>4. e.to \in Stages \ {"unborn"} /\ stage \in [Orders -> Stages]
    BY <1>3 DEF StageEntry, RInv, TypesFit
<1>5. /\ stage' \in [Orders -> Stages] /\ stage'[o] # "unborn"
      /\ \A x \in Orders \ {o} : stage'[x] = stage[x]
    BY <1>1, <1>2, <1>4
<1>6. \A d : ~Settles(q, d, rental, device[d].status)
    BY <1>1, <1>2 DEF Settles
<1>7. Changes(rental, rental', o, D, tainted)
    BY <1>1 DEF Changes, RInv, TypesFit
<1>8. o \notin overlapped => \A i \in Actives(rental', o), j \in Rows(rental', o) : j <= i
    BY <1>1, <1>2 DEF RInv, NewestFits
<1>9. /\ UNCHANGED <<cached, calls, overlapped, tainted>> /\ Next1(r).op # "device"
      /\ device' \in [Devices -> [status : DeviceStatuses, open : BOOLEAN]]
      /\ \A d \in Devices \ D : device'[d].status = device[d].status
    BY <1>1 DEF RInv, TypesFit
<1> QED BY <1>1, <1>2, <1>5, <1>6, <1>7, <1>8, <1>9, AdvanceKeeps

\* The phones of a request that stops are not vouched for.
LEMMA AbortRentalStep ==
    ASSUME RInv, NEW r \in Requests, AbortRental(r)
    PROVE  RInv'
<1> DEFINE q == request[r]
           o == q.order
           D == q.devices
<1>1. /\ q.begun /\ request' = [request EXCEPT ![r] = Idle] /\ tainted' = tainted \cup D
      /\ UNCHANGED <<device, rental, stage, cached, calls, overlapped>>
    BY DEF AbortRental
<1>2. q # Idle
    BY <1>1 DEF Idle
<1>3. o \in Orders /\ D \in SUBSET Devices
    BY <1>2 DEF RInv, RequestsFit, RequestFits
<1>4. Changes(rental, rental', o, D, tainted)
    BY <1>1 DEF Changes, RInv, TypesFit
<1>5. TypesFit'
    BY <1>1, <1>3 DEF RInv, TypesFit
<1>6. RowsBorn'
    BY <1>1 DEF RInv, RowsBorn
<1>7. Frame(o, D)
    BY <1>1, <1>3, <1>4 DEF Frame, RInv, NewestFits
<1>8. Idle.devices = {} /\ Idle.order = NoDevice /\ ~Creating(Idle)
    BY DEF Idle, Creating, TodoPlaces
<1>9. ASSUME NEW x \in Requests \ {r}
      PROVE  /\ Disjoint(q, request[x], overlapped, tainted)
             /\ Creating(request[x]) => request[x].order # NoDevice
    BY DEF RInv, RequestsApart
<1>10. NotesRaces(r, Idle, o, D)
    BY <1>1, <1>2, <1>8, <1>9 DEF NotesRaces, Disjoint
<1>11. CreatesAlone(r, Idle)
    BY <1>8, <1>9 DEF CreatesAlone
<1>12. PhonesSettle(Idle, D)
    BY <1>1 DEF PhonesSettle
<1>13. Idle.devices \subseteq D /\ request[r].devices \subseteq D
    BY <1>8
<1> HIDE DEF o, D, q
<1> QED BY <1>1, <1>3, <1>5, <1>6, <1>7, <1>10, <1>11, <1>12, <1>13, StepKeeps

(***************************************************************************)
(* Steps of nobody's request.                                              *)
(***************************************************************************)
LEMMA RentalsAre ==
    ASSUME RInv, NEW i \in DOMAIN rental
    PROVE  /\ rental[i].order \in Orders /\ rental[i].status \in RentalStatuses \cup {"removed"}
           /\ rental[i].device \in AnyDevice
<1>1. rental[i] \in Row
    BY DEF RInv, TypesFit
<1> QED BY <1>1 DEF Row

LEMMA CreateOrderWithoutPhoneStep ==
    ASSUME RInv, NEW o \in Orders, CreateOrderWithoutPhone(o)
    PROVE  RInv'
<1>1. /\ stage[o] = "unborn" /\ \A q \in Requests : request[q].order # o
      /\ stage' = [stage EXCEPT ![o] = "Open"]
      /\ UNCHANGED <<device, rental, cached, request, calls, overlapped, tainted>>
    BY DEF CreateOrderWithoutPhone
<1>2. stage \in [Orders -> Stages] /\ stage' \in [Orders -> Stages]
    BY <1>1 DEF RInv, TypesFit, Stages
<1>3. TypesFit'
    BY <1>1, <1>2 DEF RInv, TypesFit
<1>4. RowsBorn'
    <2>1. \A i \in DOMAIN rental : rental[i].order \in Orders
        BY RentalsAre
    <2> QED BY <1>1, <1>2, <2>1 DEF RInv, RowsBorn
<1>5. ASSUME NEW r \in Requests, request[r] # Idle
      PROVE  RequestFits(request[r], rental', overlapped', stage', tainted')
    <2>1. RequestFits(request[r], rental, overlapped, stage, tainted)
        BY <1>5 DEF RInv, RequestsFit
    <2>2. request[r].order \in Orders \ {o}
        BY <1>1, <2>1 DEF RequestFits
    <2>3. stage'[request[r].order] = stage[request[r].order]
        BY <1>1, <1>2, <2>2
    <2> QED BY <1>1, <2>1, <2>3 DEF RequestFits, EntryFits
<1>6. RequestsFit'
    BY <1>1, <1>5 DEF RequestsFit
<1>7. RequestsApart' /\ NewestFits(rental', overlapped') /\ \A d \in Devices \ tainted' : DeviceFits(d)'
    BY <1>1 DEF RInv, RequestsApart, DeviceFits
<1> QED BY <1>3, <1>4, <1>6, <1>7 DEF RInv

\* Statuses other than Rented agree with the same rentals.
LEMMA SameStatus ==
    ASSUME NEW q, NEW d, NEW R, NEW s, NEW t, (s = "Rented") <=> (t = "Rented")
    PROVE  /\ \A X : Agree(X, s) => Agree(X, t)
           /\ Settles(q, d, R, s) => Settles(q, d, R, t)
<1>1. \A X : Agree(X, s) => Agree(X, t)
    BY DEF Agree
<1>2. \A X : WillAgree(q, d, X, s) => WillAgree(q, d, X, t)
    BY <1>1 DEF WillAgree
<1> QED BY <1>1, <1>2 DEF Settles

\* A phone is created, or given a status by an administrator.
LEMMA StatusStep ==
    ASSUME RInv, UNCHANGED <<rental, stage, cached, request, calls, overlapped>>,
           device' \in [Devices -> [status : DeviceStatuses, open : BOOLEAN]],
           tainted \subseteq tainted', tainted' \subseteq Devices,
           \A d \in Devices \ tainted' : (device[d].status = "Rented") <=> (device'[d].status = "Rented")
    PROVE  RInv'
<1>1. TypesFit' /\ RowsBorn' /\ NewestFits(rental', overlapped')
    BY DEF RInv, TypesFit, RowsBorn
<1>2. RequestsFit'
    <2> SUFFICES ASSUME NEW r \in Requests, request[r] # Idle
                 PROVE  RequestFits(request[r], rental, overlapped, stage, tainted')
        BY DEF RequestsFit
    <2>1. RequestFits(request[r], rental, overlapped, stage, tainted)
        BY DEF RInv, RequestsFit
    <2>2. \A e : Names(e, request[r].devices, rental, tainted) => Names(e, request[r].devices, rental, tainted')
        BY DEF Names
    <2> QED BY <2>1, <2>2 DEF RequestFits
<1>3. RequestsApart'
    <2>1. \A r, q \in Requests : Disjoint(request[r], request[q], overlapped, tainted)
                                    => Disjoint(request[r], request[q], overlapped, tainted')
        BY DEF Disjoint
    <2> QED BY <2>1 DEF RInv, RequestsApart
<1>4. ASSUME NEW d \in Devices \ tainted'
      PROVE  DeviceFits(d)'
    <2>1. DeviceFits(d) /\ ((device[d].status = "Rented") <=> (device'[d].status = "Rented"))
        BY DEF RInv
    <2>2. \A X : Agree(X, device[d].status) => Agree(X, device'[d].status)
        BY <2>1, SameStatus
    <2>3. \A r \in Requests : Settles(request[r], d, rental, device[d].status)
                                => Settles(request[r], d, rental, device'[d].status)
        BY <2>1, SameStatus
    <2> QED BY <2>1, <2>2, <2>3 DEF DeviceFits
<1> QED BY <1>1, <1>2, <1>3, <1>4 DEF RInv

LEMMA CreateDeviceStep ==
    ASSUME RInv, NEW d \in Devices, CreateDevice(d)
    PROVE  RInv'
<1>1. /\ device[d].status = "absent"
      /\ device' = [device EXCEPT ![d] = [status |-> "Available", open |-> TRUE]]
      /\ UNCHANGED <<rental, stage, cached, request, calls, overlapped, tainted>>
    BY DEF CreateDevice
<1>2. device \in [Devices -> [status : DeviceStatuses, open : BOOLEAN]] /\ tainted \subseteq Devices
    BY DEF RInv, TypesFit
<1>3. /\ device' \in [Devices -> [status : DeviceStatuses, open : BOOLEAN]]
      /\ \A x \in Devices : (device[x].status = "Rented") <=> (device'[x].status = "Rented")
    BY <1>1, <1>2 DEF DeviceStatuses
<1> QED BY <1>1, <1>2, <1>3, StatusStep

LEMMA UpdateDeviceStep ==
    ASSUME RInv, NEW d \in Devices, NEW s \in DeviceStatuses, UpdateDevice(d, s)
    PROVE  RInv'
<1>1. /\ device' = [device EXCEPT ![d] = [status |-> s, open |-> s = "Available"]]
      /\ tainted' = IF (device[d].status = "Rented") # (s = "Rented") THEN tainted \cup {d} ELSE tainted
      /\ UNCHANGED <<rental, stage, cached, request, calls, overlapped>>
    BY DEF UpdateDevice
<1>2. device \in [Devices -> [status : DeviceStatuses, open : BOOLEAN]] /\ tainted \subseteq Devices
    BY DEF RInv, TypesFit
<1> DEFINE row == [status |-> s, open |-> s = "Available"]
<1>3. row \in [status : DeviceStatuses, open : BOOLEAN] /\ row.status = s
    OBVIOUS
<1> HIDE DEF row
<1>4. device' = [device EXCEPT ![d] = row]
    BY <1>1 DEF row
<1>5. /\ device' \in [Devices -> [status : DeviceStatuses, open : BOOLEAN]]
      /\ device'[d].status = s /\ \A x \in Devices \ {d} : device'[x] = device[x]
    BY <1>2, <1>3, <1>4
<1>6. /\ tainted \subseteq tainted' /\ tainted' \subseteq Devices
      /\ d \notin tainted' => ((device[d].status = "Rented") <=> (s = "Rented"))
    BY <1>1, <1>2
<1>7. \A x \in Devices \ tainted' : (device[x].status = "Rented") <=> (device'[x].status = "Rented")
    BY <1>5, <1>6
<1> QED BY <1>1, <1>5, <1>6, <1>7, StatusStep

(***************************************************************************)
(* The invariant.                                                          *)
(***************************************************************************)
LEMMA InitKeeps == RentalInit => RInv
<1> SUFFICES ASSUME RentalInit PROVE RInv
    OBVIOUS
<1>1. TypesFit
    BY MaxCallsAssumption DEF RentalInit, TypesFit, DeviceStatuses, Stages
<1>2. RowsBorn /\ NewestFits(rental, overlapped) /\ \A d : Out(rental, d) = {}
    BY DEF RentalInit, RowsBorn, NewestFits, Actives, Rows, Out
<1>3. \A r \in Requests : request[r] = Idle
    BY DEF RentalInit
<1>4. Idle.devices = {} /\ ~Creating(Idle)
    BY DEF Idle, Creating, TodoPlaces
<1>5. RequestsFit /\ RequestsApart
    BY <1>3, <1>4 DEF RequestsFit, RequestsApart, Disjoint
<1>6. \A d \in Devices : DeviceFits(d)
    BY <1>2, <1>3, <1>4 DEF RentalInit, DeviceFits, Agree
<1> QED BY <1>1, <1>2, <1>5, <1>6 DEF RInv

LEMMA NextKeeps == RInv /\ [RentalNext]_rentalVars => RInv'
<1> SUFFICES ASSUME RInv, [RentalNext]_rentalVars PROVE RInv'
    OBVIOUS
<1>1. ASSUME UNCHANGED rentalVars PROVE RInv'
    BY <1>1 DEF rentalVars, RInv, TypesFit, RowsBorn, RequestsFit, RequestsApart, DeviceFits
<1>2. ASSUME NEW d \in Devices, CacheExpires(d) PROVE RInv'
    <2>1. cached' \subseteq Devices /\ UNCHANGED <<device, rental, stage, request, calls, overlapped, tainted>>
        BY <1>2 DEF CacheExpires, RInv, TypesFit
    <2> QED BY <2>1 DEF RInv, TypesFit, RowsBorn, RequestsFit, RequestsApart, DeviceFits
<1>3. ASSUME NEW r \in Requests,
             \/ InsertRental(r) \/ WriteRental(r) \/ WriteDevice(r)
             \/ CommitOrder(r) \/ CommitStatus(r) \/ AbortRental(r)
      PROVE  RInv'
    BY <1>3, InsertRentalStep, WriteRentalStep, WriteDeviceStep, CommitOrderStep, CommitStatusStep,
       AbortRentalStep
<1>4. ASSUME NEW d \in Devices, \/ RetireDevice(d) \/ \E s \in Overrides : UpdateDevice(d, s)
      PROVE  RInv'
    BY <1>4, UpdateDeviceStep, OverridesAssumption DEF RetireDevice, DeviceStatuses
<1>5. CASE RentalNext
    BY <1>2, <1>3, <1>4, <1>5, CreateRentalStep, UpdateRentalStep, CancelRentalStep, ExchangePhoneStep,
       RemoveRentalStep, CreateOrderStep, CreateOrderWithoutPhoneStep, ChangeStatusStep, CreateDeviceStep
       DEF RentalNext
<1> QED BY <1>1, <1>5

LEMMA RentalInvariant == RentalSpec => []RInv
BY InitKeeps, NextKeeps, PTL DEF RentalSpec

LEMMA RentalTyped == RInv => RentalTypeOK
    BY RentalsAre DEF RInv, TypesFit, RowsBorn, RentalTypeOK, AnyDevice

(***************************************************************************)
(* Theorems.                                                               *)
(***************************************************************************)
\* Types: a rental is of an order that was created, with a phone or none.
THEOREM TypeCorrect == RentalSpec => []RentalTypeOK
<1> QED BY RentalTyped, RentalInvariant, PTL

\* update of a rental looks for the newest of the order: where no two requests
\* worked on the order at the same time, that is the active one, if any is.
THEOREM ActiveIsNewestHolds == RentalSpec => []ActiveIsNewest
<1>1. RInv => ActiveIsNewest
    BY DEF RInv, NewestFits, ActiveIsNewest, Actives, Rows, ActiveOf, RowsOf
<1> QED BY <1>1, RentalInvariant, PTL

\* A phone in nobody's hand is marked rented exactly if one active rental has
\* it, although no handler of a rental opens a transaction.
THEOREM DeviceFollowsRentalHolds == RentalSpec => []DeviceFollowsRental
<1>1. ASSUME NEW X, Single(X) PROVE Cardinality(X) = 1
    BY <1>1, FS_Singleton DEF Single
<1>2. RInv => DeviceFollowsRental
    BY <1>1 DEF RInv, DeviceFits, DeviceFollowsRental, Out, Agree
<1> QED BY <1>2, RentalInvariant, PTL

\* The status of a rental that was returned or cancelled changes no more, but
\* for its removal, although what update writes was computed from an older row.
THEOREM ClosedStaysClosedHolds == RentalSpec => ClosedStaysClosed
<1> DEFINE Closed == \A i \in DOMAIN rental :
                rental[i].status \in Terminal /\ rental[i].order \notin overlapped
                => rental'[i].status \in {rental[i].status, "removed"}
<1>1. ASSUME RInv, [RentalNext]_rentalVars PROVE [Closed]_rental
    <2> SUFFICES ASSUME rental' # rental, NEW i \in DOMAIN rental,
                        rental[i].status \in Terminal, rental[i].order \notin overlapped
                 PROVE  rental'[i].status \in {rental[i].status, "removed"}
        OBVIOUS
    <2>1. rental \in Seq(Row)
        BY <1>1 DEF RInv, TypesFit
    <2>2. \/ \E r \in Requests : InsertRental(r) \/ WriteRental(r) \/ CommitOrder(r)
          \/ \E r \in Requests, j \in DOMAIN rental : RemoveRental(r, j)
        BY <1>1 DEF RentalNext, rentalVars, WriteDevice, CommitStatus, AbortRental, CreateRental, UpdateRental,
           CancelRental, ExchangePhone, CreateOrder, CreateOrderWithoutPhone, ChangeStatus, CreateDevice,
           UpdateDevice, RetireDevice, CacheExpires
    <2>3. CASE \E r \in Requests : InsertRental(r) \/ CommitOrder(r)
        <3>1. \E x : rental' = Append(rental, x)
            BY <2>3 DEF InsertRental, CommitOrder
        <3>2. rental'[i] = rental[i]
            BY <2>1, <3>1
        <3> QED BY <3>2
    <2>4. CASE \E r \in Requests, j \in DOMAIN rental : RemoveRental(r, j)
        <3>1. PICK j \in DOMAIN rental :
                rental' = [rental EXCEPT ![j].status = "removed", ![j].device = NoDevice]
            BY <2>4 DEF RemoveRental
        <3>2. rental'[i].status = IF i = j THEN "removed" ELSE rental[i].status
            BY <2>1, <3>1 DEF Row
        <3> QED BY <3>2
    <2>5. ASSUME NEW r \in Requests, WriteRental(r)
          PROVE  rental'[i].status = rental[i].status
        <3> DEFINE e == Next1(r)
        <3>1. /\ Busy(r) /\ Advance(r) /\ e.op = "row"
              /\ rental' = IF rental[e.row].status = "removed" THEN rental
                           ELSE [rental EXCEPT ![e.row].status = e.status, ![e.row].device = e.device]
            BY <2>5 DEF WriteRental
        <3>2. EntryFits(e, request[r].order, rental, overlapped, stage)
            BY <1>1, <3>1, NextEntry
        <3>3. RentalRowFits(e, request[r].order, rental, overlapped)
            BY <3>1, <3>2 DEF EntryFits
        <3> HIDE DEF e
        <3>4. i = e.row => e.status = rental[i].status
            BY <3>3 DEF RentalRowFits
        <3> QED BY <2>1, <3>1, <3>4 DEF Row
    <2> QED BY <2>2, <2>3, <2>4, <2>5
<1>2. ClosedStaysClosed <=> [][Closed]_rental
    BY DEF ClosedStaysClosed
<1> HIDE DEF Closed
<1> QED BY <1>1, <1>2, RentalInvariant, PTL DEF RentalSpec
-----------------------------------------------------------------------------
(***************************************************************************)
(* The cached list of orders.                                              *)
(***************************************************************************)
TicketRow == [place : Places \cup {Away}, changed : 0 .. MaxTouches]
ListedRow == [id : Tickets, as : [place : asked.queried, changed : 0 .. MaxTouches]]
Total == 0 .. Cardinality(Tickets)

AtRestHere == [step : {"rest"}]
Querying == [step : {"querying"}, left : SUBSET {"rows", "total"}, rows : SUBSET ListedRow,
             total : Total, overtaken : BOOLEAN]
Begun == [step : {"begun"}, id : Tickets, from : Places \cup {Away},
          to : Places \cup {Away, "same"}, locks : BOOLEAN]
MoverCommitted == [step : {"committed"}, prefixes : SUBSET Places]

MoversBusy == {h \in Movers : mover[h].step = "begun"}

\* What requests and handlers have in hand; what was changed on an order and
\* what still may be has its bound.
ListingTyped ==
    /\ asked.first \in Places
    /\ ticket \in [Tickets -> TicketRow]
    /\ may \in [Places -> {"none", "row", "view"}]
    /\ kept \in [rows : SUBSET ListedRow, total : Total, kept : BOOLEAN]
    /\ viewer \in [Viewers -> AtRestHere \cup Querying]
    /\ mover \in [Movers -> AtRestHere \cup Begun \cup MoverCommitted]
    /\ steps \in 0 .. MaxTouches
    /\ doubtful \in BOOLEAN
    /\ \A o \in Tickets : ticket[o].changed + Cardinality(MoversBusy) <= steps

\* A handler that committed has still to flush the list.
Owed == \E h \in Movers : mover[h].step = "committed" /\ asked.first \in mover[h].prefixes

\* What a request has read, unless overtaken, and what is kept, unless doubtful
\* or about to be flushed, is what the queries return.
Knows(reading) ==
    reading.step = "querying" /\ ~reading.overtaken =>
        /\ "rows" \notin reading.left => reading.rows = RowsNow
        /\ "total" \notin reading.left => reading.total = Cardinality(Listed)

ViewersKnow == \A v \in Viewers : Knows(viewer[v])

KeptIsKnown ==
    kept.kept /\ ~doubtful => Owed \/ (kept.rows = RowsNow /\ kept.total = Cardinality(Listed))

ListingInv == ListingTyped /\ ViewersKnow /\ KeptIsKnown

LEMMA ListedFits ==
    ASSUME ListingTyped
    PROVE  RowsNow \subseteq ListedRow /\ Cardinality(Listed) \in Total
<1>1. Listed \subseteq Tickets
  BY DEF Listed
<1>2. Cardinality(Listed) \in Total
  BY <1>1, FiniteAssumption, FS_Subset, FS_CardinalityType DEF Total
<1>3. ASSUME NEW o \in Listed
      PROVE  [id |-> o, as |-> ticket[o]] \in ListedRow
  BY DEF Listed, ListingTyped, TicketRow, ListedRow
<1> QED
  BY <1>2, <1>3 DEF RowsNow

\* The queries return the same while nothing they read changes.
LEMMA SameQueries ==
    ASSUME ticket' = ticket, may' = may, SameList
    PROVE  RowsNow' = RowsNow /\ Listed' = Listed
<1>1. Listed' = Listed
  BY DEF Listed, Found, MayView, SameList
<1> QED
  BY <1>1 DEF RowsNow

LEMMA SameSets ==
    ASSUME SameList
    PROVE  ListedRow' = ListedRow /\ Querying' = Querying
  BY DEF SameList, ListedRow, Querying

\* Handlers that are at work are finitely many.
LEMMA BusyFits ==
    ASSUME NEW mv, NEW S, S = {h \in Movers : mv[h].step = "begun"}
    PROVE  IsFiniteSet(S) /\ Cardinality(S) \in Nat
  BY FiniteAssumption, FS_Subset, FS_CardinalityType

-----------------------------------------------------------------------------
LEMMA ListingInitInv == ListingInit => ListingInv
<1> SUFFICES ASSUME ListingInit PROVE ListingInv
  OBVIOUS
<1>1. asked.first \in Places
  <2>1. PICK q \in Searches : asked \in ListRequests(q)
    BY DEF ListingInit
  <2>2. ASSUME NEW b \in Visible, asked = OneBranch(b)
        PROVE  asked.first \in Places
    BY <2>2, PlacesAssumption DEF OneBranch
  <2>3. ASSUME NEW b \in Visible, asked = SeveralBranches(<<b>>, q)
        PROVE  asked.first \in Places
    <3>1. Head(<<b>>) = b
      OBVIOUS
    <3> QED
      BY <2>3, <3>1, PlacesAssumption DEF SeveralBranches
  <2>4. ASSUME NEW b \in Visible, NEW c \in Visible, asked = SeveralBranches(<<b, c>>, q)
        PROVE  asked.first \in Places
    <3>1. Head(<<b, c>>) = b
      OBVIOUS
    <3> QED
      BY <2>4, <3>1, PlacesAssumption DEF SeveralBranches
  <2>5. \A pair \in Visible \X Visible : \E b, c \in Visible : pair = <<b, c>>
    OBVIOUS
  <2>6. \/ \E b \in Visible : asked = OneBranch(b)
        \/ \E b \in Visible : asked = SeveralBranches(<<b>>, q)
        \/ \E pair \in Visible \X Visible : asked = SeveralBranches(pair, q)
    BY <2>1 DEF ListRequests
  <2>7. \/ \E b \in Visible : asked = OneBranch(b)
        \/ \E b \in Visible : asked = SeveralBranches(<<b>>, q)
        \/ \E b, c \in Visible : asked = SeveralBranches(<<b, c>>, q)
    BY <2>5, <2>6, Zenon
  <2> QED
    BY <2>2, <2>3, <2>4, <2>7
<1>2. MoversBusy = {}
  BY DEF ListingInit, MoversBusy
<1>3. Cardinality(MoversBusy) = 0 /\ Cardinality(Tickets) \in Nat
  BY <1>2, FS_EmptySet, FiniteAssumption, FS_CardinalityType
<1>4. ticket \in [Tickets -> TicketRow] /\ \A o \in Tickets : ticket[o].changed = 0
  BY PlacesAssumption DEF ListingInit, TicketRow
<1>5. kept \in [rows : SUBSET ListedRow, total : Total, kept : BOOLEAN]
  BY <1>3 DEF ListingInit, NoList, Total
<1>6. viewer \in [Viewers -> AtRestHere] /\ mover \in [Movers -> AtRestHere]
  BY DEF ListingInit, AtRestHere
<1>7. ListingTyped
  <2>1. viewer \in [Viewers -> AtRestHere \cup Querying]
        /\ mover \in [Movers -> AtRestHere \cup Begun \cup MoverCommitted]
    BY <1>6
  <2>2. may \in [Places -> {"none", "row", "view"}] /\ steps = 0 /\ doubtful = FALSE
    BY DEF ListingInit
  <2>3. \A o \in Tickets : ticket[o].changed + Cardinality(MoversBusy) <= steps
    BY <1>3, <1>4, <2>2
  <2>4. steps \in 0 .. MaxTouches
    BY <2>2, PlacesAssumption
  <2>5. doubtful \in BOOLEAN
    BY <2>2, Zenon
  <2> QED
    BY <1>1, <1>4, <1>5, <2>1, <2>2, <2>3, <2>4, <2>5, Zenon DEF ListingTyped
<1>8. ViewersKnow /\ KeptIsKnown
  BY DEF ListingInit, ViewersKnow, Knows, KeptIsKnown, NoList
<1> QED
  BY <1>7, <1>8 DEF ListingInv

-----------------------------------------------------------------------------
(***************************************************************************)
(* Requests for the list.                                                  *)
(***************************************************************************)
LEMMA SameMovers ==
    ASSUME Unmoved, SameList
    PROVE  MoversBusy' = MoversBusy /\ Owed' = Owed
  BY DEF Unmoved, SameList, MoversBusy, Owed

LEMMA KnowsStill ==
    ASSUME NEW reading, RowsNow' = RowsNow, Listed' = Listed
    PROVE  Knows(reading)' <=> Knows(reading)
  BY DEF Knows

\* A request goes on with something it knows.
LEMMA ViewerStep ==
    ASSUME ListingInv, NEW v \in Viewers, NEW reading \in AtRestHere \cup Querying,
           Knows(reading), viewer' = [viewer EXCEPT ![v] = reading],
           Unmoved, SameList
    PROVE  /\ viewer' \in [Viewers -> AtRestHere \cup Querying]
           /\ ViewersKnow'
<1>1. RowsNow' = RowsNow /\ Listed' = Listed
  BY SameQueries DEF Unmoved
<1>2. viewer' \in [Viewers -> AtRestHere \cup Querying]
  BY DEF ListingInv, ListingTyped
<1>3. ASSUME NEW w \in Viewers
      PROVE  Knows(viewer'[w])
  BY DEF ListingInv, ListingTyped, ViewersKnow
<1>4. ASSUME NEW w \in Viewers
      PROVE  Knows(viewer[w])'
  BY <1>1, <1>3 DEF Knows
<1> QED
  BY <1>2, <1>4 DEF ViewersKnow

\* What is kept, and the handlers, are as they were.
LEMMA ViewerKeeps ==
    ASSUME ListingInv, NEW v \in Viewers, NEW reading \in AtRestHere \cup Querying,
           Knows(reading), viewer' = [viewer EXCEPT ![v] = reading],
           UNCHANGED <<kept, doubtful>>, Unmoved, SameList
    PROVE  ListingInv'
<1>1. viewer' \in [Viewers -> AtRestHere \cup Querying] /\ ViewersKnow'
  BY ViewerStep
<1>2. MoversBusy' = MoversBusy /\ Owed' = Owed
  BY SameMovers
<1>3. RowsNow' = RowsNow /\ Listed' = Listed
  BY SameQueries DEF Unmoved
<1>4. ListedRow' = ListedRow /\ Querying' = Querying
  BY SameSets
<1>5. ListingTyped'
  BY <1>1, <1>2, <1>4 DEF ListingInv, ListingTyped, Unmoved, SameList
<1>6. KeptIsKnown'
  BY <1>2, <1>3 DEF ListingInv, KeptIsKnown
<1> QED
  BY <1>1, <1>5, <1>6 DEF ListingInv

LEMMA FindAllStep ==
    ASSUME ListingInv, NEW v \in Viewers, FindAll(v)
    PROVE  ListingInv'
<1> DEFINE reading == [step |-> "querying", left |-> {"rows", "total"}, rows |-> {}, total |-> 0,
                       overtaken |-> FALSE]
<1>1. reading \in Querying
  BY FiniteAssumption, FS_CardinalityType DEF Querying, Total
<1>2. Knows(reading)
  BY DEF Knows
<1>3. viewer' = [viewer EXCEPT ![v] = reading]
  BY DEF FindAll
<1> HIDE DEF reading
<1> QED
  BY <1>1, <1>2, <1>3, ViewerKeeps DEF FindAll

LEMMA QueryRowsStep ==
    ASSUME ListingInv, NEW v \in Viewers, QueryRows(v)
    PROVE  ListingInv'
<1> DEFINE reading == [viewer[v] EXCEPT !.rows = RowsNow, !.left = @ \ {"rows"}]
<1>1. viewer[v] \in Querying /\ Knows(viewer[v])
  BY DEF QueryRows, ListingInv, ListingTyped, ViewersKnow, AtRestHere
<1>2. RowsNow \in SUBSET ListedRow
  BY ListedFits DEF ListingInv
<1>3. /\ reading \in Querying
      /\ reading.rows = RowsNow /\ reading.left = viewer[v].left \ {"rows"}
      /\ reading.total = viewer[v].total /\ reading.overtaken = viewer[v].overtaken
      /\ reading.step = viewer[v].step
  BY <1>1, <1>2 DEF Querying
<1>4. viewer' = [viewer EXCEPT ![v] = reading]
  BY <1>1 DEF QueryRows, ListingInv, ListingTyped, Querying
<1> HIDE DEF reading
<1>5. Knows(reading)
  BY <1>1, <1>3 DEF Knows
<1> QED
  BY <1>3, <1>4, <1>5, ViewerKeeps DEF QueryRows

LEMMA QueryTotalStep ==
    ASSUME ListingInv, NEW v \in Viewers, QueryTotal(v)
    PROVE  ListingInv'
<1> DEFINE reading == [viewer[v] EXCEPT !.total = Cardinality(Listed), !.left = @ \ {"total"}]
<1>1. viewer[v] \in Querying /\ Knows(viewer[v])
  BY DEF QueryTotal, ListingInv, ListingTyped, ViewersKnow, AtRestHere
<1>2. Cardinality(Listed) \in Total
  BY ListedFits DEF ListingInv
<1>3. /\ reading \in Querying
      /\ reading.total = Cardinality(Listed) /\ reading.left = viewer[v].left \ {"total"}
      /\ reading.rows = viewer[v].rows /\ reading.overtaken = viewer[v].overtaken
      /\ reading.step = viewer[v].step
  BY <1>1, <1>2 DEF Querying
<1>4. viewer' = [viewer EXCEPT ![v] = reading]
  BY <1>1 DEF QueryTotal, ListingInv, ListingTyped, Querying
<1> HIDE DEF reading
<1>5. Knows(reading)
  BY <1>1, <1>3 DEF Knows
<1> QED
  BY <1>3, <1>4, <1>5, ViewerKeeps DEF QueryTotal

\* What becomes kept is what was read, and doubtful if that was overtaken.
LEMMA StoreListStep ==
    ASSUME ListingInv, NEW v \in Viewers, StoreList(v)
    PROVE  ListingInv'
<1> DEFINE resting == [step |-> "rest"]
<1>1. viewer[v] \in Querying /\ Knows(viewer[v])
  BY DEF StoreList, ListingInv, ListingTyped, ViewersKnow, AtRestHere
<1>2. resting \in AtRestHere /\ Knows(resting)
  BY DEF AtRestHere, Knows
<1>3. viewer' = [viewer EXCEPT ![v] = resting]
  BY DEF StoreList
<1> HIDE DEF resting
<1>4. viewer' \in [Viewers -> AtRestHere \cup Querying] /\ ViewersKnow'
  BY <1>2, <1>3, ViewerStep DEF StoreList
<1>5. MoversBusy' = MoversBusy /\ Owed' = Owed
  BY SameMovers DEF StoreList
<1>6. RowsNow' = RowsNow /\ Listed' = Listed
  BY SameQueries DEF StoreList, Unmoved
<1>7. ListedRow' = ListedRow /\ Querying' = Querying
  BY SameSets DEF StoreList
<1>8. kept' \in [rows : SUBSET ListedRow, total : Total, kept : BOOLEAN] /\ doubtful' \in BOOLEAN
  BY <1>1 DEF StoreList, Querying
<1>9. ListingTyped'
  BY <1>4, <1>5, <1>7, <1>8 DEF ListingInv, ListingTyped, StoreList, Unmoved, SameList
<1>10. KeptIsKnown'
  BY <1>1, <1>6 DEF StoreList, KeptIsKnown, Knows
<1> QED
  BY <1>4, <1>9, <1>10 DEF ListingInv

LEMMA ExpireStep ==
    ASSUME ListingInv, Expire
    PROVE  ListingInv'
<1>1. MoversBusy' = MoversBusy /\ Owed' = Owed
  BY SameMovers DEF Expire
<1>2. RowsNow' = RowsNow /\ Listed' = Listed
  BY SameQueries DEF Expire, Unmoved
<1>3. ListedRow' = ListedRow /\ Querying' = Querying
  BY SameSets DEF Expire
<1>4. kept' \in [rows : SUBSET ListedRow, total : Total, kept : BOOLEAN]
  BY FiniteAssumption, FS_CardinalityType DEF Expire, NoList, Total
<1>5. ListingTyped'
  BY <1>1, <1>3, <1>4 DEF ListingInv, ListingTyped, Expire, Unmoved, SameList
<1>6. ViewersKnow'
  BY <1>2 DEF ListingInv, ViewersKnow, Knows, Expire
<1> QED
  BY <1>5, <1>6 DEF ListingInv, KeptIsKnown, Expire, NoList

-----------------------------------------------------------------------------
(***************************************************************************)
(* Handlers.                                                               *)
(***************************************************************************)
\* Who knows keeps knowing while no row changes.
LEMMA ViewersKnowStill ==
    ASSUME ListingInv, UNCHANGED <<viewer, ticket, may>>, SameList
    PROVE  /\ RowsNow' = RowsNow /\ Listed' = Listed /\ ViewersKnow'
           /\ ListedRow' = ListedRow /\ Querying' = Querying
<1>1. RowsNow' = RowsNow /\ Listed' = Listed
  BY SameQueries
<1> QED
  BY <1>1, SameSets DEF ListingInv, ViewersKnow, Knows

\* A handler goes from one thing to another.
LEMMA HandlerGoesTo ==
    ASSUME ListingInv, NEW h \in Movers, NEW work \in AtRestHere \cup Begun \cup MoverCommitted,
           mover' = [mover EXCEPT ![h] = work]
    PROVE  /\ mover' \in [Movers -> AtRestHere \cup Begun \cup MoverCommitted]
           /\ MoversBusy' = IF work.step = "begun" THEN MoversBusy \cup {h} ELSE MoversBusy \ {h}
           /\ IsFiniteSet(MoversBusy) /\ Cardinality(MoversBusy) \in Nat
           /\ Cardinality(MoversBusy') = Cardinality(MoversBusy)
                + (IF work.step = "begun" THEN IF h \in MoversBusy THEN 0 ELSE 1
                                          ELSE IF h \in MoversBusy THEN -1 ELSE 0)
<1>1. mover' \in [Movers -> AtRestHere \cup Begun \cup MoverCommitted]
  BY DEF ListingInv, ListingTyped
<1>2. MoversBusy' = IF work.step = "begun" THEN MoversBusy \cup {h} ELSE MoversBusy \ {h}
  BY DEF ListingInv, ListingTyped, MoversBusy
<1>3. IsFiniteSet(MoversBusy) /\ Cardinality(MoversBusy) \in Nat
  BY BusyFits DEF MoversBusy
<1>4. /\ Cardinality(MoversBusy \cup {h}) = Cardinality(MoversBusy) + (IF h \in MoversBusy THEN 0 ELSE 1)
      /\ Cardinality(MoversBusy \ {h}) = Cardinality(MoversBusy) + (IF h \in MoversBusy THEN -1 ELSE 0)
  <2>1. CASE h \in MoversBusy
    <3>1. MoversBusy \cup {h} = MoversBusy
      BY <2>1
    <3>2. Cardinality(MoversBusy \ {h}) = Cardinality(MoversBusy) - 1
      BY <1>3, <2>1, FS_RemoveElement, Zenon
    <3>3. Cardinality(MoversBusy \cup {h}) = Cardinality(MoversBusy)
      BY <3>1, Zenon
    <3> QED
      BY <1>3, <2>1, <3>2, <3>3
  <2>2. CASE h \notin MoversBusy
    <3>1. MoversBusy \ {h} = MoversBusy
      BY <2>2
    <3>2. Cardinality(MoversBusy \cup {h}) = Cardinality(MoversBusy) + 1
      BY <1>3, <2>2, FS_AddElement, Zenon
    <3> QED
      BY <1>3, <2>2, <3>1, <3>2
  <2> QED
    BY <2>1, <2>2
<1>5. Cardinality(MoversBusy') = Cardinality(MoversBusy)
                + (IF work.step = "begun" THEN IF h \in MoversBusy THEN 0 ELSE 1
                                          ELSE IF h \in MoversBusy THEN -1 ELSE 0)
  BY <1>2, <1>4
<1> QED
  BY <1>1, <1>2, <1>3, <1>5

LEMMA BeginsStep ==
    ASSUME ListingInv, NEW h \in Movers, NEW work \in Begun, Begins(h, work)
    PROVE  ListingInv'
<1>1. work.step = "begun" /\ h \notin MoversBusy /\ mover[h].step # "committed"
  BY DEF Begun, Begins, MoversBusy
<1>2. /\ mover' \in [Movers -> AtRestHere \cup Begun \cup MoverCommitted]
      /\ Cardinality(MoversBusy) \in Nat /\ Cardinality(MoversBusy') = Cardinality(MoversBusy) + 1
  BY <1>1, HandlerGoesTo DEF Begins
<1>3. /\ RowsNow' = RowsNow /\ Listed' = Listed /\ ViewersKnow'
      /\ ListedRow' = ListedRow /\ Querying' = Querying
  BY ViewersKnowStill DEF Begins
<1>4. steps' \in 0 .. MaxTouches
  BY PlacesAssumption DEF Begins, ListingInv, ListingTyped
<1>5. ASSUME NEW o \in Tickets
      PROVE  ticket'[o].changed + Cardinality(MoversBusy') <= steps'
  BY <1>2, PlacesAssumption DEF Begins, ListingInv, ListingTyped, TicketRow
<1>6. ListingTyped'
  BY <1>2, <1>3, <1>4, <1>5 DEF ListingInv, ListingTyped, Begins, SameList
<1>7. Owed' = Owed
  BY <1>1, <1>2 DEF Owed, Begins, SameList, ListingInv, ListingTyped
<1>8. KeptIsKnown'
  BY <1>3, <1>7 DEF ListingInv, KeptIsKnown, Begins
<1> QED
  BY <1>3, <1>6, <1>8 DEF ListingInv

\* A handler that had not committed, or all of whose prefixes are others, is done.
LEMMA AbandonHandlerStep ==
    ASSUME ListingInv, NEW h \in Movers, AbandonHandler(h)
    PROVE  ListingInv'
<1> DEFINE resting == [step |-> "rest"]
<1>1. resting \in AtRestHere /\ resting.step # "begun" /\ h \in MoversBusy
  BY DEF AtRestHere, AbandonHandler, MoversBusy
<1>2. mover' = [mover EXCEPT ![h] = resting]
  BY DEF AbandonHandler
<1> HIDE DEF resting
<1>3. /\ mover' \in [Movers -> AtRestHere \cup Begun \cup MoverCommitted]
      /\ Cardinality(MoversBusy) \in Nat /\ Cardinality(MoversBusy') = Cardinality(MoversBusy) - 1
  BY <1>1, <1>2, HandlerGoesTo
<1>4. /\ RowsNow' = RowsNow /\ Listed' = Listed /\ ViewersKnow'
      /\ ListedRow' = ListedRow /\ Querying' = Querying
  BY ViewersKnowStill DEF AbandonHandler
<1>5. ASSUME NEW o \in Tickets
      PROVE  ticket'[o].changed + Cardinality(MoversBusy') <= steps'
  BY <1>3, PlacesAssumption DEF AbandonHandler, ListingInv, ListingTyped, TicketRow
<1>6. ListingTyped'
  BY <1>3, <1>4, <1>5 DEF ListingInv, ListingTyped, AbandonHandler, SameList
<1>7. Owed' = Owed
  BY <1>3 DEF Owed, AbandonHandler, SameList, ListingInv, ListingTyped
<1>8. KeptIsKnown'
  BY <1>4, <1>7 DEF ListingInv, KeptIsKnown, AbandonHandler
<1> QED
  BY <1>4, <1>6, <1>8 DEF ListingInv

LEMMA FlushLostStep ==
    ASSUME ListingInv, NEW h \in Movers, FlushLost(h)
    PROVE  ListingInv'
<1> DEFINE resting == [step |-> "rest"]
<1>1. resting \in AtRestHere /\ resting.step # "begun" /\ h \notin MoversBusy
  BY DEF AtRestHere, FlushLost, MoversBusy
<1>2. mover' = [mover EXCEPT ![h] = resting]
  BY DEF FlushLost
<1> HIDE DEF resting
<1>3. /\ mover' \in [Movers -> AtRestHere \cup Begun \cup MoverCommitted]
      /\ Cardinality(MoversBusy) \in Nat /\ Cardinality(MoversBusy') = Cardinality(MoversBusy)
  BY <1>1, <1>2, HandlerGoesTo
<1>4. /\ RowsNow' = RowsNow /\ Listed' = Listed /\ ViewersKnow'
      /\ ListedRow' = ListedRow /\ Querying' = Querying
  BY ViewersKnowStill DEF FlushLost
<1>5. ListingTyped'
  BY <1>3, <1>4 DEF ListingInv, ListingTyped, FlushLost, SameList
<1>6. ~doubtful' /\ Owed => Owed'
  BY <1>3 DEF Owed, FlushLost, SameList, ListingInv, ListingTyped
<1>7. KeptIsKnown'
  BY <1>4, <1>6 DEF ListingInv, ListingTyped, KeptIsKnown, FlushLost
<1> QED
  BY <1>4, <1>5, <1>7 DEF ListingInv

LEMMA FlushByPrefixStep ==
    ASSUME ListingInv, NEW h \in Movers, NEW b \in Places, FlushByPrefix(h, b)
    PROVE  ListingInv'
<1> DEFINE left == mover[h].prefixes \ {b}
           work == IF left = {} THEN [step |-> "rest"]
                   ELSE [step |-> "committed", prefixes |-> left]
<1>1. mover[h] \in MoverCommitted /\ h \notin MoversBusy
  BY DEF FlushByPrefix, ListingInv, ListingTyped, AtRestHere, Begun, MoversBusy
<1>2. work \in AtRestHere \cup MoverCommitted /\ work.step # "begun"
  BY <1>1 DEF AtRestHere, MoverCommitted
<1>3. mover' = [mover EXCEPT ![h] = work]
  BY DEF FlushByPrefix, Flushed
<1>4. \A p \in mover[h].prefixes \ {b} : work.step = "committed" /\ p \in work.prefixes
  BY <1>1 DEF MoverCommitted
<1> HIDE DEF work
<1>5. /\ mover' \in [Movers -> AtRestHere \cup Begun \cup MoverCommitted]
      /\ Cardinality(MoversBusy) \in Nat /\ Cardinality(MoversBusy') = Cardinality(MoversBusy)
  <2>1. work \in AtRestHere \cup Begun \cup MoverCommitted
    BY <1>2
  <2> QED
    BY <1>1, <1>2, <1>3, <2>1, HandlerGoesTo
<1>6. /\ RowsNow' = RowsNow /\ Listed' = Listed /\ ViewersKnow'
      /\ ListedRow' = ListedRow /\ Querying' = Querying
  BY ViewersKnowStill DEF FlushByPrefix
<1>7. kept' \in [rows : SUBSET ListedRow, total : Total, kept : BOOLEAN] /\ doubtful' \in BOOLEAN
  <2>1. NoList \in [rows : SUBSET ListedRow, total : Total, kept : BOOLEAN]
    BY FiniteAssumption, FS_CardinalityType DEF NoList, Total
  <2> QED
    BY <2>1 DEF FlushByPrefix, ListingInv, ListingTyped
<1>8. ListingTyped'
  BY <1>5, <1>6, <1>7 DEF ListingInv, ListingTyped, FlushByPrefix, SameList
<1>9. CASE b = asked.first
  BY <1>6, <1>8, <1>9 DEF ListingInv, KeptIsKnown, FlushByPrefix, NoList
<1>10. CASE b # asked.first
  <2>1. Owed => Owed'
    BY <1>3, <1>4, <1>5, <1>10 DEF Owed, FlushByPrefix, SameList, ListingInv, ListingTyped
  <2>2. KeptIsKnown'
    BY <1>6, <1>10, <2>1 DEF ListingInv, KeptIsKnown, FlushByPrefix
  <2> QED
    BY <1>6, <1>8, <2>2 DEF ListingInv
<1> QED
  BY <1>9, <1>10

\* Whoever had read something is overtaken.
LEMMA Overtaking ==
    ASSUME ListingInv, viewer' = Overtake, SameList
    PROVE  viewer' \in [Viewers -> AtRestHere \cup Querying] /\ ViewersKnow'
<1>1. ASSUME NEW v \in Viewers
      PROVE  /\ viewer'[v] \in AtRestHere \cup Querying
             /\ viewer'[v].step = "querying" => viewer'[v].overtaken
  <2>1. viewer[v] \in AtRestHere \cup Querying
    BY DEF ListingInv, ListingTyped
  <2>2. CASE viewer[v].step = "rest"
    BY <2>1, <2>2 DEF Overtake, AtRestHere, Querying
  <2>3. CASE viewer[v].step # "rest"
    <3>1. viewer[v] \in Querying
      BY <2>1, <2>3 DEF AtRestHere
    <3>2. viewer'[v] = [viewer[v] EXCEPT !.overtaken = TRUE]
      BY <2>3 DEF Overtake
    <3> QED
      BY <3>1, <3>2 DEF Querying
  <2> QED
    BY <2>2, <2>3
<1>2. viewer' \in [Viewers -> AtRestHere \cup Querying]
  BY <1>1 DEF Overtake
<1> QED
  BY <1>1, <1>2 DEF ViewersKnow, Knows

\* An order that is in none of the branches queried, and goes to none of them,
\* is not in the list.
LEMMA ElsewhereIsNotListed ==
    ASSUME ListingInv, SameList, may' = may, NEW o \in Tickets, NEW row,
           ticket' = [ticket EXCEPT ![o] = row],
           ticket[o].place \notin asked.queried, row.place \notin asked.queried
    PROVE  Listed' = Listed /\ RowsNow' = RowsNow
<1>1. ASSUME NEW x \in Tickets, x # o
      PROVE  ticket'[x] = ticket[x]
  BY <1>1 DEF ListingInv, ListingTyped
<1>2. ticket'[o] = row
  BY DEF ListingInv, ListingTyped
<1>3. Listed' = Listed
  BY <1>1, <1>2 DEF Listed, Found, MayView, SameList
<1>4. o \notin Listed
  BY DEF Listed
<1> QED
  BY <1>1, <1>3, <1>4 DEF RowsNow, Listed

\* The branch the list begins with is flushed if the handler knew of it.
LEMMA ConcernedIsFlushed ==
    ASSUME ListingInv, NEW work \in Begun, Concerned(work)
    PROVE  asked.first \in FlushedPrefixes(work)
  BY NamesAssumption DEF ListingInv, ListingTyped, Begun, Concerned, FlushedPrefixes, Away

LEMMA PrefixesAreBranches ==
    ASSUME NEW work \in Begun
    PROVE  FlushedPrefixes(work) \in SUBSET Places
  BY DEF Begun, FlushedPrefixes, Away

LEMMA CommitHandlerStep ==
    ASSUME ListingInv, NEW h \in Movers, CommitHandler(h)
    PROVE  ListingInv'
<1> DEFINE work == mover[h]
           was == ticket[work.id]
           goes == IF work.to = "same" THEN was.place ELSE work.to
           row == [place |-> goes, changed |-> was.changed + 1]
           done == [step |-> "committed", prefixes |-> FlushedPrefixes(work)]
<1>1. work \in Begun /\ h \in MoversBusy /\ work.id \in Tickets
  BY DEF CommitHandler, ListingInv, ListingTyped, AtRestHere, MoverCommitted, MoversBusy, Begun
<1>2. /\ ticket' = [ticket EXCEPT ![work.id] = row]
      /\ mover' = [mover EXCEPT ![h] = done]
      /\ doubtful' = (\/ doubtful \/ was.place # work.from
                      \/ ~Concerned(work) /\ {was.place, goes} \cap asked.queried # {})
      /\ viewer' = Overtake
      /\ UNCHANGED <<may, kept, steps>> /\ SameList
  BY DEF CommitHandler
<1>3. done \in MoverCommitted /\ done.step = "committed"
  BY <1>1, PrefixesAreBranches DEF MoverCommitted
<1>4. /\ mover' \in [Movers -> AtRestHere \cup Begun \cup MoverCommitted]
      /\ Cardinality(MoversBusy) \in Nat /\ Cardinality(MoversBusy') = Cardinality(MoversBusy) - 1
      /\ mover'[h] = done
  BY <1>1, <1>2, <1>3, HandlerGoesTo DEF ListingInv, ListingTyped
<1>5. was \in TicketRow /\ was.changed + Cardinality(MoversBusy) <= steps /\ steps \in 0 .. MaxTouches
  BY <1>1 DEF ListingInv, ListingTyped
<1>6. goes \in Places \cup {Away}
  BY <1>1, <1>5 DEF Begun, TicketRow
<1>7. Cardinality(MoversBusy) >= 1
  BY <1>1, FS_EmptySet, BusyFits DEF MoversBusy
<1>8. row \in TicketRow /\ row.changed + Cardinality(MoversBusy') <= steps
  BY <1>4, <1>5, <1>6, <1>7, PlacesAssumption DEF TicketRow
<1>9. ticket' \in [Tickets -> TicketRow]
  BY <1>1, <1>2, <1>8 DEF ListingInv, ListingTyped
<1>10. ASSUME NEW o \in Tickets
       PROVE  ticket'[o].changed + Cardinality(MoversBusy') <= steps'
  BY <1>2, <1>4, <1>8, PlacesAssumption DEF ListingInv, ListingTyped, TicketRow
<1>11. viewer' \in [Viewers -> AtRestHere \cup Querying] /\ ViewersKnow'
  BY <1>2, Overtaking
<1>12. ListedRow' = ListedRow /\ Querying' = Querying
  BY <1>2, SameSets
<1>13. doubtful' \in BOOLEAN
  BY <1>2
<1>14. ListingTyped'
  BY <1>2, <1>4, <1>9, <1>10, <1>11, <1>12, <1>13 DEF ListingInv, ListingTyped, SameList
<1>15. CASE doubtful'
  BY <1>11, <1>14, <1>15 DEF ListingInv, KeptIsKnown
<1>16. CASE ~doubtful' /\ Concerned(work)
  <2>1. asked.first \in done.prefixes
    BY <1>1, <1>16, ConcernedIsFlushed
  <2>2. Owed'
    BY <1>2, <1>4, <2>1 DEF Owed, SameList
  <2> QED
    BY <1>11, <1>14, <2>2 DEF ListingInv, KeptIsKnown
<1>17. CASE ~doubtful' /\ ~Concerned(work)
  <2>1. was.place \notin asked.queried /\ row.place \notin asked.queried /\ ~doubtful
    BY <1>2, <1>17
  <2>2. Listed' = Listed /\ RowsNow' = RowsNow
    BY <1>1, <1>2, <2>1, ElsewhereIsNotListed
  <2>3. Owed => Owed'
    BY <1>1, <1>2, <1>4 DEF Owed, SameList, Begun, ListingInv, ListingTyped
  <2>4. KeptIsKnown'
    BY <1>2, <2>1, <2>2, <2>3 DEF ListingInv, KeptIsKnown
  <2> QED
    BY <1>11, <1>14, <2>4 DEF ListingInv
<1> QED
  BY <1>15, <1>16, <1>17

LEMMA ChangeUnflushedStep ==
    ASSUME ListingInv, ChangeUnflushed
    PROVE  ListingInv'
<1>1. viewer' \in [Viewers -> AtRestHere \cup Querying] /\ ViewersKnow'
  BY Overtaking DEF ChangeUnflushed
<1>2. ListedRow' = ListedRow /\ Querying' = Querying
  BY SameSets DEF ChangeUnflushed
<1>3. MoversBusy' = MoversBusy /\ IsFiniteSet(MoversBusy) /\ Cardinality(MoversBusy) \in Nat
  BY BusyFits DEF ChangeUnflushed, MoversBusy
<1>4. steps' = steps + 1 /\ steps' \in 0 .. MaxTouches
  BY PlacesAssumption DEF ChangeUnflushed, ListingInv, ListingTyped
<1>5. /\ ticket' \in [Tickets -> TicketRow]
      /\ \A o \in Tickets : ticket'[o].changed + Cardinality(MoversBusy) <= steps'
      /\ may' \in [Places -> {"none", "row", "view"}]
  <2>1. CASE \E o \in Tickets : ticket' = [ticket EXCEPT ![o].changed = @ + 1] /\ UNCHANGED may
    <3>1. PICK o \in Tickets : ticket' = [ticket EXCEPT ![o].changed = @ + 1] /\ UNCHANGED may
      BY <2>1
    <3>2. ticket[o] \in TicketRow /\ ticket[o].changed + Cardinality(MoversBusy) <= steps
      BY DEF ListingInv, ListingTyped
    <3>3. /\ ticket'[o] = [ticket[o] EXCEPT !.changed = @ + 1]
          /\ \A x \in Tickets : x # o => ticket'[x] = ticket[x]
      BY <3>1 DEF ListingInv, ListingTyped
    <3>4. ticket'[o] \in TicketRow /\ ticket'[o].changed = ticket[o].changed + 1
      <4> DEFINE was == ticket[o]
      <4>1. was.place \in Places \cup {Away} /\ was.changed \in Nat
        BY <3>2 DEF TicketRow
      <4>2. was.changed + 1 \in 0 .. MaxTouches
        BY <1>3, <1>4, <3>2, <4>1, PlacesAssumption DEF ListingInv, ListingTyped
      <4>3. [was EXCEPT !.changed = @ + 1] = [place |-> was.place, changed |-> was.changed + 1]
        BY <3>2 DEF TicketRow
      <4> QED
        BY <3>3, <4>1, <4>2, <4>3 DEF TicketRow
    <3>5. ASSUME NEW x \in Tickets
          PROVE  ticket'[x] \in TicketRow /\ ticket'[x].changed + Cardinality(MoversBusy) <= steps'
      BY <1>3, <1>4, <3>2, <3>3, <3>4, PlacesAssumption DEF ListingInv, ListingTyped, TicketRow
    <3>6. ticket' \in [Tickets -> TicketRow]
      BY <3>1, <3>5 DEF ListingInv, ListingTyped
    <3> QED
      BY <3>1, <3>5, <3>6 DEF ListingInv, ListingTyped
  <2>2. CASE \E b \in Places, grant \in {"none", "row", "view"} :
                may' = [may EXCEPT ![b] = grant] /\ UNCHANGED ticket
    BY <1>3, <1>4, <2>2, PlacesAssumption DEF ListingInv, ListingTyped, TicketRow
  <2> QED
    BY <2>1, <2>2 DEF ChangeUnflushed
<1>6. ListingTyped'
  BY <1>1, <1>2, <1>3, <1>4, <1>5 DEF ListingInv, ListingTyped, ChangeUnflushed, SameList
<1> QED
  BY <1>1, <1>6 DEF ListingInv, KeptIsKnown, ChangeUnflushed

\* What handlers set out to do.
LEMMA HandlersBegin ==
    ASSUME ListingInv, NEW h \in Movers, NEW o \in Tickets,
           \/ ChangeTicket(h, o)
           \/ DeleteTicket(h, o)
           \/ RestoreTicket(h, o)
           \/ \E to \in Places :
               \/ TransferTicket(h, o, to)
               \/ CreateTicket(h, o, to)
               \/ TakeTicket(h, o, to)
    PROVE  ListingInv'
<1>1. ticket[o].place \in Places \cup {Away}
  BY DEF ListingInv, ListingTyped, TicketRow
<1>2. Home \in Places
  BY DEF Places
<1>3. \A from \in Places \cup {Away}, to \in Places \cup {Away, "same"}, locks \in BOOLEAN :
        Work(o, from, to, locks) \in Begun
  BY DEF Work, Begun
<1>4. PICK work \in Begun : Begins(h, work)
  BY <1>1, <1>2, <1>3 DEF ChangeTicket, DeleteTicket, RestoreTicket, TransferTicket,
                          CreateTicket, TakeTicket, BeginHandler
<1> QED
  BY <1>4, BeginsStep

LEMMA ListingNextInv == ListingInv /\ ListingNext => ListingInv'
<1> SUFFICES ASSUME ListingInv, ListingNext PROVE ListingInv'
  OBVIOUS
<1>1. ASSUME NEW v \in Viewers, FindAll(v) \/ QueryRows(v) \/ QueryTotal(v) \/ StoreList(v)
      PROVE  ListingInv'
  BY <1>1, FindAllStep, QueryRowsStep, QueryTotalStep, StoreListStep
<1>2. ASSUME NEW h \in Movers,
             \/ CommitHandler(h)
             \/ \E b \in Places : FlushByPrefix(h, b)
             \/ FlushLost(h)
             \/ AbandonHandler(h)
      PROVE  ListingInv'
  BY <1>2, CommitHandlerStep, FlushByPrefixStep, FlushLostStep, AbandonHandlerStep
<1> QED
  BY <1>1, <1>2, ExpireStep, ChangeUnflushedStep, HandlersBegin DEF ListingNext

LEMMA ListingStutters == ListingInv /\ UNCHANGED listingVars => ListingInv'
<1> SUFFICES ASSUME ListingInv, UNCHANGED listingVars PROVE ListingInv'
  OBVIOUS
<1>1. /\ UNCHANGED <<viewer, ticket, may, kept, mover, steps, doubtful>> /\ SameList /\ Unmoved
  BY DEF listingVars, SameList, Unmoved
<1>2. /\ RowsNow' = RowsNow /\ Listed' = Listed /\ ViewersKnow'
      /\ ListedRow' = ListedRow /\ Querying' = Querying
  BY <1>1, ViewersKnowStill
<1>3. MoversBusy' = MoversBusy /\ Owed' = Owed
  BY <1>1, SameMovers
<1>4. ListingTyped'
  BY <1>1, <1>2, <1>3 DEF ListingInv, ListingTyped, SameList
<1>5. KeptIsKnown'
  BY <1>1, <1>2, <1>3 DEF ListingInv, KeptIsKnown
<1> QED
  BY <1>2, <1>4, <1>5 DEF ListingInv

LEMMA ListingInvariant == ListingSpec => []ListingInv
<1>1. ListingInv /\ [ListingNext]_listingVars => ListingInv'
  BY ListingNextInv, ListingStutters
<1> QED
  BY <1>1, ListingInitInv, PTL DEF ListingSpec

LEMMA ListingTells == ListingInv => ListingTypeOK
  BY DEF ListingInv, ListingTyped, ListingTypeOK, TicketRow, ListedRow, Total

\* The list in redis has orders that were in the branches queried, once each.
THEOREM ListingTypeCorrect == ListingSpec => []ListingTypeOK
<1> QED
  BY ListingTells, ListingInvariant, PTL

\* Nobody who searches loses an order by taking it.
LEMMA SearchesSurvive == SearchSurvivesTake
<1> SUFFICES ASSUME NEW q \in Searches, NEW l \in Likes, NEW b \in Sites, Matches(q, l, Home)
             PROVE  Matches(q, l, b) \/ (q = "short" /\ l[2] = "word")
  BY DEF SearchSurvivesTake
<1>1. b # Home
  BY PlacesAssumption
<1>2. CASE q = "no"
  BY <1>2 DEF Matches
<1>3. CASE q # "no"
  <2>1. l \in ExactClauses(q)
    BY <1>3 DEF Matches
  <2>2. l \in PartialClauses(q) \/ (q = "short" /\ l[2] = "word")
    BY <2>1 DEF ExactClauses, PartialClauses, Wherever
  <2> QED
    BY <1>1, <2>2 DEF Matches
<1> QED
  BY <1>2, <1>3

LEMMA OrderListsTell == ListingInv => OrderListsTrue
<1>1. ListingInv => ListIsFresh
  BY DEF ListingInv, KeptIsKnown, ListIsFresh, Owed
<1> QED
  BY <1>1, SearchesSurvive DEF OrderListsTrue

\* Once handlers have flushed, the cached list is what the query returns, but for
\* the races and changes the model names; and a search that finds an order in
\* Mother still finds it when a branch took it.
THEOREM OrderListsTrueHolds == ListingSpec => []OrderListsTrue
  BY OrderListsTell, ListingInvariant, PTL


-----------------------------------------------------------------------------
(***************************************************************************)
(* Offers and warranty documents, and the PDF of the active one.           *)
(***************************************************************************)
Version == [1 .. 3 -> Nat]
Document == [version : Version, text : Texts, active : BOOLEAN, status : {"Open", "Deleted"}, at : Nat]
PdfText == Texts \cup {NoText}

\* What a request has in hand.
Steps == {"rest", "begin", "deactivate", "write", "send", "commit", "upload"}
DraftRecord ==
    [step : Steps, job : {"none", "create", "activate", "get"}, text : PdfText, version : Version,
     target : Nat, at : Nat, seen : SUBSET Nat, alone : BOOLEAN]

DraftFits(d) ==
    /\ d.step = "rest" => d = NoDraft
    /\ d.step # "rest" => d.text \in Texts /\ d.job # "none"
    /\ d.job = "activate" => table = "warranty" /\ d.target \in DocumentRows /\ documents[d.target].text = d.text
    /\ d.job = "get" => d.step = "upload"
    /\ d.step = "send" => table = "offers"
    /\ d.step = "upload" /\ d.job # "get" => table = "warranty"

DocumentsTyped ==
    /\ table \in {"offers", "warranty"}
    /\ documents \in Seq(Document)
    /\ pdf \in PdfText
    /\ author \in [Authors -> DraftRecord]
    /\ drafts \in 0 .. MaxDrafts /\ clock \in Nat
    /\ unsettled \in BOOLEAN
    /\ \A w \in Authors : DraftFits(author[w])

\* Who has written a row that is not committed.
Decided(w) == author[w].step \in {"send", "commit"}

\* Its version is nobody else's; of warranty documents there is one writer, who
\* puts all active ones to rest.
WritersApart ==
    /\ \A i, j \in DocumentRows : documents[i].version = documents[j].version => i = j
    /\ \A w \in Authors : Decided(w) /\ author[w].job = "create" =>
        \A i \in DocumentRows : documents[i].version # author[w].version
    /\ \A w, x \in Authors : w # x /\ Decided(w) /\ Decided(x) =>
        table = "offers" /\ author[w].version # author[x].version
    /\ table = "warranty" =>
        /\ \A i, j \in ActiveOpen : i = j
        /\ \A w \in Authors : author[w].step = "commit" => ActiveOpen \subseteq author[w].seen

\* Who has published what is not yet committed, or the reverse.
Unsure(w) ==
    \/ author[w].step = "commit" /\ table = "offers"
    \/ author[w].step = "upload" /\ author[w].job # "get"

ActiveHas(text) == \A i \in ActiveOpen : documents[i].text = text

\* One that is alone knows all the rows, and what its PDF is to have.
AloneFits(w) ==
    author[w].alone /\ author[w] # NoDraft =>
        /\ \A x \in Authors : author[x] # NoDraft => x = w
        /\ author[w].step \in {"deactivate", "write", "send", "commit"} => author[w].seen = DocumentRows
        /\ author[w].step = "commit" /\ table = "offers" => pdf = author[w].text
        /\ author[w].step = "upload" /\ (author[w].job = "get" => ~unsettled) => ActiveHas(author[w].text)

Published ==
    /\ \A i, j \in ActiveOpen : i = j
    /\ \A i \in ActiveOpen : pdf \in {NoText, documents[i].text}

PublishedInv ==
    /\ DocumentsTyped /\ WritersApart
    /\ \A w \in Authors : AloneFits(w)
    /\ ~unsettled /\ (\A w \in Authors : ~Unsure(w)) => Published

\* Who is still to begin its transaction.
Beginning == {w \in Authors : author[w].step = "begin"}
ClockInv == PublishedInv /\ clock + Cardinality(Beginning) <= drafts

\* What another's step leaves of a request.
SameWork(x) ==
    /\ author'[x].step = author[x].step /\ author'[x].job = author[x].job
    /\ author'[x].text = author[x].text /\ author'[x].version = author[x].version
    /\ author'[x].target = author[x].target /\ author'[x].seen = author[x].seen
    /\ author'[x] = NoDraft <=> author[x] = NoDraft

LEMMA KindOfDraft ==
    ASSUME DocumentsTyped, NEW w \in Authors
    PROVE  /\ author[w] \in DraftRecord /\ DraftFits(author[w])
           /\ author[w].step = "rest" <=> author[w] = NoDraft
BY DEF DocumentsTyped, DraftFits, NoDraft

LEMMA NoDraftIsOne == NoDraft \in DraftRecord /\ FirstVersion \in Version
<1>1. FirstVersion \in Version
  BY DEF FirstVersion, Version
<1> QED
  BY <1>1 DEF NoDraft, DraftRecord, Steps, PdfText

LEMMA DocumentsAre ==
    ASSUME DocumentsTyped
    PROVE  /\ Len(documents) \in Nat /\ DocumentRows = 1 .. Len(documents) /\ DocumentRows \subseteq Nat
           /\ \A i \in DocumentRows : documents[i] \in Document
BY DEF DocumentsTyped, DocumentRows

LEMMA MoveShape ==
    ASSUME DocumentsTyped, NEW w \in Authors, NEW d \in DraftRecord, MoveOn(w, d)
    PROVE  /\ author'[w] = d /\ table' = table /\ drafts' = drafts
           /\ \A x \in Authors : x # w => author'[x] = author[x] /\ SameWork(x)
           /\ author' \in [Authors -> DraftRecord]
BY DEF DocumentsTyped, MoveOn, SameWork

LEMMA DraftShape ==
    ASSUME DocumentsTyped, NEW w \in Authors, NEW d \in DraftRecord, d.step # "rest", Draft(w, d)
    PROVE  /\ author[w] = NoDraft
           /\ author' \in [Authors -> DraftRecord] /\ author'[w] # NoDraft
           /\ author'[w].step = d.step /\ author'[w].job = d.job /\ author'[w].text = d.text
           /\ author'[w].target = d.target
           /\ author'[w].alone <=> Writing = {}
           /\ \A x \in Authors : x # w => SameWork(x) /\ (author[x] # NoDraft => ~author'[x].alone)
           /\ UNCHANGED <<table, documents, pdf, clock, unsettled>>
           /\ drafts < MaxDrafts /\ drafts' = drafts + 1
<1>1. PICK apart \in BOOLEAN :
        /\ apart <=> Writing = {}
        /\ author' = [x \in Authors |->
            CASE x = w -> [d EXCEPT !.alone = apart]
              [] x \in Writing -> [author[x] EXCEPT !.alone = FALSE]
              [] OTHER -> author[x]]
  <2>1. (Writing = {}) \in BOOLEAN
    OBVIOUS
  <2> QED
    BY <2>1, Zenon DEF Draft
<1>3. author[w] = NoDraft /\ w \notin Writing
  BY DEF Draft, Writing
<1>4. UNCHANGED <<table, documents, pdf, clock, unsettled>> /\ drafts < MaxDrafts /\ drafts' = drafts + 1
  BY DEF Draft
<1>5. author \in [Authors -> DraftRecord]
  BY DEF DocumentsTyped
<1>6. author'[w] = [d EXCEPT !.alone = apart]
  BY <1>1, <1>3
<1>7. /\ author'[w] \in DraftRecord /\ author'[w] # NoDraft
      /\ author'[w].step = d.step /\ author'[w].job = d.job /\ author'[w].text = d.text
      /\ author'[w].target = d.target /\ author'[w].alone = apart
  <2>1. /\ author'[w] \in DraftRecord /\ author'[w].step = d.step
        /\ author'[w].job = d.job /\ author'[w].text = d.text
        /\ author'[w].target = d.target /\ author'[w].alone = apart
    <3>1. CASE apart = TRUE
      <4>1. author'[w] = [d EXCEPT !.alone = TRUE]
        BY <1>6, <3>1
      <4> QED
        BY <4>1, <3>1 DEF DraftRecord
    <3>2. CASE apart = FALSE
      <4>1. author'[w] = [d EXCEPT !.alone = FALSE]
        BY <1>6, <3>2
      <4> QED
        BY <4>1, <3>2 DEF DraftRecord
    <3> QED
      BY <3>1, <3>2
  <2>2. author'[w] # NoDraft
    BY <2>1 DEF NoDraft
  <2> QED
    BY <2>1, <2>2
<1>8. ASSUME NEW x \in Authors, x # w, x \in Writing
      PROVE  author'[x] \in DraftRecord /\ SameWork(x) /\ ~author'[x].alone
  <2>1. author'[x] = [author[x] EXCEPT !.alone = FALSE]
    BY <1>1, <1>3, <1>8
  <2>2. author[x] \in DraftRecord /\ author[x].step # "rest"
    BY <1>5, <1>8, KindOfDraft DEF Writing
  <2>3. /\ author'[x] \in DraftRecord /\ ~author'[x].alone
        /\ author'[x].step = author[x].step /\ author'[x].job = author[x].job
        /\ author'[x].text = author[x].text /\ author'[x].version = author[x].version
        /\ author'[x].target = author[x].target /\ author'[x].seen = author[x].seen
    BY <2>1, <2>2 DEF DraftRecord
  <2>4. author'[x] # NoDraft /\ author[x] # NoDraft
    BY <2>2, <2>3 DEF NoDraft
  <2> QED
    BY <2>3, <2>4 DEF SameWork
<1>9. ASSUME NEW x \in Authors, x # w, x \notin Writing
      PROVE  author'[x] = NoDraft /\ SameWork(x) /\ author[x] = NoDraft
  <2>1. author'[x] = author[x]
    BY <1>1, <1>9
  <2> QED
    BY <2>1, <1>9 DEF SameWork, Writing
<1>10. author' \in [Authors -> DraftRecord]
  <2>1. \A x \in Authors : author'[x] \in DraftRecord
    BY <1>7, <1>8, <1>9, NoDraftIsOne
  <2>2. DOMAIN author' = Authors /\ author' = [x \in Authors |-> author'[x]]
    BY <1>1
  <2> QED
    BY <2>1, <2>2
<1> QED
  BY <1>1, <1>3, <1>4, <1>7, <1>8, <1>9, <1>10

LEMMA RowReplaced ==
    ASSUME NEW s \in Seq(Document), NEW i \in 1 .. Len(s), NEW e \in Document,
           NEW t, t = [s EXCEPT ![i] = e]
    PROVE  /\ t \in Seq(Document) /\ Len(t) = Len(s) /\ t[i] = e
           /\ \A j \in 1 .. Len(s) : j # i => t[j] = s[j]
<1>1. t \in [1 .. Len(s) -> Document] /\ Len(s) \in Nat
  OBVIOUS
<1>2. t \in Seq(Document) /\ Len(t) = Len(s)
  BY <1>1
<1> QED
  BY <1>2

LEMMA RestedRows ==
    ASSUME DocumentsTyped, NEW seen \in SUBSET Nat
    PROVE  /\ Rested(seen) \in Seq(Document) /\ Len(Rested(seen)) = Len(documents)
           /\ DOMAIN Rested(seen) = 1 .. Len(documents)
           /\ \A i \in DocumentRows :
                /\ Rested(seen)[i].version = documents[i].version
                /\ Rested(seen)[i].text = documents[i].text
                /\ Rested(seen)[i].status = documents[i].status
                /\ i \in seen => ~Rested(seen)[i].active
                /\ i \notin seen => Rested(seen)[i] = documents[i]
<1>1. \A i \in DocumentRows :
        /\ Rested(seen)[i] = IF i \in seen THEN [documents[i] EXCEPT !.active = FALSE] ELSE documents[i]
        /\ documents[i] \in Document
  BY DocumentsAre DEF Rested
<1>2. ASSUME NEW i \in DocumentRows
      PROVE  /\ Rested(seen)[i] \in Document
             /\ Rested(seen)[i].version = documents[i].version
             /\ Rested(seen)[i].text = documents[i].text
             /\ Rested(seen)[i].status = documents[i].status
             /\ i \in seen => ~Rested(seen)[i].active
             /\ i \notin seen => Rested(seen)[i] = documents[i]
  <2>1. CASE i \in seen
    BY <1>1, <2>1 DEF Document
  <2>2. CASE i \notin seen
    BY <1>1, <2>2
  <2> QED
    BY <2>1, <2>2
<1>3. Rested(seen) \in [1 .. Len(documents) -> Document] /\ Len(documents) \in Nat
  <2>1. Rested(seen) = [i \in 1 .. Len(documents) |-> Rested(seen)[i]]
    BY DocumentsAre DEF Rested
  <2> QED
    BY <2>1, <1>2, DocumentsAre
<1>4. Rested(seen) \in Seq(Document) /\ Len(Rested(seen)) = Len(documents)
  BY <1>3
<1> QED
  BY <1>2, <1>3, <1>4

\* Who commits leaves one row active, which has its text, and those it did not see.
LEMMA CommitShape ==
    ASSUME DocumentsTyped, NEW w \in Authors, author[w].step = "commit",
           documents' = Committed(author[w])
    PROVE  /\ documents' \in Seq(Document)
           /\ DocumentRows \subseteq DocumentRows'
           /\ \A i \in DocumentRows : /\ documents'[i].version = documents[i].version
                              /\ documents'[i].text = documents[i].text
           /\ \A i, j \in DocumentRows' \ DocumentRows : i = j
           /\ \A i \in DocumentRows' \ DocumentRows : author[w].job = "create" /\ documents'[i].version = author[w].version
           /\ \E n \in DocumentRows' :
                /\ documents'[n].text = author[w].text
                /\ \A i \in ActiveOpen' : i = n \/ (i \in ActiveOpen /\ i \notin author[w].seen)
<1> DEFINE rested == Rested(author[w].seen)
           new == [version |-> author[w].version, text |-> author[w].text, active |-> TRUE,
                   status |-> "Open", at |-> author[w].at]
<1>1. /\ author[w] \in DraftRecord /\ author[w].text \in Texts /\ author[w].seen \in SUBSET Nat
      /\ author[w].job \in {"create", "activate"}
      /\ author[w].job = "activate" =>
            author[w].target \in DocumentRows /\ documents[author[w].target].text = author[w].text
  BY KindOfDraft DEF DraftRecord, DraftFits
<1>2. /\ rested \in Seq(Document) /\ Len(rested) = Len(documents)
      /\ DOMAIN rested = 1 .. Len(documents)
      /\ \A i \in DocumentRows :
            /\ rested[i].version = documents[i].version
            /\ rested[i].text = documents[i].text
            /\ rested[i].status = documents[i].status
            /\ i \in author[w].seen => ~rested[i].active
            /\ i \notin author[w].seen => rested[i] = documents[i]
  BY <1>1, RestedRows
<1>3. DocumentRows = 1 .. Len(documents) /\ Len(documents) \in Nat
  BY DocumentsAre
<1>4. CASE author[w].job = "create"
  <2>1. documents' = Append(rested, new)
    BY <1>4 DEF Committed
  <2>2. new \in Document
    BY <1>1 DEF Document, DraftRecord
  <2> HIDE DEF rested
  <2>3. /\ documents' \in Seq(Document) /\ Len(documents') = Len(documents) + 1
        /\ documents'[Len(documents) + 1] = new
        /\ \A i \in 1 .. Len(documents) : documents'[i] = rested[i]
    BY <1>2, <1>3, <2>1, <2>2
  <2>4. DocumentRows' = DocumentRows \cup {Len(documents) + 1} /\ DocumentRows' \ DocumentRows = {Len(documents) + 1}
    <3>1. DocumentRows' = 1 .. Len(documents) + 1
      BY <1>3, <2>3 DEF DocumentRows
    <3>2. 1 .. Len(documents) + 1 = (1 .. Len(documents)) \cup {Len(documents) + 1}
      BY <1>3
    <3>3. Len(documents) + 1 \notin 1 .. Len(documents)
      BY <1>3
    <3> QED
      BY <1>3, <3>1, <3>2, <3>3
  <2>5. \A i \in ActiveOpen' : i = Len(documents) + 1 \/ (i \in ActiveOpen /\ i \notin author[w].seen)
    BY <1>2, <1>3, <2>3, <2>4 DEF ActiveOpen
  <2>6. \A i \in DocumentRows : /\ documents'[i].version = documents[i].version
                        /\ documents'[i].text = documents[i].text
    BY <1>2, <1>3, <2>3
  <2>7. /\ documents'[Len(documents) + 1].text = author[w].text
        /\ documents'[Len(documents) + 1].version = author[w].version
    BY <2>3
  <2> QED
    BY <1>4, <2>3, <2>4, <2>5, <2>6, <2>7
<1>5. CASE author[w].job = "activate"
  <2>1. documents' = [rested EXCEPT ![author[w].target].active = TRUE]
    BY <1>5 DEF Committed
  <2> HIDE DEF rested, new
  <2>2. /\ documents' \in Seq(Document) /\ Len(documents') = Len(documents)
        /\ \A i \in DocumentRows : i # author[w].target => documents'[i] = rested[i]
        /\ documents'[author[w].target] = [rested[author[w].target] EXCEPT !.active = TRUE]
    <3>1. rested[author[w].target] \in Document
      BY <1>1, <1>2, <1>3, <1>5
    <3>2. [rested[author[w].target] EXCEPT !.active = TRUE] \in Document
      BY <3>1 DEF Document
    <3>3. documents' = [rested EXCEPT ![author[w].target] = [rested[author[w].target] EXCEPT !.active = TRUE]]
      BY <2>1
    <3>4. rested \in Seq(Document) /\ author[w].target \in 1 .. Len(rested)
      BY <1>1, <1>2, <1>3, <1>5
    <3>5. /\ documents' \in Seq(Document) /\ Len(documents') = Len(rested)
          /\ documents'[author[w].target] = [rested[author[w].target] EXCEPT !.active = TRUE]
          /\ \A i \in 1 .. Len(rested) : i # author[w].target => documents'[i] = rested[i]
      <4> DEFINE row == [rested[author[w].target] EXCEPT !.active = TRUE]
      <4>1. row \in Document /\ documents' = [rested EXCEPT ![author[w].target] = row]
        BY <3>2, <3>3
      <4> HIDE DEF row
      <4>2. /\ documents' \in Seq(Document) /\ Len(documents') = Len(rested)
            /\ documents'[author[w].target] = row
            /\ \A i \in 1 .. Len(rested) : i # author[w].target => documents'[i] = rested[i]
        BY <3>4, <4>1, RowReplaced
      <4> QED
        BY <4>2 DEF row
    <3> QED
      BY <1>2, <1>3, <3>5
  <2>3. DocumentRows' = DocumentRows
    BY <1>3, <2>2 DEF DocumentRows
  <2>4. /\ documents'[author[w].target].version = rested[author[w].target].version
        /\ documents'[author[w].target].text = rested[author[w].target].text
    <3>1. rested[author[w].target] \in Document
      BY <1>1, <1>2, <1>3, <1>5
    <3> QED
      BY <2>2, <3>1 DEF Document
  <2>5. \A i \in DocumentRows : /\ documents'[i].version = documents[i].version
                        /\ documents'[i].text = documents[i].text
    BY <1>1, <1>2, <1>5, <2>2, <2>4
  <2>6. \A i \in ActiveOpen' : i = author[w].target \/ (i \in ActiveOpen /\ i \notin author[w].seen)
    BY <1>2, <2>2, <2>3 DEF ActiveOpen
  <2> QED
    BY <1>1, <1>5, <2>2, <2>3, <2>5, <2>6
<1> QED
  BY <1>1, <1>4, <1>5

LEMMA RemoveShape ==
    ASSUME DocumentsTyped, NEW r \in DocumentRows, RemoveDocument(r)
    PROVE  /\ documents' \in Seq(Document) /\ DocumentRows' = DocumentRows
           /\ \A i \in DocumentRows : /\ documents'[i].version = documents[i].version
                              /\ documents'[i].text = documents[i].text
           /\ ActiveOpen' \subseteq ActiveOpen
           /\ UNCHANGED <<table, pdf, author, drafts, clock, unsettled>>
<1>1. documents' = [documents EXCEPT ![r] = [documents[r] EXCEPT !.status = "Deleted", !.active = FALSE]]
  BY DEF RemoveDocument
<1>2. /\ [documents[r] EXCEPT !.status = "Deleted", !.active = FALSE] \in Document
      /\ [documents[r] EXCEPT !.status = "Deleted", !.active = FALSE].version = documents[r].version
      /\ [documents[r] EXCEPT !.status = "Deleted", !.active = FALSE].text = documents[r].text
      /\ [documents[r] EXCEPT !.status = "Deleted", !.active = FALSE].status = "Deleted"
  BY DocumentsAre DEF Document
<1>3. /\ documents' \in Seq(Document) /\ Len(documents') = Len(documents)
      /\ \A i \in DocumentRows : i # r => documents'[i] = documents[i]
      /\ documents'[r] = [documents[r] EXCEPT !.status = "Deleted", !.active = FALSE]
  <2>1. documents \in Seq(Document) /\ r \in 1 .. Len(documents)
    BY DocumentsAre DEF DocumentsTyped
  <2>2. /\ documents' \in Seq(Document) /\ Len(documents') = Len(documents)
        /\ documents'[r] = [documents[r] EXCEPT !.status = "Deleted", !.active = FALSE]
        /\ \A i \in 1 .. Len(documents) : i # r => documents'[i] = documents[i]
    <3> DEFINE row == [documents[r] EXCEPT !.status = "Deleted", !.active = FALSE]
    <3>1. row \in Document /\ documents' = [documents EXCEPT ![r] = row]
      BY <1>1, <1>2
    <3> HIDE DEF row
    <3>2. /\ documents' \in Seq(Document) /\ Len(documents') = Len(documents)
          /\ documents'[r] = row
          /\ \A i \in 1 .. Len(documents) : i # r => documents'[i] = documents[i]
      BY <2>1, <3>1, RowReplaced
    <3> QED
      BY <3>2 DEF row
  <2> QED
    BY <2>2, DocumentsAre
<1>4. DocumentRows' = DocumentRows
  BY <1>3, DocumentsAre DEF DocumentRows
<1>5. ActiveOpen' \subseteq ActiveOpen
  BY <1>2, <1>3, <1>4 DEF ActiveOpen
<1>6. UNCHANGED <<table, pdf, author, drafts, clock, unsettled>>
  BY DEF RemoveDocument
<1> QED
  BY <1>2, <1>3, <1>4, <1>5, <1>6

LEMMA PublishedInitInv == DocumentsInit => PublishedInv
<1> SUFFICES ASSUME DocumentsInit PROVE PublishedInv
  OBVIOUS
<1>1. \A w \in Authors : author[w] = NoDraft /\ author[w].step = "rest" /\ author[w].job = "none"
  BY DEF DocumentsInit, NoDraft
<1>2. /\ documents \in Seq(Document)
      /\ \A i, j \in DocumentRows : i = j
      /\ unsettled = FALSE /\ pdf = NoText /\ table \in {"offers", "warranty"}
  <2>1. CASE documents = << >>
    BY <2>1 DEF DocumentsInit, DocumentRows
  <2>2. CASE documents # << >>
    <3>1. PICK t \in Texts : documents = <<[version |-> FirstVersion, text |-> t, active |-> TRUE,
                                            status |-> "Open", at |-> 0]>>
      BY <2>2 DEF DocumentsInit
    <3>2. [version |-> FirstVersion, text |-> t, active |-> TRUE, status |-> "Open", at |-> 0] \in Document
      BY NoDraftIsOne DEF Document
    <3> QED
      BY <3>1, <3>2 DEF DocumentsInit, DocumentRows
  <2> QED
    BY <2>1, <2>2
<1>3. DocumentsTyped
  <2>1. author \in [Authors -> DraftRecord]
    BY NoDraftIsOne DEF DocumentsInit
  <2>2. \A w \in Authors : DraftFits(author[w])
    BY <1>1 DEF DraftFits
  <2>3. drafts \in 0 .. MaxDrafts /\ clock \in Nat
    BY DocumentsAssumption DEF DocumentsInit
  <2> QED
    BY <1>2, <2>1, <2>2, <2>3 DEF DocumentsTyped, PdfText
<1>4. WritersApart
  BY <1>1, <1>2 DEF WritersApart, Decided, ActiveOpen
<1>5. Published
  BY <1>2 DEF Published, ActiveOpen
<1> QED
  BY <1>1, <1>3, <1>4, <1>5 DEF PublishedInv, AloneFits

-----------------------------------------------------------------------------
\* What a step has to leave alone.

LEMMA TypedStays ==
    ASSUME DocumentsTyped, NEW w \in Authors, NEW d \in DraftRecord, MoveOn(w, d), DraftFits(d),
           documents' \in Seq(Document), DocumentRows \subseteq DocumentRows',
           \A i \in DocumentRows : documents'[i].text = documents[i].text,
           pdf' \in PdfText, clock' \in Nat, unsettled' \in BOOLEAN
    PROVE  DocumentsTyped'
<1>1. /\ author'[w] = d /\ table' = table /\ drafts' = drafts
      /\ \A x \in Authors : x # w => author'[x] = author[x]
      /\ author' \in [Authors -> DraftRecord]
  BY MoveShape
<1>2. ASSUME NEW x \in Authors PROVE DraftFits(author[x])
  BY DEF DocumentsTyped
<1>3. ASSUME NEW x \in Authors PROVE DraftFits(author'[x])
  BY <1>1, <1>2
<1>4. ASSUME NEW x \in Authors PROVE DraftFits(author[x])'
  BY <1>1, <1>3 DEF DraftFits
<1> QED
  BY <1>1, <1>4 DEF DocumentsTyped

LEMMA WritersStayApart ==
    ASSUME WritersApart, table' = table, DocumentRows' = DocumentRows,
           \A i \in DocumentRows : documents'[i].version = documents[i].version,
           ActiveOpen' \subseteq ActiveOpen,
           \A x \in Authors : Decided(x)' =>
                /\ Decided(x) /\ author'[x].version = author[x].version
                /\ author'[x].job = author[x].job /\ author'[x].seen = author[x].seen
                /\ table = "warranty" => author'[x].step = author[x].step
    PROVE  WritersApart'
<1>1. ASSUME NEW i \in DocumentRows', NEW j \in DocumentRows', documents'[i].version = documents'[j].version
      PROVE  i = j
  BY <1>1 DEF WritersApart
<1>2. ASSUME NEW w \in Authors, Decided(w)', author'[w].job = "create", NEW i \in DocumentRows'
      PROVE  documents'[i].version # author'[w].version
  BY <1>2 DEF WritersApart
<1>3. ASSUME NEW w \in Authors, NEW x \in Authors, w # x, Decided(w)', Decided(x)'
      PROVE  table' = "offers" /\ author'[w].version # author'[x].version
  BY <1>3 DEF WritersApart
<1>4. ASSUME table' = "warranty"
      PROVE  /\ \A i, j \in ActiveOpen' : i = j
             /\ \A w \in Authors : author'[w].step = "commit" => ActiveOpen' \subseteq author'[w].seen
  <2>1. \A w \in Authors : author'[w].step = "commit" => Decided(w)'
    BY DEF Decided
  <2> QED
    BY <1>4, <2>1 DEF WritersApart
<1> QED
  BY <1>1, <1>2, <1>3, <1>4 DEF WritersApart, Decided

\* A request that is alone and has begun has nobody beside it.
LEMMA AloneStays ==
    ASSUME PublishedInv, NEW w \in Authors, NEW d \in DraftRecord, MoveOn(w, d),
           author[w] # NoDraft, d # NoDraft => d.alone = author[w].alone,
           d # NoDraft /\ d.alone =>
            /\ d.step \in {"deactivate", "write", "send", "commit"} => d.seen = DocumentRows'
            /\ d.step = "commit" /\ table = "offers" => pdf' = d.text
            /\ d.step = "upload" /\ (d.job = "get" => ~unsettled') =>
                (\A i \in ActiveOpen' : documents'[i].text = d.text)
    PROVE  \A x \in Authors : AloneFits(x)'
<1>1. /\ author'[w] = d /\ table' = table
      /\ \A x \in Authors : x # w => author'[x] = author[x]
  BY MoveShape DEF PublishedInv
<1>2. ASSUME NEW x \in Authors, x # w PROVE author'[x] # NoDraft => ~author'[x].alone
  BY <1>1, <1>2 DEF PublishedInv, AloneFits
<1>3. ASSUME d # NoDraft, d.alone, NEW x \in Authors, author'[x] # NoDraft PROVE x = w
  BY <1>1, <1>3 DEF PublishedInv, AloneFits
<1>4. AloneFits(w)'
  <2> SUFFICES ASSUME d # NoDraft, d.alone
               PROVE  AloneFits(w)'
    BY <1>1 DEF AloneFits
  <2>1. author'[w] = d
    BY <1>1
  <2> QED
    BY <1>1, <1>3, <2>1 DEF AloneFits, ActiveHas
<1> QED
  BY <1>2, <1>4 DEF AloneFits

LEMMA PublishedStays ==
    ASSUME ~unsettled /\ (\A w \in Authors : ~Unsure(w)) => Published,
           pdf' = pdf, DocumentRows' = DocumentRows, ActiveOpen' \subseteq ActiveOpen,
           \A i \in DocumentRows : documents'[i].text = documents[i].text,
           unsettled => unsettled',
           \A x \in Authors : Unsure(x) /\ ~unsettled' => Unsure(x)'
    PROVE  ~unsettled' /\ (\A w \in Authors : ~Unsure(w)') => Published'
<1> SUFFICES ASSUME ~unsettled', \A w \in Authors : ~Unsure(w)' PROVE Published'
  OBVIOUS
<1>1. Published
  OBVIOUS
<1>2. \A i \in ActiveOpen : i \in DocumentRows
  BY DEF ActiveOpen
<1> QED
  BY <1>1, <1>2 DEF Published

-----------------------------------------------------------------------------
\* The steps.

LEMMA DraftKeeps ==
    ASSUME PublishedInv, NEW w \in Authors, NEW d \in DraftRecord, Draft(w, d), DraftFits(d),
           d.step \in {"begin", "upload"},
           d.step = "upload" /\ Writing = {} /\ (d.job = "get" => ~unsettled) => ActiveHas(d.text)
    PROVE  PublishedInv'
<1>1. /\ author[w] = NoDraft
      /\ author' \in [Authors -> DraftRecord] /\ author'[w] # NoDraft
      /\ author'[w].step = d.step /\ author'[w].job = d.job /\ author'[w].text = d.text
      /\ author'[w].target = d.target
      /\ author'[w].alone <=> Writing = {}
      /\ \A x \in Authors : x # w => SameWork(x) /\ (author[x] # NoDraft => ~author'[x].alone)
      /\ UNCHANGED <<table, documents, pdf, clock, unsettled>>
      /\ drafts < MaxDrafts /\ drafts' = drafts + 1
  BY DraftShape DEF PublishedInv
<1>2. DocumentsTyped'
  <2>1. ASSUME NEW x \in Authors, x # w PROVE DraftFits(author[x])'
    BY <1>1, <2>1 DEF PublishedInv, DocumentsTyped, DraftFits, SameWork, DocumentRows
  <2>2. DraftFits(author[w])'
    BY <1>1 DEF DraftFits, DocumentRows
  <2>3. drafts' \in 0 .. MaxDrafts
    BY <1>1, DocumentsAssumption DEF PublishedInv, DocumentsTyped
  <2>4. \A x \in Authors : DraftFits(author[x])'
    BY <2>1, <2>2
  <2> QED
    BY <1>1, <2>3, <2>4 DEF PublishedInv, DocumentsTyped
<1>3. DocumentRows' = DocumentRows /\ ActiveOpen' = ActiveOpen
  BY <1>1 DEF DocumentRows, ActiveOpen
<1>4. WritersApart'
  <2>1. ASSUME NEW x \in Authors, Decided(x)'
        PROVE  /\ Decided(x) /\ author'[x].version = author[x].version
               /\ author'[x].job = author[x].job /\ author'[x].seen = author[x].seen
               /\ author'[x].step = author[x].step
    BY <1>1, <2>1 DEF Decided, SameWork
  <2> QED
    BY <1>1, <1>3, <2>1, WritersStayApart DEF PublishedInv
<1>5. ASSUME NEW x \in Authors PROVE AloneFits(x)'
  <2>1. CASE x # w
    <3>1. author'[x] # NoDraft => ~author'[x].alone
      BY <1>1, <2>1 DEF SameWork
    <3> QED
      BY <3>1 DEF AloneFits
  <2>2. CASE x = w
    <3> SUFFICES ASSUME author'[w].alone PROVE AloneFits(w)'
      BY <2>2 DEF AloneFits
    <3>1. Writing = {}
      BY <1>1
    <3>2. \A y \in Authors : author'[y] # NoDraft => y = w
      BY <1>1, <3>1 DEF Writing, SameWork
    <3>3. author'[w].step = "upload" /\ (author'[w].job = "get" => ~unsettled')
          => \A i \in ActiveOpen' : documents'[i].text = author'[w].text
      BY <1>1, <1>3, <3>1 DEF ActiveHas
    <3> QED
      BY <1>1, <3>2, <3>3 DEF AloneFits, ActiveHas
  <2> QED
    BY <2>1, <2>2
<1>6. ~unsettled' /\ (\A x \in Authors : ~Unsure(x)') => Published'
  <2>1. ASSUME NEW x \in Authors, Unsure(x) PROVE Unsure(x)'
    <3>1. x # w
      BY <1>1, <2>1 DEF Unsure, NoDraft
    <3> QED
      BY <1>1, <2>1, <3>1 DEF Unsure, SameWork
  <2> QED
    BY <1>1, <1>3, <2>1, PublishedStays DEF PublishedInv
<1> QED
  BY <1>2, <1>4, <1>5, <1>6 DEF PublishedInv

LEMMA CreateKeeps ==
    ASSUME PublishedInv, NEW w \in Authors, NEW text \in Texts, CreateDocument(w, text)
    PROVE  PublishedInv'
<1>1. PICK version \in IF DocumentRows = {} THEN {FirstVersion}
                       ELSE UNION {smartIncrement(documents[i], text) : i \in NewestOf(DocumentRows)} :
        Draft(w, [NoDraft EXCEPT !.step = "begin", !.job = "create", !.text = text,
                                 !.version = version])
  BY DEF CreateDocument
<1>2. version \in Version
  <2>1. CASE DocumentRows = {}
    BY <1>1, <2>1, NoDraftIsOne
  <2>2. CASE DocumentRows # {}
    <3>1. PICK i \in DocumentRows : version \in smartIncrement(documents[i], text)
      BY <1>1, <2>2 DEF NewestOf
    <3>2. documents[i].version \in Version
      BY DocumentsAre DEF PublishedInv, Document
    <3>3. PICK part \in 1 .. 3 :
            version = [j \in 1 .. 3 |-> CASE j < part -> documents[i].version[j]
                                          [] j = part -> documents[i].version[j] + 1
                                          [] j > part -> 0]
      BY <3>1, DocumentsAssumption DEF smartIncrement
    <3>4. ASSUME NEW j \in 1 .. 3 PROVE version[j] \in Nat
      BY <3>2, <3>3 DEF Version
    <3> QED
      BY <3>3, <3>4 DEF Version
  <2> QED
    BY <2>1, <2>2
<1> DEFINE d == [NoDraft EXCEPT !.step = "begin", !.job = "create", !.text = text, !.version = version]
<1>3. d \in DraftRecord /\ d.step = "begin" /\ d.job = "create" /\ d.text = text
  BY <1>2, NoDraftIsOne DEF NoDraft, DraftRecord, Steps, PdfText
<1>4. Draft(w, d)
  BY <1>1
<1> HIDE DEF d
<1>5. DraftFits(d)
  BY <1>3 DEF DraftFits
<1> QED
  BY <1>3, <1>4, <1>5, DraftKeeps

LEMMA ActivateKeeps ==
    ASSUME PublishedInv, NEW w \in Authors, NEW r \in DocumentRows, Activate(w, r)
    PROVE  PublishedInv'
<1>1. documents[r] \in Document /\ r \in Nat /\ table = "warranty" /\ documents[r].status = "Open"
  BY DocumentsAre DEF PublishedInv, Activate
<1>2. PICK step \in {"begin", "upload"} :
        /\ step = "upload" => documents[r].active
        /\ Draft(w, [NoDraft EXCEPT !.job = "activate", !.target = r, !.text = documents[r].text,
                                    !.step = step])
  BY DEF Activate
<1> DEFINE d == [NoDraft EXCEPT !.job = "activate", !.target = r, !.text = documents[r].text, !.step = step]
<1>3. /\ d \in DraftRecord /\ d.step = step /\ d.job = "activate" /\ d.text = documents[r].text
      /\ d.target = r
  BY <1>1, NoDraftIsOne DEF NoDraft, DraftRecord, Steps, PdfText, Document
<1>4. Draft(w, d)
  BY <1>2
<1> HIDE DEF d
<1>5. DraftFits(d)
  BY <1>1, <1>2, <1>3 DEF DraftFits, Document
<1>6. d.step = "upload" => ActiveHas(d.text)
  BY <1>1, <1>2, <1>3 DEF ActiveHas, ActiveOpen, PublishedInv, WritersApart
<1> QED
  BY <1>2, <1>3, <1>4, <1>5, <1>6, DraftKeeps

LEMMA GetKeeps ==
    ASSUME PublishedInv, NEW w \in Authors, GetPdfUrl(w)
    PROVE  PublishedInv'
<1>1. PICK r \in findActive :
        Draft(w, [NoDraft EXCEPT !.step = "upload", !.job = "get", !.text = documents[r].text])
  BY DEF GetPdfUrl
<1>2. r \in ActiveOpen /\ r \in DocumentRows
  BY <1>1 DEF findActive, NewestOf, ActiveOpen
<1>3. documents[r].text \in Texts
  BY <1>2, DocumentsAre DEF PublishedInv, Document
<1> DEFINE d == [NoDraft EXCEPT !.step = "upload", !.job = "get", !.text = documents[r].text]
<1>4. d \in DraftRecord /\ d.step = "upload" /\ d.job = "get" /\ d.text = documents[r].text
  BY <1>3, NoDraftIsOne DEF NoDraft, DraftRecord, Steps, PdfText
<1>5. Draft(w, d)
  BY <1>1
<1> HIDE DEF d
<1>6. DraftFits(d)
  BY <1>3, <1>4 DEF DraftFits
<1>7. ASSUME Writing = {}, ~unsettled PROVE ActiveHas(d.text)
  <2>1. \A x \in Authors : ~Unsure(x)
    BY <1>7 DEF Unsure, Writing, NoDraft
  <2> QED
    BY <1>2, <1>4, <1>7, <2>1 DEF PublishedInv, Published, ActiveHas
<1> QED
  BY <1>4, <1>5, <1>6, <1>7, DraftKeeps

\* A step of a request that changes neither rows nor PDF, and settles nothing.
LEMMA MoveKeeps ==
    ASSUME PublishedInv, NEW w \in Authors, NEW d \in DraftRecord, MoveOn(w, d), DraftFits(d),
           author[w] # NoDraft, d # NoDraft => d.alone = author[w].alone,
           d # NoDraft /\ d.alone =>
            /\ d.step \in {"deactivate", "write", "send"} => d.seen = DocumentRows
            /\ d.step \notin {"commit", "upload"},
           d.step \notin {"send", "commit"}, UNCHANGED <<documents, pdf>>,
           clock' \in Nat, unsettled' \in BOOLEAN, unsettled => unsettled',
           Unsure(w) => unsettled'
    PROVE  PublishedInv'
<1>1. /\ author'[w] = d /\ table' = table
      /\ \A x \in Authors : x # w => author'[x] = author[x]
  BY MoveShape DEF PublishedInv
<1>2. DocumentRows' = DocumentRows /\ ActiveOpen' = ActiveOpen
  BY DEF DocumentRows, ActiveOpen
<1>3. DocumentsTyped'
  BY <1>2, TypedStays DEF PublishedInv, DocumentsTyped
<1>4. WritersApart'
  <2>1. ASSUME NEW x \in Authors, Decided(x)'
        PROVE  Decided(x) /\ author'[x] = author[x]
    BY <1>1, <2>1 DEF Decided
  <2> QED
    BY <1>1, <1>2, <2>1, WritersStayApart DEF PublishedInv
<1>5. \A x \in Authors : AloneFits(x)'
  BY <1>2, AloneStays
<1>6. ASSUME NEW x \in Authors, Unsure(x), ~unsettled' PROVE Unsure(x)'
  BY <1>1, <1>6 DEF Unsure
<1>7. ~unsettled' /\ (\A x \in Authors : ~Unsure(x)') => Published'
  BY <1>2, <1>6, PublishedStays DEF PublishedInv
<1> QED
  BY <1>3, <1>4, <1>5, <1>7 DEF PublishedInv

LEMMA BeginWriteKeeps ==
    ASSUME PublishedInv, NEW w \in Authors, BeginWrite(w)
    PROVE  PublishedInv'
<1> DEFINE d == [author[w] EXCEPT !.step = "deactivate", !.at = clock', !.seen = DocumentRows]
<1>1. /\ author[w].step = "begin" /\ clock' = clock + 1 /\ MoveOn(w, d)
      /\ UNCHANGED <<documents, pdf, unsettled>>
  BY DEF BeginWrite
<1>2. author[w] \in DraftRecord /\ DraftFits(author[w]) /\ DocumentRows \in SUBSET Nat
  BY KindOfDraft, DocumentsAre DEF PublishedInv
<1>3. clock' \in Nat
  BY <1>1 DEF PublishedInv, DocumentsTyped
<1>4. /\ d \in DraftRecord /\ d.step = "deactivate" /\ d.seen = DocumentRows /\ d.alone = author[w].alone
      /\ d.job = author[w].job /\ d.text = author[w].text /\ d.target = author[w].target
  BY <1>2, <1>3 DEF DraftRecord, Steps
<1> HIDE DEF d
<1>5. DraftFits(d)
  BY <1>1, <1>2, <1>4 DEF DraftFits
<1>6. author[w] # NoDraft /\ ~Unsure(w)
  BY <1>1 DEF NoDraft, Unsure
<1>7. unsettled' \in BOOLEAN
  BY <1>1 DEF PublishedInv, DocumentsTyped
<1> QED
  BY <1>1, <1>3, <1>4, <1>5, <1>6, <1>7, MoveKeeps

LEMMA DeactivateKeeps ==
    ASSUME PublishedInv, NEW w \in Authors, DeactivateAll(w)
    PROVE  PublishedInv'
<1> DEFINE d == [author[w] EXCEPT !.step = "write"]
<1>1. /\ author[w].step = "deactivate" /\ MoveOn(w, d)
      /\ UNCHANGED <<documents, pdf, clock, unsettled>>
  BY DEF DeactivateAll
<1>2. author[w] \in DraftRecord /\ DraftFits(author[w])
  BY KindOfDraft DEF PublishedInv
<1>3. /\ d \in DraftRecord /\ d.step = "write" /\ d.seen = author[w].seen /\ d.alone = author[w].alone
      /\ d.job = author[w].job /\ d.text = author[w].text /\ d.target = author[w].target
  BY <1>2 DEF DraftRecord, Steps
<1> HIDE DEF d
<1>4. DraftFits(d)
  BY <1>1, <1>2, <1>3 DEF DraftFits
<1>5. author[w] # NoDraft /\ ~Unsure(w)
  BY <1>1 DEF NoDraft, Unsure
<1>6. author[w].alone => author[w].seen = DocumentRows
  BY <1>1, <1>5 DEF PublishedInv, AloneFits
<1>7. clock' \in Nat /\ unsettled' \in BOOLEAN
  BY <1>1 DEF PublishedInv, DocumentsTyped
<1> QED
  BY <1>1, <1>3, <1>4, <1>5, <1>6, <1>7, MoveKeeps

\* A request that gives up, or is refused.
LEMMA NoDraftFits == DraftFits(NoDraft)
BY DEF DraftFits, NoDraft

LEMMA FailKeeps ==
    ASSUME PublishedInv, NEW w \in Authors, Fail(w)
    PROVE  PublishedInv'
<1>1. /\ author[w] # NoDraft /\ MoveOn(w, NoDraft)
      /\ UNCHANGED <<documents, pdf, clock>>
  BY DEF Fail, Writing
<1>2. unsettled' \in BOOLEAN /\ (unsettled => unsettled') /\ (Unsure(w) => unsettled')
  BY DEF Fail, Unsure
<1>3. clock' \in Nat
  BY <1>1 DEF PublishedInv, DocumentsTyped
<1>4. NoDraft.step = "rest"
  BY DEF NoDraft
<1> QED
  BY <1>1, <1>2, <1>3, <1>4, NoDraftIsOne, NoDraftFits, MoveKeeps

LEMMA WriteKeeps ==
    ASSUME PublishedInv, NEW w \in Authors, WriteDocument(w)
    PROVE  PublishedInv'
<1>1. /\ author[w].step = "write"
      /\ \A x \in Undecided(w) : table = "offers" /\ author[x].version # author[w].version
      /\ UNCHANGED <<documents, pdf, clock, unsettled>>
  BY DEF WriteDocument
<1>2. author[w] \in DraftRecord /\ DraftFits(author[w])
  BY KindOfDraft DEF PublishedInv
<1>3. author[w] # NoDraft /\ ~Unsure(w) /\ clock' \in Nat /\ unsettled' \in BOOLEAN
  BY <1>1 DEF NoDraft, Unsure, PublishedInv, DocumentsTyped
<1>4. CASE Taken(author[w])
  <2>1. MoveOn(w, NoDraft)
    BY <1>4 DEF WriteDocument
  <2>2. NoDraft.step = "rest"
    BY DEF NoDraft
  <2> QED
    BY <1>1, <1>3, <2>1, <2>2, NoDraftIsOne, NoDraftFits, MoveKeeps
<1>5. CASE ~Taken(author[w])
  <2>1. PICK step \in {"send", "commit"} :
          /\ step = "send" <=> table = "offers"
          /\ MoveOn(w, [author[w] EXCEPT !.step = step])
    BY <1>5 DEF WriteDocument
  <2> DEFINE d == [author[w] EXCEPT !.step = step]
  <2>2. MoveOn(w, d)
    BY <2>1
  <2>3. /\ d \in DraftRecord /\ d.step = step /\ d.seen = author[w].seen /\ d.alone = author[w].alone
        /\ d.job = author[w].job /\ d.text = author[w].text /\ d.target = author[w].target
        /\ d.version = author[w].version
    BY <1>2, <2>1 DEF DraftRecord, Steps
  <2> HIDE DEF d
  <2>4. DraftFits(d)
    BY <1>1, <1>2, <2>1, <2>3 DEF DraftFits
  <2>5. DocumentRows' = DocumentRows /\ ActiveOpen' = ActiveOpen
    BY <1>1 DEF DocumentRows, ActiveOpen
  <2>6. DocumentsTyped'
    BY <1>1, <1>3, <2>2, <2>3, <2>4, <2>5, TypedStays DEF PublishedInv, DocumentsTyped
  <2>7. /\ author'[w] = d /\ table' = table
        /\ \A x \in Authors : x # w => author'[x] = author[x]
    BY <2>2, <2>3, MoveShape DEF PublishedInv
  <2>8. WritersApart'
    <3>1. \A i, j \in DocumentRows' : documents'[i].version = documents'[j].version => i = j
      BY <1>1, <2>5 DEF PublishedInv, WritersApart
    <3>2. ASSUME NEW x \in Authors, Decided(x)', author'[x].job = "create", NEW i \in DocumentRows'
          PROVE  documents'[i].version # author'[x].version
      <4>1. CASE x = w
        BY <1>1, <1>5, <2>3, <2>5, <2>7, <3>2, <4>1 DEF Taken
      <4>2. CASE x # w
        BY <1>1, <2>5, <2>7, <3>2, <4>2 DEF PublishedInv, WritersApart, Decided
      <4> QED
        BY <4>1, <4>2
    <3>3. ASSUME NEW x \in Authors, x # w, Decided(x)'
          PROVE  table = "offers" /\ author'[x].version # author'[w].version
      BY <1>1, <2>3, <2>7, <3>3 DEF Undecided, Decided
    <3>4. ASSUME NEW x \in Authors, NEW y \in Authors, x # y, Decided(x)', Decided(y)'
          PROVE  table' = "offers" /\ author'[x].version # author'[y].version
      <4>1. CASE x = w \/ y = w
        BY <2>7, <3>3, <3>4, <4>1
      <4>2. CASE x # w /\ y # w
        BY <2>7, <3>4, <4>2 DEF PublishedInv, WritersApart, Decided
      <4> QED
        BY <4>1, <4>2
    <3>5. ASSUME table' = "warranty"
          PROVE  /\ \A i, j \in ActiveOpen' : i = j
                 /\ \A x \in Authors : author'[x].step = "commit" => ActiveOpen' \subseteq author'[x].seen
      <4>1. ActiveOpen \subseteq author[w].seen
        BY <1>5, <2>7, <3>5 DEF Taken
      <4> QED
        BY <2>3, <2>5, <2>7, <3>5, <4>1 DEF PublishedInv, WritersApart
    <3> QED
      BY <3>1, <3>2, <3>4, <3>5 DEF WritersApart, Decided
  <2>9. \A x \in Authors : AloneFits(x)'
    <3>1. author[w].alone => author[w].seen = DocumentRows
      BY <1>1, <1>3 DEF PublishedInv, AloneFits
    <3>2. d.step = "commit" => table # "offers"
      BY <2>1, <2>3
    <3> QED
      BY <1>3, <2>1, <2>2, <2>3, <2>5, <3>1, <3>2, AloneStays
  <2>10. ASSUME NEW x \in Authors, Unsure(x) PROVE Unsure(x)'
    BY <1>3, <2>7, <2>10 DEF Unsure
  <2>11. ~unsettled' /\ (\A x \in Authors : ~Unsure(x)') => Published'
    BY <1>1, <2>5, <2>10, PublishedStays DEF PublishedInv
  <2> QED
    BY <2>6, <2>8, <2>9, <2>11 DEF PublishedInv
<1> QED
  BY <1>4, <1>5

LEMMA UploadOfferKeeps ==
    ASSUME PublishedInv, NEW w \in Authors, UploadOffer(w)
    PROVE  PublishedInv'
<1> DEFINE d == [author[w] EXCEPT !.step = "commit"]
<1>1. /\ author[w].step = "send" /\ pdf' = author[w].text /\ MoveOn(w, d)
      /\ UNCHANGED <<documents, clock, unsettled>>
  BY DEF UploadOffer
<1>2. author[w] \in DraftRecord /\ DraftFits(author[w]) /\ author[w] # NoDraft
  BY <1>1, KindOfDraft DEF PublishedInv, NoDraft
<1>3. /\ d \in DraftRecord /\ d.step = "commit" /\ d.seen = author[w].seen /\ d.alone = author[w].alone
      /\ d.job = author[w].job /\ d.text = author[w].text /\ d.target = author[w].target
      /\ d.version = author[w].version
  BY <1>2 DEF DraftRecord, Steps
<1> HIDE DEF d
<1>4. DraftFits(d) /\ table = "offers"
  BY <1>1, <1>2, <1>3 DEF DraftFits
<1>5. DocumentRows' = DocumentRows /\ ActiveOpen' = ActiveOpen
  BY <1>1 DEF DocumentRows, ActiveOpen
<1>6. DocumentsTyped'
  <2>1. pdf' \in PdfText
    BY <1>1, <1>2 DEF DraftRecord
  <2> QED
    BY <1>1, <1>3, <1>4, <1>5, <2>1, TypedStays DEF PublishedInv, DocumentsTyped
<1>7. /\ author'[w] = d /\ table' = table
      /\ \A x \in Authors : x # w => author'[x] = author[x]
  BY <1>1, <1>3, MoveShape DEF PublishedInv
<1>8. WritersApart'
  <2>1. ASSUME NEW x \in Authors, Decided(x)'
        PROVE  /\ Decided(x) /\ author'[x].version = author[x].version
               /\ author'[x].job = author[x].job /\ author'[x].seen = author[x].seen
    BY <1>1, <1>3, <1>7, <2>1 DEF Decided
  <2> QED
    BY <1>1, <1>4, <1>5, <1>7, <2>1, WritersStayApart DEF PublishedInv
<1>9. \A x \in Authors : AloneFits(x)'
  <2>1. author[w].alone => author[w].seen = DocumentRows
    BY <1>1, <1>2 DEF PublishedInv, AloneFits
  <2> QED
    BY <1>1, <1>2, <1>3, <1>5, <2>1, AloneStays
<1>10. Unsure(w)'
  BY <1>3, <1>4, <1>7 DEF Unsure
<1> QED
  BY <1>6, <1>8, <1>9, <1>10 DEF PublishedInv

LEMMA CommitDraftKeeps ==
    ASSUME PublishedInv, NEW w \in Authors, CommitDocument(w)
    PROVE  PublishedInv'
<1>1. author[w].step = "commit" /\ documents' = Committed(author[w]) /\ UNCHANGED <<pdf, clock>>
  BY DEF CommitDocument
<1>2. author[w] \in DraftRecord /\ DraftFits(author[w]) /\ author[w] # NoDraft /\ Decided(w)
  BY <1>1, KindOfDraft DEF PublishedInv, NoDraft, Decided
<1>3. /\ documents' \in Seq(Document)
      /\ DocumentRows \subseteq DocumentRows'
      /\ \A i \in DocumentRows : /\ documents'[i].version = documents[i].version
                         /\ documents'[i].text = documents[i].text
      /\ \A i, j \in DocumentRows' \ DocumentRows : i = j
      /\ \A i \in DocumentRows' \ DocumentRows : author[w].job = "create" /\ documents'[i].version = author[w].version
  BY <1>1, CommitShape DEF PublishedInv
<1>4. PICK n \in DocumentRows' :
        /\ documents'[n].text = author[w].text
        /\ \A i \in ActiveOpen' : i = n \/ (i \in ActiveOpen /\ i \notin author[w].seen)
  BY <1>1, CommitShape DEF PublishedInv
<1>5. table = "offers" =>
        MoveOn(w, NoDraft) /\ unsettled' = (~author[w].alone \/ (unsettled /\ author[w].job = "get"))
  BY DEF CommitDocument, Complete
<1> DEFINE d == IF table = "offers" THEN NoDraft ELSE [author[w] EXCEPT !.step = "upload"]
<1>6. MoveOn(w, d) /\ (table # "offers" => unsettled' = unsettled)
  BY <1>5 DEF CommitDocument
<1>7. /\ d \in DraftRecord /\ DraftFits(d)
      /\ d.step = IF table = "offers" THEN "rest" ELSE "upload"
      /\ table = "offers" => d = NoDraft
      /\ table # "offers" => d.alone = author[w].alone /\ d.job = author[w].job /\ d.text = author[w].text
  <2>1. CASE table = "offers"
    BY <2>1, NoDraftIsOne, NoDraftFits DEF NoDraft
  <2>2. CASE table # "offers"
    <3>1. /\ d \in DraftRecord /\ d.step = "upload" /\ d.alone = author[w].alone
          /\ d.job = author[w].job /\ d.text = author[w].text /\ d.target = author[w].target
      BY <1>2, <2>2 DEF DraftRecord, Steps
    <3> HIDE DEF d
    <3>2. DraftFits(d)
      BY <1>1, <1>2, <2>2, <3>1 DEF DraftFits, PublishedInv, DocumentsTyped
    <3> QED
      BY <2>2, <3>1, <3>2
  <2> QED
    BY <2>1, <2>2
<1> HIDE DEF d
<1>8. unsettled' \in BOOLEAN /\ clock' \in Nat
  BY <1>1, <1>5, <1>6 DEF PublishedInv, DocumentsTyped
<1>9. DocumentsTyped'
  BY <1>1, <1>3, <1>6, <1>7, <1>8, TypedStays DEF PublishedInv, DocumentsTyped
<1>10. /\ author'[w] = d /\ table' = table
       /\ \A x \in Authors : x # w => author'[x] = author[x]
  BY <1>6, <1>7, MoveShape DEF PublishedInv
<1>11. ASSUME NEW x \in Authors, Decided(x)'
       PROVE  x # w /\ Decided(x) /\ author'[x] = author[x]
  BY <1>7, <1>10, <1>11 DEF Decided
<1>12. WritersApart'
  <2>1. ASSUME NEW i \in DocumentRows', NEW j \in DocumentRows', documents'[i].version = documents'[j].version
        PROVE  i = j
    BY <1>2, <1>3, <2>1 DEF PublishedInv, WritersApart
  <2>2. ASSUME NEW x \in Authors, Decided(x)', author'[x].job = "create", NEW i \in DocumentRows'
        PROVE  documents'[i].version # author'[x].version
    BY <1>2, <1>3, <1>11, <2>2 DEF PublishedInv, WritersApart
  <2>3. ASSUME NEW x \in Authors, NEW y \in Authors, x # y, Decided(x)', Decided(y)'
        PROVE  table' = "offers" /\ author'[x].version # author'[y].version
    BY <1>10, <1>11, <2>3 DEF PublishedInv, WritersApart
  <2>4. ASSUME table' = "warranty"
        PROVE  /\ \A i, j \in ActiveOpen' : i = j
               /\ \A x \in Authors : author'[x].step = "commit" => ActiveOpen' \subseteq author'[x].seen
    <3>1. ActiveOpen \subseteq author[w].seen
      BY <1>1, <1>10, <2>4 DEF PublishedInv, WritersApart
    <3>2. \A x \in Authors : author'[x].step # "commit"
      BY <1>2, <1>10, <1>11, <2>4 DEF PublishedInv, WritersApart, Decided
    <3> QED
      BY <1>4, <3>1, <3>2
  <2> QED
    BY <2>1, <2>2, <2>3, <2>4 DEF WritersApart, Decided
<1>13. ASSUME author[w].alone
       PROVE  /\ \A i \in ActiveOpen' : i = n
              /\ table = "offers" => pdf' = author[w].text
  <2>1. author[w].seen = DocumentRows /\ (table = "offers" => pdf = author[w].text)
    BY <1>1, <1>2, <1>13 DEF PublishedInv, AloneFits
  <2>2. ActiveOpen \subseteq DocumentRows
    BY DEF ActiveOpen
  <2> QED
    BY <1>1, <1>4, <2>1, <2>2
<1>14. \A x \in Authors : AloneFits(x)'
  <2>1. d # NoDraft /\ d.alone => \A i \in ActiveOpen' : documents'[i].text = d.text
    BY <1>4, <1>7, <1>13
  <2> QED
    BY <1>2, <1>6, <1>7, <2>1, AloneStays
<1>15. ~unsettled' /\ (\A x \in Authors : ~Unsure(x)') => Published'
  <2>1. CASE table = "offers"
    <3> SUFFICES ASSUME author[w].alone PROVE Published'
      BY <1>5, <2>1
    <3> QED
      BY <1>4, <1>13, <2>1 DEF Published
  <2>2. CASE table # "offers"
    <3>1. author[w].job # "get"
      BY <1>1, <1>2 DEF DraftFits
    <3>2. Unsure(w)'
      BY <1>7, <1>10, <2>2, <3>1 DEF Unsure
    <3> QED
      BY <3>2
  <2> QED
    BY <2>1, <2>2
<1> QED
  BY <1>9, <1>12, <1>14, <1>15 DEF PublishedInv

LEMMA UploadPdfKeeps ==
    ASSUME PublishedInv, NEW w \in Authors, UploadPdf(w)
    PROVE  PublishedInv'
<1>1. /\ author[w].step = "upload" /\ pdf' = author[w].text /\ MoveOn(w, NoDraft)
      /\ unsettled' = (~author[w].alone \/ (unsettled /\ author[w].job = "get"))
      /\ UNCHANGED <<documents, clock>>
  BY DEF UploadPdf, Complete
<1>2. author[w] \in DraftRecord /\ DraftFits(author[w]) /\ author[w] # NoDraft
  BY <1>1, KindOfDraft DEF PublishedInv, NoDraft
<1>3. DocumentRows' = DocumentRows /\ ActiveOpen' = ActiveOpen
  BY <1>1 DEF DocumentRows, ActiveOpen
<1>4. DocumentsTyped'
  <2>1. pdf' \in PdfText /\ unsettled' \in BOOLEAN
    BY <1>1, <1>2 DEF DraftRecord
  <2> QED
    BY <1>1, <1>3, <2>1, NoDraftIsOne, NoDraftFits, TypedStays DEF PublishedInv, DocumentsTyped
<1>5. /\ author'[w] = NoDraft /\ table' = table
      /\ \A x \in Authors : x # w => author'[x] = author[x]
  BY <1>1, NoDraftIsOne, MoveShape DEF PublishedInv
<1>6. WritersApart'
  <2>1. ASSUME NEW x \in Authors, Decided(x)'
        PROVE  Decided(x) /\ author'[x] = author[x]
    BY <1>5, <2>1 DEF Decided, NoDraft
  <2> QED
    BY <1>1, <1>3, <1>5, <2>1, WritersStayApart DEF PublishedInv
<1>7. \A x \in Authors : AloneFits(x)'
  BY <1>1, <1>2, NoDraftIsOne, AloneStays
<1>8. ~unsettled' /\ (\A x \in Authors : ~Unsure(x)') => Published'
  <2> SUFFICES ASSUME ~unsettled' PROVE Published'
    OBVIOUS
  <2>1. author[w].alone /\ (author[w].job = "get" => ~unsettled)
    BY <1>1 DEF PublishedInv, DocumentsTyped
  <2>2. ActiveHas(author[w].text) /\ \A x \in Authors : author[x] # NoDraft => x = w
    BY <1>1, <1>2, <2>1 DEF PublishedInv, AloneFits
  <2>3. \A i, j \in ActiveOpen : i = j
    <3>1. CASE author[w].job = "get"
      <4>1. \A x \in Authors : ~Unsure(x)
        BY <1>1, <2>2, <3>1 DEF Unsure, NoDraft
      <4> QED
        BY <2>1, <3>1, <4>1 DEF PublishedInv, Published
    <3>2. CASE author[w].job # "get"
      BY <1>1, <1>2, <3>2 DEF PublishedInv, WritersApart, DraftFits
    <3> QED
      BY <3>1, <3>2
  <2> QED
    BY <1>1, <1>3, <2>2, <2>3 DEF Published, ActiveHas
<1> QED
  BY <1>4, <1>6, <1>7, <1>8 DEF PublishedInv

LEMMA RemoveKeeps ==
    ASSUME PublishedInv, NEW r \in DocumentRows, RemoveDocument(r)
    PROVE  PublishedInv'
<1>1. /\ documents' \in Seq(Document) /\ DocumentRows' = DocumentRows
      /\ \A i \in DocumentRows : /\ documents'[i].version = documents[i].version
                         /\ documents'[i].text = documents[i].text
      /\ ActiveOpen' \subseteq ActiveOpen
      /\ UNCHANGED <<table, pdf, author, drafts, clock, unsettled>>
  BY RemoveShape DEF PublishedInv
<1>2. DocumentsTyped'
  <2>1. ASSUME NEW x \in Authors PROVE DraftFits(author[x])'
    BY <1>1 DEF PublishedInv, DocumentsTyped, DraftFits
  <2> QED
    BY <1>1, <2>1 DEF PublishedInv, DocumentsTyped
<1>3. WritersApart'
  <2>1. \A x \in Authors : Decided(x)' => Decided(x)
    BY <1>1 DEF Decided
  <2> QED
    BY <1>1, <2>1, WritersStayApart DEF PublishedInv
<1>4. \A i \in ActiveOpen : i \in DocumentRows
  BY DEF ActiveOpen
<1>5. ASSUME NEW x \in Authors PROVE AloneFits(x)'
  BY <1>1, <1>4 DEF PublishedInv, AloneFits, ActiveHas
<1>6. ~unsettled' /\ (\A x \in Authors : ~Unsure(x)') => Published'
  <2>1. \A x \in Authors : Unsure(x) => Unsure(x)'
    BY <1>1 DEF Unsure
  <2> QED
    BY <1>1, <2>1, PublishedStays DEF PublishedInv
<1> QED
  BY <1>2, <1>3, <1>5, <1>6 DEF PublishedInv

LEMMA PublishedNextInv == PublishedInv /\ [DocumentsNext]_documentsVars => PublishedInv'
<1> SUFFICES ASSUME PublishedInv, [DocumentsNext]_documentsVars PROVE PublishedInv'
  OBVIOUS
<1>1. CASE UNCHANGED documentsVars
  BY <1>1 DEF documentsVars, PublishedInv, DocumentsTyped, WritersApart, AloneFits, Published, DraftFits,
              Decided, Unsure, ActiveHas, ActiveOpen, DocumentRows
<1>2. ASSUME NEW w \in Authors, NEW text \in Texts, CreateDocument(w, text) PROVE PublishedInv'
  BY <1>2, CreateKeeps
<1>3. ASSUME NEW w \in Authors, NEW r \in DocumentRows, Activate(w, r) PROVE PublishedInv'
  BY <1>3, ActivateKeeps
<1>4. ASSUME NEW w \in Authors, GetPdfUrl(w) PROVE PublishedInv'
  BY <1>4, GetKeeps
<1>5. ASSUME NEW w \in Authors, BeginWrite(w) PROVE PublishedInv'
  BY <1>5, BeginWriteKeeps
<1>6. ASSUME NEW w \in Authors, DeactivateAll(w) PROVE PublishedInv'
  BY <1>6, DeactivateKeeps
<1>7. ASSUME NEW w \in Authors, WriteDocument(w) PROVE PublishedInv'
  BY <1>7, WriteKeeps
<1>8. ASSUME NEW w \in Authors, UploadOffer(w) PROVE PublishedInv'
  BY <1>8, UploadOfferKeeps
<1>9. ASSUME NEW w \in Authors, CommitDocument(w) PROVE PublishedInv'
  BY <1>9, CommitDraftKeeps
<1>10. ASSUME NEW w \in Authors, UploadPdf(w) PROVE PublishedInv'
  BY <1>10, UploadPdfKeeps
<1>11. ASSUME NEW w \in Authors, Fail(w) PROVE PublishedInv'
  BY <1>11, FailKeeps
<1>12. ASSUME NEW r \in DocumentRows, RemoveDocument(r) PROVE PublishedInv'
  BY <1>12, RemoveKeeps
<1> QED
  BY <1>1, <1>2, <1>3, <1>4, <1>5, <1>6, <1>7, <1>8, <1>9, <1>10, <1>11, <1>12 DEF DocumentsNext

LEMMA OneAtMost ==
    ASSUME NEW S \in SUBSET Nat, \A i, j \in S : i = j
    PROVE  Cardinality(S) <= 1
<1>1. CASE S = {}
  BY <1>1, FS_EmptySet
<1>2. CASE S # {}
  <2>1. PICK i \in S : S = {i}
    BY <1>2
  <2>2. Cardinality({i}) = 1
    BY FS_Singleton
  <2> QED
    BY <2>1, <2>2
<1> QED
  BY <1>1, <1>2

LEMMA PublishedTells == PublishedInv => PublishedIsActive
<1> SUFFICES ASSUME PublishedInv PROVE PublishedIsActive
  OBVIOUS
<1>1. ActiveOpen \in SUBSET Nat
  BY DocumentsAre DEF PublishedInv, ActiveOpen
<1>2. table = "warranty" => Cardinality(ActiveOpen) <= 1
  BY <1>1, OneAtMost DEF PublishedInv, WritersApart
<1>3. ASSUME Writing = {}, ~unsettled
      PROVE  /\ Cardinality(ActiveOpen) <= 1
             /\ \A i \in ActiveOpen : pdf \in {NoText, documents[i].text}
  <2>1. \A x \in Authors : ~Unsure(x)
    BY <1>3 DEF Unsure, Writing, NoDraft
  <2>2. Published
    BY <1>3, <2>1 DEF PublishedInv
  <2> QED
    BY <1>1, <2>2, OneAtMost DEF Published
<1> QED
  BY <1>2, <1>3 DEF PublishedIsActive

(***************************************************************************)
(* Of warranty documents one is active at most, of offers too while none   *)
(* is being written; and the PDF customers are given is that of the active *)
(* document, unless requests overlapped or one was cut short since the     *)
(* last that did neither.  Whatever create, activate, getPdfUrl and remove *)
(* do beside each other, and wherever they fail.                           *)
(***************************************************************************)
THEOREM PublishedIsActiveHolds == DocumentsSpec => []PublishedIsActive
<1>1. DocumentsSpec => []PublishedInv
  BY PublishedInitInv, PublishedNextInv, PTL DEF DocumentsSpec
<1> QED
  BY <1>1, PublishedTells, PTL

-----------------------------------------------------------------------------
\* Transactions begun and still to be begun are no more than requests.

LEMMA BeginningFits ==
    /\ Cardinality(Beginning) \in Nat /\ IsFiniteSet(Beginning)
    /\ Cardinality(Beginning') \in Nat /\ IsFiniteSet(Beginning')
<1>1. Beginning \subseteq Authors /\ Beginning' \subseteq Authors
  BY DEF Beginning
<1> QED
  BY <1>1, AuthorsAssumption, FS_Subset, FS_CardinalityType

LEMMA ClockStays ==
    ASSUME ClockInv, PublishedInv', drafts' = drafts, clock' = clock,
           Beginning' \subseteq Beginning
    PROVE  ClockInv'
<1>1. Cardinality(Beginning') <= Cardinality(Beginning)
  BY BeginningFits, FS_Subset
<1>2. clock \in Nat /\ drafts \in Nat
  BY DocumentsAssumption DEF ClockInv, PublishedInv, DocumentsTyped
<1> QED
  BY <1>1, <1>2, BeginningFits DEF ClockInv

LEMMA DraftClock ==
    ASSUME ClockInv, PublishedInv', drafts' = drafts + 1, clock' = clock, NEW w \in Authors,
           \A x \in Authors : x # w => author'[x].step = author[x].step
    PROVE  ClockInv'
<1>1. Beginning' \subseteq Beginning \cup {w}
  BY DEF Beginning
<1>2. clock \in Nat /\ drafts \in Nat
  BY DocumentsAssumption DEF ClockInv, PublishedInv, DocumentsTyped
<1>3. CASE w \in Beginning
  <2>1. Beginning' \subseteq Beginning
    BY <1>1, <1>3
  <2>2. Cardinality(Beginning') <= Cardinality(Beginning)
    BY <2>1, BeginningFits, FS_Subset
  <2> QED
    BY <1>2, <2>2, BeginningFits DEF ClockInv
<1>4. CASE w \notin Beginning
  <2>1. IsFiniteSet(Beginning \cup {w})
    BY BeginningFits, FS_AddElement
  <2>2. Cardinality(Beginning \cup {w}) = Cardinality(Beginning) + 1
    BY <1>4, BeginningFits, FS_AddElement
  <2>3. Cardinality(Beginning') <= Cardinality(Beginning \cup {w})
    BY <1>1, <2>1, FS_Subset
  <2> QED
    BY <1>2, <2>2, <2>3, BeginningFits DEF ClockInv
<1> QED
  BY <1>3, <1>4

LEMMA BeginClock ==
    ASSUME ClockInv, PublishedInv', NEW w \in Authors, BeginWrite(w)
    PROVE  ClockInv'
<1>1. w \in Beginning /\ clock' = clock + 1
  BY DEF BeginWrite, Beginning
<1>2. /\ drafts' = drafts
      /\ author' = [author EXCEPT ![w] = [author[w] EXCEPT !.step = "deactivate", !.at = clock', !.seen = DocumentRows]]
  BY DEF BeginWrite, MoveOn
<1>3. author'[w].step = "deactivate" /\ \A x \in Authors : x # w => author'[x] = author[x]
  <2>1. author \in [Authors -> DraftRecord]
    BY DEF ClockInv, PublishedInv, DocumentsTyped
  <2>2. author[w] \in DraftRecord
    BY <2>1
  <2>3. author'[w] = [author[w] EXCEPT !.step = "deactivate", !.at = clock', !.seen = DocumentRows]
    BY <1>2, <2>1
  <2>4. author'[w].step = "deactivate"
    BY <2>2, <2>3 DEF DraftRecord
  <2> QED
    BY <1>2, <2>1, <2>4
<1>4. Beginning' = Beginning \ {w}
  BY <1>3 DEF Beginning
<1>5. Cardinality(Beginning') = Cardinality(Beginning) - 1
  BY <1>1, <1>4, BeginningFits, FS_RemoveElement
<1>6. clock \in Nat /\ drafts \in Nat
  BY DocumentsAssumption DEF ClockInv, PublishedInv, DocumentsTyped
<1> QED
  BY <1>1, <1>2, <1>5, <1>6, BeginningFits DEF ClockInv

LEMMA ClockInitInv == DocumentsInit => ClockInv
<1> SUFFICES ASSUME DocumentsInit PROVE ClockInv
  OBVIOUS
<1>1. Beginning = {} /\ clock = 0 /\ drafts = 0
  BY DEF DocumentsInit, NoDraft, Beginning
<1>2. Cardinality(Beginning) = 0
  BY <1>1, FS_EmptySet
<1> QED
  BY <1>1, <1>2, PublishedInitInv DEF ClockInv

LEMMA ClockNextInv == ClockInv /\ [DocumentsNext]_documentsVars => ClockInv'
<1> SUFFICES ASSUME ClockInv, [DocumentsNext]_documentsVars PROVE ClockInv'
  OBVIOUS
<1>1. PublishedInv'
  BY PublishedNextInv DEF ClockInv
<1>2. CASE UNCHANGED documentsVars
  BY <1>1, <1>2, ClockStays DEF documentsVars, Beginning
<1>3. ASSUME NEW w \in Authors, NEW d, Draft(w, d) PROVE ClockInv'
  <2>1. author[w] = NoDraft /\ drafts' = drafts + 1 /\ clock' = clock
    BY <1>3 DEF Draft, Writing
  <2>2. ASSUME NEW x \in Authors, x # w PROVE author'[x].step = author[x].step
    <3>1. CASE x \in Writing
      <4>1. author'[x] = [author[x] EXCEPT !.alone = FALSE]
        BY <1>3, <2>2, <3>1 DEF Draft
      <4>2. author[x] \in DraftRecord
        BY DEF ClockInv, PublishedInv, DocumentsTyped
      <4> QED
        BY <4>1, <4>2 DEF DraftRecord
    <3>2. CASE x \notin Writing
      <4>1. author'[x] = author[x]
        BY <1>3, <2>2, <3>2 DEF Draft
      <4> QED
        BY <4>1
    <3> QED
      BY <3>1, <3>2
  <2> QED
    BY <1>1, <2>1, <2>2, DraftClock
<1>4. ASSUME NEW w \in Authors, NEW d, MoveOn(w, d), d.step # "begin", clock' = clock
      PROVE  ClockInv'
  <2>1. /\ author'[w].step # "begin" /\ drafts' = drafts
        /\ \A x \in Authors : x # w => author'[x] = author[x]
    BY <1>4 DEF MoveOn, ClockInv, PublishedInv, DocumentsTyped
  <2>2. Beginning' \subseteq Beginning
    BY <2>1 DEF Beginning
  <2> QED
    BY <1>1, <1>4, <2>1, <2>2, ClockStays
<1>5. ASSUME NEW w \in Authors, NEW text \in Texts, CreateDocument(w, text) PROVE ClockInv'
  <2>1. \E version : Draft(w, [NoDraft EXCEPT !.step = "begin", !.job = "create", !.text = text,
                                              !.version = version])
    BY <1>5 DEF CreateDocument
  <2> QED
    BY <1>3, <2>1
<1>6. ASSUME NEW w \in Authors, NEW r \in DocumentRows, Activate(w, r) PROVE ClockInv'
  BY <1>3, <1>6 DEF Activate
<1>7. ASSUME NEW w \in Authors, GetPdfUrl(w) PROVE ClockInv'
  BY <1>3, <1>7 DEF GetPdfUrl
<1>8. \A w \in Authors : author[w] \in DraftRecord
  BY DEF ClockInv, PublishedInv, DocumentsTyped
<1>9. NoDraft.step # "begin"
  BY DEF NoDraft
<1>10. ASSUME NEW w \in Authors, NEW step \in Steps \ {"begin"}, MoveOn(w, [author[w] EXCEPT !.step = step]),
              clock' = clock
       PROVE  ClockInv'
  <2> DEFINE d == [author[w] EXCEPT !.step = step]
  <2>1. d.step = step
    BY <1>8 DEF DraftRecord
  <2>2. MoveOn(w, d)
    BY <1>10
  <2> HIDE DEF d
  <2> QED
    BY <1>4, <1>10, <2>1, <2>2
<1>11. ASSUME NEW w \in Authors, MoveOn(w, NoDraft), clock' = clock PROVE ClockInv'
  BY <1>4, <1>9, <1>11
<1>12. ASSUME NEW w \in Authors, BeginWrite(w) PROVE ClockInv'
  BY <1>1, <1>12, BeginClock
<1>13. ASSUME NEW w \in Authors, DeactivateAll(w) PROVE ClockInv'
  BY <1>10, <1>13 DEF DeactivateAll, Steps
<1>14. ASSUME NEW w \in Authors, WriteDocument(w) PROVE ClockInv'
  <2>1. clock' = clock
    BY <1>14 DEF WriteDocument
  <2>2. \/ MoveOn(w, NoDraft) \/ MoveOn(w, [author[w] EXCEPT !.step = "send"])
        \/ MoveOn(w, [author[w] EXCEPT !.step = "commit"])
    BY <1>14 DEF WriteDocument
  <2> QED
    BY <1>10, <1>11, <2>1, <2>2 DEF Steps
<1>15. ASSUME NEW w \in Authors, UploadOffer(w) PROVE ClockInv'
  BY <1>10, <1>15 DEF UploadOffer, Steps
<1>16. ASSUME NEW w \in Authors, CommitDocument(w) PROVE ClockInv'
  <2>1. clock' = clock
    BY <1>16 DEF CommitDocument
  <2>2. MoveOn(w, NoDraft) \/ MoveOn(w, [author[w] EXCEPT !.step = "upload"])
    BY <1>16 DEF CommitDocument, Complete
  <2> QED
    BY <1>10, <1>11, <2>1, <2>2 DEF Steps
<1>17. ASSUME NEW w \in Authors, UploadPdf(w) PROVE ClockInv'
  BY <1>11, <1>17 DEF UploadPdf, Complete
<1>18. ASSUME NEW w \in Authors, Fail(w) PROVE ClockInv'
  BY <1>11, <1>18 DEF Fail
<1>19. ASSUME NEW r \in DocumentRows, RemoveDocument(r) PROVE ClockInv'
  BY <1>1, <1>19, ClockStays DEF RemoveDocument, Beginning
<1> QED
  BY <1>2, <1>5, <1>6, <1>7, <1>12, <1>13, <1>14, <1>15, <1>16, <1>17, <1>18, <1>19 DEF DocumentsNext

LEMMA ClockTells == ClockInv => DocumentsTypeOK
<1> SUFFICES ASSUME ClockInv PROVE DocumentsTypeOK
  OBVIOUS
<1>1. DocumentsTyped /\ WritersApart
  BY DEF ClockInv, PublishedInv
<1>2. clock \in 0 .. MaxDrafts /\ drafts \in 0 .. MaxDrafts
  BY <1>1, BeginningFits, DocumentsAssumption DEF ClockInv, DocumentsTyped
<1>3. \A i \in DocumentRows : documents[i].text \in Texts /\ documents[i].status \in {"Open", "Deleted"}
  BY <1>1, DocumentsAre DEF Document
<1> QED
  BY <1>1, <1>2, <1>3 DEF DocumentsTypeOK, DocumentsTyped, WritersApart, PdfText

(***************************************************************************)
(* Types: versions are unique, whatever requests are served beside each    *)
(* other, and no request begins two transactions.                          *)
(***************************************************************************)
THEOREM DocumentsTypeCorrect == DocumentsSpec => []DocumentsTypeOK
<1>1. DocumentsSpec => []ClockInv
  BY ClockInitInv, ClockNextInv, PTL DEF DocumentsSpec
<1> QED
  BY <1>1, ClockTells, PTL

-----------------------------------------------------------------------------
(***************************************************************************)
(* The catalogue, and the order described with it.                         *)
(***************************************************************************)
OrderRows == [type : Types, problem : Problems, parts : SUBSET Parts]
Lists == [rows : SUBSET Phones, parents : SUBSET Phones, cached : BOOLEAN]

\* What a statement may set.
PhoneSets ==
    {row \in PhoneRows : row.state = "Open"} \cup [active : BOOLEAN] \cup [state : {"Deleted"}]
ProblemSets ==
    {row \in ProblemRows : row.state = "Open"} \cup [active : BOOLEAN]
    \cup [state : {"Deleted"}, mapped : {NoPhone}]

PhoneSteps == [op : {"phone"}, id : Phones, set : PhoneSets]
FlushSteps == [op : {"flush"}, keys : SUBSET EveryList]
ProblemSteps == [op : {"problem"}, id : Problems, set : ProblemSets]
AssignSteps == [op : {"assign"}, id : Problems, parts : SUBSET Parts]
ListSteps == [op : {"list"}, key : EveryList, value : Lists]
OrderSteps == [op : {"order"}, rows : SUBSET OrderRows, types : SUBSET Types, gone : SUBSET OrderRows,
               phone : EveryList, keep : BOOLEAN, checked : BOOLEAN]

\* What a request may still have to do: a phone category is written, then lists
\* are flushed; all else is one step.
LastSteps == FlushSteps \cup ProblemSteps \cup AssignSteps \cup ListSteps \cup OrderSteps
Todos == {<<x>> : x \in LastSteps} \cup {<<x, y>> : x \in PhoneSteps, y \in FlushSteps}
Touchable == EveryList \cup Problems \cup {"order"}

CatalogueTyped ==
    /\ phone \in [Phones -> PhoneRows] /\ problem \in [Problems -> ProblemRows]
    /\ assigned \subseteq Problems \X Parts
    /\ order \in [phone : EveryList, born : BOOLEAN, rows : SUBSET OrderRows]
    /\ list \in [EveryList -> Lists]
    /\ session \in [Sessions -> {NoSession} \cup [touched : SUBSET Touchable, todo : Todos]]
    /\ requests \in 0 .. MaxRequests

There(p) == problem[p].state # "absent"

\* The rows: what is there hangs from what is there, roots are mapped while they
\* are open, and what is not active is dormant.
TreesFit ==
    /\ \A p \in Problems :
        /\ There(p) /\ problem[p].parent # NoProblem => There(problem[p].parent)
        /\ problem[p].mapped # NoPhone => problem[p].parent = NoProblem /\ problem[p].state = "Open"
    /\ \A c \in Phones : ~phone[c].active => c \in dormant
    /\ \A r \in order.rows : There(r.problem)

\* Requests that touched one thing raced for it.
RacesNoted ==
    \A s, q \in Sessions : s # q => session[s].touched \cap session[q].touched \subseteq raced

\* What a request made sure of still holds, unless somebody raced with it.
PhoneFits(s) ==
    Doing(s, "phone") =>
        LET id   == Step(s).id
            set  == Step(s).set
            keys == session[s].todo[2].keys
        IN  /\ id \in session[s].touched
            /\ \/ /\ set \in PhoneRows /\ set.state = "Open" /\ keys = EveryList
                  /\ set.parent \in session[s].touched
                  /\ id \notin raced => phone[id].state = "absent"
                  /\ set.parent \notin raced \cup {NoPhone} =>
                        phone[set.parent].state = "Open" /\ MappedTo(set.parent) = {}
               \/ set \in [active : BOOLEAN] /\ keys = EveryList
               \/ /\ set \in [state : {"Deleted"}]
                  /\ id \notin raced => keys = {id, phone[id].parent} /\ OpenChildren(phone, id) = {}

ProblemFits(s) ==
    Doing(s, "problem") =>
        LET id  == Step(s).id
            set == Step(s).set
        IN  /\ id \in session[s].touched
            /\ \/ /\ set \in ProblemRows /\ set.state = "Open"
                  /\ set.mapped # NoPhone => set.parent = NoProblem
                  /\ {set.parent, set.mapped} \ {NoProblem, NoPhone} \subseteq session[s].touched
                  /\ id \notin raced => ~There(id)
                  /\ set.parent # NoProblem => There(set.parent)
                  /\ set.parent \notin raced \cup {NoProblem} => problem[set.parent].state = "Open"
                  /\ set.mapped \notin raced \cup {NoPhone} => OpenChildren(phone, set.mapped) \subseteq dormant
               \/ set \in [active : BOOLEAN] /\ There(id)
               \/ /\ set \in [state : {"Deleted"}, mapped : {NoPhone}] /\ There(id)
                  /\ id \notin raced => OpenChildren(problem, id) = {}

\* A list tells of what nobody raced for.
ListTold(c, shown) ==
    c \notin raced =>
        /\ \A d \in Phones \ raced : d \in shown.rows <=> d \in OpenChildren(phone, c)
        /\ \A d \in shown.rows \ raced : OpenChildren(phone, d) # {} => d \in shown.parents

ListFits(s) ==
    Doing(s, "list") =>
        /\ {Step(s).key} \cup Step(s).value.rows \subseteq session[s].touched
        /\ ListTold(Step(s).key, Step(s).value)

AssignFits(s) == Doing(s, "assign") => Step(s).id \in session[s].touched

RowFits(r, c) ==
    problem[r.problem].state = "Open" /\ Path(problem, r.problem) \cap raced = {}
    => r.problem \in AllowedFor(c) /\ r.parts \subseteq PartsOf(r.problem)

OrderFits(s) ==
    Doing(s, "order") =>
        /\ "order" \in session[s].touched
        /\ \A r \in Step(s).rows : There(r.problem)
        /\ "order" \notin raced /\ Step(s).keep => Step(s).phone = order.phone
        /\ "order" \notin raced /\ Step(s).checked =>
            \A r \in Step(s).rows : r.problem \in session[s].touched /\ RowFits(r, Step(s).phone)

SessionFits(s) == PhoneFits(s) /\ ProblemFits(s) /\ AssignFits(s) /\ ListFits(s) /\ OrderFits(s)

\* A list in redis is true, or somebody is about to flush it.
ListsKept ==
    \A c \in EveryList :
        list[c].cached /\ (\A s \in Sessions : ~(Doing(s, "flush") /\ c \in Step(s).keys))
        => ListTold(c, list[c])

OrderKept == "order" \notin raced => \A r \in order.rows \ excused : RowFits(r, order.phone)

CatalogueInv ==
    /\ CatalogueTyped /\ TreesFit /\ RacesNoted
    /\ \A s \in Sessions : SessionFits(s)
    /\ LiveParents /\ ProblemsOnLeaves /\ ListsKept /\ OrderKept

LEMMA RowsWritten ==
  ASSUME NEW row \in PhoneRows
  PROVE  /\ \A set \in PhoneRows : Updated(row, set) = set
         /\ \A set \in [active : BOOLEAN] : /\ Updated(row, set) \in PhoneRows
                                            /\ Updated(row, set).active = set.active
                                            /\ Updated(row, set).parent = row.parent
                                            /\ Updated(row, set).state = row.state
         /\ \A set \in [state : {"Deleted"}] : /\ Updated(row, set) \in PhoneRows
                                               /\ Updated(row, set).active = row.active
                                               /\ Updated(row, set).parent = row.parent
                                               /\ Updated(row, set).state = "Deleted"
<1>1. \A set \in PhoneRows : Updated(row, set) = set
  BY DEF Updated, PhoneRows
<1>2. ASSUME NEW set \in [active : BOOLEAN]
      PROVE  /\ Updated(row, set) \in PhoneRows
             /\ Updated(row, set).active = set.active
             /\ Updated(row, set).parent = row.parent
             /\ Updated(row, set).state = row.state
  BY DEF Updated, PhoneRows
<1>3. ASSUME NEW set \in [state : {"Deleted"}]
      PROVE  /\ Updated(row, set) \in PhoneRows
             /\ Updated(row, set).active = row.active
             /\ Updated(row, set).parent = row.parent
             /\ Updated(row, set).state = "Deleted"
  BY DEF Updated, PhoneRows, RowStates
<1> QED
  BY <1>1, <1>2, <1>3

LEMMA ProblemsWritten ==
  ASSUME NEW row \in ProblemRows
  PROVE  /\ \A set \in ProblemRows : Updated(row, set) = set
         /\ \A set \in [active : BOOLEAN] : /\ Updated(row, set) \in ProblemRows
                                            /\ Updated(row, set).parent = row.parent
                                            /\ Updated(row, set).mapped = row.mapped
                                            /\ Updated(row, set).state = row.state
         /\ \A set \in [state : {"Deleted"}, mapped : {NoPhone}] :
                /\ Updated(row, set) \in ProblemRows
                /\ Updated(row, set).parent = row.parent
                /\ Updated(row, set).mapped = NoPhone
                /\ Updated(row, set).state = "Deleted"
<1>1. \A set \in ProblemRows : Updated(row, set) = set
  BY DEF Updated, ProblemRows
<1>2. ASSUME NEW set \in [active : BOOLEAN]
      PROVE  /\ Updated(row, set) \in ProblemRows
             /\ Updated(row, set).parent = row.parent
             /\ Updated(row, set).mapped = row.mapped
             /\ Updated(row, set).state = row.state
  BY DEF Updated, ProblemRows
<1>3. ASSUME NEW set \in [state : {"Deleted"}, mapped : {NoPhone}]
      PROVE  /\ Updated(row, set) \in ProblemRows
             /\ Updated(row, set).parent = row.parent
             /\ Updated(row, set).mapped = NoPhone
             /\ Updated(row, set).state = "Deleted"
  BY DEF Updated, ProblemRows, RowStates
<1> QED
  BY <1>1, <1>2, <1>3

LEMMA RequestAtWork ==
  ASSUME CatalogueTyped, NEW s \in Sessions, session[s] # NoSession
  PROVE  /\ session[s].touched \subseteq Touchable
         /\ session[s] = [touched |-> session[s].touched, todo |-> session[s].todo]
         /\ \/ Step(s) \in LastSteps /\ session[s].todo = <<Step(s)>> /\ Tail(session[s].todo) = << >>
            \/ /\ Step(s) \in PhoneSteps /\ session[s].todo[2] \in FlushSteps
               /\ session[s].todo = <<Step(s), session[s].todo[2]>>
               /\ Tail(session[s].todo) = <<session[s].todo[2]>>
<1>1. PICK d \in [touched : SUBSET Touchable, todo : Todos] : session[s] = d
  BY DEF CatalogueTyped
<1>2. d.todo \in Todos
  OBVIOUS
<1>3. CASE \E x \in LastSteps : d.todo = <<x>>
  BY <1>1, <1>3 DEF Step
<1>4. CASE \E x \in PhoneSteps, y \in FlushSteps : d.todo = <<x, y>>
  BY <1>1, <1>4 DEF Step
<1> QED
  BY <1>2, <1>3, <1>4 DEF Todos

\* What a request is doing.
LEMMA StepKinds ==
  ASSUME CatalogueTyped, NEW s \in Sessions
  PROVE  /\ Doing(s, "phone") => Step(s) \in PhoneSteps
         /\ Doing(s, "problem") => Step(s) \in ProblemSteps
         /\ Doing(s, "assign") => Step(s) \in AssignSteps
         /\ Doing(s, "order") => Step(s) \in OrderSteps
         /\ Doing(s, "flush") => Step(s) \in FlushSteps
         /\ Doing(s, "list") => Step(s) \in ListSteps
         /\ session[s] = NoSession \/ \E op \in {"phone", "problem", "assign", "order", "flush", "list"} :
                Doing(s, op)
<1>1. CASE session[s] = NoSession
  BY <1>1 DEF Doing
<1>2. CASE session[s] # NoSession
  <2>1. Step(s) \in LastSteps \/ Step(s) \in PhoneSteps
    BY <1>2, RequestAtWork
  <2>2. \A op : Doing(s, op) <=> Step(s).op = op
    BY <1>2 DEF Doing, Step
  <2> QED
    BY <2>1, <2>2 DEF LastSteps, PhoneSteps, FlushSteps, ProblemSteps, AssignSteps, ListSteps, OrderSteps
<1> QED
  BY <1>1, <1>2

LEMMA Proceeding ==
  ASSUME CatalogueTyped, NEW s \in Sessions, NEW op, Doing(s, op), Proceed(s)
  PROVE  /\ \A q \in Sessions \ {s} : session'[q] = session[q]
         /\ op # "phone" => session'[s] = NoSession
         /\ op = "phone" =>
                /\ session[s].todo[2] \in FlushSteps
                /\ session'[s] = [touched |-> session[s].touched, todo |-> <<session[s].todo[2]>>]
                /\ session'[s].touched = session[s].touched
                /\ Doing(s, "flush")' /\ Step(s)' = session[s].todo[2]
         /\ session' \in [Sessions -> {NoSession} \cup [touched : SUBSET Touchable, todo : Todos]]
         /\ \A q \in Sessions : session'[q].touched \subseteq session[q].touched
         /\ requests' = requests /\ raced' = raced
<1> DEFINE rest == Tail(session[s].todo)
           after == IF rest = << >> THEN NoSession ELSE [touched |-> session[s].touched, todo |-> rest]
<1>1. session[s] # NoSession
  BY DEF Doing
<1>2. session' = [session EXCEPT ![s] = after]
  BY DEF Proceed
<1>3. /\ \A q \in Sessions \ {s} : session'[q] = session[q]
      /\ session'[s] = after
      /\ requests' = requests /\ raced' = raced
  BY <1>2 DEF CatalogueTyped, Proceed
<1>4. CASE op # "phone"
  <2>1. Step(s) \in LastSteps /\ rest = << >>
    BY <1>4, <1>1, RequestAtWork DEF Doing, Step, PhoneSteps
  <2>2. after = NoSession /\ NoSession.touched = {}
    BY <2>1 DEF NoSession
  <2> QED
    BY <1>2, <1>3, <2>2, <1>4 DEF CatalogueTyped
<1>5. CASE op = "phone"
  <2>1. session[s].todo[2] \in FlushSteps /\ rest = <<session[s].todo[2]>> /\ session[s].touched \subseteq Touchable
    BY <1>5, <1>1, RequestAtWork DEF Doing, Step, LastSteps, FlushSteps, ProblemSteps, AssignSteps, ListSteps, OrderSteps
  <2> DEFINE y == session[s].todo[2]
  <2>2. rest # << >>
    <3>1. Len(rest) = 1 /\ Len(<< >>) = 0
      BY <2>1
    <3> HIDE DEF rest
    <3> QED
      BY <3>1
  <2>2a. after = [touched |-> session[s].touched, todo |-> <<y>>]
    BY <2>1, <2>2
  <2>3. after \in [touched : SUBSET Touchable, todo : Todos]
    BY <2>1, <2>2a DEF Todos, LastSteps
  <2>3a. after # NoSession
    <3>1. after.todo # NoSession.todo
      BY <2>1, <2>2 DEF NoSession
    <3> QED
      BY <3>1
  <2>4. Doing(s, "flush")' /\ Step(s)' = y
    <3>1. session'[s] # NoSession /\ session'[s].todo = <<y>>
      <4> HIDE DEF after
      <4>1. session'[s] = after
        BY <1>3
      <4>2. after.todo = <<y>>
        BY <2>2a
      <4> QED
        BY <4>1, <4>2, <2>3a
    <3>2. Head(session'[s].todo) = y
      BY <3>1
    <3> QED
      BY <3>1, <3>2, <2>1 DEF Doing, Step, FlushSteps
  <2> QED
    BY <1>2, <1>3, <2>1, <2>2a, <2>3, <2>4, <1>5 DEF CatalogueTyped
<1> QED
  BY <1>4, <1>5

LEMMA Starting ==
  ASSUME CatalogueTyped, NEW s \in Sessions, NEW touched \in SUBSET Touchable, NEW todo \in Todos,
         Start(s, touched, todo)
  PROVE  /\ session[s] = NoSession /\ session'[s] = [touched |-> touched, todo |-> todo]
         /\ \A q \in Sessions \ {s} :
                session'[q] = session[q] /\ touched \cap session[q].touched \subseteq raced'
         /\ raced \subseteq raced'
         /\ session'[s].touched = touched /\ session'[s].todo = todo /\ session'[s] # NoSession
         /\ CatalogueTyped'
         /\ UNCHANGED <<phone, problem, assigned, order, list, dormant, excused>>
<1>1. session[s] = NoSession /\ requests < MaxRequests /\ requests' = requests + 1
  BY DEF Start, Ready
<1>2. session' = [session EXCEPT ![s] = [touched |-> touched, todo |-> todo]]
  BY DEF Start
<1>3. session'[s] = [touched |-> touched, todo |-> todo] /\ \A q \in Sessions \ {s} : session'[q] = session[q]
  BY <1>2 DEF CatalogueTyped
<1>4. /\ raced \subseteq raced'
      /\ \A q \in Sessions \ {s} : touched \cap session[q].touched \subseteq raced'
  BY DEF Start
<1>5. todo # << >>
  BY DEF Todos
<1>6. session'[s] # NoSession
  BY <1>3, <1>5 DEF NoSession
<1>7. CatalogueTyped'
  <2>1. UNCHANGED <<phone, problem, assigned, order, list>>
    BY DEF Start
  <2>2. requests' \in 0 .. MaxRequests
    BY <1>1, MaxRequestsAssumption DEF CatalogueTyped
  <2>3. session' \in [Sessions -> {NoSession} \cup [touched : SUBSET Touchable, todo : Todos]]
    BY <1>2 DEF CatalogueTyped
  <2> QED
    BY <2>1, <2>2, <2>3 DEF CatalogueTyped
<1> QED
  BY <1>1, <1>3, <1>4, <1>6, <1>7 DEF Start

\* More races excuse more.
LEMMA RacesExcuse ==
  ASSUME CatalogueInv, UNCHANGED <<phone, problem, assigned, order, dormant, excused>>,
         raced \subseteq raced'
  PROVE  /\ TreesFit' /\ LiveParents' /\ ProblemsOnLeaves' /\ OrderKept'
         /\ \A s \in Sessions : session'[s] = session[s] => SessionFits(s)'
         /\ \A c, shown : ListTold(c, shown) => ListTold(c, shown)'
<1> USE DEF CatalogueInv
<1>1. TreesFit'
  BY DEF TreesFit, There
<1>2. LiveParents'
  BY DEF LiveParents, HangsTogether
<1>3. ProblemsOnLeaves'
  BY DEF ProblemsOnLeaves, MappedTo, OpenChildren
<1>4. \A c, shown : ListTold(c, shown) => ListTold(c, shown)'
  BY DEF ListTold, OpenChildren
<1>5. \A r, c : RowFits(r, c) => RowFits(r, c)'
  BY DEF RowFits, AllowedFor, MappedTo, PartsOf
<1>6. OrderKept'
  BY <1>5 DEF OrderKept
<1>7. ASSUME NEW s \in Sessions, session'[s] = session[s]
      PROVE  SessionFits(s)'
  <2>1. SessionFits(s) /\ (\A op : Doing(s, op)' <=> Doing(s, op)) /\ Step(s)' = Step(s)
    BY <1>7 DEF Doing, Step
  <2>2. PhoneFits(s)'
    BY <2>1, <1>7 DEF SessionFits, PhoneFits, MappedTo, OpenChildren
  <2>3. ProblemFits(s)'
    BY <2>1, <1>7 DEF SessionFits, ProblemFits, OpenChildren, There
  <2>4. AssignFits(s)'
    BY <2>1, <1>7 DEF SessionFits, AssignFits
  <2>5. ListFits(s)'
    BY <2>1, <1>7, <1>4 DEF SessionFits, ListFits
  <2>6. OrderFits(s)'
    BY <2>1, <1>7, <1>5 DEF SessionFits, OrderFits, There
  <2> QED
    BY <2>2, <2>3, <2>4, <2>5, <2>6 DEF SessionFits
<1> QED
  BY <1>1, <1>2, <1>3, <1>4, <1>6, <1>7

LEMMA StartKeeps ==
  ASSUME CatalogueInv, NEW s \in Sessions, NEW touched \in SUBSET Touchable, NEW todo \in Todos,
         Start(s, touched, todo), SessionFits(s)', todo[1].op # "flush"
  PROVE  CatalogueInv'
<1> USE DEF CatalogueInv
<1>1. /\ session[s] = NoSession /\ session'[s] = [touched |-> touched, todo |-> todo]
      /\ \A q \in Sessions \ {s} :
             session'[q] = session[q] /\ touched \cap session[q].touched \subseteq raced'
      /\ raced \subseteq raced'
      /\ session'[s].touched = touched /\ session'[s].todo = todo
      /\ CatalogueTyped'
      /\ UNCHANGED <<phone, problem, assigned, order, list, dormant, excused>>
  BY Starting
<1>2. /\ TreesFit' /\ LiveParents' /\ ProblemsOnLeaves' /\ OrderKept'
      /\ \A q \in Sessions : session'[q] = session[q] => SessionFits(q)'
      /\ \A c, shown : ListTold(c, shown) => ListTold(c, shown)'
  BY <1>1, RacesExcuse
<1>3. RacesNoted'
  BY <1>1 DEF RacesNoted
<1>4. ListsKept'
  <2>1. \A q \in Sessions \ {s} : \A op : (Doing(q, op)' <=> Doing(q, op)) /\ Step(q)' = Step(q)
    BY <1>1 DEF Doing, Step
  <2>2. ~Doing(s, "flush")
    BY <1>1 DEF Doing
  <2> QED
    BY <1>1, <1>2, <2>1, <2>2 DEF ListsKept
<1> QED
  BY <1>1, <1>2, <1>3, <1>4

LEMMA AbandonedKeeps ==
  ASSUME CatalogueInv, NEW s \in Sessions, Abandoned(s)
  PROVE  CatalogueInv'
<1> USE DEF CatalogueInv
<1>1. /\ session[s] # NoSession /\ session' = [session EXCEPT ![s] = NoSession]
      /\ UNCHANGED <<phone, problem, assigned, order, list, requests, dormant, excused>>
      /\ raced \subseteq raced'
      /\ Doing(s, "flush") => Step(s).keys \subseteq raced'
  BY DEF Abandoned, Doing, Step
<1>2. /\ session'[s] = NoSession
      /\ \A q \in Sessions \ {s} : session'[q] = session[q]
  BY <1>1 DEF CatalogueTyped
<1>3. CatalogueTyped'
  BY <1>1 DEF CatalogueTyped
<1>4. /\ TreesFit' /\ LiveParents' /\ ProblemsOnLeaves' /\ OrderKept'
      /\ \A q \in Sessions : session'[q] = session[q] => SessionFits(q)'
      /\ \A c, shown : ListTold(c, shown) => ListTold(c, shown)'
  BY <1>1, RacesExcuse
<1>5. RacesNoted'
  BY <1>1, <1>2 DEF RacesNoted, NoSession
<1>6. SessionFits(s)'
  BY <1>2 DEF SessionFits, PhoneFits, ProblemFits, AssignFits, ListFits, OrderFits, Doing
<1>7. ListsKept'
  <2> SUFFICES ASSUME NEW c \in EveryList, list'[c].cached,
                      \A q \in Sessions : ~(Doing(q, "flush") /\ c \in Step(q).keys)'
               PROVE  ListTold(c, list[c])'
    BY <1>1 DEF ListsKept
  <2>1. \A q \in Sessions \ {s} : ~(Doing(q, "flush") /\ c \in Step(q).keys)
    BY <1>2 DEF Doing, Step
  <2>2. CASE Doing(s, "flush") /\ c \in Step(s).keys
    BY <2>2, <1>1 DEF ListTold
  <2>3. CASE ~(Doing(s, "flush") /\ c \in Step(s).keys)
    BY <2>1, <2>3, <1>1, <1>4 DEF ListsKept
  <2> QED
    BY <2>2, <2>3
<1> QED
  BY <1>2, <1>3, <1>4, <1>5, <1>6, <1>7

\* What a commit does to the row of a phone category.
LEMMA PhoneCommitted ==
  ASSUME CatalogueInv, NEW s \in Sessions, CommitPhone(s)
  PROVE  LET id   == Step(s).id
             set  == Step(s).set
             keys == session[s].todo[2].keys
         IN  /\ id \in Phones /\ id \in session[s].touched
             /\ phone' \in [Phones -> PhoneRows]
             /\ \A x \in Phones \ {id} : phone'[x] = phone[x]
             /\ dormant \subseteq dormant' /\ \A c \in Phones : ~phone'[c].active => c \in dormant'
             /\ \/ /\ phone'[id] \in PhoneRows /\ phone'[id].state = "Open" /\ keys = EveryList
                   /\ phone'[id].parent \in session[s].touched
                   /\ phone'[id].parent \notin raced \cup {NoPhone} =>
                        phone[phone'[id].parent].state = "Open" /\ MappedTo(phone'[id].parent) = {}
                \/ /\ phone'[id].parent = phone[id].parent /\ phone'[id].state = phone[id].state
                   /\ keys = EveryList
                \/ /\ phone'[id].parent = phone[id].parent /\ phone'[id].state = "Deleted"
                   /\ id \notin raced => keys = {id, phone[id].parent} /\ OpenChildren(phone, id) = {}
<1> USE DEF CatalogueInv
<1> DEFINE id == Step(s).id
           set == Step(s).set
<1>1. Doing(s, "phone") /\ Step(s) \in PhoneSteps /\ id \in Phones /\ phone[id] \in PhoneRows
  BY StepKinds DEF CommitPhone, PhoneSteps, CatalogueTyped
<1>2. phone' = [phone EXCEPT ![id] = Updated(phone[id], set)]
  BY DEF CommitPhone
<1>3. PhoneFits(s)
  BY DEF SessionFits
<1>4. Updated(phone[id], set) \in PhoneRows
  BY <1>1, RowsWritten DEF PhoneSteps, PhoneSets
<1>5. /\ phone' \in [Phones -> PhoneRows]
      /\ phone'[id] = Updated(phone[id], set)
      /\ \A x \in Phones \ {id} : phone'[x] = phone[x]
  BY <1>1, <1>2, <1>4 DEF CatalogueTyped
<1>6. dormant \subseteq dormant' /\ \A c \in Phones : ~phone'[c].active => c \in dormant'
  BY <1>1, <1>5 DEF CommitPhone, TreesFit
<1>7. CASE set \in PhoneRows /\ set.state = "Open"
  <2>1. phone'[id] = set
    BY <1>1, <1>5, <1>7, RowsWritten
  <2>2. set \notin [active : BOOLEAN] /\ set \notin [state : {"Deleted"}]
    <3>1. DOMAIN set = {"parent", "active", "state"}
      BY <1>7 DEF PhoneRows
    <3>2. \A x \in [active : BOOLEAN] : DOMAIN x = {"active"}
      OBVIOUS
    <3>3. \A x \in [state : {"Deleted"}] : DOMAIN x = {"state"}
      OBVIOUS
    <3> QED
      BY <3>1, <3>2, <3>3
  <2> QED
    BY <1>1, <1>3, <1>5, <1>6, <1>7, <2>1, <2>2 DEF PhoneFits
<1>8. CASE set \in [active : BOOLEAN]
  <2>1. phone'[id].parent = phone[id].parent /\ phone'[id].state = phone[id].state
    BY <1>1, <1>5, <1>8, RowsWritten
  <2>2. set \notin PhoneRows /\ set \notin [state : {"Deleted"}]
    <3>1. DOMAIN set = {"active"}
      BY <1>8
    <3>2. \A x \in PhoneRows : DOMAIN x = {"parent", "active", "state"}
      BY DEF PhoneRows
    <3>3. \A x \in [state : {"Deleted"}] : DOMAIN x = {"state"}
      OBVIOUS
    <3> QED
      BY <3>1, <3>2, <3>3
  <2> QED
    BY <1>1, <1>3, <1>5, <1>6, <1>8, <2>1, <2>2 DEF PhoneFits
<1>9. CASE set \in [state : {"Deleted"}]
  <2>1. phone'[id].parent = phone[id].parent /\ phone'[id].state = "Deleted"
    BY <1>1, <1>5, <1>9, RowsWritten
  <2>2. set \notin PhoneRows /\ set \notin [active : BOOLEAN]
    <3>1. DOMAIN set = {"state"}
      BY <1>9
    <3>2. \A x \in PhoneRows : DOMAIN x = {"parent", "active", "state"}
      BY DEF PhoneRows
    <3>3. \A x \in [active : BOOLEAN] : DOMAIN x = {"active"}
      OBVIOUS
    <3> QED
      BY <3>1, <3>2, <3>3
  <2> QED
    BY <1>1, <1>3, <1>5, <1>6, <1>9, <2>1, <2>2 DEF PhoneFits
<1> QED
  BY <1>1, <1>7, <1>8, <1>9 DEF PhoneSteps, PhoneSets

LEMMA CommitPhoneKeeps ==
  ASSUME CatalogueInv, NEW s \in Sessions, CommitPhone(s)
  PROVE  CatalogueInv'
<1> USE DEF CatalogueInv
<1> DEFINE id   == Step(s).id
           keys == session[s].todo[2].keys
           Inserted == /\ phone'[id] \in PhoneRows /\ phone'[id].state = "Open" /\ keys = EveryList
                       /\ phone'[id].parent \in session[s].touched
                       /\ phone'[id].parent \notin raced \cup {NoPhone} =>
                            phone[phone'[id].parent].state = "Open" /\ MappedTo(phone'[id].parent) = {}
           Kept == /\ phone'[id].parent = phone[id].parent /\ phone'[id].state = phone[id].state
                   /\ keys = EveryList
           Gone == /\ phone'[id].parent = phone[id].parent /\ phone'[id].state = "Deleted"
                   /\ id \notin raced => keys = {id, phone[id].parent} /\ OpenChildren(phone, id) = {}
<1>1. /\ id \in Phones /\ id \in session[s].touched
      /\ phone' \in [Phones -> PhoneRows]
      /\ \A x \in Phones \ {id} : phone'[x] = phone[x]
      /\ dormant \subseteq dormant' /\ \A c \in Phones : ~phone'[c].active => c \in dormant'
      /\ Inserted \/ Kept \/ Gone
  BY PhoneCommitted
<1>2. UNCHANGED <<problem, assigned, order, list, excused>> /\ Doing(s, "phone") /\ Proceed(s)
  BY DEF CommitPhone
<1>3. /\ \A q \in Sessions \ {s} : session'[q] = session[q]
      /\ session'[s].touched = session[s].touched
      /\ Doing(s, "flush")' /\ Step(s)' = session[s].todo[2]
      /\ session' \in [Sessions -> {NoSession} \cup [touched : SUBSET Touchable, todo : Todos]]
      /\ requests' = requests /\ raced' = raced
  BY <1>2, Proceeding
<1>4. CatalogueTyped'
  BY <1>1, <1>2, <1>3 DEF CatalogueTyped
<1>5. /\ DOMAIN phone = Phones /\ DOMAIN phone' = Phones
      /\ phone \in [Phones -> PhoneRows]
  BY <1>1 DEF CatalogueTyped
\* Only the row that was written may come to a category, or leave it.
<1>6. \A x, d : d # id => (d \in OpenChildren(phone', x) <=> d \in OpenChildren(phone, x))
  BY <1>1, <1>5 DEF OpenChildren
<1>7. \A x : id \in OpenChildren(phone', x) /\ id \notin OpenChildren(phone, x) =>
          Inserted /\ x = phone'[id].parent
  BY <1>1, <1>5 DEF OpenChildren
<1>7a. \A x : x \notin session[s].touched => OpenChildren(phone', x) \subseteq OpenChildren(phone, x)
  BY <1>6, <1>7
<1>8. TreesFit'
  BY <1>1, <1>2, <1>3 DEF TreesFit, There
<1>9. RacesNoted'
  BY <1>3 DEF RacesNoted
<1>10. LiveParents'
  <2>1. HangsTogether(problem, raced \cup {NoProblem})'
    BY <1>2, <1>3 DEF LiveParents, HangsTogether
  <2>2. ASSUME NEW x \in Phones, phone'[x].state = "Open", phone'[x].parent \notin raced \cup {NoPhone}
        PROVE  phone'[phone'[x].parent].state = "Open"
    <3> DEFINE y == phone'[x].parent
    <3>1. y \in Phones
      BY <1>1, <2>2 DEF PhoneRows
    <3>2. \A z \in Phones : phone[z].state = "Open" /\ phone[z].parent \notin raced \cup {NoPhone}
              => phone[phone[z].parent].state = "Open"
      BY <1>5 DEF LiveParents, HangsTogether
    <3>3. CASE Inserted
      BY <3>1, <3>2, <3>3, <1>1, <2>2
    <3>4. CASE Kept
      BY <3>1, <3>2, <3>4, <1>1, <2>2
    <3>5. CASE Gone
      <4>1. x # id /\ phone[x] = phone'[x]
        BY <3>5, <2>2, <1>1
      <4>2. y # id
        <5>1. y = id => x \in OpenChildren(phone, id)
          BY <4>1, <2>2, <1>5 DEF OpenChildren
        <5> QED
          BY <5>1, <3>5, <2>2
      <4> QED
        BY <4>1, <4>2, <3>1, <3>2, <1>1, <2>2
    <3> QED
      BY <3>3, <3>4, <3>5, <1>1
  <2>3. HangsTogether(phone, raced \cup {NoPhone})'
    BY <2>2, <1>3, <1>5 DEF HangsTogether
  <2> QED
    BY <2>1, <2>3 DEF LiveParents
<1>11. ProblemsOnLeaves'
  <2> SUFFICES ASSUME NEW c \in Phones \ raced, MappedTo(c) # {}, NEW d \in OpenChildren(phone', c)
               PROVE  d \in dormant'
    BY <1>2, <1>3 DEF ProblemsOnLeaves, MappedTo
  <2>1. c # NoPhone
    BY NoneAssumption
  <2>2. d \in OpenChildren(phone, c)
    BY <1>6, <1>7, <2>1
  <2> QED
    BY <2>2, <1>1 DEF ProblemsOnLeaves
<1>12. OrderKept'
  BY <1>2, <1>3 DEF OrderKept, RowFits, AllowedFor, MappedTo, PartsOf
<1>13. ListsKept'
  <2> SUFFICES ASSUME NEW c \in EveryList, list[c].cached,
                      \A q \in Sessions : ~(Doing(q, "flush") /\ c \in Step(q).keys)'
               PROVE  ListTold(c, list[c])'
    BY <1>2 DEF ListsKept
  <2>1. c \notin keys
    BY <1>3
  <2>2. Gone
    BY <2>1, <1>1
  <2>3. \A q \in Sessions : ~(Doing(q, "flush") /\ c \in Step(q).keys)
    BY <1>2, <1>3 DEF Doing, Step
  <2>4. ListTold(c, list[c])
    BY <2>3 DEF ListsKept
  <2>5. \A x : OpenChildren(phone', x) \subseteq OpenChildren(phone, x)
    BY <1>6, <1>5, <2>2 DEF OpenChildren
  <2>6. \A d \in Phones \ raced : d \in OpenChildren(phone', c) <=> d \in OpenChildren(phone, c)
    <3>1. id \notin raced => id \notin OpenChildren(phone, c)
      BY <2>1, <2>2 DEF OpenChildren
    <3> QED
      BY <3>1, <1>6, <2>5
  <2> QED
    BY <2>4, <2>5, <2>6, <1>2, <1>3 DEF ListTold
<1>14. ASSUME NEW q \in Sessions
       PROVE  SessionFits(q)'
  <2>1. CASE q = s
    BY <2>1, <1>3 DEF SessionFits, PhoneFits, ProblemFits, AssignFits, ListFits, OrderFits, Doing, Step
  <2>2. CASE q # s
    <3>1. SessionFits(q) /\ (\A op : Doing(q, op)' <=> Doing(q, op)) /\ Step(q)' = Step(q)
          /\ session'[q] = session[q]
      BY <2>2, <1>3 DEF Doing, Step
    <3>2. session[q].touched \cap session[s].touched \subseteq raced
      BY <2>2 DEF RacesNoted
    <3>3. \A x \in session[q].touched \ raced :
              /\ x # id /\ OpenChildren(phone', x) \subseteq OpenChildren(phone, x)
      BY <3>2, <1>1, <1>7a
    <3>4. PhoneFits(q)'
      <4> SUFFICES ASSUME Doing(q, "phone") PROVE PhoneFits(q)'
        BY <3>1 DEF PhoneFits
      <4>1. Step(q) \in PhoneSteps
        BY StepKinds
      <4>2. \A x \in session[q].touched \cap Phones : x \notin raced => phone'[x] = phone[x]
        BY <3>3, <1>1
      <4> QED
        BY <3>1, <3>3, <4>1, <4>2, <1>2, <1>3 DEF SessionFits, PhoneFits, MappedTo, PhoneSteps, PhoneRows
    <3>5. ProblemFits(q)'
      <4> SUFFICES ASSUME Doing(q, "problem") PROVE ProblemFits(q)'
        BY <3>1 DEF ProblemFits
      <4>1. Step(q).set \in ProblemRows /\ Step(q).set.mapped # NoPhone => Step(q).set.mapped # NoProblem
        BY NoneAssumption DEF ProblemRows
      <4>2. \A x \in session[q].touched \ raced :
                OpenChildren(phone, x) \subseteq dormant => OpenChildren(phone', x) \subseteq dormant'
        BY <3>3, <1>1
      <4> QED
        BY <3>1, <4>1, <4>2, <1>2, <1>3 DEF SessionFits, ProblemFits, There, OpenChildren
    <3>6. AssignFits(q)'
      BY <3>1 DEF SessionFits, AssignFits
    <3>7. ListFits(q)'
      <4> SUFFICES ASSUME Doing(q, "list") PROVE ListFits(q)'
        BY <3>1 DEF ListFits
      <4> DEFINE c == Step(q).key
                 shown == Step(q).value
      <4>1. {c} \cup shown.rows \subseteq session[q].touched /\ ListTold(c, shown)
        BY <3>1 DEF SessionFits, ListFits
      <4>2. ASSUME c \notin raced, NEW d \in Phones \ raced
            PROVE  d \in OpenChildren(phone', c) <=> d \in OpenChildren(phone, c)
        <5>1. CASE d # id
          BY <5>1, <1>6
        <5>2. CASE d = id
          <6>1. d \notin session[q].touched
            BY <5>2, <3>3, <4>2
          <6>2. d \notin OpenChildren(phone, c)
            BY <6>1, <4>1, <4>2 DEF ListTold
          <6> QED
            BY <6>2, <3>3, <4>1, <4>2
        <5> QED
          BY <5>1, <5>2
      <4>3. ListTold(c, shown)'
        <5>1. \A d \in shown.rows \ raced : OpenChildren(phone', d) # {} => OpenChildren(phone, d) # {}
          BY <4>1, <3>3
        <5> HIDE DEF c, shown
        <5>2. c' = c /\ shown' = shown
          BY <3>1 DEF c, shown
        <5> QED
          BY <4>1, <4>2, <5>1, <5>2, <1>3 DEF ListTold
      <4> QED
        BY <4>1, <4>3, <3>1 DEF ListFits
    <3>8. OrderFits(q)'
      BY <3>1, <1>2, <1>3 DEF SessionFits, OrderFits, There, RowFits, AllowedFor, MappedTo, PartsOf
    <3> QED
      BY <3>4, <3>5, <3>6, <3>7, <3>8 DEF SessionFits
  <2> QED
    BY <2>1, <2>2
<1> QED
  BY <1>4, <1>8, <1>9, <1>10, <1>11, <1>12, <1>13, <1>14

LEMMA LeastNumber ==
  ASSUME NEW S \in SUBSET Nat, S # {}
  PROVE  \E n \in S : \A m \in S : n <= m
<1>1. IsWellFoundedOn(OpToRel(<, Nat), Nat)
  BY NatLessThanWellFounded
<1>2. PICK n \in S : \A m \in S : <<m, n>> \notin OpToRel(<, Nat)
  BY <1>1, WFMin, Zenon
<1>3. \A m \in S : ~(m < n)
  BY <1>2, Zenon DEF OpToRel
<1> QED
  BY <1>3

\* The way up from a problem, k steps of it.
Above(tree, x) == IF x = NoProblem THEN NoProblem ELSE tree[x].parent
Climbs(tree, p, up, k) ==
    /\ up \in [0 .. k -> Problems \cup {NoProblem}] /\ up[0] = p
    /\ \A n \in 1 .. k : up[n] = Above(tree, up[n - 1])

LEMMA PathClimbs ==
  ASSUME NEW tree \in [Problems -> ProblemRows], NEW p \in Problems
  PROVE  \E up : /\ Climbs(tree, p, up, Cardinality(Problems))
                 /\ Path(tree, p) = {up[n] : n \in 0 .. Cardinality(Problems)} \ {NoProblem}
<1> DEFINE N == Cardinality(Problems)
           Defined(f) == f = [n \in 0 .. N |->
                IF n = 0 THEN p
                ELSE IF f[n - 1] = NoProblem THEN NoProblem ELSE tree[f[n - 1]].parent]
<1>0. N \in Nat
  BY ProblemsAssumption, FS_CardinalityType
<1>1. \A x \in Problems \cup {NoProblem} : Above(tree, x) \in Problems \cup {NoProblem}
  BY DEF Above, ProblemRows
<1>2. \A k \in Nat : \E up : Climbs(tree, p, up, k)
  <2> DEFINE Bad == {k \in Nat : ~\E up : Climbs(tree, p, up, k)}
  <2> SUFFICES ASSUME Bad # {} PROVE FALSE
    OBVIOUS
  <2>1. PICK k \in Bad : \A m \in Bad : k <= m
    BY LeastNumber
  <2>2. CASE k = 0
    <3> DEFINE up == [n \in 0 .. 0 |-> p]
    <3>1. Climbs(tree, p, up, 0)
      BY DEF Climbs
    <3> QED
      BY <3>1, <2>1, <2>2
  <2>3. CASE k # 0
    <3>1. k - 1 \in Nat /\ k - 1 \notin Bad
      BY <2>1, <2>3
    <3>2. PICK f : Climbs(tree, p, f, k - 1)
      BY <3>1
    <3> DEFINE up == [n \in 0 .. k |-> IF n = k THEN Above(tree, f[k - 1]) ELSE f[n]]
    <3>3. Climbs(tree, p, up, k)
      <4>1. /\ f \in [0 .. k - 1 -> Problems \cup {NoProblem}] /\ f[0] = p
            /\ \A n \in 1 .. k - 1 : f[n] = Above(tree, f[n - 1])
        BY <3>2 DEF Climbs
      <4>2. \A n \in 0 .. k : n = k \/ n \in 0 .. k - 1
        BY <2>1
      <4>3. up \in [0 .. k -> Problems \cup {NoProblem}]
        BY <4>1, <4>2, <1>1, <3>1
      <4>4. up[0] = p
        BY <4>1, <2>3, <2>1
      <4>5. ASSUME NEW n \in 1 .. k PROVE up[n] = Above(tree, up[n - 1])
        <5>1. up[n - 1] = f[n - 1]
          BY <2>1
        <5>2. n = k \/ n \in 1 .. k - 1
          BY <2>1
        <5> QED
          BY <5>1, <5>2, <4>1
      <4> QED
        BY <4>3, <4>4, <4>5 DEF Climbs
    <3> QED
      BY <3>3, <2>1
  <2> QED
    BY <2>2, <2>3
<1>3. \E f : Defined(f)
  <2>1. PICK f : Climbs(tree, p, f, N)
    BY <1>0, <1>2
  <2>2. \A n \in 0 .. N : f[n] = IF n = 0 THEN p ELSE Above(tree, f[n - 1])
    BY <1>0, <2>1 DEF Climbs
  <2>3. Defined(f)
    BY <2>1, <2>2 DEF Climbs, Above
  <2> QED
    BY <2>3
<1>4. ASSUME NEW f, Defined(f)
      PROVE  Climbs(tree, p, f, N)
  <2>1. DOMAIN f = 0 .. N /\ \A n \in 0 .. N : f[n] = IF n = 0 THEN p ELSE Above(tree, f[n - 1])
    BY <1>4 DEF Above
  <2>2. \A n \in 0 .. N : f[n] \in Problems \cup {NoProblem}
    <3> DEFINE Bad == {n \in 0 .. N : f[n] \notin Problems \cup {NoProblem}}
    <3> SUFFICES ASSUME Bad # {} PROVE FALSE
      OBVIOUS
    <3>1. Bad \in SUBSET Nat
      BY <1>0
    <3>2. PICK n \in Bad : \A m \in Bad : n <= m
      BY <3>1, LeastNumber
    <3>3. n # 0
      BY <2>1, <3>2
    <3>4. n - 1 \in 0 .. N /\ n - 1 \notin Bad
      BY <1>0, <3>2, <3>3
    <3> QED
      BY <3>2, <3>3, <3>4, <2>1, <1>1
  <2>3. \A n \in 1 .. N : f[n] = Above(tree, f[n - 1])
    BY <2>1, <1>0
  <2>4. f = [n \in 0 .. N |-> f[n]]
    BY <1>4, <2>1
  <2>5. f \in [0 .. N -> Problems \cup {NoProblem}]
    <3> HIDE DEF Defined
    <3>1. [n \in 0 .. N |-> f[n]] \in [0 .. N -> Problems \cup {NoProblem}]
      BY <2>2
    <3> QED
      BY <3>1, <2>4
  <2>6. f[0] = p
    BY <1>0, <2>1
  <2> HIDE DEF Defined, N
  <2> QED
    BY <2>3, <2>5, <2>6 DEF Climbs
<1> DEFINE u == CHOOSE f : Defined(f)
<1>5. Defined(u)
  BY <1>3
<1>6. Path(tree, p) = {u[n] : n \in 0 .. N} \ {NoProblem}
  BY DEF Path
<1> QED
  BY <1>4, <1>5, <1>6


\* What is on the way: the problem itself and nothing but problems.  It is the
\* same where the rows on it hang from the same ones.
LEMMA PathIsOf ==
  ASSUME NEW tree \in [Problems -> ProblemRows], NEW p \in Problems
  PROVE  p \in Path(tree, p) /\ Path(tree, p) \subseteq Problems
<1> DEFINE N == Cardinality(Problems)
<1>1. N \in Nat
  BY ProblemsAssumption, FS_CardinalityType
<1>2. PICK up : Climbs(tree, p, up, N) /\ Path(tree, p) = {up[n] : n \in 0 .. N} \ {NoProblem}
  BY PathClimbs
<1>3. p # NoProblem
  BY NoneAssumption
<1> HIDE DEF N
<1> QED
  BY <1>1, <1>2, <1>3 DEF Climbs

LEMMA PathsAgree ==
  ASSUME NEW old \in [Problems -> ProblemRows], NEW new \in [Problems -> ProblemRows], NEW p \in Problems,
         \/ \A x \in Path(new, p) : new[x].parent = old[x].parent
         \/ \A x \in Path(old, p) : new[x].parent = old[x].parent
  PROVE  Path(new, p) = Path(old, p)
<1> DEFINE N == Cardinality(Problems)
<1>0. N \in Nat
  BY ProblemsAssumption, FS_CardinalityType
<1>1. PICK f : Climbs(old, p, f, N) /\ Path(old, p) = {f[n] : n \in 0 .. N} \ {NoProblem}
  BY PathClimbs
<1>2. PICK g : Climbs(new, p, g, N) /\ Path(new, p) = {g[n] : n \in 0 .. N} \ {NoProblem}
  BY PathClimbs
<1> HIDE DEF N
<1>3. \A n \in 0 .. N : f[n] = g[n]
  <2> DEFINE Bad == {n \in 0 .. N : f[n] # g[n]}
  <2> SUFFICES ASSUME Bad # {} PROVE FALSE
    OBVIOUS
  <2>1. Bad \in SUBSET Nat
    BY <1>0
  <2>2. PICK n \in Bad : \A m \in Bad : n <= m
    BY <2>1, LeastNumber
  <2>3. n # 0
    BY <1>1, <1>2, <2>2 DEF Climbs
  <2>4. n - 1 \in 0 .. N /\ n \in 1 .. N /\ n - 1 \notin Bad
    BY <1>0, <2>2, <2>3
  <2> DEFINE x == f[n - 1]
  <2>5. g[n - 1] = x /\ f[n] = Above(old, x) /\ g[n] = Above(new, x)
    BY <1>1, <1>2, <2>4 DEF Climbs
  <2>6. x = NoProblem \/ (x \in Path(old, p) /\ x \in Path(new, p))
    BY <1>1, <1>2, <2>4, <2>5
  <2> QED
    BY <2>2, <2>5, <2>6 DEF Above
<1> QED
  BY <1>1, <1>2, <1>3

\* Whatever holds of a problem and is handed up holds all the way.
LEMMA PathHolds ==
  ASSUME NEW tree \in [Problems -> ProblemRows], NEW p \in Problems, NEW S, p \in S,
         \A x \in Path(tree, p) \cap S : tree[x].parent \in S \cup {NoProblem} \/ tree[x].parent \notin Path(tree, p)
  PROVE  Path(tree, p) \subseteq S
<1> DEFINE N == Cardinality(Problems)
<1>0. N \in Nat
  BY ProblemsAssumption, FS_CardinalityType
<1>1. PICK f : Climbs(tree, p, f, N) /\ Path(tree, p) = {f[n] : n \in 0 .. N} \ {NoProblem}
  BY PathClimbs
<1> HIDE DEF N
<1>3. \A n \in 0 .. N : f[n] \in S \cup {NoProblem}
  <2> DEFINE Bad == {n \in 0 .. N : f[n] \notin S \cup {NoProblem}}
  <2> SUFFICES ASSUME Bad # {} PROVE FALSE
    OBVIOUS
  <2>1. Bad \in SUBSET Nat
    BY <1>0
  <2>2. PICK n \in Bad : \A m \in Bad : n <= m
    BY <2>1, LeastNumber
  <2>3. n # 0
    BY <1>1, <2>2 DEF Climbs
  <2>4. n - 1 \in 0 .. N /\ n \in 1 .. N /\ n - 1 \notin Bad
    BY <1>0, <2>2, <2>3
  <2> DEFINE x == f[n - 1]
  <2>5. f[n] = Above(tree, x) /\ x \in S \cup {NoProblem}
    BY <1>1, <2>4 DEF Climbs
  <2>6. x = NoProblem \/ x \in Path(tree, p)
    BY <1>1, <2>4
  <2>7. f[n] = NoProblem \/ f[n] \in Path(tree, p)
    BY <1>1, <2>2
  <2> QED
    BY <2>2, <2>5, <2>6, <2>7 DEF Above
<1> QED
  BY <1>1, <1>3

LEMMA OpenAllTheWay ==
  ASSUME NEW tree \in [Problems -> ProblemRows], NEW but, HangsTogether(tree, but \cup {NoProblem}),
         NEW p \in Problems, tree[p].state = "Open", Path(tree, p) \cap but = {}
  PROVE  \A x \in Path(tree, p) : tree[x].state = "Open"
<1> DEFINE S == {x \in Problems : tree[x].state = "Open"}
<1>1. ASSUME NEW x \in Path(tree, p) \cap S, tree[x].parent \in Path(tree, p)
      PROVE  tree[x].parent \in S \cup {NoProblem}
  <2>1. tree[x].parent \in Problems \cup {NoProblem} /\ DOMAIN tree = Problems
    BY DEF ProblemRows
  <2> QED
    BY <1>1, <2>1 DEF HangsTogether
<1>2. Path(tree, p) \subseteq S
  BY <1>1, PathHolds
<1> QED
  BY <1>2

LEMMA ThereAllTheWay ==
  ASSUME CatalogueTyped, TreesFit, NEW p \in Problems, There(p)
  PROVE  \A x \in Path(problem, p) : There(x)
<1> DEFINE S == {x \in Problems : There(x)}
<1>1. problem \in [Problems -> ProblemRows]
  BY DEF CatalogueTyped
<1>2. ASSUME NEW x \in Path(problem, p) \cap S
      PROVE  problem[x].parent \in S \cup {NoProblem}
  BY <1>1, <1>2 DEF TreesFit, ProblemRows
<1>3. Path(problem, p) \subseteq S
  BY <1>1, <1>2, PathHolds
<1> QED
  BY <1>3

\* What a commit does to the row of a problem.
LEMMA ProblemCommitted ==
  ASSUME CatalogueInv, NEW s \in Sessions, CommitProblem(s)
  PROVE  LET id == Step(s).id
         IN  /\ id \in Problems /\ id \in session[s].touched
             /\ problem' \in [Problems -> ProblemRows]
             /\ \A x \in Problems \ {id} : problem'[x] = problem[x]
             /\ \/ /\ problem'[id].state = "Open"
                   /\ problem'[id].mapped # NoPhone => problem'[id].parent = NoProblem
                   /\ {problem'[id].parent, problem'[id].mapped} \ {NoProblem, NoPhone} \subseteq session[s].touched
                   /\ id \notin raced => ~There(id)
                   /\ problem'[id].parent # NoProblem => There(problem'[id].parent)
                   /\ problem'[id].parent \notin raced \cup {NoProblem} =>
                        problem[problem'[id].parent].state = "Open"
                   /\ problem'[id].mapped \notin raced \cup {NoPhone} =>
                        OpenChildren(phone, problem'[id].mapped) \subseteq dormant
                \/ /\ problem'[id].parent = problem[id].parent /\ problem'[id].mapped = problem[id].mapped
                   /\ problem'[id].state = problem[id].state /\ There(id)
                \/ /\ problem'[id].parent = problem[id].parent /\ problem'[id].mapped = NoPhone
                   /\ problem'[id].state = "Deleted" /\ There(id)
                   /\ id \notin raced => OpenChildren(problem, id) = {}
<1> USE DEF CatalogueInv
<1> DEFINE id == Step(s).id
           set == Step(s).set
<1>1. /\ Doing(s, "problem") /\ Step(s) \in ProblemSteps /\ id \in Problems /\ problem[id] \in ProblemRows
      /\ set \in ProblemSets
  BY StepKinds DEF CommitProblem, ProblemSteps, CatalogueTyped
<1>2. problem' = [problem EXCEPT ![id] = Updated(problem[id], set)]
  BY DEF CommitProblem
<1>3. ProblemFits(s)
  BY DEF SessionFits
<1>4. Updated(problem[id], set) \in ProblemRows
  BY <1>1, ProblemsWritten DEF ProblemSets
<1>5. /\ problem' \in [Problems -> ProblemRows]
      /\ problem'[id] = Updated(problem[id], set)
      /\ \A x \in Problems \ {id} : problem'[x] = problem[x]
  BY <1>1, <1>2, <1>4 DEF CatalogueTyped
<1>6. /\ \A x \in ProblemRows : DOMAIN x = {"parent", "mapped", "active", "state"}
      /\ \A x \in [active : BOOLEAN] : DOMAIN x = {"active"}
      /\ \A x \in [state : {"Deleted"}, mapped : {NoPhone}] : DOMAIN x = {"state", "mapped"}
  <2>1. \A x \in ProblemRows : DOMAIN x = {"parent", "mapped", "active", "state"}
    BY DEF ProblemRows
  <2>2. \A x \in [active : BOOLEAN] : DOMAIN x = {"active"}
    OBVIOUS
  <2>3. \A x \in [state : {"Deleted"}, mapped : {NoPhone}] : DOMAIN x = {"state", "mapped"}
    OBVIOUS
  <2> QED
    BY <2>1, <2>2, <2>3
<1>7. CASE set \in ProblemRows /\ set.state = "Open"
  <2>1. problem'[id] = set
    BY <1>1, <1>5, <1>7, ProblemsWritten
  <2>2. set \notin [active : BOOLEAN] /\ set \notin [state : {"Deleted"}, mapped : {NoPhone}]
    BY <1>6, <1>7
  <2> QED
    BY <1>1, <1>3, <1>5, <1>7, <2>1, <2>2 DEF ProblemFits
<1>8. CASE set \in [active : BOOLEAN]
  <2>1. /\ problem'[id].parent = problem[id].parent /\ problem'[id].mapped = problem[id].mapped
        /\ problem'[id].state = problem[id].state
    BY <1>1, <1>5, <1>8, ProblemsWritten
  <2>2. set \notin ProblemRows /\ set \notin [state : {"Deleted"}, mapped : {NoPhone}]
    BY <1>6, <1>8
  <2> QED
    BY <1>1, <1>3, <1>5, <1>8, <2>1, <2>2 DEF ProblemFits
<1>9. CASE set \in [state : {"Deleted"}, mapped : {NoPhone}]
  <2>1. /\ problem'[id].parent = problem[id].parent /\ problem'[id].mapped = NoPhone
        /\ problem'[id].state = "Deleted"
    BY <1>1, <1>5, <1>9, ProblemsWritten
  <2>2. set \notin ProblemRows /\ set \notin [active : BOOLEAN]
    BY <1>6, <1>9
  <2> QED
    BY <1>1, <1>3, <1>5, <1>9, <2>1, <2>2 DEF ProblemFits
<1> QED
  BY <1>1, <1>7, <1>8, <1>9 DEF ProblemSets

LEMMA Finishing ==
  ASSUME CatalogueTyped, NEW s \in Sessions, NEW op, Doing(s, op), op # "phone", Proceed(s)
  PROVE  /\ \A q \in Sessions \ {s} : session'[q] = session[q]
         /\ session'[s] = NoSession
         /\ session' \in [Sessions -> {NoSession} \cup [touched : SUBSET Touchable, todo : Todos]]
         /\ \A q \in Sessions : session'[q].touched \subseteq session[q].touched
         /\ requests' = requests /\ raced' = raced
         /\ SessionFits(s)'
         /\ \A q \in Sessions : \A kind : kind # op =>
                (Doing(q, kind)' <=> Doing(q, kind)) /\ (Doing(q, kind) => Step(q)' = Step(q))
<1>1. /\ \A q \in Sessions \ {s} : session'[q] = session[q]
      /\ session'[s] = NoSession
      /\ session' \in [Sessions -> {NoSession} \cup [touched : SUBSET Touchable, todo : Todos]]
      /\ \A q \in Sessions : session'[q].touched \subseteq session[q].touched
      /\ requests' = requests /\ raced' = raced
  BY Proceeding, Zenon
<1>2. SessionFits(s)'
  BY <1>1 DEF SessionFits, PhoneFits, ProblemFits, AssignFits, ListFits, OrderFits, Doing
<1>3. \A q \in Sessions : \A kind : kind # op =>
          (Doing(q, kind)' <=> Doing(q, kind)) /\ (Doing(q, kind) => Step(q)' = Step(q))
  BY <1>1 DEF Doing, Step
<1> QED
  BY <1>1, <1>2, <1>3

LEMMA CommitProblemKeeps ==
  ASSUME CatalogueInv, NEW s \in Sessions, CommitProblem(s)
  PROVE  CatalogueInv'
<1> USE DEF CatalogueInv
<1> DEFINE id == Step(s).id
           parent == problem'[id].parent
           mapped == problem'[id].mapped
           Inserted == /\ problem'[id].state = "Open"
                       /\ mapped # NoPhone => parent = NoProblem
                       /\ {parent, mapped} \ {NoProblem, NoPhone} \subseteq session[s].touched
                       /\ id \notin raced => ~There(id)
                       /\ parent # NoProblem => There(parent)
                       /\ parent \notin raced \cup {NoProblem} => problem[parent].state = "Open"
                       /\ mapped \notin raced \cup {NoPhone} => OpenChildren(phone, mapped) \subseteq dormant
           Kept == /\ parent = problem[id].parent /\ mapped = problem[id].mapped
                   /\ problem'[id].state = problem[id].state /\ There(id)
           Gone == /\ parent = problem[id].parent /\ mapped = NoPhone
                   /\ problem'[id].state = "Deleted" /\ There(id)
                   /\ id \notin raced => OpenChildren(problem, id) = {}
<1>1. /\ id \in Problems /\ id \in session[s].touched
      /\ problem' \in [Problems -> ProblemRows]
      /\ \A x \in Problems \ {id} : problem'[x] = problem[x]
      /\ Inserted \/ Kept \/ Gone
  BY ProblemCommitted
<1>2. UNCHANGED <<phone, assigned, order, list, excused, dormant>> /\ Doing(s, "problem") /\ Proceed(s)
  BY DEF CommitProblem
<1>3. /\ \A q \in Sessions \ {s} : session'[q] = session[q]
      /\ session'[s] = NoSession
      /\ session' \in [Sessions -> {NoSession} \cup [touched : SUBSET Touchable, todo : Todos]]
      /\ \A q \in Sessions : session'[q].touched \subseteq session[q].touched
      /\ requests' = requests /\ raced' = raced
  <2>1. "problem" # "phone"
    OBVIOUS
  <2> QED
    BY <2>1, <1>2, Finishing, Zenon
<1>4. CatalogueTyped'
  BY <1>1, <1>2, <1>3 DEF CatalogueTyped
<1>5. /\ DOMAIN problem = Problems /\ DOMAIN problem' = Problems
      /\ problem \in [Problems -> ProblemRows]
      /\ parent \in Problems \cup {NoProblem} /\ mapped \in Phones \cup {NoPhone}
  BY <1>1 DEF CatalogueTyped, ProblemRows
<1>6. /\ \A x \in Problems : There(x) => There(x)'
      /\ \A x \in Problems \ {id} : There(x)' <=> There(x)
  BY <1>1 DEF There
<1>7. \A x, d : d \in OpenChildren(problem', x) /\ d \notin OpenChildren(problem, x) =>
          d = id /\ Inserted /\ x = parent
  BY <1>1, <1>5 DEF OpenChildren
<1>8. TreesFit'
  <2>1. ASSUME NEW p \in Problems, problem'[p].state # "absent", problem'[p].parent # NoProblem
        PROVE  problem'[problem'[p].parent].state # "absent"
    <3> DEFINE y == problem'[p].parent
    <3>1. y \in Problems
      BY <2>1, <1>1 DEF ProblemRows
    <3>2. There(y)
      <4>1. CASE p = id
        BY <4>1, <3>1, <2>1, <1>1 DEF TreesFit
      <4>2. CASE p # id
        BY <4>2, <3>1, <2>1, <1>1 DEF TreesFit, There
      <4> QED
        BY <4>1, <4>2
    <3>3. There(y) => problem'[y].state # "absent"
      BY <3>1, <1>1 DEF There
    <3> QED
      BY <3>2, <3>3
  <2>2. \A p \in Problems : problem'[p].mapped # NoPhone =>
              problem'[p].parent = NoProblem /\ problem'[p].state = "Open"
    BY <1>1 DEF TreesFit
  <2>3. \A r \in order.rows : There(r.problem)'
    BY <1>6 DEF TreesFit, CatalogueTyped, OrderRows
  <2> QED
    BY <2>1, <2>2, <2>3, <1>2 DEF TreesFit, There
<1>9. RacesNoted'
  BY <1>3 DEF RacesNoted
<1>10. LiveParents'
  <2>1. HangsTogether(phone, raced \cup {NoPhone})'
    BY <1>2, <1>3 DEF LiveParents, HangsTogether
  <2>2. ASSUME NEW x \in Problems, problem'[x].state = "Open", problem'[x].parent \notin raced \cup {NoProblem}
        PROVE  problem'[problem'[x].parent].state = "Open"
    <3> DEFINE y == problem'[x].parent
    <3>1. y \in Problems
      BY <1>1, <2>2 DEF ProblemRows
    <3>2. \A z \in Problems : problem[z].state = "Open" /\ problem[z].parent \notin raced \cup {NoProblem}
              => problem[problem[z].parent].state = "Open"
      BY <1>5 DEF LiveParents, HangsTogether
    <3>3. CASE Inserted
      BY <3>1, <3>2, <3>3, <1>1, <2>2
    <3>4. CASE Kept
      BY <3>1, <3>2, <3>4, <1>1, <2>2
    <3>5. CASE Gone
      <4>1. x # id /\ problem[x] = problem'[x]
        BY <3>5, <2>2, <1>1
      <4>2. y # id
        <5>1. y = id => x \in OpenChildren(problem, id)
          BY <4>1, <2>2, <1>5 DEF OpenChildren
        <5> QED
          BY <5>1, <3>5, <2>2
      <4> QED
        BY <4>1, <4>2, <3>1, <3>2, <1>1, <2>2
    <3> QED
      BY <3>3, <3>4, <3>5, <1>1
  <2>3. HangsTogether(problem, raced \cup {NoProblem})'
    BY <2>2, <1>3, <1>5 DEF HangsTogether
  <2> QED
    BY <2>1, <2>3 DEF LiveParents
\* A phone category gains the problem that was inserted, or none.
<1>10a. \A c \in Phones : MappedTo(c)' \subseteq MappedTo(c) \/ (Inserted /\ c = mapped)
  BY <1>1, NoneAssumption DEF MappedTo
<1>11. ProblemsOnLeaves'
  BY <1>2, <1>3, <1>10a, NoneAssumption DEF ProblemsOnLeaves
<1>12. ASSUME NEW r \in OrderRows, There(r.problem), NEW c, RowFits(r, c)
       PROVE  RowFits(r, c)'
  <2> DEFINE p == r.problem
  <2> SUFFICES ASSUME problem'[p].state = "Open", Path(problem', p) \cap raced = {}
               PROVE  p \in AllowedFor(c)' /\ r.parts \subseteq PartsOf(p)'
    BY <1>3 DEF RowFits
  <2>1. p \in Problems
    BY DEF OrderRows
  <2>2. Path(problem', p) = Path(problem, p)
    <3>1. CASE Inserted /\ id \notin raced
      <4>1. id \notin Path(problem, p)
        BY <3>1, <2>1, <1>12, ThereAllTheWay
      <4>2. \A x \in Path(problem, p) : problem'[x].parent = problem[x].parent
        BY <4>1, <2>1, <1>1, <1>5, PathIsOf
      <4> QED
        BY <4>2, <2>1, <1>1, <1>5, PathsAgree
    <3>2. CASE Inserted /\ id \in raced
      <4>1. \A x \in Path(problem', p) : problem'[x].parent = problem[x].parent
        BY <3>2, <2>1, <1>1, PathIsOf
      <4> QED
        BY <4>1, <2>1, <1>1, <1>5, PathsAgree
    <3>3. CASE Kept \/ Gone
      <4>1. \A x \in Path(problem, p) : problem'[x].parent = problem[x].parent
        BY <3>3, <2>1, <1>1, <1>5, PathIsOf
      <4> QED
        BY <4>1, <2>1, <1>1, <1>5, PathsAgree
    <3> QED
      BY <3>1, <3>2, <3>3, <1>1
  \* On its way the row that was written was there before, and is open.
  <2>3. id \in Path(problem, p) => Kept
    <3>1. \A x \in Path(problem', p) : problem'[x].state = "Open"
      <4>1. HangsTogether(problem', raced \cup {NoProblem})
        BY <1>3, <1>10 DEF LiveParents
      <4> QED
        BY <4>1, <2>1, <1>1, OpenAllTheWay
    <3>2. ~Gone \/ id \notin Path(problem, p)
      BY <3>1, <2>2
    <3>3. ~Inserted \/ Kept \/ id \notin Path(problem, p)
      BY <2>1, <2>2, <1>12, ThereAllTheWay
    <3> QED
      BY <3>2, <3>3, <1>1
  <2>4. problem[p].state = "Open" /\ p \in Path(problem, p)
    <3>1. p \in Path(problem, p)
      BY <2>1, <1>5, PathIsOf
    <3>2. problem'[p].state = "Open"
      OBVIOUS
    <3>3. p = id => Kept
      BY <3>1, <2>3
    <3>4. p # id => problem'[p] = problem[p]
      BY <2>1, <1>1
    <3>5. problem[p].state = "Open"
      <4> HIDE DEF p
      <4> QED
        BY <3>2, <3>3, <3>4
    <3> QED
      BY <3>1, <3>5
  <2>5. p \in AllowedFor(c) /\ r.parts \subseteq PartsOf(p)
    BY <1>12, <2>2, <2>4 DEF RowFits
  <2>6. \A y \in Path(problem, p) : problem'[y].mapped = problem[y].mapped
    BY <2>1, <2>3, <1>1, <1>5, PathIsOf
  <2>7. Path(problem, p) \cap MappedTo(c) = Path(problem', p) \cap MappedTo(c)'
    BY <2>2, <2>6 DEF MappedTo
  <2>8. p \in AllowedFor(c)'
    BY <2>5, <2>7 DEF AllowedFor
  <2> QED
    BY <2>5, <2>8, <1>2 DEF PartsOf
<1>13. OrderKept'
  BY <1>2, <1>3, <1>12 DEF OrderKept, CatalogueTyped, TreesFit
<1>14. ListsKept'
  <2>1. \A q \in Sessions : \A op : op # "problem" => ((Doing(q, op)' <=> Doing(q, op)) /\ (Doing(q, op) => Step(q)' = Step(q)))
    BY <1>2, <1>3 DEF Doing, Step
  <2> QED
    BY <2>1, <1>2, <1>3 DEF ListsKept, ListTold
<1>15. ASSUME NEW q \in Sessions
       PROVE  SessionFits(q)'
  <2>1. CASE q = s
    BY <2>1, <1>3 DEF SessionFits, PhoneFits, ProblemFits, AssignFits, ListFits, OrderFits, Doing
  <2>2. CASE q # s
    <3>1. SessionFits(q) /\ (\A op : Doing(q, op)' <=> Doing(q, op)) /\ Step(q)' = Step(q)
          /\ session'[q] = session[q]
      BY <2>2, <1>3 DEF Doing, Step
    <3>2. session[q].touched \cap session[s].touched \subseteq raced
      BY <2>2 DEF RacesNoted
    <3>4. PhoneFits(q)'
      <4> SUFFICES ASSUME Doing(q, "phone") PROVE PhoneFits(q)'
        BY <3>1 DEF PhoneFits
      <4>1. \A c \in Phones : c \in session[q].touched \ raced => MappedTo(c)' \subseteq MappedTo(c)
        BY <3>2, <1>10a, NoneAssumption
      <4>2. \A row \in PhoneRows : row.parent \in Phones \cup {NoPhone}
        BY DEF PhoneRows
      <4> QED
        BY <3>1, <4>1, <4>2, <1>2, <1>3 DEF SessionFits, PhoneFits
    <3>5. ProblemFits(q)'
      <4> SUFFICES ASSUME Doing(q, "problem") PROVE ProblemFits(q)'
        BY <3>1 DEF ProblemFits
      <4>1. \A x \in Problems : x \in session[q].touched \ raced =>
                /\ problem'[x] = problem[x] /\ (There(x)' <=> There(x))
                /\ OpenChildren(problem', x) \subseteq OpenChildren(problem, x)
        <5>1. \A x \in Problems : x \in session[q].touched \ raced => x # id
          BY <3>2, <1>1
        <5>2. \A x \in Problems : x \in session[q].touched \ raced => ~(Inserted /\ x = parent)
          BY <3>2, NoneAssumption
        <5> QED
          BY <5>1, <5>2, <1>1, <1>6, <1>7
      <4>2. \A row \in ProblemRows : row.parent \in Problems \cup {NoProblem}
        BY DEF ProblemRows
      <4>3. Step(q).id \in Problems
        BY StepKinds DEF ProblemSteps
      <4> QED
        BY <3>1, <4>1, <4>2, <4>3, <1>2, <1>3, <1>6, NoneAssumption DEF SessionFits, ProblemFits
    <3>6. AssignFits(q)'
      BY <3>1 DEF SessionFits, AssignFits
    <3>7. ListFits(q)'
      BY <3>1, <1>2, <1>3 DEF SessionFits, ListFits, ListTold
    <3>8. OrderFits(q)'
      <4> SUFFICES ASSUME Doing(q, "order") PROVE OrderFits(q)'
        BY <3>1 DEF OrderFits
      <4>1. Step(q).rows \subseteq OrderRows
        BY StepKinds DEF OrderSteps
      <4>2. \A r \in Step(q).rows : There(r.problem)'
        BY <3>1, <4>1, <1>6 DEF SessionFits, OrderFits, OrderRows
      <4> QED
        BY <3>1, <4>1, <4>2, <1>2, <1>3, <1>12 DEF SessionFits, OrderFits
    <3> QED
      BY <3>4, <3>5, <3>6, <3>7, <3>8 DEF SessionFits
  <2> QED
    BY <2>1, <2>2
<1> QED
  BY <1>4, <1>8, <1>9, <1>10, <1>11, <1>13, <1>14, <1>15


\* Other requests see nothing of a commit that leaves the trees as they are.
LEMMA TreesStay ==
  ASSUME CatalogueInv, NEW s \in Sessions,
         UNCHANGED <<phone, problem, dormant>>, raced' = raced, order'.rows \subseteq OrderRows,
         \A r \in order'.rows : There(r.problem),
         session' \in [Sessions -> {NoSession} \cup [touched : SUBSET Touchable, todo : Todos]],
         \A q \in Sessions : session'[q].touched \subseteq session[q].touched
  PROVE  /\ TreesFit' /\ RacesNoted' /\ LiveParents' /\ ProblemsOnLeaves'
         /\ \A c, shown : ListTold(c, shown) => ListTold(c, shown)'
         /\ \A q \in Sessions : session'[q] = session[q] =>
                PhoneFits(q)' /\ ProblemFits(q)' /\ AssignFits(q)' /\ ListFits(q)'
<1> USE DEF CatalogueInv
<1>1. TreesFit'
  BY DEF TreesFit, There
<1>2. RacesNoted'
  BY DEF RacesNoted
<1>3. LiveParents'
  BY DEF LiveParents, HangsTogether
<1>4. ProblemsOnLeaves'
  BY DEF ProblemsOnLeaves, MappedTo
<1>5. \A c, shown : ListTold(c, shown) => ListTold(c, shown)'
  BY DEF ListTold
<1>6. ASSUME NEW q \in Sessions, session'[q] = session[q]
      PROVE  PhoneFits(q)' /\ ProblemFits(q)' /\ AssignFits(q)' /\ ListFits(q)'
  <2>1. SessionFits(q) /\ (\A op : Doing(q, op)' <=> Doing(q, op)) /\ Step(q)' = Step(q)
    BY <1>6 DEF Doing, Step
  <2>2. PhoneFits(q)'
    BY <2>1, <1>6 DEF SessionFits, PhoneFits, MappedTo
  <2>3. ProblemFits(q)'
    BY <2>1, <1>6 DEF SessionFits, ProblemFits, There
  <2>4. AssignFits(q)'
    BY <2>1, <1>6 DEF SessionFits, AssignFits
  <2>5. ListFits(q)'
    BY <2>1, <1>6 DEF SessionFits, ListFits, ListTold
  <2> QED
    BY <2>2, <2>3, <2>4, <2>5
<1> QED
  BY <1>1, <1>2, <1>3, <1>4, <1>5, <1>6

LEMMA CommitAssignmentKeeps ==
  ASSUME CatalogueInv, NEW s \in Sessions, CommitAssignment(s)
  PROVE  CatalogueInv'
<1> USE DEF CatalogueInv
<1> DEFINE id == Step(s).id
           parts == Step(s).parts
<1>1. /\ UNCHANGED <<phone, problem, order, list, dormant>> /\ Doing(s, "assign") /\ Proceed(s)
      /\ assigned' = {pair \in assigned : pair[1] # id} \cup ({id} \X parts)
      /\ excused' = excused \cup {r \in order.rows : r.problem = id}
  BY DEF CommitAssignment
<1>2. "assign" # "phone"
  OBVIOUS
<1>3. /\ \A q \in Sessions \ {s} : session'[q] = session[q]
      /\ session' \in [Sessions -> {NoSession} \cup [touched : SUBSET Touchable, todo : Todos]]
      /\ \A q \in Sessions : session'[q].touched \subseteq session[q].touched
      /\ requests' = requests /\ raced' = raced
      /\ SessionFits(s)'
      /\ \A q \in Sessions : \A kind : kind # "assign" =>
             (Doing(q, kind)' <=> Doing(q, kind)) /\ (Doing(q, kind) => Step(q)' = Step(q))
  BY <1>1, <1>2, Finishing, Zenon
<1>4. id \in Problems /\ parts \subseteq Parts /\ id \in session[s].touched
  BY <1>1, StepKinds DEF AssignSteps, SessionFits, AssignFits
<1>5. CatalogueTyped'
  <2>1. assigned' \subseteq Problems \X Parts
    BY <1>1, <1>4 DEF CatalogueTyped
  <2> QED
    BY <2>1, <1>1, <1>3 DEF CatalogueTyped
<1>6. \A p \in Problems \ {id} : PartsOf(p)' = PartsOf(p)
  BY <1>1 DEF PartsOf
<1>7. order'.rows \subseteq OrderRows /\ \A r \in order'.rows : There(r.problem)
  BY <1>1 DEF CatalogueTyped, TreesFit
<1>8. /\ TreesFit' /\ RacesNoted' /\ LiveParents' /\ ProblemsOnLeaves'
      /\ \A c, shown : ListTold(c, shown) => ListTold(c, shown)'
      /\ \A q \in Sessions : session'[q] = session[q] =>
             PhoneFits(q)' /\ ProblemFits(q)' /\ AssignFits(q)' /\ ListFits(q)'
  BY <1>1, <1>3, <1>7, TreesStay
<1>9. ASSUME NEW r \in OrderRows, r.problem # id, NEW c, RowFits(r, c)
      PROVE  RowFits(r, c)'
  BY <1>1, <1>3, <1>6, <1>9 DEF RowFits, AllowedFor, MappedTo, OrderRows
<1>10. OrderKept'
  BY <1>1, <1>3, <1>9 DEF OrderKept, CatalogueTyped
<1>11. ListsKept'
  BY <1>1, <1>3, <1>8 DEF ListsKept
<1>12. ASSUME NEW q \in Sessions, q # s, Doing(q, "order")
       PROVE  OrderFits(q)'
  <2>1. OrderFits(q) /\ Step(q)' = Step(q) /\ session'[q] = session[q]
    BY <1>3, <1>12 DEF SessionFits
  <2>2. Step(q).rows \subseteq OrderRows
    BY <1>12, StepKinds DEF OrderSteps
  <2>3. id \in session[q].touched => id \in raced
    BY <1>4, <1>12 DEF RacesNoted
  <2>4. id \in raced => \A r, c : r.problem = id => RowFits(r, c)'
    <3>1. id \in Path(problem, id)
      BY <1>4, PathIsOf DEF CatalogueTyped
    <3> QED
      BY <3>1, <1>1, <1>3 DEF RowFits
  <2>5. \A r \in Step(q).rows : r.problem \in session[q].touched /\ RowFits(r, Step(q).phone)
            => RowFits(r, Step(q).phone)'
    BY <2>1, <2>2, <2>3, <2>4, <1>9
  <2>6. \A r \in Step(q).rows : There(r.problem) => There(r.problem)'
    BY <1>1 DEF There
  <2> QED
    BY <2>1, <2>5, <2>6, <1>1, <1>3, <1>12 DEF OrderFits
<1>13. ASSUME NEW q \in Sessions
       PROVE  SessionFits(q)'
  <2>1. CASE q = s
    BY <2>1, <1>3
  <2>2. CASE q # s /\ Doing(q, "order")
    BY <2>2, <1>3, <1>8, <1>12 DEF SessionFits
  <2>3. CASE q # s /\ ~Doing(q, "order")
    <3>1. OrderFits(q)'
      BY <2>3, <1>3 DEF OrderFits
    <3> QED
      BY <3>1, <2>3, <1>3, <1>8 DEF SessionFits
  <2> QED
    BY <2>1, <2>2, <2>3
<1> QED
  BY <1>5, <1>8, <1>10, <1>11, <1>13

LEMMA CommitDescriptionKeeps ==
  ASSUME CatalogueInv, NEW s \in Sessions, CommitDescription(s)
  PROVE  CatalogueInv'
<1> USE DEF CatalogueInv
<1> DEFINE step == Step(s)
           left == {r \in order.rows : r.type \notin step.types} \ step.gone
           stay == excused \cup (IF step.keep THEN {} ELSE left)
<1>1. /\ UNCHANGED <<phone, problem, assigned, list, dormant>> /\ Doing(s, "order") /\ Proceed(s)
      /\ order' = [phone |-> IF step.keep THEN order.phone ELSE step.phone,
                   born |-> TRUE, rows |-> left \cup step.rows]
      /\ excused' = IF step.checked THEN stay \ step.rows ELSE stay \cup step.rows
  BY DEF CommitDescription
<1>2. "order" # "phone"
  OBVIOUS
<1>3. /\ \A q \in Sessions \ {s} : session'[q] = session[q]
      /\ session' \in [Sessions -> {NoSession} \cup [touched : SUBSET Touchable, todo : Todos]]
      /\ \A q \in Sessions : session'[q].touched \subseteq session[q].touched
      /\ requests' = requests /\ raced' = raced
      /\ SessionFits(s)'
      /\ \A q \in Sessions : \A kind : kind # "order" =>
             (Doing(q, kind)' <=> Doing(q, kind)) /\ (Doing(q, kind) => Step(q)' = Step(q))
  BY <1>1, <1>2, Finishing, Zenon
<1>4. /\ step.rows \subseteq OrderRows /\ step.phone \in EveryList
      /\ step.keep \in BOOLEAN /\ step.checked \in BOOLEAN
  BY <1>1, StepKinds DEF OrderSteps
<1>5. OrderFits(s)
  BY DEF SessionFits
<1>6. /\ order'.rows = left \cup step.rows
      /\ order'.phone = IF step.keep THEN order.phone ELSE step.phone
  BY <1>1
<1>7. CatalogueTyped'
  <2>1. order.rows \subseteq OrderRows /\ order.phone \in EveryList
    BY DEF CatalogueTyped
  <2>2. order' \in [phone : EveryList, born : BOOLEAN, rows : SUBSET OrderRows]
    BY <2>1, <1>1, <1>4
  <2> QED
    BY <2>2, <1>1, <1>3 DEF CatalogueTyped
<1>8. order'.rows \subseteq OrderRows /\ \A r \in order'.rows : There(r.problem)
  BY <1>1, <1>4, <1>5, <1>6 DEF CatalogueTyped, TreesFit, OrderFits
<1>9. /\ TreesFit' /\ RacesNoted' /\ LiveParents' /\ ProblemsOnLeaves'
      /\ \A c, shown : ListTold(c, shown) => ListTold(c, shown)'
      /\ \A q \in Sessions : session'[q] = session[q] =>
             PhoneFits(q)' /\ ProblemFits(q)' /\ AssignFits(q)' /\ ListFits(q)'
  BY <1>1, <1>3, <1>8, TreesStay
<1>10. \A r, c : RowFits(r, c) => RowFits(r, c)'
  BY <1>1, <1>3 DEF RowFits, AllowedFor, MappedTo, PartsOf
<1>11. OrderKept'
  <2> SUFFICES ASSUME "order" \notin raced, NEW r \in left \cup step.rows, r \notin excused'
               PROVE  RowFits(r, order'.phone)
    BY <1>3, <1>6, <1>10 DEF OrderKept
  <2>1. CASE r \in step.rows
    <3>1. step.checked
      BY <2>1, <1>1
    <3>2. RowFits(r, step.phone)
      BY <2>1, <3>1, <1>1, <1>5 DEF OrderFits
    <3>3. step.keep => step.phone = order.phone
      BY <1>1, <1>5 DEF OrderFits
    <3> QED
      BY <3>2, <3>3, <1>4, <1>6
  <2>2. CASE r \notin step.rows
    <3>1. r \in left /\ r \notin stay
      BY <2>2, <1>1
    <3>2. step.keep /\ r \notin excused /\ r \in order.rows
      BY <3>1
    <3>3. RowFits(r, order.phone)
      BY <3>2 DEF OrderKept
    <3> QED
      BY <3>2, <3>3, <1>6
  <2> QED
    BY <2>1, <2>2
<1>12. ListsKept'
  BY <1>1, <1>3, <1>9 DEF ListsKept
<1>13. ASSUME NEW q \in Sessions
       PROVE  SessionFits(q)'
  <2>1. CASE q = s
    BY <2>1, <1>3
  <2>2. CASE q # s
    <3>1. session'[q] = session[q] /\ (Doing(q, "order")' <=> Doing(q, "order")) /\ Step(q)' = Step(q)
      BY <2>2, <1>3 DEF Doing, Step
    <3>2. Doing(q, "order") => "order" \in raced
      BY <2>2, <1>1, <1>5 DEF OrderFits, RacesNoted, SessionFits
    <3>3. \A r \in Step(q).rows : There(r.problem) => There(r.problem)'
      BY <1>1 DEF There
    <3>4. OrderFits(q)'
      BY <3>1, <3>2, <3>3, <1>3 DEF SessionFits, OrderFits
    <3> QED
      BY <3>1, <3>4, <1>9 DEF SessionFits
  <2> QED
    BY <2>1, <2>2
<1> QED
  BY <1>7, <1>9, <1>11, <1>12, <1>13

\* Lists alone: the rest of the invariant does not speak of them.
LEMMA ListsAlone ==
  ASSUME CatalogueInv, NEW s \in Sessions,
         UNCHANGED <<phone, problem, assigned, order, dormant, excused>>, raced' = raced, requests' = requests,
         list' \in [EveryList -> Lists],
         session' \in [Sessions -> {NoSession} \cup [touched : SUBSET Touchable, todo : Todos]],
         \A q \in Sessions \ {s} : session'[q] = session[q],
         \A q \in Sessions : session'[q].touched \subseteq session[q].touched,
         SessionFits(s)'
  PROVE  /\ CatalogueTyped' /\ TreesFit' /\ RacesNoted' /\ LiveParents' /\ ProblemsOnLeaves' /\ OrderKept'
         /\ \A c, shown : ListTold(c, shown) => ListTold(c, shown)'
         /\ \A q \in Sessions : SessionFits(q)'
<1> USE DEF CatalogueInv
<1>1. CatalogueTyped'
  BY DEF CatalogueTyped
<1>2. order'.rows \subseteq OrderRows /\ \A r \in order'.rows : There(r.problem)
  BY DEF CatalogueTyped, TreesFit
<1>3. /\ TreesFit' /\ RacesNoted' /\ LiveParents' /\ ProblemsOnLeaves'
      /\ \A c, shown : ListTold(c, shown) => ListTold(c, shown)'
      /\ \A q \in Sessions : session'[q] = session[q] =>
             PhoneFits(q)' /\ ProblemFits(q)' /\ AssignFits(q)' /\ ListFits(q)'
  BY <1>2, TreesStay
<1>4. \A r, c : RowFits(r, c) => RowFits(r, c)'
  BY DEF RowFits, AllowedFor, MappedTo, PartsOf
<1>5. OrderKept'
  BY <1>4 DEF OrderKept
<1>6. ASSUME NEW q \in Sessions, q # s
      PROVE  SessionFits(q)'
  <2>1. session'[q] = session[q] /\ (Doing(q, "order")' <=> Doing(q, "order")) /\ Step(q)' = Step(q)
    BY <1>6 DEF Doing, Step
  <2>2. \A r \in Step(q).rows : There(r.problem) => There(r.problem)'
    BY DEF There
  <2>3. OrderFits(q)'
    BY <2>1, <2>2, <1>4 DEF SessionFits, OrderFits
  <2> QED
    BY <2>1, <2>3, <1>3 DEF SessionFits
<1> QED
  BY <1>1, <1>3, <1>5, <1>6

LEMMA FlushKeeps ==
  ASSUME CatalogueInv, NEW s \in Sessions, Flush(s)
  PROVE  CatalogueInv'
<1> USE DEF CatalogueInv
<1>1. /\ UNCHANGED <<phone, problem, assigned, order, dormant, excused>> /\ Doing(s, "flush") /\ Proceed(s)
      /\ list' = [c \in DOMAIN list |-> IF c \in Step(s).keys THEN Unknown ELSE list[c]]
  BY DEF Flush
<1>2. "flush" # "phone"
  OBVIOUS
<1>3. /\ \A q \in Sessions \ {s} : session'[q] = session[q]
      /\ session' \in [Sessions -> {NoSession} \cup [touched : SUBSET Touchable, todo : Todos]]
      /\ \A q \in Sessions : session'[q].touched \subseteq session[q].touched
      /\ requests' = requests /\ raced' = raced
      /\ SessionFits(s)'
  BY <1>1, <1>2, Finishing, Zenon
<1>4. list' \in [EveryList -> Lists]
  BY <1>1 DEF CatalogueTyped, Lists, Unknown
<1>5. /\ CatalogueTyped' /\ TreesFit' /\ RacesNoted' /\ LiveParents' /\ ProblemsOnLeaves' /\ OrderKept'
      /\ \A c, shown : ListTold(c, shown) => ListTold(c, shown)'
      /\ \A q \in Sessions : SessionFits(q)'
  BY <1>1, <1>3, <1>4, ListsAlone
<1>6. ListsKept'
  <2> SUFFICES ASSUME NEW c \in EveryList, list'[c].cached,
                      \A q \in Sessions : ~(Doing(q, "flush") /\ c \in Step(q).keys)'
               PROVE  ListTold(c, list[c])'
    BY DEF ListsKept
  <2>1. c \notin Step(s).keys /\ list'[c] = list[c]
    BY <1>1 DEF CatalogueTyped, Unknown
  <2>2. \A q \in Sessions : ~(Doing(q, "flush") /\ c \in Step(q).keys)
    BY <2>1, <1>3 DEF Doing, Step
  <2>3. ListTold(c, list[c])
    BY <2>1, <2>2 DEF ListsKept
  <2> QED
    BY <2>1, <2>3, <1>1, <1>3 DEF ListTold
<1> QED
  BY <1>5, <1>6

LEMMA StoreKeeps ==
  ASSUME CatalogueInv, NEW s \in Sessions, Store(s)
  PROVE  CatalogueInv'
<1> USE DEF CatalogueInv
<1>1. /\ UNCHANGED <<phone, problem, assigned, order, dormant, excused>> /\ Doing(s, "list") /\ Proceed(s)
      /\ list' = [list EXCEPT ![Step(s).key] = Step(s).value]
  BY DEF Store
<1>2. "list" # "phone"
  OBVIOUS
<1>3. /\ \A q \in Sessions \ {s} : session'[q] = session[q]
      /\ session' \in [Sessions -> {NoSession} \cup [touched : SUBSET Touchable, todo : Todos]]
      /\ \A q \in Sessions : session'[q].touched \subseteq session[q].touched
      /\ requests' = requests /\ raced' = raced
      /\ SessionFits(s)'
      /\ \A q \in Sessions : \A kind : kind # "list" =>
             (Doing(q, kind)' <=> Doing(q, kind)) /\ (Doing(q, kind) => Step(q)' = Step(q))
  BY <1>1, <1>2, Finishing, Zenon
<1>4. Step(s).key \in EveryList /\ Step(s).value \in Lists
  BY <1>1, StepKinds DEF ListSteps
<1>5. /\ list' \in [EveryList -> Lists] /\ list'[Step(s).key] = Step(s).value
      /\ \A c \in EveryList \ {Step(s).key} : list'[c] = list[c]
  BY <1>1, <1>4 DEF CatalogueTyped
<1>6. /\ CatalogueTyped' /\ TreesFit' /\ RacesNoted' /\ LiveParents' /\ ProblemsOnLeaves' /\ OrderKept'
      /\ \A c, shown : ListTold(c, shown) => ListTold(c, shown)'
      /\ \A q \in Sessions : SessionFits(q)'
  BY <1>1, <1>3, <1>5, ListsAlone
<1>7. ListsKept'
  <2> SUFFICES ASSUME NEW c \in EveryList, list'[c].cached,
                      \A q \in Sessions : ~(Doing(q, "flush") /\ c \in Step(q).keys)'
               PROVE  ListTold(c, list[c])'
    BY DEF ListsKept
  <2>1. CASE c = Step(s).key
    <3>1. ListTold(c, list'[c])
      BY <2>1, <1>1, <1>5 DEF SessionFits, ListFits
    <3> QED
      BY <3>1, <1>1, <1>3 DEF ListTold
  <2>2. CASE c # Step(s).key
    <3>1. \A q \in Sessions : ~(Doing(q, "flush") /\ c \in Step(q).keys)
      BY <1>3
    <3>2. ListTold(c, list'[c])
      BY <3>1, <2>2, <1>5 DEF ListsKept
    <3> QED
      BY <3>2, <1>1, <1>3 DEF ListTold
  <2> QED
    BY <2>1, <2>2
<1> QED
  BY <1>6, <1>7

LEMMA ListExpiresKeeps ==
  ASSUME CatalogueInv, NEW c \in EveryList, ListExpires(c)
  PROVE  CatalogueInv'
<1> USE DEF CatalogueInv
<1>1. /\ UNCHANGED <<phone, problem, assigned, order, session, requests, raced, dormant, excused>>
      /\ list' = [list EXCEPT ![c] = Unknown]
  BY DEF ListExpires
<1>2. /\ list' \in [EveryList -> Lists] /\ list'[c] = Unknown
      /\ \A d \in EveryList \ {c} : list'[d] = list[d]
  BY <1>1 DEF CatalogueTyped, Lists, Unknown
<1>3. CatalogueTyped'
  BY <1>1, <1>2 DEF CatalogueTyped
<1>4. TreesFit' /\ RacesNoted' /\ LiveParents' /\ ProblemsOnLeaves' /\ OrderKept'
  BY <1>1 DEF TreesFit, There, RacesNoted, LiveParents, HangsTogether, ProblemsOnLeaves, MappedTo,
              OrderKept, RowFits, AllowedFor, PartsOf
<1>5. \A q \in Sessions : SessionFits(q)'
  <2> SUFFICES ASSUME NEW q \in Sessions PROVE SessionFits(q)'
    OBVIOUS
  <2>1. SessionFits(q) /\ (\A op : Doing(q, op)' <=> Doing(q, op)) /\ Step(q)' = Step(q)
    BY <1>1 DEF Doing, Step
  <2>2. PhoneFits(q)' /\ ProblemFits(q)' /\ AssignFits(q)'
    BY <2>1, <1>1 DEF SessionFits, PhoneFits, ProblemFits, AssignFits, MappedTo, There
  <2>3. ListFits(q)' /\ OrderFits(q)'
    BY <2>1, <1>1 DEF SessionFits, ListFits, ListTold, OrderFits, There, RowFits, AllowedFor, MappedTo, PartsOf
  <2> QED
    BY <2>2, <2>3 DEF SessionFits
<1>6. ListsKept'
  <2> SUFFICES ASSUME NEW d \in EveryList, list'[d].cached,
                      \A q \in Sessions : ~(Doing(q, "flush") /\ d \in Step(q).keys)'
               PROVE  ListTold(d, list[d])'
    BY DEF ListsKept
  <2>1. d # c /\ list'[d] = list[d]
    BY <1>2 DEF Unknown
  <2>2. \A q \in Sessions : ~(Doing(q, "flush") /\ d \in Step(q).keys)
    BY <1>1 DEF Doing, Step
  <2> QED
    BY <2>1, <2>2, <1>1 DEF ListsKept, ListTold
<1> QED
  BY <1>3, <1>4, <1>5, <1>6


\* What a request that starts is doing.
LEMMA StartDoing ==
  ASSUME CatalogueTyped, NEW s \in Sessions, NEW touched \in SUBSET Touchable, NEW todo \in Todos,
         Start(s, touched, todo)
  PROVE  /\ Step(s)' = todo[1] /\ session'[s].touched = touched /\ session'[s].todo = todo
         /\ \A op : Doing(s, op)' <=> todo[1].op = op
         /\ raced \subseteq raced'
         /\ UNCHANGED <<phone, problem, assigned, order, list, dormant, excused>>
<1>1. /\ session'[s].touched = touched /\ session'[s].todo = todo /\ session'[s] # NoSession
      /\ raced \subseteq raced'
      /\ UNCHANGED <<phone, problem, assigned, order, list, dormant, excused>>
  BY Starting
<1>2. Head(todo) = todo[1]
  BY DEF Todos
<1> QED
  BY <1>1, <1>2 DEF Doing, Step

\* A request to write a phone category.
LEMMA PhoneStarts ==
  ASSUME CatalogueInv, NEW s \in Sessions, NEW c \in Phones, NEW above \in EveryList,
         NEW set \in PhoneSets, NEW keys \in SUBSET EveryList,
         Start(s, {c, above}, <<[op |-> "phone", id |-> c, set |-> set], FlushLists(keys)>>),
         \/ /\ set \in PhoneRows /\ set.state = "Open" /\ keys = EveryList /\ set.parent = above
            /\ phone[c].state = "absent"
            /\ above # NoPhone => phone[above].state = "Open" /\ MappedTo(above) = {}
         \/ set \in [active : BOOLEAN] /\ keys = EveryList
         \/ set \in [state : {"Deleted"}] /\ keys = {c, phone[c].parent} /\ OpenChildren(phone, c) = {}
  PROVE  CatalogueInv'
<1> DEFINE step == [op |-> "phone", id |-> c, set |-> set]
           todo == <<step, FlushLists(keys)>>
           touched == {c, above}
<1>1. step \in PhoneSteps /\ FlushLists(keys) \in FlushSteps
  BY DEF PhoneSteps, FlushSteps, FlushLists
<1>2. todo \in Todos /\ todo[1] = step /\ todo[2].keys = keys
  BY <1>1 DEF Todos, FlushLists
<1>3. touched \in SUBSET Touchable
  BY DEF Touchable, EveryList
<1>4. Start(s, touched, todo) /\ step.op = "phone" /\ step.id = c /\ step.set = set
  OBVIOUS
<1> HIDE DEF todo, touched, step
<1>5. /\ Step(s)' = step /\ session'[s].touched = touched /\ session'[s].todo[2].keys = keys
      /\ \A op : Doing(s, op)' <=> op = "phone"
      /\ raced \subseteq raced'
      /\ UNCHANGED <<phone, problem, assigned, order, list, dormant, excused>>
  <2>1. /\ Step(s)' = todo[1] /\ session'[s].touched = touched /\ session'[s].todo = todo
        /\ \A op : Doing(s, op)' <=> todo[1].op = op
        /\ raced \subseteq raced'
        /\ UNCHANGED <<phone, problem, assigned, order, list, dormant, excused>>
    BY <1>2, <1>3, <1>4, StartDoing DEF CatalogueInv
  <2> QED
    BY <2>1, <1>2, <1>4
<1>6. PhoneFits(s)'
  BY <1>4, <1>5 DEF PhoneFits, MappedTo, touched
<1>7. SessionFits(s)'
  BY <1>5, <1>6 DEF SessionFits, ProblemFits, AssignFits, ListFits, OrderFits
<1> QED
  BY <1>2, <1>3, <1>4, <1>7, StartKeeps

LEMMA CreatePhoneKeeps ==
  ASSUME CatalogueInv, NEW s \in Sessions, NEW c \in Phones, NEW above \in EveryList, NEW active \in BOOLEAN,
         CreatePhone(s, c, above, active)
  PROVE  CatalogueInv'
<1> DEFINE set == PhoneRow(above, active, "Open")
<1>1. set \in PhoneRows /\ set.state = "Open" /\ set.parent = above
  BY DEF PhoneRow, PhoneRows, RowStates, EveryList
<1>2. set \in PhoneSets
  BY <1>1 DEF PhoneSets
<1> HIDE DEF set
<1>3. /\ Start(s, {c, above}, <<[op |-> "phone", id |-> c, set |-> set], FlushLists(EveryList)>>)
      /\ phone[c].state = "absent"
      /\ above # NoPhone => phone[above].state = "Open" /\ MappedTo(above) = {}
  BY DEF CreatePhone, Live, set
<1> QED
  BY <1>1, <1>2, <1>3, PhoneStarts

LEMMA UpdatePhoneKeeps ==
  ASSUME CatalogueInv, NEW s \in Sessions, NEW c \in Phones, NEW active \in BOOLEAN, UpdatePhone(s, c, active)
  PROVE  CatalogueInv'
<1>1. phone[c].parent \in EveryList
  BY DEF CatalogueInv, CatalogueTyped, PhoneRows, EveryList
<1>2. [active |-> active] \in [active : BOOLEAN] /\ [active |-> active] \in PhoneSets
  BY DEF PhoneSets
<1>3. Start(s, {c, phone[c].parent}, <<[op |-> "phone", id |-> c, set |-> [active |-> active]], FlushLists(EveryList)>>)
  BY DEF UpdatePhone
<1> QED
  BY <1>1, <1>2, <1>3, PhoneStarts

LEMMA DeletePhoneKeeps ==
  ASSUME CatalogueInv, NEW s \in Sessions, NEW c \in Phones, DeletePhone(s, c)
  PROVE  CatalogueInv'
<1>1. phone[c].parent \in EveryList /\ {c, phone[c].parent} \in SUBSET EveryList
  BY DEF CatalogueInv, CatalogueTyped, PhoneRows, EveryList
<1>2. [state |-> "Deleted"] \in [state : {"Deleted"}] /\ [state |-> "Deleted"] \in PhoneSets
  BY DEF PhoneSets
<1>3. /\ Start(s, {c, phone[c].parent}, <<[op |-> "phone", id |-> c, set |-> [state |-> "Deleted"]],
                                         FlushLists({c, phone[c].parent})>>)
      /\ OpenChildren(phone, c) = {}
  BY DEF DeletePhone
<1> QED
  BY <1>1, <1>2, <1>3, PhoneStarts

\* A request of one step.
LEMMA OneStepStarts ==
  ASSUME CatalogueInv, NEW s \in Sessions, NEW touched \in SUBSET Touchable, NEW step \in LastSteps,
         Start(s, touched, <<step>>)
  PROVE  /\ Step(s)' = step /\ session'[s].touched = touched
         /\ \A op : Doing(s, op)' <=> step.op = op
         /\ raced \subseteq raced'
         /\ UNCHANGED <<phone, problem, assigned, order, list, dormant, excused>>
         /\ SessionFits(s)' /\ step.op # "flush" => CatalogueInv'
<1> DEFINE todo == <<step>>
<1>1. todo \in Todos /\ todo[1] = step /\ Start(s, touched, todo)
  BY DEF Todos
<1> HIDE DEF todo
<1>2. /\ Step(s)' = step /\ session'[s].touched = touched
      /\ \A op : Doing(s, op)' <=> step.op = op
      /\ raced \subseteq raced'
      /\ UNCHANGED <<phone, problem, assigned, order, list, dormant, excused>>
  BY <1>1, StartDoing DEF CatalogueInv
<1> QED
  BY <1>1, <1>2, StartKeeps

LEMMA ListPhonesKeeps ==
  ASSUME CatalogueInv, NEW s \in Sessions, NEW c \in EveryList, ListPhones(s, c)
  PROVE  CatalogueInv'
<1> DEFINE rows == OpenChildren(phone, c)
           shown == [rows |-> rows, cached |-> TRUE, parents |-> {r \in rows : OpenChildren(phone, r) # {}}]
           step == [op |-> "list", key |-> c, value |-> shown]
           touched == {c} \cup rows
<1>1. Start(s, touched, <<step>>) /\ step.op = "list" /\ step.key = c /\ step.value = shown /\ shown.rows = rows
  BY DEF ListPhones
<1>2. rows \subseteq Phones
  BY DEF OpenChildren, CatalogueInv, CatalogueTyped
<1>3. step \in LastSteps /\ touched \in SUBSET Touchable
  <2>1. shown \in Lists
    BY <1>2 DEF Lists
  <2> HIDE DEF shown
  <2>2. step \in ListSteps
    BY <2>1 DEF ListSteps
  <2> QED
    BY <2>2, <1>2 DEF LastSteps, Touchable, EveryList
<1>4. ListTold(c, shown)
  BY <1>2 DEF ListTold
<1> HIDE DEF step, touched, shown, rows
<1>5. /\ Step(s)' = step /\ session'[s].touched = touched
      /\ \A op : Doing(s, op)' <=> op = "list"
      /\ raced \subseteq raced'
      /\ UNCHANGED <<phone, problem, assigned, order, list, dormant, excused>>
      /\ SessionFits(s)' => CatalogueInv'
  BY <1>1, <1>3, OneStepStarts
<1>6. ListFits(s)'
  BY <1>1, <1>4, <1>5 DEF ListFits, ListTold, touched
<1>7. SessionFits(s)'
  BY <1>5, <1>6 DEF SessionFits, PhoneFits, ProblemFits, AssignFits, OrderFits
<1> QED
  BY <1>5, <1>7

\* A request to write a problem.
LEMMA ProblemStarts ==
  ASSUME CatalogueInv, NEW s \in Sessions, NEW p \in Problems, NEW touched \in SUBSET Touchable,
         NEW set \in ProblemSets, p \in touched,
         Start(s, touched, <<[op |-> "problem", id |-> p, set |-> set]>>),
         \/ /\ set \in ProblemRows /\ set.state = "Open"
            /\ set.mapped # NoPhone => set.parent = NoProblem
            /\ {set.parent, set.mapped} \ {NoProblem, NoPhone} \subseteq touched
            /\ ~There(p)
            /\ set.parent # NoProblem => There(set.parent) /\ problem[set.parent].state = "Open"
            /\ set.mapped # NoPhone => OpenChildren(phone, set.mapped) \subseteq dormant
         \/ set \in [active : BOOLEAN] /\ There(p)
         \/ /\ set \in [state : {"Deleted"}, mapped : {NoPhone}] /\ There(p)
            /\ OpenChildren(problem, p) = {}
  PROVE  CatalogueInv'
<1> DEFINE step == [op |-> "problem", id |-> p, set |-> set]
<1>1. Start(s, touched, <<step>>) /\ step.op = "problem" /\ step.id = p /\ step.set = set
  OBVIOUS
<1>2. step \in LastSteps
  BY DEF LastSteps, ProblemSteps
<1> HIDE DEF step
<1>3. /\ Step(s)' = step /\ session'[s].touched = touched
      /\ \A op : Doing(s, op)' <=> op = "problem"
      /\ raced \subseteq raced'
      /\ UNCHANGED <<phone, problem, assigned, order, list, dormant, excused>>
      /\ SessionFits(s)' => CatalogueInv'
  BY <1>1, <1>2, OneStepStarts
<1>4. ProblemFits(s)'
  BY <1>1, <1>3 DEF ProblemFits, There
<1>5. SessionFits(s)'
  BY <1>3, <1>4 DEF SessionFits, PhoneFits, AssignFits, ListFits, OrderFits
<1> QED
  BY <1>3, <1>5

LEMMA CreateProblemKeeps ==
  ASSUME CatalogueInv, NEW s \in Sessions, NEW p \in Problems, NEW above \in Problems \cup {NoProblem},
         NEW c \in EveryList, CreateProblem(s, p, above, c)
  PROVE  CatalogueInv'
<1> DEFINE set == ProblemRow(above, c, TRUE, "Open")
           touched == {p, above, c} \ {NoProblem, NoPhone}
<1>1. /\ problem[p].state = "absent" /\ (above = NoProblem) # (c = NoPhone)
      /\ above # NoProblem => problem[above].state = "Open"
      /\ c # NoPhone => \A d \in OpenChildren(phone, c) : ~phone[d].active
      /\ Start(s, touched, <<[op |-> "problem", id |-> p, set |-> set]>>)
  BY DEF CreateProblem, Live
<1>2. set \in ProblemRows /\ set.state = "Open" /\ set.parent = above /\ set.mapped = c
  BY DEF ProblemRow, ProblemRows, RowStates, EveryList
<1>3. set \in ProblemSets
  BY <1>2 DEF ProblemSets
<1>4. p \in touched /\ touched \in SUBSET Touchable
  BY NoneAssumption DEF Touchable, EveryList
<1>5. c # NoPhone => OpenChildren(phone, c) \subseteq dormant
  BY <1>1 DEF CatalogueInv, TreesFit, OpenChildren, CatalogueTyped
<1>6. {set.parent, set.mapped} \ {NoProblem, NoPhone} \subseteq touched
  BY <1>2
<1> HIDE DEF set, touched
<1> QED
  BY <1>1, <1>2, <1>3, <1>4, <1>5, <1>6, ProblemStarts DEF There

LEMMA UpdateProblemKeeps ==
  ASSUME CatalogueInv, NEW s \in Sessions, NEW p \in Problems, NEW active \in BOOLEAN, UpdateProblem(s, p, active)
  PROVE  CatalogueInv'
<1>1. [active |-> active] \in [active : BOOLEAN] /\ [active |-> active] \in ProblemSets
  BY DEF ProblemSets
<1>2. /\ Start(s, {p}, <<[op |-> "problem", id |-> p, set |-> [active |-> active]]>>)
      /\ There(p) /\ {p} \in SUBSET Touchable
  BY DEF UpdateProblem, There, Touchable
<1> QED
  BY <1>1, <1>2, ProblemStarts

LEMMA DeleteProblemKeeps ==
  ASSUME CatalogueInv, NEW s \in Sessions, NEW p \in Problems, DeleteProblem(s, p)
  PROVE  CatalogueInv'
<1> DEFINE set == [state |-> "Deleted", mapped |-> NoPhone]
<1>1. set \in [state : {"Deleted"}, mapped : {NoPhone}] /\ set \in ProblemSets
  BY DEF ProblemSets
<1>2. /\ Start(s, {p}, <<[op |-> "problem", id |-> p, set |-> set]>>)
      /\ There(p) /\ {p} \in SUBSET Touchable /\ OpenChildren(problem, p) = {}
  BY DEF DeleteProblem, There, Touchable
<1> HIDE DEF set
<1> QED
  BY <1>1, <1>2, ProblemStarts

LEMMA AssignPartsKeeps ==
  ASSUME CatalogueInv, NEW s \in Sessions, NEW p \in Problems, NEW parts \in SUBSET Parts, AssignParts(s, p, parts)
  PROVE  CatalogueInv'
<1> DEFINE step == [op |-> "assign", id |-> p, parts |-> parts]
<1>1. Start(s, {p}, <<step>>) /\ step.op = "assign" /\ step.id = p
  BY DEF AssignParts
<1>2. step \in LastSteps /\ {p} \in SUBSET Touchable
  BY DEF LastSteps, AssignSteps, Touchable
<1> HIDE DEF step
<1>3. /\ Step(s)' = step /\ session'[s].touched = {p}
      /\ \A op : Doing(s, op)' <=> op = "assign"
      /\ SessionFits(s)' => CatalogueInv'
  BY <1>1, <1>2, OneStepStarts
<1>4. SessionFits(s)'
  BY <1>1, <1>3 DEF SessionFits, PhoneFits, ProblemFits, AssignFits, ListFits, OrderFits
<1> QED
  BY <1>3, <1>4

\* A request to write what describes the order.
LEMMA OrderStarts ==
  ASSUME CatalogueInv, NEW s \in Sessions, NEW touched \in SUBSET Touchable, "order" \in touched,
         NEW rows \in SUBSET OrderRows, NEW types \in SUBSET Types, NEW gone \in SUBSET OrderRows,
         NEW c \in EveryList, NEW keep \in BOOLEAN, NEW checked \in BOOLEAN,
         Start(s, touched, Write(rows, types, gone, c, keep, checked)),
         \A r \in rows : There(r.problem),
         keep => c = order.phone,
         checked => \A r \in rows : /\ r.problem \in touched
                                    /\ r.problem \in AllowedFor(c) /\ r.parts \subseteq PartsOf(r.problem)
  PROVE  CatalogueInv'
<1> DEFINE step == [op |-> "order", rows |-> rows, types |-> types, gone |-> gone,
                    phone |-> c, keep |-> keep, checked |-> checked]
<1>1. /\ Start(s, touched, <<step>>) /\ step.op = "order" /\ step.rows = rows /\ step.phone = c
      /\ step.keep = keep /\ step.checked = checked
  BY DEF Write
<1>2. step \in LastSteps
  BY DEF LastSteps, OrderSteps
<1> HIDE DEF step
<1>3. /\ Step(s)' = step /\ session'[s].touched = touched
      /\ \A op : Doing(s, op)' <=> op = "order"
      /\ raced \subseteq raced'
      /\ UNCHANGED <<phone, problem, assigned, order, list, dormant, excused>>
      /\ SessionFits(s)' => CatalogueInv'
  BY <1>1, <1>2, OneStepStarts
<1>4. checked => \A r \in rows : r.problem \in touched /\ RowFits(r, c)'
  BY <1>3 DEF RowFits, AllowedFor, MappedTo, PartsOf
<1>5. \A r \in rows : There(r.problem)'
  BY <1>3 DEF There
<1>6. OrderFits(s)'
  BY <1>1, <1>3, <1>4, <1>5 DEF OrderFits
<1>7. SessionFits(s)'
  BY <1>3, <1>6 DEF SessionFits, PhoneFits, ProblemFits, AssignFits, ListFits
<1> QED
  BY <1>3, <1>7

LEMMA SelectionsFit ==
  ASSUME CatalogueInv, NEW types \in SUBSET Types, NEW c, NEW rows \in Selections(types, c)
  PROVE  /\ rows \in SUBSET OrderRows
         /\ \A r \in rows : There(r.problem) /\ r.problem \in AllowedFor(c) /\ r.parts \subseteq PartsOf(r.problem)
         /\ "order" \in ProblemsOf(rows) /\ ProblemsOf(rows) \in SUBSET Touchable
         /\ \A r \in rows : r.problem \in ProblemsOf(rows)
<1> DEFINE eligible == {p \in AllowedFor(c) : Live(problem, p)}
<1>1. eligible \subseteq Problems /\ \A p \in eligible : There(p) /\ p \in AllowedFor(c)
  BY DEF AllowedFor, Live, There
<1>2. /\ rows \subseteq [type : types, problem : eligible, parts : SUBSET Parts]
      /\ \A r \in rows : r.parts \subseteq PartsOf(r.problem)
  BY DEF Selections
<1> HIDE DEF eligible
<1>3. rows \in SUBSET OrderRows
  BY <1>1, <1>2 DEF OrderRows
<1>4. \A r \in rows : r.problem \in eligible /\ r.problem \in Problems
  BY <1>1, <1>2
<1> QED
  BY <1>1, <1>2, <1>3, <1>4 DEF ProblemsOf, Touchable

LEMMA CreateOrderWithProblemsKeeps ==
  ASSUME CatalogueInv, NEW s \in Sessions, NEW c \in EveryList, CreateOrderWithProblems(s, c)
  PROVE  CatalogueInv'
<1>1. PICK rows \in Selections(Types, c) : Start(s, ProblemsOf(rows), Write(rows, {}, {}, c, FALSE, TRUE))
  BY DEF CreateOrderWithProblems
<1>2. /\ rows \in SUBSET OrderRows
      /\ \A r \in rows : There(r.problem) /\ r.problem \in AllowedFor(c) /\ r.parts \subseteq PartsOf(r.problem)
      /\ "order" \in ProblemsOf(rows) /\ ProblemsOf(rows) \in SUBSET Touchable
      /\ \A r \in rows : r.problem \in ProblemsOf(rows)
  BY SelectionsFit
<1> QED
  BY <1>1, <1>2, OrderStarts

LEMMA UpdateOrderKeeps ==
  ASSUME CatalogueInv, NEW s \in Sessions, NEW c \in EveryList, NEW types \in SUBSET Types,
         UpdateOrder(s, c, types)
  PROVE  CatalogueInv'
<1> DEFINE keep == c = order.phone
<1>1. PICK rows \in Selections(types, c) : Start(s, ProblemsOf(rows), Write(rows, types, {}, c, keep, TRUE))
  BY DEF UpdateOrder
<1>2. /\ rows \in SUBSET OrderRows
      /\ \A r \in rows : There(r.problem) /\ r.problem \in AllowedFor(c) /\ r.parts \subseteq PartsOf(r.problem)
      /\ "order" \in ProblemsOf(rows) /\ ProblemsOf(rows) \in SUBSET Touchable
      /\ \A r \in rows : r.problem \in ProblemsOf(rows)
  BY SelectionsFit
<1>3. keep \in BOOLEAN /\ (keep => c = order.phone)
  OBVIOUS
<1> HIDE DEF keep
<1> QED
  BY <1>1, <1>2, <1>3, OrderStarts

LEMMA UpdateProductKeeps ==
  ASSUME CatalogueInv, NEW s \in Sessions, NEW c \in EveryList, UpdateProduct(s, c)
  PROVE  CatalogueInv'
<1> DEFINE rows == Cleaned(order.rows, c)
           touched == ProblemsOf(order.rows)
<1>1. Start(s, touched, Write(rows, {}, order.rows, c, FALSE, TRUE))
  BY DEF UpdateProduct
<1>2. order.rows \in SUBSET OrderRows
  BY DEF CatalogueInv, CatalogueTyped
<1>3. "order" \in touched /\ touched \in SUBSET Touchable
  BY <1>2 DEF ProblemsOf, Touchable, OrderRows
<1>4. ASSUME NEW r \in rows
      PROVE  /\ r \in OrderRows /\ There(r.problem) /\ r.problem \in touched
             /\ r.problem \in AllowedFor(c) /\ r.parts \subseteq PartsOf(r.problem)
  <2>1. PICK q \in order.rows : /\ q.problem \in AllowedFor(c)
                                /\ r = [q EXCEPT !.parts = q.parts \cap PartsOf(q.problem)]
    BY DEF Cleaned
  <2>2. q \in OrderRows
    BY <1>2
  <2>3. r \in OrderRows /\ r.problem = q.problem /\ r.parts = q.parts \cap PartsOf(q.problem)
    BY <2>1, <2>2 DEF OrderRows
  <2>4. There(q.problem)
    BY DEF CatalogueInv, TreesFit
  <2> QED
    BY <2>1, <2>3, <2>4 DEF ProblemsOf
<1> HIDE DEF rows, touched
<1> QED
  BY <1>1, <1>2, <1>3, <1>4, OrderStarts

LEMMA EditProblemKeeps ==
  ASSUME CatalogueInv, NEW s \in Sessions, NEW r \in order.rows, NEW p \in Problems, NEW parts \in SUBSET Parts,
         EditProblem(s, r, p, parts)
  PROVE  CatalogueInv'
<1> DEFINE row == [r EXCEPT !.problem = p, !.parts = parts]
           rows == {row}
           gone == {r}
           touched == {"order"}
<1>1. Start(s, touched, Write(rows, {}, gone, order.phone, TRUE, FALSE)) /\ There(p)
  BY DEF EditProblem, There
<1>2. r \in OrderRows /\ order.phone \in EveryList
  BY DEF CatalogueInv, CatalogueTyped
<1>3. row \in OrderRows /\ row.problem = p
  BY <1>2 DEF OrderRows
<1>4. /\ rows \in SUBSET OrderRows /\ gone \in SUBSET OrderRows /\ \A x \in rows : There(x.problem)
      /\ "order" \in touched /\ touched \in SUBSET Touchable
  BY <1>1, <1>2, <1>3 DEF Touchable
<1> HIDE DEF row, rows, gone, touched
<1> QED
  BY <1>1, <1>2, <1>4, OrderStarts


LEMMA CatalogueStarts ==
  CatalogueInit => CatalogueInv
<1> SUFFICES ASSUME CatalogueInit PROVE CatalogueInv
  OBVIOUS
<1> USE DEF CatalogueInit
<1>1. CatalogueTyped
  <2>1. Unborn \in [phone : EveryList, born : BOOLEAN, rows : SUBSET OrderRows]
    BY DEF Unborn, EveryList
  <2>2. Unknown \in Lists
    BY DEF Unknown, Lists
  <2> QED
    BY <2>1, <2>2, StartAssumption, MaxRequestsAssumption DEF CatalogueTyped, EveryList
<1>2. order.rows = {} /\ \A s \in Sessions : session[s] = NoSession /\ session[s].touched = {}
  BY DEF Unborn, NoSession
<1>3. TreesFit
  BY <1>2, StartAssumption DEF TreesFit, There
<1>4. RacesNoted
  BY <1>2 DEF RacesNoted
<1>5. \A s \in Sessions : SessionFits(s)
  BY <1>2 DEF SessionFits, PhoneFits, ProblemFits, AssignFits, ListFits, OrderFits, Doing
<1>6. LiveParents
  <2>1. raced \cup {NoPhone} = {NoPhone} /\ raced \cup {NoProblem} = {NoProblem}
    OBVIOUS
  <2> QED
    BY <2>1, StartAssumption DEF LiveParents
<1>7. ProblemsOnLeaves
  <2> SUFFICES ASSUME NEW c \in Phones, NEW p \in MappedTo(c), NEW d \in OpenChildren(phone, c)
               PROVE  d \in dormant
    BY DEF ProblemsOnLeaves
  <2>1. p \in Problems /\ problem[p].mapped = c /\ c # NoPhone /\ d \in Phones
    BY NoneAssumption, StartAssumption DEF MappedTo, OpenChildren
  <2> QED
    BY <2>1, StartAssumption
<1>8. ListsKept
  BY DEF ListsKept, Unknown, EveryList
<1>9. OrderKept
  BY <1>2 DEF OrderKept
<1> QED
  BY <1>1, <1>3, <1>4, <1>5, <1>6, <1>7, <1>8, <1>9 DEF CatalogueInv

LEMMA CatalogueKeeps ==
  CatalogueInv /\ [CatalogueNext]_catalogueVars => CatalogueInv'
<1> SUFFICES ASSUME CatalogueInv, [CatalogueNext]_catalogueVars PROVE CatalogueInv'
  OBVIOUS
<1>1. CASE UNCHANGED catalogueVars
  <2>1. UNCHANGED <<phone, problem, assigned, order, list, session, requests, raced, dormant, excused>>
    BY <1>1 DEF catalogueVars
  <2>2. CatalogueTyped'
    BY <2>1 DEF CatalogueInv, CatalogueTyped
  <2>3. /\ TreesFit' /\ LiveParents' /\ ProblemsOnLeaves' /\ OrderKept'
        /\ \A q \in Sessions : session'[q] = session[q] => SessionFits(q)'
        /\ \A c, shown : ListTold(c, shown) => ListTold(c, shown)'
    BY <2>1, RacesExcuse DEF CatalogueInv
  <2>4. RacesNoted' /\ ListsKept'
    BY <2>1 DEF CatalogueInv, RacesNoted, ListsKept, ListTold, Doing, Step
  <2> QED
    BY <2>1, <2>2, <2>3, <2>4 DEF CatalogueInv
<1>2. ASSUME NEW s \in Sessions, CommitPhone(s) \/ CommitProblem(s) \/ CommitAssignment(s)
                                 \/ CommitDescription(s) \/ Flush(s) \/ Store(s) \/ Abandoned(s)
      PROVE  CatalogueInv'
  BY <1>2, CommitPhoneKeeps, CommitProblemKeeps, CommitAssignmentKeeps, CommitDescriptionKeeps,
     FlushKeeps, StoreKeeps, AbandonedKeeps
<1> EveryList = Phones \cup {NoPhone} /\ Ready \subseteq Sessions
  BY DEF EveryList, Ready
<1>3. ASSUME NEW s \in Ready, NEW c \in Phones, NEW above \in EveryList, NEW active \in BOOLEAN,
             CreatePhone(s, c, above, active) \/ UpdatePhone(s, c, active) \/ DeletePhone(s, c)
      PROVE  CatalogueInv'
  BY <1>3, CreatePhoneKeeps, UpdatePhoneKeeps, DeletePhoneKeeps
<1>4. ASSUME NEW c \in EveryList, ListExpires(c) \/ \E s \in Ready : ListPhones(s, c)
      PROVE  CatalogueInv'
  BY <1>4, ListExpiresKeeps, ListPhonesKeeps
<1>5. ASSUME NEW s \in Ready, NEW p \in Problems,
             \/ \E above \in Problems \cup {NoProblem}, c \in EveryList : CreateProblem(s, p, above, c)
             \/ \E active \in BOOLEAN : UpdateProblem(s, p, active)
             \/ DeleteProblem(s, p)
             \/ \E parts \in SUBSET Parts : AssignParts(s, p, parts)
      PROVE  CatalogueInv'
  BY <1>5, CreateProblemKeeps, UpdateProblemKeeps, DeleteProblemKeeps, AssignPartsKeeps
<1>6. ASSUME NEW s \in Ready, NEW c \in EveryList,
             \/ CreateOrderWithProblems(s, c)
             \/ \E types \in SUBSET Types : UpdateOrder(s, c, types)
             \/ UpdateProduct(s, c)
      PROVE  CatalogueInv'
  BY <1>6, CreateOrderWithProblemsKeeps, UpdateOrderKeeps, UpdateProductKeeps
<1>7. ASSUME NEW s \in Ready, NEW r \in order.rows, NEW p \in Problems, NEW parts \in SUBSET Parts,
             EditProblem(s, r, p, parts)
      PROVE  CatalogueInv'
  BY <1>7, EditProblemKeeps
<1> QED
  BY <1>1, <1>2, <1>3, <1>4, <1>5, <1>6, <1>7 DEF CatalogueNext

LEMMA CatalogueAlways ==
  CatalogueSpec => []CatalogueInv
  BY CatalogueStarts, CatalogueKeeps, PTL DEF CatalogueSpec

LEMMA CatalogueTells ==
  CatalogueInv => CatalogueTypeOK /\ RowsFit /\ ListsTellTheTruth
<1> SUFFICES ASSUME CatalogueInv PROVE CatalogueTypeOK /\ RowsFit /\ ListsTellTheTruth
  OBVIOUS
<1>1. CatalogueTypeOK
  <2>1. order.phone \in Phones \cup {NoPhone} /\ order.rows \subseteq OrderRows
    BY DEF CatalogueInv, CatalogueTyped, EveryList
  <2> QED
    BY <2>1 DEF CatalogueInv, CatalogueTyped, TreesFit, CatalogueTypeOK, OrderRows
<1>2. RowsFit
  BY DEF CatalogueInv, OrderKept, RowFits, RowsFit
<1>3. ListsTellTheTruth
  <2> SUFFICES ASSUME NEW c \in EveryList, list[c].cached,
                      raced \cap ({c} \cup list[c].rows \cup OpenChildren(phone, c)) = {},
                      \A s \in Sessions : session[s] = NoSession
               PROVE  /\ list[c].rows = OpenChildren(phone, c)
                      /\ \A r \in list[c].rows : OpenChildren(phone, r) # {} => r \in list[c].parents
    BY DEF ListsTellTheTruth, CatalogueInv, CatalogueTyped
  <2>1. ListTold(c, list[c])
    BY DEF CatalogueInv, ListsKept, Doing
  <2>2. list[c].rows \subseteq Phones /\ OpenChildren(phone, c) \subseteq Phones
    BY DEF CatalogueInv, CatalogueTyped, Lists, OpenChildren
  <2> QED
    BY <2>1, <2>2 DEF ListTold
<1> QED
  BY <1>1, <1>2, <1>3

\* Types: a problem category is under a problem or mapped to a phone category,
\* never both, and it is mapped only while it is open (create, delete of
\* problem-categories.service.ts).
THEOREM CatalogueTypeCorrect == CatalogueSpec => []CatalogueTypeOK
  BY CatalogueAlways, CatalogueTells, PTL

\* No open category hangs below a deleted one, but where create and delete ran
\* at the same time.
THEOREM LiveParentsHolds == CatalogueSpec => []LiveParents
<1>1. CatalogueInv => LiveParents
  BY DEF CatalogueInv
<1> QED
  BY <1>1, CatalogueAlways, PTL

\* Problems hang on leaves: a phone category with problems has no open child
\* that was always active, but where a creation of the one raced with a
\* creation of the other.
THEOREM ProblemsOnLeavesHolds == CatalogueSpec => []ProblemsOnLeaves
<1>1. CatalogueInv => ProblemsOnLeaves
  BY DEF CatalogueInv
<1> QED
  BY <1>1, CatalogueAlways, PTL

\* An open problem of the order is one its phone category allows, with parts
\* assigned to it, whatever became of the catalogue and of the order since it
\* was chosen, but for races and for the rows nobody checked.
THEOREM RowsFitHolds == CatalogueSpec => []RowsFit
  BY CatalogueAlways, CatalogueTells, PTL

\* A list served from redis shows the open children of its category and which
\* of them have children, when no request is under way, but for lists whose
\* readers and writers overlapped or whose writer died before its flush.
THEOREM ListsTellTheTruthHolds == CatalogueSpec => []ListsTellTheTruth
  BY CatalogueAlways, CatalogueTells, PTL

=============================================================================
