---------------------------- MODULE RentalPhones ----------------------------
(***************************************************************************)
(* The phones lent to customers while theirs are repaired: the devices     *)
(* (rental_phone_devices), the rentals of each repair order                *)
(* (repair_order_rental_phones) and the requests that change both.  No     *)
(* handler of a rental opens a transaction: it checks, then runs one       *)
(* statement after the other, and others run in between.                   *)
(***************************************************************************)
EXTENDS Integers, SequencesExt

CONSTANTS
    Orders,     \* repair orders
    Devices,    \* rental phones
    Requests,   \* requests that run at the same time
    Targets,    \* types of the statuses orders are moved to
    Births,     \* statuses create is asked for
    Overrides,  \* statuses administrators give phones
    NoDevice,   \* no phone: NULL
    MaxCalls    \* bound: requests ever made

ASSUME NoDeviceAssumption == NoDevice \notin Devices
ASSUME MaxCallsAssumption == MaxCalls \in Nat

VARIABLES
    device,     \* status and is_available of each phone
    rental,     \* the rentals in the order of created_at; removed ones stay
    stage,      \* type of the status each order is in, unborn before create
    cached,     \* phones redis remembers as available
    request,    \* what each request has still to write
    calls,      \* requests made so far
    overlapped, \* history: orders two requests worked on at the same time
    tainted     \* history: phones an override, a cache, a crash or a race touched

rentalVars == <<device, rental, stage, cached, request, calls, overlapped, tainted>>

DeviceStatuses == {"absent", "Available", "Rented", "Retired"}
RentalStatuses == {"Pending", "Active", "Returned", "Cancelled"}
Terminal == {"Returned", "Cancelled"}
Stages == {"unborn", "Open", "Completed", "Cancelled"}

ASSUME TargetsAssumption == Targets \subseteq Stages \ {"unborn"}
ASSUME BirthsAssumption == Births \subseteq RentalStatuses
ASSUME OverridesAssumption == Overrides \subseteq DeviceStatuses \ {"absent"}

Idle == [order |-> NoDevice, devices |-> {}, todo |-> <<>>, begun |-> FALSE]

Busy(r) == request[r] # Idle

\* What the availability check of the handlers looks for.
IsFree(d) == d \in Devices /\ device[d] = [status |-> "Available", open |-> TRUE]

RowsOf(o) == {i \in DOMAIN rental : rental[i].order = o /\ rental[i].status # "removed"}
ActiveOf(o) == {i \in RowsOf(o) : rental[i].status = "Active"}
Newest(o) == CHOOSE i \in RowsOf(o) : \A j \in RowsOf(o) : j <= i

RentalInit ==
    /\ device = [d \in Devices |-> [status |-> "absent", open |-> FALSE]]
    /\ rental = <<>>
    /\ stage = [o \in Orders |-> "unborn"]
    /\ cached = {}
    /\ request = [r \in Requests |-> Idle]
    /\ calls = 0
    /\ overlapped = {}
    /\ tainted = {}

(***************************************************************************)
(* The statements a request has left, one at a time.                       *)
(***************************************************************************)
RowWrite(i, s, d) == [op |-> "row", row |-> i, status |-> s, device |-> d]
DeviceWrite(d, s) == [op |-> "device", device |-> d, status |-> s]
Insertion(o, s, d) == [op |-> "insert", row |-> [order |-> o, status |-> s, device |-> d]]

\* r has passed its checks.  The history notes who else is at work on the
\* order and on the phones.
Begin(r, o, devices, todo, suspect, begun) ==
    LET others == {q \in Requests \ {r} : Busy(q)}
        rivals == {q \in others : request[q].order = o}
        shared == devices \cap UNION {request[q].devices : q \in others}
    IN  /\ ~Busy(r)
        /\ calls < MaxCalls /\ calls' = calls + 1
        /\ request' = [request EXCEPT ![r] =
               [order |-> o, devices |-> devices, todo |-> todo, begun |-> begun]]
        /\ overlapped' = IF rivals = {} THEN overlapped ELSE overlapped \cup {o}
        /\ tainted' = tainted \cup suspect \cup shared \cup
               (IF rivals = {} THEN {} ELSE devices \cup UNION {request[q].devices : q \in rivals})

Next1(r) == Head(request[r].todo)

Advance(r) ==
    request' = [request EXCEPT ![r] =
        IF Len(@.todo) = 1 THEN Idle
        ELSE [@ EXCEPT !.todo = Tail(request[r].todo), !.begun = TRUE]]

InsertRental(r) ==
    /\ Busy(r) /\ Next1(r).op = "insert"
    /\ rental' = Append(rental, Next1(r).row)
    /\ Advance(r)
    /\ UNCHANGED <<device, stage, cached, calls, overlapped, tainted>>

WriteRental(r) ==
    /\ Busy(r) /\ Next1(r).op = "row"
    /\ LET i == Next1(r).row
       IN  rental' = IF rental[i].status = "removed" THEN rental
                     ELSE [rental EXCEPT ![i].status = Next1(r).status,
                                         ![i].device = Next1(r).device]
    /\ Advance(r)
    /\ UNCHANGED <<device, stage, cached, calls, overlapped, tainted>>

WriteDevice(r) ==
    /\ Busy(r) /\ Next1(r).op = "device"
    /\ device' = IF Next1(r).device = NoDevice THEN device
                 ELSE [device EXCEPT ![Next1(r).device].status = Next1(r).status]
    /\ Advance(r)
    /\ UNCHANGED <<rental, stage, cached, calls, overlapped, tainted>>

\* The process stops or a statement fails: nothing is rolled back.
AbortRental(r) ==
    /\ request[r].begun
    /\ request' = [request EXCEPT ![r] = Idle]
    /\ tainted' = tainted \cup request[r].devices
    /\ UNCHANGED <<device, rental, stage, cached, calls, overlapped>>

(***************************************************************************)
(* The handlers of a rental, up to their first statement that writes.      *)
(***************************************************************************)
\* Mutant of CreateRental: an order may have any number of active rentals.
CreateRentalUnchecked(r, o, s, d) ==
    /\ stage[o] \notin {"unborn", "Completed"}
    /\ IF s = "Active" THEN IsFree(d) ELSE d = NoDevice
    /\ Begin(r, o, {d} \ {NoDevice},
             IF s = "Active" THEN <<Insertion(o, s, d), DeviceWrite(d, "Rented")>>
             ELSE <<Insertion(o, s, d)>>, {}, FALSE)
    /\ UNCHANGED <<device, rental, stage, cached>>

\* Mutant of CreateRental: nobody asks whether the order exists.
CreateRentalNowhere(r, o, s, d) ==
    /\ ActiveOf(o) = {}
    /\ stage[o] # "Completed"
    /\ IF s = "Active" THEN IsFree(d) ELSE d = NoDevice
    /\ Begin(r, o, {d} \ {NoDevice},
             IF s = "Active" THEN <<Insertion(o, s, d), DeviceWrite(d, "Rented")>>
             ELSE <<Insertion(o, s, d)>>, {}, FALSE)
    /\ UNCHANGED <<device, rental, stage, cached>>

\* create: the types it refuses are 'Completed' and 'Canceled', and no status
\* has the latter.
CreateRental(r, o, s, d) ==
    /\ ActiveOf(o) = {}
    /\ stage[o] \notin {"unborn", "Completed"}
    /\ IF s = "Active" THEN IsFree(d) ELSE d = NoDevice
    /\ Begin(r, o, {d} \ {NoDevice},
             IF s = "Active" THEN <<Insertion(o, s, d), DeviceWrite(d, "Rented")>>
             ELSE <<Insertion(o, s, d)>>, {}, FALSE)
    /\ UNCHANGED <<device, rental, stage, cached>>

\* Mutant of Allowed: what was cancelled may still be returned.
AllowedFromCancelled(old, new) ==
    old # new => ~(old = "Active" /\ new = "Pending") /\ old # "Returned"

\* Which changes of the status update lets pass.
Allowed(old, new) ==
    old # new => ~(old = "Active" /\ new = "Pending") /\ old \notin Terminal

\* Mutant of Releases: only a return gives the phone back.
ReleasesReturned(old, new) == old = "Active" /\ new = "Returned"

\* update: an end of the rental frees its phone.
Releases(old, new) == old = "Active" /\ new \in Terminal

\* update: the newest rental of the order.  The phone is written before the
\* rental, and the status it writes is computed from the one it read.
UpdateRental(r, o, new, d) ==
    /\ stage[o] # "unborn" /\ RowsOf(o) # {}
    /\ LET i    == Newest(o)
           row  == rental[i]
           rent == row.status = "Pending" /\ new = "Active"
           last == RowWrite(i, new, IF rent THEN d ELSE row.device)
       IN  /\ Allowed(row.status, new)
           /\ IF rent THEN IsFree(d) /\ row.device \in {NoDevice, d} ELSE d = NoDevice
           /\ Begin(r, o, {d, row.device} \ {NoDevice},
                    CASE rent                      -> <<DeviceWrite(d, "Rented"), last>>
                      [] Releases(row.status, new) -> <<DeviceWrite(row.device, "Available"), last>>
                      [] OTHER                     -> <<last>>, {}, FALSE)
    /\ UNCHANGED <<device, rental, stage, cached>>

\* delete: cancels the active rental, then frees its phone.
CancelRental(r, o) ==
    /\ stage[o] # "unborn"
    /\ \E i \in ActiveOf(o) :
        Begin(r, o, {rental[i].device} \ {NoDevice},
              <<RowWrite(i, "Cancelled", rental[i].device),
                DeviceWrite(rental[i].device, "Available")>>, {}, FALSE)
    /\ UNCHANGED <<device, rental, stage, cached>>

\* updateRentalPhone: exchanges the phone of any rental for any other one.  It
\* asks neither whether the rental is active nor whether the phone is free.
ExchangePhone(r, i, d) ==
    /\ rental[i].status # "removed"
    /\ d # rental[i].device /\ (d # NoDevice => device[d].status # "absent")
    /\ LET both == {d, rental[i].device} \ {NoDevice}
       IN  Begin(r, rental[i].order, both,
                 <<DeviceWrite(rental[i].device, "Available"), DeviceWrite(d, "Rented"),
                   RowWrite(i, rental[i].status, d)>>,
                 IF rental[i].status = "Active" /\ (d = NoDevice \/ IsFree(d)) THEN {} ELSE both, FALSE)
    /\ UNCHANGED <<device, rental, stage, cached>>

\* removeRentalPhone: deletes any rental, and frees the phone it had.
RemoveRental(r, i) ==
    /\ rental[i].status # "removed"
    /\ rental' = [rental EXCEPT ![i].status = "removed", ![i].device = NoDevice]
    /\ Begin(r, rental[i].order, {rental[i].device} \ {NoDevice},
             <<DeviceWrite(rental[i].device, "Available")>>,
             IF rental[i].status = "Active" THEN {} ELSE {rental[i].device} \ {NoDevice}, TRUE)
    /\ UNCHANGED <<device, stage, cached>>

(***************************************************************************)
(* Orders.                                                                 *)
(***************************************************************************)
\* insertRentalPhone, in the transaction that creates the order: the phone is
\* looked up in redis first, where it stays for an hour.
CreateOrder(r, o, d) ==
    /\ stage[o] = "unborn" /\ \A q \in Requests : request[q].order # o
    /\ d \in cached \/ IsFree(d)
    /\ cached' = cached \cup {d}
    /\ Begin(r, o, {d}, <<[op |-> "birth", device |-> d]>>, IF IsFree(d) THEN {} ELSE {d}, FALSE)
    /\ UNCHANGED <<device, rental, stage>>

CommitOrder(r) ==
    /\ Busy(r) /\ Next1(r).op = "birth"
    /\ LET o == request[r].order
           d == Next1(r).device
       IN  /\ stage' = [stage EXCEPT ![o] = "Open"]
           /\ rental' = Append(rental, [order |-> o, status |-> "Active", device |-> d])
           /\ device' = [device EXCEPT ![d].status = "Rented"]
    /\ Advance(r)
    /\ UNCHANGED <<cached, calls, overlapped, tainted>>

CreateOrderWithoutPhone(o) ==
    /\ stage[o] = "unborn" /\ \A q \in Requests : request[q].order # o
    /\ stage' = [stage EXCEPT ![o] = "Open"]
    /\ UNCHANGED <<device, rental, cached, request, calls, overlapped, tainted>>

\* validateStatusTransitionOrThrow: no status of these types with a phone out.
ChangeStatus(r, o, to) ==
    /\ stage[o] \notin {"unborn", to}
    /\ to \in {"Completed", "Cancelled"} => ActiveOf(o) = {}
    /\ Begin(r, o, {}, <<[op |-> "stage", to |-> to]>>, {}, FALSE)
    /\ UNCHANGED <<device, rental, stage, cached>>

CommitStatus(r) ==
    /\ Busy(r) /\ Next1(r).op = "stage"
    /\ stage' = [stage EXCEPT ![request[r].order] = Next1(r).to]
    /\ Advance(r)
    /\ UNCHANGED <<device, rental, cached, calls, overlapped, tainted>>

(***************************************************************************)
(* Administration of the phones, and the hour of the cache.                *)
(***************************************************************************)
\* create of a device.
CreateDevice(d) ==
    /\ device[d].status = "absent"
    /\ device' = [device EXCEPT ![d] = [status |-> "Available", open |-> TRUE]]
    /\ UNCHANGED <<rental, stage, cached, request, calls, overlapped, tainted>>

\* update of a device: any status.  One that is not Available empties the
\* quantity; is_available returns only with a quantity.
UpdateDevice(d, s) ==
    /\ device[d].status # "absent"
    /\ device' = [device EXCEPT ![d] = [status |-> s, open |-> s = "Available"]]
    /\ tainted' = IF (device[d].status = "Rented") # (s = "Rented")
                  THEN tainted \cup {d} ELSE tainted
    /\ UNCHANGED <<rental, stage, cached, request, calls, overlapped>>

\* delete of a device.
RetireDevice(d) == UpdateDevice(d, "Retired")

CacheExpires(d) ==
    /\ d \in cached
    /\ cached' = cached \ {d}
    /\ UNCHANGED <<device, rental, stage, request, calls, overlapped, tainted>>

RentalNext ==
    \/ \E r \in Requests :
        \/ InsertRental(r)
        \/ WriteRental(r)
        \/ WriteDevice(r)
        \/ CommitOrder(r)
        \/ CommitStatus(r)
        \/ AbortRental(r)
    \/ \E r \in Requests, o \in Orders, s \in Births, d \in Devices \cup {NoDevice} :
        CreateRental(r, o, s, d)
    \/ \E r \in Requests, o \in Orders, s \in RentalStatuses, d \in Devices \cup {NoDevice} :
        UpdateRental(r, o, s, d)
    \/ \E r \in Requests, o \in Orders : CancelRental(r, o)
    \/ \E r \in Requests, i \in DOMAIN rental, d \in Devices \cup {NoDevice} : ExchangePhone(r, i, d)
    \/ \E r \in Requests, i \in DOMAIN rental : RemoveRental(r, i)
    \/ \E r \in Requests, o \in Orders, d \in Devices : CreateOrder(r, o, d)
    \/ \E o \in Orders : CreateOrderWithoutPhone(o)
    \/ \E r \in Requests, o \in Orders, to \in Targets : ChangeStatus(r, o, to)
    \/ \E d \in Devices : CreateDevice(d)
    \/ \E d \in Devices, s \in Overrides : UpdateDevice(d, s)
    \/ \E d \in Devices : RetireDevice(d)
    \/ \E d \in Devices : CacheExpires(d)

RentalSpec == RentalInit /\ [][RentalNext]_rentalVars

(***************************************************************************)
(* What must hold.                                                         *)
(***************************************************************************)
\* Types: a rental names an order that exists, and only a rental that was
\* active once names a phone.
RentalTypeOK ==
    /\ device \in [Devices -> [status : DeviceStatuses, open : BOOLEAN]]
    /\ stage \in [Orders -> Stages] /\ calls \in 0 .. MaxCalls
    /\ cached \subseteq Devices /\ overlapped \subseteq Orders /\ tainted \subseteq Devices
    /\ \A i \in DOMAIN rental :
        /\ rental[i].order \in Orders /\ stage[rental[i].order] # "unborn"
        /\ rental[i].status \in RentalStatuses \cup {"removed"}
        /\ rental[i].device \in Devices \cup {NoDevice}

\* An order has at most one active rental and it is the newest, the one update
\* works on, unless two requests worked on the order at the same time.
ActiveIsNewest ==
    \A o \in Orders \ overlapped :
        \A i \in ActiveOf(o), j \in RowsOf(o) : j <= i

\* A phone no request has in hand is marked rented exactly if one active rental
\* has it: whatever ended, crashed before its first write, was exchanged or
\* removed.  Excepted are phones touched by a race, by an exchange or removal
\* of a rental that was not active, by a stale cache, or set by hand.
DeviceFollowsRental ==
    \A d \in Devices \ tainted :
        LET out == {i \in DOMAIN rental : rental[i].device = d /\ rental[i].status = "Active"}
        IN  (\A r \in Requests : d \notin request[r].devices)
            => IF device[d].status = "Rented" THEN Cardinality(out) = 1 ELSE out = {}

\* A rental that was returned or cancelled never changes its status again, but
\* for its removal and for requests that overlapped.
ClosedStaysClosed ==
    [][\A i \in DOMAIN rental :
        rental[i].status \in Terminal /\ rental[i].order \notin overlapped
        => rental'[i].status \in {rental[i].status, "removed"}]_rental

=============================================================================
