-------------------------- MODULE TelephonyProofs --------------------------
(***************************************************************************)
(* What Telephony promises, for any number of calls, of webhooks waiting,  *)
(* operators, roles, orders, interventions of employees, crashes and       *)
(* repetitions.                                                            *)
(*                                                                         *)
(* OneOperatorPerRole is inductive with the types.  The others rest on     *)
(* WInv: what a webhook says is what the exchange knows of the call, the   *)
(* end of a call is announced once and last, and the row the handler has   *)
(* read is the call's until the handler writes it.                         *)
(***************************************************************************)
EXTENDS Telephony, SequenceTheorems, FiniteSetTheorems, WellFoundedInduction, TLAPS

Events == {"call_start", "call_answered", "call_missed", "call_end"}
Hooks == [call : Calls, event : Events, talked : BOOLEAN, code : Operators \cup {NoOne}]
Rows == [event : Events \cup {"none"}, talked : BOOLEAN, order : Orders \cup {NoOrder}]
Jobs == [pc : {"idle", "act", "save", "answer"}, saw : Rows, order : Orders \cup {NoOrder}]
Waiting == 1 .. Len(wire)

TInv ==
    /\ TypeOK
    /\ wire \in Seq(Hooks) /\ job \in Jobs
    /\ row \in [Calls -> Rows] /\ comments \in [Calls -> Nat] /\ stops \in Nat

\* What a webhook says is what the exchange knows of the call, or knew when it
\* sent it.
Says(h) ==
    LET at == call[h.call].at
    IN  /\ h.event = "call_start" => at # "idle" /\ ~h.talked
        /\ h.event = "call_answered" => at \in {"answered", "talked"} /\ ~h.talked
        /\ h.event = "call_missed" => at \in {"missed", "ended"} /\ ~h.talked
        /\ h.event = "call_end" => at = IF h.talked THEN "talked" ELSE "ended"

Announced == \A i \in Waiting : Says(wire[i])

\* Each event of a call is announced once, and its end last.
Ordered ==
    \A i, j \in Waiting : i < j /\ wire[i].call = wire[j].call =>
        wire[i].event # "call_end" /\ wire[i].event # wire[j].event

\* A row that has seen the end of a call is not written by an earlier event.
RowsTell ==
    \A c \in Calls :
        /\ row[c].talked => call[c].at = "talked"
        /\ row[c].event = "call_end" =>
              /\ call[c].at \in {"ended", "talked"}
              /\ \A i \in Waiting : wire[i].call = c => i = 1 /\ wire[i].event = "call_end"

\* The row the handler works with is still the call's, and once it is stored
\* it has what the webhook says.
HandlerKnows ==
    /\ job.pc \in {"act", "save"} => job.saw = row[Hook.call]
    /\ job.pc = "answer" => (Hook.talked => row[Hook.call].talked)

WInv == Announced /\ Ordered /\ RowsTell /\ HandlerKnows

\* A commented call has been told of, and what told of it is recognised when it
\* is repeated.
CommentKnown ==
    /\ \A c \in Calls : comments[c] = 1 => call[c].at \in {"missed", "ended", "talked"}
    /\ \A i \in Waiting : Notable(wire[i]) /\ comments[wire[i].call] = 1 =>
          i = 1 /\ CommentRecorded(row[wire[i].call], wire[i])

\* A conversation is on its way, or stored, and then with its comment.
ConversationKept ==
    /\ \A c \in Calls : call[c].at = "talked" /\ call[c].way # "internal" =>
          row[c].talked \/ \E i \in Waiting : wire[i].call = c /\ wire[i].talked
    /\ \A c \in Calls : row[c].talked /\ call[c].way # "internal" =>
          comments[c] = 1 \/ \E o \in Orders : place[o] = "deleted"
    /\ job.pc = "save" /\ Hook.talked /\ Way # "internal" => job.order # NoOrder

\* Unanswered calls that are stored, and the one that is counted but not stored.
Stored == {c \in Calls : c \in Unanswered /\ row[c].event = "call_end"}
Counted ==
    IF /\ job.pc = "save" /\ Way = "outbound" /\ Hook.event = "call_end" /\ ~Hook.talked
       /\ ~NoAnswerRecorded(job.saw)
    THEN 1 ELSE 0
CountsKept == \A o \in Orders : noAnswer[o] <= Cardinality(Stored) + stops + Counted

IInv == TInv /\ OneOperatorPerRole /\ WInv /\ CommentedOnce /\ CommentKnown
            /\ ConversationKept /\ CountsKept

-----------------------------------------------------------------------------
(* The first free order.                                                   *)

\* A set of numbers has a least one.
LEMMA LeastOf ==
    ASSUME NEW S, S \subseteq Nat, S # {}
    PROVE  \E n \in S : \A m \in S : n <= m
  <1>1. IsWellFoundedOn(OpToRel(<, Nat), Nat)
    BY NatLessThanWellFounded
  <1>2. PICK n \in S : \A m \in S : <<m, n>> \notin OpToRel(<, Nat)
    BY <1>1, WFMin, Zenon
  <1>3. \A m \in S : ~ (m < n)
    BY <1>2 DEF OpToRel
  <1>4. QED
    BY <1>3

\* NextOrder is a free one as long as there is one.
LEMMA NextOrderIsFree ==
    ASSUME \E o \in Orders : place[o] = "none"
    PROVE  NextOrder \in Orders /\ place[NextOrder] = "none"
  <1> DEFINE S == {o \in Orders : place[o] = "none"}
  <1>1. S \subseteq Nat /\ S # {}
    BY BoundsAssumption DEF Orders
  <1>2. PICK n \in S : \A m \in S : n <= m
    BY <1>1, LeastOf
  <1>3. n \in Orders /\ place[n] = "none" /\ \A p \in Orders : p < n => place[p] # "none"
    BY <1>1, <1>2, BoundsAssumption DEF Orders
  <1>4. QED
    BY <1>3 DEF NextOrder

-----------------------------------------------------------------------------
(* Assignment.                                                             *)

Telephonic == {"auto", "answered"}

\* The operators of one order: telephony put no two of a role there.
Proper(as) ==
    /\ as \in [Operators -> Sources]
    /\ \A a, b \in Operators :
          as[a] \in Telephonic /\ as[b] \in Telephonic /\ SameRole(a, b) => a = b

LEMMA SameRoleSymmetric == \A a, b : SameRole(a, b) <=> SameRole(b, a)
BY DEF SameRole

LEMMA NobodyIsProper == Proper(Nobody)
BY DEF Proper, Nobody, Sources, Telephonic

\* Who is added for a reason of an employee's is not telephony's, and an
\* operator keeps telephony's source only if he had it.
LEMMA AddingByHand ==
    ASSUME NEW as, Proper(as), NEW bs \in [Operators -> Sources],
           \A a \in Operators : bs[a] \in Telephonic => as[a] \in Telephonic
    PROVE  Proper(bs)
BY DEF Proper

\* Telephony adds an operator only where nobody of his roles is.
LEMMA EligibleIsProper ==
    ASSUME NEW as, Proper(as), NEW a \in Operators \cup {NoOne},
           NEW source \in Telephonic, NEW replace \in BOOLEAN
    PROVE  Proper(AssignIfEligible(as, a, source, replace))
  <1>1. CASE a = NoOne
    BY <1>1 DEF AssignIfEligible
  <1>2. CASE a # NoOne
    <2> DEFINE kept == IF replace THEN RemoveAuto(as, a) ELSE as
    <2>1. a \in Operators
      BY <1>2
    <2>2. Proper(RemoveAuto(as, a))
      <3>1. RemoveAuto(as, a) \in [Operators -> Sources]
        BY DEF RemoveAuto, Proper, Sources
      <3>2. \A b \in Operators : RemoveAuto(as, a)[b] \in Telephonic => as[b] \in Telephonic
        BY DEF RemoveAuto, Telephonic
      <3>3. QED
        BY <3>1, <3>2, AddingByHand
    <2>3. Proper(kept)
      BY <2>2
    <2> HIDE DEF kept
    <2>4. CASE HasSameRole(kept, a)
      BY <1>2, <2>3, <2>4 DEF AssignIfEligible, kept
    <2>5. CASE ~HasSameRole(kept, a)
      <3> DEFINE new == AssignIfNeeded(kept, a, source)
      <3>1. AssignIfEligible(as, a, source, replace) = new
        BY <1>2, <2>5 DEF AssignIfEligible, kept
      <3>2. new \in [Operators -> Sources] /\ \A b \in Operators \ {a} : new[b] = kept[b]
        BY <2>1, <2>3 DEF AssignIfNeeded, Proper, Sources, Telephonic
      <3> HIDE DEF new
      <3>3. \A b \in Operators \ {a} : new[b] \in Telephonic => ~SameRole(a, b)
        <4>1. \A b \in Operators \ {a} : kept[b] = "no" \/ ~SameRole(a, b)
          BY <2>5 DEF HasSameRole
        <4>2. QED
          BY <3>2, <4>1 DEF Telephonic
      <3>4. Proper(new)
        BY <2>3, <3>2, <3>3, SameRoleSymmetric DEF Proper
      <3>5. QED
        BY <3>1, <3>4
    <2>6. QED
      BY <2>4, <2>5
  <1>3. QED
    BY <1>1, <1>2

LEMMA FallbackIsProper ==
    ASSUME NEW as, Proper(as), NEW a \in Operators \cup {NoOne}
    PROVE  Proper(AssignFallback(as, a))
BY EligibleIsProper DEF AssignFallback, Telephonic

\* The columns of orders and their operators.
OrdersOK ==
    /\ place \in [Orders -> {"none", "open", "repair", "invalid", "closed", "child", "deleted"}]
    /\ key \in [Orders -> {"phone", "user"}]
    /\ noAnswer \in [Orders -> Nat]
    /\ assigned \in [Orders -> [Operators -> Sources]]
    /\ OneOperatorPerRole

LEMMA OrdersAreProper ==
    OrdersOK <=>
        /\ place \in [Orders -> {"none", "open", "repair", "invalid", "closed", "child", "deleted"}]
        /\ key \in [Orders -> {"phone", "user"}]
        /\ noAnswer \in [Orders -> Nat]
        /\ assigned \in [Orders -> [Operators -> Sources]]
        /\ \A o \in Orders : Proper(assigned[o])
BY DEF OrdersOK, OneOperatorPerRole, Proper, Telephonic

LEMMA OrdersFromTypes == TInv /\ OneOperatorPerRole => OrdersOK
BY DEF TInv, TypeOK, OrdersOK

\* One order gets new operators.
LEMMA Reassigned ==
    ASSUME OrdersOK, NEW o \in Orders, NEW as, Proper(as),
           assigned' = [assigned EXCEPT ![o] = as],
           place' \in [Orders -> {"none", "open", "repair", "invalid", "closed", "child", "deleted"}],
           key' \in [Orders -> {"phone", "user"}],
           noAnswer' \in [Orders -> Nat]
    PROVE  OrdersOK'
  <1>1. assigned \in [Orders -> [Operators -> Sources]] /\ \A p \in Orders : Proper(assigned[p])
    BY OrdersAreProper
  <1>2. as \in [Operators -> Sources]
    BY DEF Proper
  <1>3. assigned' \in [Orders -> [Operators -> Sources]]
    BY <1>1, <1>2
  <1>4. \A p \in Orders : Proper(assigned'[p])
    <2>1. \A p \in Orders : assigned'[p] = IF p = o THEN as ELSE assigned[p]
      BY <1>1
    <2>2. QED
      BY <1>1, <2>1
  <1>5. OneOperatorPerRole'
    BY <1>4 DEF OneOperatorPerRole, Proper, Telephonic
  <1>6. QED
    BY <1>3, <1>5 DEF OrdersOK

\* A new order, and who is put on it.
LEMMA NewOrderOK ==
    ASSUME OrdersOK, NEW as, Proper(as), NewOrder(as)
    PROVE  OrdersOK' /\ NextOrder \in Orders /\ place[NextOrder] = "none"
  <1>1. NextOrder \in Orders /\ place[NextOrder] = "none"
    BY NextOrderIsFree DEF NewOrder
  <1>2. QED
    BY <1>1, Reassigned DEF NewOrder, OrdersOK

LEMMA FoundTypes == ASSUME NEW keys PROVE Found(keys) \subseteq Orders \cup {NoOrder}
BY DEF Found

LEMMA ResolveTypes ==
    /\ LeastBusy \subseteq Operators \cup {NoOne}
    /\ \A code : Resolve(code) \in Operators \cup {NoOne}
BY OperatorsAssumption DEF LeastBusy, Resolve

\* What createFromWebhook does, it does for an order.
LEMMA CreateOK ==
    ASSUME OrdersOK, NEW code, NEW fallback \in BOOLEAN, NEW source \in Telephonic,
           CreateFromWebhook(code, fallback, source)
    PROVE  OrdersOK' /\ \E o \in Orders : Acted(o)
  <1>1. PICK found \in Found({"phone"}) :
          IF found # NoOrder
          THEN /\ \E a \in IF fallback THEN LeastBusy ELSE {NoOne} :
                    assigned' = [assigned EXCEPT ![found] =
                                  IF fallback THEN AssignFallback(@, a) ELSE @]
               /\ UNCHANGED <<place, key, noAnswer>>
               /\ Acted(found)
          ELSE \E a \in IF Resolve(code) = NoOne /\ fallback THEN LeastBusy
                        ELSE {Resolve(code)} :
               /\ NewOrder(AssignIfEligible(Nobody, a, source, FALSE))
               /\ Acted(NextOrder)
    BY DEF CreateFromWebhook
  <1>2. CASE found # NoOrder
    <2>1. found \in Orders /\ Proper(assigned[found])
      BY <1>2, FoundTypes, OrdersAreProper
    <2>2. PICK a \in Operators \cup {NoOne} :
              assigned' = [assigned EXCEPT ![found] =
                            IF fallback THEN AssignFallback(assigned[found], a)
                            ELSE assigned[found]]
      BY <1>1, <1>2, ResolveTypes
    <2>3. Proper(IF fallback THEN AssignFallback(assigned[found], a) ELSE assigned[found])
      BY <2>1, FallbackIsProper
    <2>4. UNCHANGED <<place, key, noAnswer>> /\ Acted(found)
      BY <1>1, <1>2
    <2>5. OrdersOK'
      BY <2>1, <2>2, <2>3, <2>4, Reassigned DEF OrdersOK
    <2>6. QED
      BY <2>1, <2>4, <2>5
  <1>3. CASE found = NoOrder
    <2>1. PICK a \in Operators \cup {NoOne} :
              /\ NewOrder(AssignIfEligible(Nobody, a, source, FALSE))
              /\ Acted(NextOrder)
      BY <1>1, <1>3, ResolveTypes
    <2>2. Proper(AssignIfEligible(Nobody, a, source, FALSE))
      BY NobodyIsProper, EligibleIsProper
    <2>3. QED
      BY <2>1, <2>2, NewOrderOK
  <1>4. QED
    BY <1>2, <1>3

\* What the handler does to orders before it stores the call.
LEMMA ActOK ==
    ASSUME TInv, OneOperatorPerRole, Act
    PROVE  /\ OrdersOK'
           /\ \/ \E o \in Orders \cup {NoOrder} : Acted(o)
              \/ job' = Idle /\ UNCHANGED <<call, wire, row, comments, edits, stops, repeats>>
  <1>1. OrdersOK /\ job.order \in Orders \cup {NoOrder}
    BY OrdersFromTypes DEF TInv, TypeOK
  <1>2. \A o \in Orders : Proper(assigned[o])
    BY <1>1, OrdersAreProper
  <1>3. "auto" \in Telephonic /\ "answered" \in Telephonic /\ FALSE \in BOOLEAN
    BY DEF Telephonic
  <1>4. ASSUME NEW o \in Orders \cup {NoOrder}, Acted(o), UNCHANGED <<place, key, noAnswer, assigned>>
        PROVE  OrdersOK'
    BY <1>1, <1>4 DEF OrdersOK, OneOperatorPerRole
  <1>5. CASE OutboundStart
    <2>1. CASE job.order = NoOrder
      BY <1>1, <1>3, <1>5, <2>1, CreateOK DEF OutboundStart
    <2>2. CASE job.order # NoOrder
      <3> DEFINE o == job.order
                 as == AssignIfEligible(assigned[o], Resolve(Hook.code), "answered", FALSE)
      <3>1. /\ assigned' = IF place[o] = "child" THEN assigned ELSE [assigned EXCEPT ![o] = as]
            /\ UNCHANGED <<place, key, noAnswer>> /\ Acted(o)
        BY <1>5, <2>2 DEF OutboundStart
      <3>2. o \in Orders
        BY <1>1, <2>2
      <3>3. Proper(as)
        BY <1>2, <1>3, <3>2, ResolveTypes, EligibleIsProper
      <3> HIDE DEF as
      <3>4. CASE place[o] = "child"
        BY <1>4, <3>1, <3>2, <3>4
      <3>5. CASE place[o] # "child"
        BY <1>1, <3>1, <3>2, <3>3, <3>5, Reassigned DEF OrdersOK
      <3>6. QED
        BY <3>1, <3>2, <3>4, <3>5
    <2>3. QED
      BY <2>1, <2>2
  <1>6. CASE InboundStart
    <2>1. CASE job.order = NoOrder
      <3>1. (Hook.code = NoOne) \in BOOLEAN
        OBVIOUS
      <3>2. CreateFromWebhook(Hook.code, Hook.code = NoOne, "auto")
        BY <1>6, <2>1 DEF InboundStart
      <3>3. QED
        BY <1>1, <1>3, <3>1, <3>2, CreateOK
    <2>2. CASE job.order # NoOrder
      BY <1>1, <1>4, <1>6, <2>2 DEF InboundStart, orderVars
    <2>3. QED
      BY <2>1, <2>2
  <1>7. CASE Answered
    <2> DEFINE a == Resolve(Hook.code)
    <2>1. a \in Operators \cup {NoOne} /\ Acted(job.order)
      BY <1>7, ResolveTypes DEF Answered
    <2>2. PICK found \in Found({"phone"}) :
            IF found = NoOrder
            THEN NewOrder(AssignIfEligible(Nobody, a, "answered", TRUE))
            ELSE /\ noAnswer' = [noAnswer EXCEPT ![found] = 0]
                 /\ assigned' = [assigned EXCEPT ![found] =
                                   AssignIfEligible(assigned[found], a, "answered", TRUE)]
                 /\ UNCHANGED <<place, key>>
      BY <1>7 DEF Answered
    <2> HIDE DEF a
    <2>3. CASE found = NoOrder
      <3>1. Proper(AssignIfEligible(Nobody, a, "answered", TRUE))
        BY <1>3, <2>1, NobodyIsProper, EligibleIsProper
      <3>2. QED
        BY <1>1, <2>1, <2>2, <2>3, <3>1, NewOrderOK
    <2>4. CASE found # NoOrder
      <3>1. found \in Orders
        BY <2>4, FoundTypes
      <3>2. Proper(AssignIfEligible(assigned[found], a, "answered", TRUE))
        BY <1>2, <1>3, <2>1, <3>1, EligibleIsProper
      <3>3. noAnswer' \in [Orders -> Nat]
        BY <1>1, <2>2, <2>4 DEF OrdersOK
      <3>4. QED
        BY <1>1, <2>1, <2>2, <2>4, <3>1, <3>2, <3>3, Reassigned DEF OrdersOK
    <2>5. QED
      BY <2>3, <2>4
  <1>8. CASE Missed
    <2>1. CASE job.order = NoOrder
      BY <1>1, <1>3, <1>8, <2>1, CreateOK DEF Missed
    <2>2. CASE job.order # NoOrder
      BY <1>1, <1>4, <1>8, <2>2 DEF Missed, orderVars
    <2>3. QED
      BY <2>1, <2>2
  <1>9. CASE Talked
    <2>1. CASE job.order = NoOrder
      BY <1>1, <1>3, <1>9, <2>1, CreateOK DEF Talked
    <2>2. CASE job.order # NoOrder
      <3>1. Acted(job.order) /\ UNCHANGED <<place, key, assigned>> /\ noAnswer' \in [Orders -> Nat]
        BY <1>1, <1>9, <2>2 DEF Talked, OrdersOK
      <3>2. QED
        BY <1>1, <3>1 DEF OrdersOK, OneOperatorPerRole
    <2>3. QED
      BY <2>1, <2>2
  <1>10. CASE CountNoAnswer
    <2>1. job.order \in Orders
      BY <1>1, <1>10 DEF CountNoAnswer, Counts
    <2>2. /\ UNCHANGED <<key, assigned>>
          /\ noAnswer' \in [Orders -> Nat]
          /\ place' \in [Orders -> {"none", "open", "repair", "invalid", "closed", "child", "deleted"}]
      <3> DEFINE o == job.order
                 n == noAnswer[o] + 1
      <3>1. CASE UNCHANGED orderVars
        BY <1>1, <3>1 DEF orderVars, OrdersOK
      <3>2. CASE /\ noAnswer' = [noAnswer EXCEPT ![o] = n]
                 /\ place' = [place EXCEPT ![o] = IF n > NoAnswerLimit THEN "invalid" ELSE @]
                 /\ UNCHANGED <<key, assigned>>
        BY <1>1, <2>1, <3>2 DEF OrdersOK
      <3>3. QED
        BY <1>10, <3>1, <3>2 DEF CountNoAnswer
    <2>3. \/ Acted(job.order)
          \/ job' = Idle /\ UNCHANGED <<call, wire, row, comments, edits, stops, repeats>>
      BY <1>10 DEF CountNoAnswer
    <2>4. QED
      BY <1>1, <2>2, <2>3 DEF OrdersOK, OneOperatorPerRole
  <1>11. CASE EndUncounted
    BY <1>1, <1>4, <1>11 DEF EndUncounted, orderVars
  <1>12. QED
    BY <1>5, <1>6, <1>7, <1>8, <1>9, <1>10, <1>11 DEF Act

\* What employees do to orders; the handler does not notice.
LEMMA EmployeesOK ==
    ASSUME TInv, OneOperatorPerRole, Employees
    PROVE  OrdersOK' /\ UNCHANGED <<call, wire, job, row, comments, noAnswer, stops>>
  <1>1. OrdersOK /\ \A o \in Orders : Proper(assigned[o])
    BY OrdersFromTypes, OrdersAreProper
  <1>2. UNCHANGED <<call, wire, job, row, comments, noAnswer, stops>>
    BY DEF Employees, CreateByHand, OpenApplication, Route, Revive, AssignByHand, Unassign, Edit
  <1>3. noAnswer' \in [Orders -> Nat]
    BY <1>1, <1>2 DEF OrdersOK
  <1>4. CASE CreateByHand
    <2>1. PICK chosen \in SUBSET Operators :
            assigned' = [assigned EXCEPT ![NextOrder] =
                           [a \in Operators |-> IF a \in chosen THEN "manual" ELSE "no"]]
      BY <1>4 DEF CreateByHand
    <2> DEFINE as == [a \in Operators |-> IF a \in chosen THEN "manual" ELSE "no"]
    <2>2. Proper(as)
      BY DEF Proper, Sources, Telephonic
    <2>3. NextOrder \in Orders
      BY <1>4, NextOrderIsFree DEF CreateByHand
    <2>4. /\ place' \in [Orders -> {"none", "open", "repair", "invalid", "closed", "child", "deleted"}]
          /\ key' \in [Orders -> {"phone", "user"}]
      BY <1>1, <1>4 DEF CreateByHand, OrdersOK
    <2>5. QED
      BY <1>1, <1>2, <1>3, <2>1, <2>2, <2>3, <2>4, Reassigned
  <1>5. CASE OpenApplication
    <2>1. PICK a \in Operators \cup {NoOne} :
            assigned' = [assigned EXCEPT ![NextOrder] = AssignFallback(Nobody, a)]
      BY <1>5, ResolveTypes DEF OpenApplication
    <2>2. Proper(AssignFallback(Nobody, a))
      BY NobodyIsProper, FallbackIsProper
    <2>3. NextOrder \in Orders
      BY <1>5, NextOrderIsFree DEF OpenApplication
    <2>4. /\ place' \in [Orders -> {"none", "open", "repair", "invalid", "closed", "child", "deleted"}]
          /\ key' \in [Orders -> {"phone", "user"}]
      BY <1>1, <1>5 DEF OpenApplication, OrdersOK
    <2>5. QED
      BY <1>1, <1>2, <1>3, <2>1, <2>2, <2>3, <2>4, Reassigned
  <1>6. ASSUME NEW o \in Orders, Route(o) \/ Revive(o) \/ AssignByHand(o) \/ Unassign(o)
        PROVE  OrdersOK'
    <2>1. PICK as : assigned' = [assigned EXCEPT ![o] = as] /\ Proper(as)
      <3>1. CASE Route(o)
        <4>1. PICK as \in {assigned[o]} \cup {AssignIfNeeded(assigned[o], a, "role") : a \in Operators} :
                assigned' = [assigned EXCEPT ![o] = as]
          BY <3>1 DEF Route
        <4>2. ASSUME NEW a \in Operators PROVE Proper(AssignIfNeeded(assigned[o], a, "role"))
          <5>1. assigned[o] \in [Operators -> Sources]
            BY <1>1 DEF Proper
          <5>2. AssignIfNeeded(assigned[o], a, "role") \in [Operators -> Sources]
            BY <5>1 DEF AssignIfNeeded, Sources
          <5>3. \A b \in Operators :
                  AssignIfNeeded(assigned[o], a, "role")[b] \in Telephonic
                      => assigned[o][b] \in Telephonic
            BY <5>1 DEF AssignIfNeeded, Telephonic
          <5>4. QED
            BY <1>1, <5>2, <5>3, AddingByHand
        <4>3. QED
          BY <1>1, <4>1, <4>2
      <3>2. CASE Revive(o)
        <4>1. PICK a \in Operators : assigned' = [assigned EXCEPT ![o] = [Nobody EXCEPT ![a] = "manual"]]
          BY <3>2 DEF Revive
        <4>2. Proper([Nobody EXCEPT ![a] = "manual"])
          BY DEF Nobody, Proper, Sources, Telephonic
        <4>3. QED
          BY <4>1, <4>2
      <3>3. CASE AssignByHand(o)
        <4>1. PICK chosen \in SUBSET Operators :
                assigned' = [assigned EXCEPT ![o] =
                  [a \in Operators |-> IF a \in chosen /\ assigned[o][a] = "no" THEN "manual"
                                       ELSE assigned[o][a]]]
          BY <3>3 DEF AssignByHand
        <4> DEFINE as == [a \in Operators |-> IF a \in chosen /\ assigned[o][a] = "no" THEN "manual"
                                              ELSE assigned[o][a]]
        <4>2. as \in [Operators -> Sources]
          BY <1>1 DEF Proper, Sources
        <4>3. \A a \in Operators : as[a] \in Telephonic => assigned[o][a] \in Telephonic
          BY DEF Telephonic
        <4>4. QED
          BY <1>1, <4>1, <4>2, <4>3, AddingByHand
      <3>4. CASE Unassign(o)
        <4>1. PICK gone \in SUBSET Operators :
                assigned' = [assigned EXCEPT ![o] =
                  [a \in Operators |-> IF a \in gone THEN "no" ELSE assigned[o][a]]]
          BY <3>4 DEF Unassign
        <4> DEFINE as == [a \in Operators |-> IF a \in gone THEN "no" ELSE assigned[o][a]]
        <4>2. as \in [Operators -> Sources]
          BY <1>1 DEF Proper, Sources
        <4>3. \A a \in Operators : as[a] \in Telephonic => assigned[o][a] \in Telephonic
          BY DEF Telephonic
        <4>4. QED
          BY <1>1, <4>1, <4>2, <4>3, AddingByHand
      <3>5. QED
        BY <1>6, <3>1, <3>2, <3>3, <3>4
    <2>2. /\ place' \in [Orders -> {"none", "open", "repair", "invalid", "closed", "child", "deleted"}]
          /\ key' \in [Orders -> {"phone", "user"}]
      <3>1. CASE Route(o)
        <4>1. PICK to \in {r[2] : r \in {r \in Routes : r[1] = place[o]}} :
                place' = [place EXCEPT ![o] = to]
          BY <3>1 DEF Route
        <4>2. to \in {"open", "repair", "invalid", "closed", "child", "deleted"}
          BY DEF Routes
        <4>3. QED
          BY <1>1, <3>1, <4>1, <4>2 DEF Route, OrdersOK
      <3>2. CASE Revive(o) \/ AssignByHand(o) \/ Unassign(o)
        BY <1>1, <3>2 DEF Revive, AssignByHand, Unassign, OrdersOK
      <3>3. QED
        BY <1>6, <3>1, <3>2
    <2>3. QED
      BY <1>1, <1>3, <2>1, <2>2, Reassigned
  <1>7. QED
    BY <1>2, <1>4, <1>5, <1>6 DEF Employees

-----------------------------------------------------------------------------
(* Types.                                                                  *)

\* The oldest webhook is one.
LEMMA HookIsHook == ASSUME TInv, wire # <<>> PROVE Hook \in Hooks /\ Hook = wire[1] /\ 1 \in Waiting
  <1>1. Len(wire) \in Nat \ {0}
    BY EmptySeq DEF TInv
  <1>2. QED
    BY <1>1, HeadTailProperties, ElementOfSeq DEF Hook, TInv, Waiting

\* Sending, and answering the oldest.
LEMMA SendWire ==
    ASSUME TInv, NEW c \in Calls, NEW event \in Events, NEW talked \in BOOLEAN,
           NEW code \in Operators \cup {NoOne}, Send(c, event, talked, code)
    PROVE  LET h == [call |-> c, event |-> event, talked |-> talked, code |-> code]
           IN  /\ wire' \in Seq(Hooks) /\ Len(wire') = Len(wire) + 1 /\ wire' # <<>>
               /\ \A i \in Waiting' : wire'[i] = IF i = Len(wire) + 1 THEN h ELSE wire[i]
               /\ wire # <<>> => Hook' = Hook
               /\ Len(wire) \in Nat
  <1> DEFINE h == [call |-> c, event |-> event, talked |-> talked, code |-> code]
  <1>1. h \in Hooks /\ wire \in Seq(Hooks) /\ wire' = Append(wire, h)
    BY DEF Hooks, TInv, Send
  <1>2. /\ wire' \in Seq(Hooks) /\ wire' # <<>> /\ Len(wire') = Len(wire) + 1 /\ Len(wire) \in Nat
        /\ \A i \in 1 .. Len(wire) : wire'[i] = wire[i]
        /\ wire'[Len(wire) + 1] = h
    BY <1>1, AppendProperties, LenProperties
  <1>3. wire # <<>> => Hook' = Hook
    <2> SUFFICES ASSUME wire # <<>> PROVE Hook' = Hook
      OBVIOUS
    <2>1. 1 \in 1 .. Len(wire)
      BY <1>1, <1>2, EmptySeq
    <2>2. Head(wire) = wire[1] /\ Head(wire') = wire'[1]
      BY <1>1, <1>2, HeadTailProperties
    <2>3. QED
      BY <1>2, <2>1, <2>2 DEF Hook
  <1>4. QED
    BY <1>2, <1>3 DEF Waiting

LEMMA TailWire ==
    ASSUME TInv, wire # <<>>, wire' = Tail(wire)
    PROVE  /\ wire' \in Seq(Hooks) /\ Len(wire') = Len(wire) - 1 /\ Len(wire) \in Nat \ {0}
           /\ \A i \in Waiting' : i + 1 \in Waiting /\ wire'[i] = wire[i + 1]
  <1>1. wire \in Seq(Hooks) /\ Len(wire) \in Nat \ {0}
    BY EmptySeq DEF TInv
  <1>2. /\ wire' \in Seq(Hooks) /\ Len(wire') = Len(wire) - 1
        /\ \A i \in 1 .. Len(wire') : wire'[i] = wire[i + 1]
    BY <1>1, HeadTailProperties
  <1>3. QED
    BY <1>1, <1>2 DEF Waiting

\* A step of the exchange tells of one call; calls that are not rung yet have
\* nobody's code.
LEMMA ExchangeTells ==
    ASSUME TInv, NEW c \in Calls, Dial(c) \/ PickUp(c) \/ Miss(c) \/ HangUp(c)
    PROVE  /\ UNCHANGED <<job, row, comments, place, key, noAnswer, assigned, stops>>
           /\ \A d \in Calls : d # c => call'[d] = call[d]
           /\ call' \in [Calls -> [way : {"none", "inbound", "outbound", "internal"},
                                   at : {"idle", "ringing", "answered", "missed", "ended", "talked"},
                                   code : Operators \cup {NoOne}]]
           /\ \E event \in Events, talked \in BOOLEAN, code \in Operators \cup {NoOne} :
                /\ Send(c, event, talked, code)
                /\ \/ /\ call[c].at = "idle" /\ call'[c].at = "ringing"
                      /\ event = "call_start" /\ ~talked
                   \/ /\ call[c].at = "ringing" /\ call'[c].at = "answered"
                      /\ event = "call_answered" /\ ~talked /\ call'[c].way = call[c].way
                   \/ /\ call[c].at = "ringing" /\ call'[c].at = "missed"
                      /\ event = "call_missed" /\ ~talked /\ call'[c].way = call[c].way
                   \/ /\ call[c].at = "answered" /\ call'[c].at = "talked"
                      /\ event = "call_end" /\ talked /\ call'[c].way = call[c].way
                   \/ /\ call[c].at \in {"ringing", "missed"} /\ call'[c].at = "ended"
                      /\ event = "call_end" /\ ~talked /\ call'[c].way = call[c].way
  <1>1. call[c].code \in Operators \cup {NoOne} /\ call[c] \in
            [way : {"none", "inbound", "outbound", "internal"},
             at : {"idle", "ringing", "answered", "missed", "ended", "talked"},
             code : Operators \cup {NoOne}]
    BY DEF TInv, TypeOK
  <1>2. CASE Dial(c)
    <2>1. PICK way \in {"inbound", "outbound", "internal"}, code \in Operators \cup {NoOne} :
            /\ call' = [call EXCEPT ![c] = [way |-> way, at |-> "ringing", code |-> code]]
            /\ Send(c, "call_start", FALSE, code)
      BY <1>2 DEF Dial
    <2>2. /\ call'[c] = [way |-> way, at |-> "ringing", code |-> code]
          /\ \A d \in Calls : d # c => call'[d] = call[d]
          /\ call' \in [Calls -> [way : {"none", "inbound", "outbound", "internal"},
                                  at : {"idle", "ringing", "answered", "missed", "ended", "talked"},
                                  code : Operators \cup {NoOne}]]
      BY <2>1 DEF TInv, TypeOK
    <2>3. UNCHANGED <<job, row, comments, place, key, noAnswer, assigned, stops>>
      BY <2>1 DEF Send, orderVars
    <2>4. "call_start" \in Events /\ call[c].at = "idle"
      BY <1>2 DEF Events, Dial
    <2>5. QED
      BY <2>1, <2>2, <2>3, <2>4
  <1>3. CASE PickUp(c)
    <2>1. PICK code \in Operators \cup {NoOne} :
            /\ call[c].at = "ringing"
            /\ call' = [call EXCEPT ![c].at = "answered", ![c].code = code]
            /\ Send(c, "call_answered", FALSE, code)
      BY <1>1, <1>3 DEF PickUp
    <2>2. call'[c] = [call[c] EXCEPT !.at = "answered", !.code = code]
          /\ \A d \in Calls : d # c => call'[d] = call[d]
      BY <1>1, <2>1 DEF TInv, TypeOK
    <2>3. call'[c].at = "answered" /\ call'[c].way = call[c].way
      BY <1>1, <2>2
    <2>4. call' \in [Calls -> [way : {"none", "inbound", "outbound", "internal"},
                               at : {"idle", "ringing", "answered", "missed", "ended", "talked"},
                               code : Operators \cup {NoOne}]]
      BY <1>1, <2>1 DEF TInv, TypeOK
    <2>5. UNCHANGED <<job, row, comments, place, key, noAnswer, assigned, stops>>
      BY <2>1 DEF Send, orderVars
    <2>6. "call_answered" \in Events
      BY DEF Events
    <2>7. QED
      BY <2>1, <2>2, <2>3, <2>4, <2>5, <2>6
  <1>4. CASE Miss(c)
    BY <1>1, <1>4 DEF Miss, Send, orderVars, TInv, TypeOK, Events
  <1>5. CASE HangUp(c)
    <2> DEFINE new == IF call[c].at = "answered" THEN [call[c] EXCEPT !.at = "talked"]
                      ELSE [call[c] EXCEPT !.at = "ended", !.code = NoOne]
    <2>1. /\ call[c].at \in {"ringing", "answered", "missed"}
          /\ call' = [call EXCEPT ![c] = new]
          /\ Send(c, "call_end", call[c].at = "answered", call[c].code)
      BY <1>5 DEF HangUp
    <2>2. /\ new \in [way : {"none", "inbound", "outbound", "internal"},
                      at : {"idle", "ringing", "answered", "missed", "ended", "talked"},
                      code : Operators \cup {NoOne}]
          /\ new.at = IF call[c].at = "answered" THEN "talked" ELSE "ended"
          /\ new.way = call[c].way
      BY <1>1
    <2> HIDE DEF new
    <2>3. /\ call'[c] = new /\ \A d \in Calls : d # c => call'[d] = call[d]
          /\ call' \in [Calls -> [way : {"none", "inbound", "outbound", "internal"},
                                  at : {"idle", "ringing", "answered", "missed", "ended", "talked"},
                                  code : Operators \cup {NoOne}]]
      BY <2>1, <2>2 DEF TInv, TypeOK
    <2>4. UNCHANGED <<job, row, comments, place, key, noAnswer, assigned, stops>>
      BY <2>1 DEF Send, orderVars
    <2>5. "call_end" \in Events /\ (call[c].at = "answered") \in BOOLEAN
      BY DEF Events
    <2>6. QED
      BY <1>1, <2>1, <2>2, <2>3, <2>4, <2>5
  <1>6. QED
    BY <1>2, <1>3, <1>4, <1>5

\* What the columns need to be typed again.
LEMMA TypesFrom ==
    ASSUME OrdersOK',
           call' \in [Calls -> [way : {"none", "inbound", "outbound", "internal"},
                                at : {"idle", "ringing", "answered", "missed", "ended", "talked"},
                                code : Operators \cup {NoOne}]],
           wire' \in Seq(Hooks), job' \in Jobs, job'.pc # "idle" => wire' # <<>>,
           row' \in [Calls -> Rows], comments' \in [Calls -> Nat], stops' \in Nat
    PROVE  TInv' /\ OneOperatorPerRole'
  <1>1. job'.pc \in {"idle", "act", "save", "answer"} /\ job'.order \in Orders \cup {NoOrder}
    BY DEF Jobs
  <1>2. \A c \in Calls : row'[c].order \in Orders \cup {NoOrder}
    BY DEF Rows
  <1>3. QED
    BY <1>1, <1>2 DEF TInv, TypeOK, OrdersOK

LEMMA IdleIsAJob == Idle \in Jobs /\ Idle.pc = "idle" /\ [Idle EXCEPT !.pc = "answer"] \in Jobs
BY DEF Idle, Jobs, Rows

\* What Save writes.
LEMMA SaveTypes ==
    ASSUME TInv, Save
    PROVE  /\ row' \in [Calls -> Rows] /\ comments' \in [Calls -> Nat]
           /\ job' = [Idle EXCEPT !.pc = "answer"]
           /\ UNCHANGED <<call, wire, place, key, noAnswer, assigned, stops>>
           /\ job.pc = "save" /\ wire # <<>>
           /\ \E o \in Orders \cup {NoOrder} :
                /\ job.order # NoOrder => o = job.order
                /\ row'[Hook.call] =
                     [event |-> Hook.event, talked |-> row[Hook.call].talked \/ Hook.talked,
                      order |-> IF o = NoOrder THEN row[Hook.call].order ELSE o]
                /\ \A c \in Calls \ {Hook.call} : row'[c] = row[c] /\ comments'[c] = comments[c]
                /\ comments'[Hook.call] =
                     IF /\ o # NoOrder /\ Notable(Hook)
                        /\ ~CommentRecorded(job.saw, Hook) /\ place[o] # "deleted"
                     THEN comments[Hook.call] + 1 ELSE comments[Hook.call]
  <1>1. wire # <<>> /\ job.pc = "save" /\ job.order \in Orders \cup {NoOrder}
    BY DEF TInv, TypeOK, Save
  <1>2. Hook \in Hooks
    BY <1>1, HookIsHook
  <1>3. Hook.call \in Calls /\ Hook.event \in Events /\ Hook.talked \in BOOLEAN
    BY <1>2 DEF Hooks
  <1>4. row \in [Calls -> Rows] /\ comments \in [Calls -> Nat] /\ row[Hook.call] \in Rows
    BY <1>3 DEF TInv
  <1>5. PICK o \in IF job.order = NoOrder /\ Way # "internal" THEN Found({"phone", "user"})
                   ELSE {job.order} :
          /\ row' = [row EXCEPT ![Hook.call] =
                       [event |-> Hook.event, talked |-> row[Hook.call].talked \/ Hook.talked,
                        order |-> IF o = NoOrder THEN row[Hook.call].order ELSE o]]
          /\ comments' = IF /\ o # NoOrder /\ Notable(Hook)
                            /\ ~CommentRecorded(job.saw, Hook) /\ place[o] # "deleted"
                         THEN [comments EXCEPT ![Hook.call] = comments[Hook.call] + 1]
                         ELSE comments
    BY DEF Save
  <1>6. o \in Orders \cup {NoOrder} /\ (job.order # NoOrder => o = job.order)
    BY <1>1, <1>5, FoundTypes
  <1> DEFINE new == [event |-> Hook.event, talked |-> row[Hook.call].talked \/ Hook.talked,
                     order |-> IF o = NoOrder THEN row[Hook.call].order ELSE o]
             noted == /\ o # NoOrder /\ Notable(Hook)
                      /\ ~CommentRecorded(job.saw, Hook) /\ place[o] # "deleted"
  <1>7. new \in Rows
    <2>1. (row[Hook.call].talked \/ Hook.talked) \in BOOLEAN
      OBVIOUS
    <2>2. (IF o = NoOrder THEN row[Hook.call].order ELSE o) \in Orders \cup {NoOrder}
      BY <1>4, <1>6 DEF Rows
    <2>3. QED
      BY <1>3, <2>1, <2>2 DEF Rows
  <1> HIDE DEF new, noted
  <1>8. row' = [row EXCEPT ![Hook.call] = new]
        /\ comments' = IF noted THEN [comments EXCEPT ![Hook.call] = comments[Hook.call] + 1]
                       ELSE comments
    BY <1>5 DEF new, noted
  <1>9. /\ row' \in [Calls -> Rows] /\ row'[Hook.call] = new
        /\ \A c \in Calls \ {Hook.call} : row'[c] = row[c]
    BY <1>3, <1>4, <1>7, <1>8
  <1>10. /\ comments' \in [Calls -> Nat]
         /\ comments'[Hook.call] = IF noted THEN comments[Hook.call] + 1 ELSE comments[Hook.call]
         /\ \A c \in Calls \ {Hook.call} : comments'[c] = comments[c]
    BY <1>3, <1>4, <1>8
  <1>11. job' = [Idle EXCEPT !.pc = "answer"] /\ UNCHANGED <<call, wire, place, key, noAnswer, assigned, stops>>
    BY DEF Save, orderVars
  <1>12. QED
    BY <1>1, <1>6, <1>9, <1>10, <1>11 DEF new, noted

\* What Receive and Acted do to the job.
LEMMA ReceiveTypes ==
    ASSUME TInv, Receive
    PROVE  /\ job' \in Jobs /\ job'.saw = row[Hook.call] /\ wire # <<>>
           /\ job'.pc = IF Way = "internal" THEN "save" ELSE "act"
           /\ job.pc = "idle"
           /\ UNCHANGED <<call, wire, row, comments, place, key, noAnswer, assigned, stops>>
  <1>1. wire # <<>> /\ job.pc = "idle"
        /\ UNCHANGED <<call, wire, row, comments, place, key, noAnswer, assigned, stops>>
    BY DEF Receive, orderVars
  <1>2. PICK o \in Orders \cup {NoOrder} :
          job' = [pc |-> IF Way = "internal" THEN "save" ELSE "act",
                  saw |-> row[Hook.call], order |-> o]
    BY FoundTypes DEF Receive
  <1>3. row[Hook.call] \in Rows
    BY <1>1, HookIsHook DEF TInv, Hooks
  <1>4. QED
    BY <1>1, <1>2, <1>3 DEF Jobs

LEMMA ActedTypes ==
    ASSUME TInv, NEW o \in Orders \cup {NoOrder}, Acted(o)
    PROVE  /\ job' \in Jobs /\ job'.pc = "save" /\ job'.order = o /\ job'.saw = job.saw
           /\ UNCHANGED <<call, wire, row, comments, stops>>
BY DEF TInv, Acted, Jobs

LEMMA TypesInit == Init => TInv /\ OneOperatorPerRole
  <1> SUFFICES ASSUME Init PROVE TInv /\ OneOperatorPerRole
    OBVIOUS
  <1>1. wire \in Seq(Hooks) /\ Idle.saw \in Rows /\ job = Idle
    BY EmptySeq DEF Init, Idle, Rows
  <1>2. call \in [Calls -> [way : {"none", "inbound", "outbound", "internal"},
                            at : {"idle", "ringing", "answered", "missed", "ended", "talked"},
                            code : Operators \cup {NoOne}]]
    BY DEF Init
  <1>3. /\ row \in [Calls -> Rows] /\ comments \in [Calls -> Nat] /\ stops \in Nat
        /\ \A c \in Calls : row[c].order \in Orders \cup {NoOrder}
    BY <1>1 DEF Init, Idle
  <1>4. /\ place \in [Orders -> {"none", "open", "repair", "invalid", "closed", "child", "deleted"}]
        /\ key \in [Orders -> {"phone", "user"}] /\ noAnswer \in [Orders -> Nat]
        /\ assigned \in [Orders -> [Operators -> Sources]]
    BY DEF Init, Sources
  <1>5. OneOperatorPerRole
    BY DEF Init, OneOperatorPerRole
  <1>6. job \in Jobs /\ job.pc = "idle" /\ job.order \in Orders \cup {NoOrder}
    BY <1>1, IdleIsAJob DEF Jobs
  <1>7. QED
    BY <1>1, <1>2, <1>3, <1>4, <1>5, <1>6 DEF TInv, TypeOK

LEMMA TypesStep == TInv /\ OneOperatorPerRole /\ [Next]_vars => TInv' /\ OneOperatorPerRole'
  <1> SUFFICES ASSUME TInv, OneOperatorPerRole, [Next]_vars PROVE TInv' /\ OneOperatorPerRole'
    OBVIOUS
  <1>1. OrdersOK
    BY OrdersFromTypes
  <1>2. /\ call \in [Calls -> [way : {"none", "inbound", "outbound", "internal"},
                               at : {"idle", "ringing", "answered", "missed", "ended", "talked"},
                               code : Operators \cup {NoOne}]]
        /\ wire \in Seq(Hooks) /\ job \in Jobs /\ (job.pc # "idle" => wire # <<>>)
        /\ row \in [Calls -> Rows] /\ comments \in [Calls -> Nat] /\ stops \in Nat
    BY DEF TInv, TypeOK
  <1>3. ASSUME UNCHANGED <<place, key, noAnswer, assigned>> PROVE OrdersOK'
    BY <1>1, <1>3 DEF OrdersOK, OneOperatorPerRole
  <1>4. CASE Receive
    BY <1>2, <1>3, <1>4, ReceiveTypes, TypesFrom
  <1>5. CASE Act
    <2>1. OrdersOK'
      BY <1>5, ActOK
    <2>2. CASE \E o \in Orders \cup {NoOrder} : Acted(o)
      <3>1. PICK o \in Orders \cup {NoOrder} : Acted(o)
        BY <2>2
      <3>2. job' \in Jobs /\ job'.pc = "save" /\ UNCHANGED <<call, wire, row, comments, stops>>
        BY <3>1, ActedTypes
      <3>3. wire # <<>>
        BY <1>2, <1>5 DEF Act, OutboundStart, InboundStart, Answered, Missed, Talked,
                          CountNoAnswer, EndUncounted, Acting
      <3>4. QED
        BY <1>2, <2>1, <3>2, <3>3, TypesFrom
    <2>3. CASE job' = Idle /\ UNCHANGED <<call, wire, row, comments, edits, stops, repeats>>
      BY <1>2, <2>1, <2>3, IdleIsAJob, TypesFrom
    <2>4. QED
      BY <1>5, <2>2, <2>3, ActOK
  <1>6. CASE Save
    BY <1>2, <1>3, <1>6, SaveTypes, IdleIsAJob, TypesFrom
  <1>7. CASE Answer200
    <2>1. wire' \in Seq(Hooks)
      BY <1>2, <1>7, TailWire DEF Answer200
    <2>2. QED
      BY <1>2, <1>3, <1>7, <2>1, IdleIsAJob, TypesFrom DEF Answer200, orderVars
  <1>8. CASE AnswerLost
    BY <1>2, <1>3, <1>8, IdleIsAJob, TypesFrom DEF AnswerLost, orderVars
  <1>9. CASE Stop
    BY <1>2, <1>3, <1>9, IdleIsAJob, TypesFrom DEF Stop, orderVars
  <1>10. ASSUME NEW c \in Calls, Dial(c) \/ PickUp(c) \/ Miss(c) \/ HangUp(c)
         PROVE  TInv' /\ OneOperatorPerRole'
    <2>1. PICK event \in Events, talked \in BOOLEAN, code \in Operators \cup {NoOne} :
            Send(c, event, talked, code)
      BY <1>10, ExchangeTells
    <2>2. wire' \in Seq(Hooks) /\ wire' # <<>>
      BY <2>1, SendWire
    <2>3. QED
      BY <1>2, <1>3, <1>10, <2>2, ExchangeTells, TypesFrom
  <1>11. CASE Employees
    <2>1. OrdersOK' /\ UNCHANGED <<call, wire, job, row, comments, noAnswer, stops>>
      BY <1>11, EmployeesOK
    <2>2. QED
      BY <1>2, <2>1, TypesFrom
  <1>12. CASE UNCHANGED vars
    BY <1>2, <1>3, <1>12, TypesFrom DEF vars
  <1>13. QED
    BY <1>4, <1>5, <1>6, <1>7, <1>8, <1>9, <1>10, <1>11, <1>12 DEF Next, Handler, Exchange

-----------------------------------------------------------------------------
(* What webhooks say, and what is stored.                                  *)

\* How far a call is tells which of its events can be waiting.
LEMMA WhatIsSaid ==
    ASSUME TInv, Announced, NEW i \in Waiting
    PROVE  /\ wire[i] \in Hooks
           /\ wire[i].talked => wire[i].event = "call_end"
           /\ LET at == call[wire[i].call].at
              IN  /\ at # "idle"
                  /\ at = "ringing" => wire[i].event = "call_start"
                  /\ at = "answered" => wire[i].event \in {"call_start", "call_answered"}
                  /\ at = "missed" => wire[i].event \in {"call_start", "call_missed"}
  <1>1. wire[i] \in Hooks
    BY ElementOfSeq DEF TInv, Waiting
  <1>2. wire[i].event \in Events /\ Says(wire[i])
    BY <1>1 DEF Announced, Hooks
  <1>3. QED
    BY <1>1, <1>2 DEF Says, Events

\* A step of the exchange, told of one call.
LEMMA ExchangeKeepsTelling ==
    ASSUME TInv, TInv', WInv, NEW c \in Calls, Dial(c) \/ PickUp(c) \/ Miss(c) \/ HangUp(c)
    PROVE  WInv' /\ ~row[c].talked /\ row[c].event # "call_end"
  <1>1. /\ UNCHANGED <<job, row>>
        /\ \A d \in Calls : d # c => call'[d] = call[d]
    BY ExchangeTells
  <1>2. PICK event \in Events, talked \in BOOLEAN, code \in Operators \cup {NoOne} :
          /\ Send(c, event, talked, code)
          /\ \/ /\ call[c].at = "idle" /\ call'[c].at = "ringing"
                /\ event = "call_start" /\ ~talked
             \/ /\ call[c].at = "ringing" /\ call'[c].at = "answered"
                /\ event = "call_answered" /\ ~talked
             \/ /\ call[c].at = "ringing" /\ call'[c].at = "missed"
                /\ event = "call_missed" /\ ~talked
             \/ /\ call[c].at = "answered" /\ call'[c].at = "talked"
                /\ event = "call_end" /\ talked
             \/ /\ call[c].at \in {"ringing", "missed"} /\ call'[c].at = "ended"
                /\ event = "call_end" /\ ~talked
    BY ExchangeTells
  <1> DEFINE h == [call |-> c, event |-> event, talked |-> talked, code |-> code]
             n == Len(wire) + 1
  <1>3. /\ wire # <<>> => Hook' = Hook
        /\ Len(wire) \in Nat /\ Waiting' = 1 .. n
        /\ \A i \in Waiting' : wire'[i] = IF i = n THEN h ELSE wire[i]
    BY <1>2, SendWire DEF Waiting
  <1>4. h.call = c /\ h.event = event /\ h.talked = talked
    OBVIOUS
  <1>5. \A i \in Waiting' : i # n => i \in Waiting /\ wire'[i] = wire[i]
    BY <1>3 DEF Waiting
  <1>6. n \in Waiting' /\ wire'[n] = h
    BY <1>3
  <1> HIDE DEF h
  <1>7. ASSUME NEW i \in Waiting, wire[i].call = c
        PROVE  /\ wire[i].event # "call_end" /\ wire[i].event # event
               /\ Says(wire[i])'
    <2>1. /\ wire[i] \in Hooks /\ Says(wire[i])
          /\ LET at == call[c].at
             IN  /\ at # "idle"
                 /\ at = "ringing" => wire[i].event = "call_start"
                 /\ at = "answered" => wire[i].event \in {"call_start", "call_answered"}
                 /\ at = "missed" => wire[i].event \in {"call_start", "call_missed"}
      BY <1>7, WhatIsSaid DEF WInv, Announced
    <2>2. wire[i].event # "call_end" /\ wire[i].event # event
      BY <1>2, <2>1
    <2>3. wire[i].event \in {"call_start", "call_answered", "call_missed"} /\ ~wire[i].talked
      BY <1>7, <2>1, <2>2 DEF Says, Hooks, Events
    <2>4. \A g : g = wire[i] => Says(g)'
      BY <1>2, <1>7, <2>1, <2>3 DEF Says
    <2>5. wire'[i] = wire[i]
      BY <1>3 DEF Waiting
    <2>6. QED
      BY <2>2, <2>4, <2>5 DEF Says
  <1>8. Announced'
    <2>1. \A g : g = h => Says(g)'
      BY <1>2, <1>4 DEF Says
    <2>2. ASSUME NEW i \in Waiting' PROVE Says(wire[i])'
      <3>1. CASE i = n
        BY <1>6, <2>1, <3>1 DEF Says
      <3>2. CASE i # n /\ wire[i].call = c
        BY <1>5, <1>7, <3>2 DEF Says
      <3>3. CASE i # n /\ wire[i].call # c
        <4>1. i \in Waiting /\ wire'[i] = wire[i] /\ Says(wire[i])
          BY <1>5, <3>3 DEF WInv, Announced
        <4>2. wire[i].call \in Calls
          BY <4>1, WhatIsSaid DEF WInv, Hooks
        <4>3. call'[wire[i].call] = call[wire[i].call]
          BY <1>1, <3>3, <4>2
        <4>4. QED
          BY <4>1, <4>3 DEF Says
      <3>4. QED
        BY <3>1, <3>2, <3>3
    <2>3. QED
      BY <2>2 DEF Announced
  <1>9. Ordered'
    <2> SUFFICES ASSUME NEW i \in Waiting', NEW j \in Waiting', i < j, wire'[i].call = wire'[j].call
                 PROVE  wire'[i].event # "call_end" /\ wire'[i].event # wire'[j].event
      BY DEF Ordered
    <2>1. i # n /\ i \in Waiting /\ wire'[i] = wire[i]
      BY <1>3, <1>5
    <2>2. CASE j = n
      BY <1>4, <1>6, <1>7, <2>1, <2>2
    <2>3. CASE j # n
      BY <1>5, <2>1, <2>3 DEF WInv, Ordered
    <2>4. QED
      BY <2>2, <2>3
  <1>10. ~row[c].talked /\ row[c].event # "call_end"
    BY <1>2 DEF WInv, RowsTell
  <1>11. RowsTell'
    <2> SUFFICES ASSUME NEW d \in Calls
                 PROVE  /\ row'[d].talked => call'[d].at = "talked"
                        /\ row'[d].event = "call_end" =>
                             /\ call'[d].at \in {"ended", "talked"}
                             /\ \A i \in Waiting' : wire'[i].call = d
                                   => i = 1 /\ wire'[i].event = "call_end"
      BY DEF RowsTell
    <2>1. CASE d = c
      BY <1>1, <1>10, <2>1
    <2>2. CASE d # c
      <3>1. call'[d] = call[d] /\ row'[d] = row[d]
        BY <1>1, <2>2
      <3>2. \A i \in Waiting' : wire'[i].call = d => i \in Waiting /\ wire'[i] = wire[i]
        BY <1>4, <1>5, <1>6, <2>2
      <3>3. QED
        BY <3>1, <3>2 DEF WInv, RowsTell
    <2>3. QED
      BY <2>1, <2>2
  <1>12. HandlerKnows'
    BY <1>1, <1>3 DEF WInv, HandlerKnows, TInv, TypeOK
  <1>13. QED
    BY <1>8, <1>9, <1>10, <1>11, <1>12 DEF WInv

\* Storing the oldest webhook.
LEMMA SaveKeepsTelling == ASSUME TInv, WInv, Save PROVE WInv'
  <1>1. /\ job.pc = "save" /\ wire # <<>> /\ job'.pc = "answer"
        /\ UNCHANGED <<call, wire>>
        /\ row'[Hook.call].event = Hook.event
        /\ row'[Hook.call].talked <=> row[Hook.call].talked \/ Hook.talked
        /\ \A c \in Calls \ {Hook.call} : row'[c] = row[c]
    <2>1. job.pc = "save" /\ wire # <<>> /\ job' = [Idle EXCEPT !.pc = "answer"]
          /\ UNCHANGED <<call, wire>>
      BY SaveTypes
    <2>2. PICK o :
            /\ row'[Hook.call] =
                 [event |-> Hook.event, talked |-> row[Hook.call].talked \/ Hook.talked,
                  order |-> IF o = NoOrder THEN row[Hook.call].order ELSE o]
            /\ \A c \in Calls \ {Hook.call} : row'[c] = row[c]
      BY SaveTypes
    <2>3. row'[Hook.call].event = Hook.event
          /\ row'[Hook.call].talked = (row[Hook.call].talked \/ Hook.talked)
      BY <2>2
    <2>4. job'.pc = "answer"
      BY <2>1 DEF Idle
    <2>5. QED
      BY <2>1, <2>2, <2>3, <2>4
  <1>2. Hook \in Hooks /\ Hook = wire[1] /\ 1 \in Waiting
    BY <1>1, HookIsHook
  <1>3. Says(Hook) /\ Hook.call \in Calls /\ (Hook.talked => Hook.event = "call_end")
    BY <1>2, WhatIsSaid DEF WInv, Announced, Hooks
  <1>4. RowsTell'
    <2> SUFFICES ASSUME NEW d \in Calls
                 PROVE  /\ row'[d].talked => call[d].at = "talked"
                        /\ row'[d].event = "call_end" =>
                             /\ call[d].at \in {"ended", "talked"}
                             /\ \A i \in Waiting : wire[i].call = d
                                   => i = 1 /\ wire[i].event = "call_end"
      BY <1>1 DEF RowsTell, Waiting
    <2>1. CASE d # Hook.call
      BY <1>1, <2>1 DEF WInv, RowsTell
    <2>2. CASE d = Hook.call
      <3>1. row'[d].talked => call[d].at = "talked"
        BY <1>1, <1>3, <2>2 DEF WInv, RowsTell, Says
      <3>2. row'[d].event = "call_end" => Hook.event = "call_end" /\ call[d].at \in {"ended", "talked"}
        BY <1>1, <1>3, <2>2 DEF Says
      <3>3. ASSUME Hook.event = "call_end", NEW i \in Waiting, wire[i].call = d
            PROVE  i = 1 /\ wire[i].event = "call_end"
        <4>1. i \in Nat /\ i >= 1
          BY DEF Waiting
        <4>2. ~ (1 < i)
          BY <1>2, <2>2, <3>3 DEF WInv, Ordered
        <4>3. QED
          BY <1>2, <3>3, <4>1, <4>2
      <3>4. QED
        BY <3>1, <3>2, <3>3
    <2>3. QED
      BY <2>1, <2>2
  <1>5. Announced' /\ Ordered'
    BY <1>1 DEF WInv, Announced, Ordered, Says, Waiting
  <1>6. HandlerKnows'
    BY <1>1 DEF HandlerKnows, Hook
  <1>7. QED
    BY <1>4, <1>5, <1>6 DEF WInv

\* Once the oldest webhook is answered, nothing waits of a call that has ended.
LEMMA AnswerKeepsTelling == ASSUME TInv, WInv, Answer200 PROVE WInv'
  <1>1. /\ job.pc = "answer" /\ wire # <<>> /\ job' = Idle /\ wire' = Tail(wire)
        /\ UNCHANGED <<call, row>>
    BY DEF Answer200, TInv, TypeOK
  <1>2. \A i \in Waiting' : i + 1 \in Waiting /\ wire'[i] = wire[i + 1] /\ i \in Nat \ {0}
    BY <1>1, TailWire DEF Waiting
  <1>3. Announced'
    BY <1>1, <1>2 DEF WInv, Announced, Says
  <1>4. Ordered'
    <2> SUFFICES ASSUME NEW i \in Waiting', NEW j \in Waiting', i < j, wire'[i].call = wire'[j].call
                 PROVE  wire'[i].event # "call_end" /\ wire'[i].event # wire'[j].event
      BY DEF Ordered
    <2>1. i + 1 \in Waiting /\ j + 1 \in Waiting /\ i + 1 < j + 1
      BY <1>2
    <2>2. QED
      BY <1>2, <2>1 DEF WInv, Ordered
  <1>5. RowsTell'
    <2>1. \A i \in Waiting' : i + 1 # 1
      BY <1>2
    <2>2. QED
      BY <1>1, <1>2, <2>1 DEF WInv, RowsTell
  <1>6. HandlerKnows'
    BY <1>1 DEF HandlerKnows, Idle
  <1>7. QED
    BY <1>3, <1>4, <1>5, <1>6 DEF WInv

LEMMA WireStep == TInv /\ TInv' /\ OneOperatorPerRole /\ WInv /\ [Next]_vars => WInv'
  <1> SUFFICES ASSUME TInv, TInv', OneOperatorPerRole, WInv, [Next]_vars PROVE WInv'
    OBVIOUS
  <1>1. ASSUME UNCHANGED <<call, wire, row>>, HandlerKnows' PROVE WInv'
    BY <1>1 DEF WInv, Announced, Ordered, RowsTell, Says, Waiting
  <1>2. ASSUME UNCHANGED <<call, wire, row>>, job'.pc = "idle" PROVE WInv'
    BY <1>1, <1>2 DEF HandlerKnows
  <1>3. CASE Receive
    BY <1>1, <1>3, ReceiveTypes DEF HandlerKnows, Hook
  <1>4. CASE Act
    <2>1. CASE \E o \in Orders \cup {NoOrder} : Acted(o)
      <3>1. PICK o \in Orders \cup {NoOrder} : Acted(o)
        BY <2>1
      <3>2. job'.pc = "save" /\ job'.saw = job.saw /\ UNCHANGED <<call, wire, row>>
        BY <3>1, ActedTypes
      <3>3. job.pc = "act"
        BY <1>4 DEF Act, OutboundStart, InboundStart, Answered, Missed, Talked,
                    CountNoAnswer, EndUncounted, Acting
      <3>4. QED
        BY <1>1, <3>2, <3>3 DEF WInv, HandlerKnows, Hook
    <2>2. CASE job' = Idle /\ UNCHANGED <<call, wire, row, comments, edits, stops, repeats>>
      BY <1>2, <2>2, IdleIsAJob
    <2>3. QED
      BY <1>4, <2>1, <2>2, ActOK
  <1>5. CASE Save
    BY <1>5, SaveKeepsTelling
  <1>6. CASE Answer200
    BY <1>6, AnswerKeepsTelling
  <1>7. CASE AnswerLost \/ Stop
    BY <1>2, <1>7, IdleIsAJob DEF AnswerLost, Stop
  <1>8. ASSUME NEW c \in Calls, Dial(c) \/ PickUp(c) \/ Miss(c) \/ HangUp(c) PROVE WInv'
    BY <1>8, ExchangeKeepsTelling
  <1>9. CASE Employees
    BY <1>1, <1>9, EmployeesOK DEF WInv, HandlerKnows, Hook
  <1>10. CASE UNCHANGED vars
    BY <1>1, <1>10 DEF vars, WInv, HandlerKnows, Hook
  <1>11. QED
    BY <1>3, <1>4, <1>5, <1>6, <1>7, <1>8, <1>9, <1>10 DEF Next, Handler, Exchange

-----------------------------------------------------------------------------
(* Comments.                                                               *)

CommentsOK == CommentedOnce /\ CommentKnown

\* The handler comments what the row of the call does not show as commented.
LEMMA SaveKeepsComments == ASSUME TInv, WInv, CommentsOK, Save PROVE CommentsOK'
  <1> DEFINE c == Hook.call
  <1>1. /\ job.pc = "save" /\ wire # <<>> /\ UNCHANGED <<call, wire>>
        /\ \A d \in Calls \ {c} : row'[d] = row[d] /\ comments'[d] = comments[d]
    BY SaveTypes
  <1>2. PICK o :
          /\ row'[c] = [event |-> Hook.event, talked |-> row[c].talked \/ Hook.talked,
                        order |-> IF o = NoOrder THEN row[c].order ELSE o]
          /\ comments'[c] = IF /\ o # NoOrder /\ Notable(Hook)
                               /\ ~CommentRecorded(job.saw, Hook) /\ place[o] # "deleted"
                            THEN comments[c] + 1 ELSE comments[c]
    BY SaveTypes
  <1>3. row'[c].event = Hook.event /\ row'[c].talked = (row[c].talked \/ Hook.talked)
    BY <1>2
  <1>4. Hook \in Hooks /\ Hook = wire[1] /\ 1 \in Waiting
    BY <1>1, HookIsHook
  <1>5. Says(Hook) /\ c \in Calls /\ (Hook.talked => Hook.event = "call_end")
    BY <1>4, WhatIsSaid DEF WInv, Announced, Hooks
  <1>6. job.saw = row[c] /\ comments[c] \in Nat /\ comments[c] <= 1
    BY <1>1, <1>5 DEF WInv, HandlerKnows, TInv, CommentsOK, CommentedOnce
  <1>7. Notable(Hook) /\ comments[c] = 1 => CommentRecorded(row[c], Hook)
    BY <1>4 DEF CommentsOK, CommentKnown
  <1>8. comments'[c] <= 1 /\ (comments'[c] # comments[c] => Notable(Hook) /\ comments'[c] = 1)
    BY <1>2, <1>6, <1>7
  <1>9. CommentedOnce'
    BY <1>1, <1>5, <1>8 DEF CommentsOK, CommentedOnce
  <1>10. \A d \in Calls : comments'[d] = 1 => call[d].at \in {"missed", "ended", "talked"}
    <2>1. Notable(Hook) => call[c].at \in {"missed", "ended", "talked"}
      BY <1>5 DEF Says, Notable
    <2>2. QED
      BY <1>1, <1>5, <1>8, <2>1 DEF CommentsOK, CommentKnown
  <1>11. ASSUME NEW i \in Waiting, Notable(wire[i]), comments'[wire[i].call] = 1
         PROVE  i = 1 /\ CommentRecorded(row'[wire[i].call], wire[i])
    <2>1. wire[i] \in Hooks /\ Says(wire[i]) /\ (wire[i].talked => wire[i].event = "call_end")
          /\ i \in Nat /\ i >= 1
      BY WhatIsSaid DEF WInv, Announced, Waiting
    <2>2. CASE wire[i].call # c
      <3>1. wire[i].call \in Calls \ {c}
        BY <2>1, <2>2 DEF Hooks
      <3>2. row'[wire[i].call] = row[wire[i].call] /\ comments[wire[i].call] = 1
        BY <1>1, <1>11, <3>1
      <3>3. QED
        BY <1>11, <3>2 DEF CommentsOK, CommentKnown
    <2>3. CASE wire[i].call = c
      <3>1. i = 1
        <4>1. comments[c] = 1 => i = 1
          BY <1>11, <2>3 DEF CommentsOK, CommentKnown
        <4>2. ASSUME comments[c] # 1, i # 1 PROVE FALSE
          <5>1. Notable(Hook)
            BY <1>8, <1>11, <2>3, <4>2
          <5>2. 1 < i /\ wire[1].call = wire[i].call
            BY <1>4, <2>1, <2>3, <4>2
          <5>3. Hook.event # "call_end" /\ Hook.event # wire[i].event
            BY <1>4, <5>2 DEF WInv, Ordered
          <5>4. call[c].at \in {"missed", "ended"} /\ wire[i].event = "call_end" /\ wire[i].talked
            BY <1>5, <1>11, <5>1, <5>3 DEF Notable, Says
          <5>5. call[c].at = "talked"
            BY <2>1, <2>3, <5>4 DEF Says
          <5>6. QED
            BY <5>4, <5>5
        <4>3. QED
          BY <4>1, <4>2
      <3>2. wire[i] = Hook
        BY <1>4, <3>1
      <3>3. Hook.event = "call_end" => row'[c].talked
        BY <1>3, <1>11, <3>2 DEF Notable
      <3>4. CommentRecorded(row'[c], Hook)
        BY <1>3, <3>3 DEF CommentRecorded
      <3>5. QED
        BY <2>3, <3>1, <3>2, <3>4
    <2>4. QED
      BY <2>2, <2>3
  <1>12. CommentKnown'
    BY <1>1, <1>10, <1>11 DEF CommentKnown, Waiting, Notable, CommentRecorded
  <1>13. QED
    BY <1>9, <1>12 DEF CommentsOK

LEMMA CommentsStep ==
    TInv /\ TInv' /\ OneOperatorPerRole /\ WInv /\ CommentsOK /\ [Next]_vars => CommentsOK'
  <1> SUFFICES ASSUME TInv, TInv', OneOperatorPerRole, WInv, CommentsOK, [Next]_vars
               PROVE  CommentsOK'
    OBVIOUS
  <1>1. ASSUME UNCHANGED <<call, wire, row, comments>> PROVE CommentsOK'
    BY <1>1 DEF CommentsOK, CommentedOnce, CommentKnown, Waiting, Notable, CommentRecorded
  <1>2. CASE Receive
    BY <1>1, <1>2, ReceiveTypes
  <1>3. CASE Act
    BY <1>1, <1>3, ActOK, ActedTypes
  <1>4. CASE Save
    BY <1>4, SaveKeepsComments
  <1>5. CASE Answer200
    <2>1. wire # <<>> /\ wire' = Tail(wire) /\ UNCHANGED <<call, row, comments>>
      BY <1>5 DEF Answer200, TInv, TypeOK
    <2>2. \A i \in Waiting' : i + 1 \in Waiting /\ wire'[i] = wire[i + 1] /\ i + 1 # 1
      BY <2>1, TailWire DEF Waiting
    <2>3. \A i \in Waiting' : Notable(wire'[i]) => comments'[wire'[i].call] # 1
      BY <2>1, <2>2 DEF CommentsOK, CommentKnown
    <2>4. QED
      BY <2>1, <2>3 DEF CommentsOK, CommentedOnce, CommentKnown, Notable
  <1>6. CASE AnswerLost \/ Stop
    BY <1>1, <1>6 DEF AnswerLost, Stop
  <1>7. ASSUME NEW c \in Calls, Dial(c) \/ PickUp(c) \/ Miss(c) \/ HangUp(c) PROVE CommentsOK'
    <2>1. /\ UNCHANGED <<row, comments>>
          /\ \A d \in Calls : d # c => call'[d] = call[d]
      BY <1>7, ExchangeTells
    <2>2. PICK event \in Events, talked \in BOOLEAN, code \in Operators \cup {NoOne} :
            /\ Send(c, event, talked, code)
            /\ \/ call[c].at = "idle" /\ event = "call_start" /\ ~talked
               \/ call[c].at = "ringing" /\ event = "call_answered" /\ ~talked
               \/ call[c].at = "ringing" /\ event = "call_missed" /\ ~talked
               \/ call[c].at = "answered" /\ event = "call_end" /\ talked
               \/ /\ call[c].at \in {"ringing", "missed"} /\ call'[c].at = "ended"
                  /\ event = "call_end" /\ ~talked
      BY <1>7, ExchangeTells
    <2> DEFINE h == [call |-> c, event |-> event, talked |-> talked, code |-> code]
               n == Len(wire) + 1
    <2>3. h.call = c /\ h.event = event /\ h.talked = talked
      OBVIOUS
    <2>4. \A i \in Waiting' : IF i = n THEN wire'[i] = h ELSE i \in Waiting /\ wire'[i] = wire[i]
      BY <2>2, SendWire DEF Waiting
    <2> HIDE DEF h
    <2>5. \A d \in Calls : comments[d] = 1 => call'[d].at \in {"missed", "ended", "talked"}
      <3>1. comments[c] = 1 => call'[c].at = "ended"
        BY <2>2 DEF CommentsOK, CommentKnown
      <3>2. QED
        BY <2>1, <3>1 DEF CommentsOK, CommentKnown
    <2>6. ~(Notable(h) /\ comments[c] = 1)
      BY <2>2, <2>3 DEF Notable, CommentsOK, CommentKnown
    <2>7. \A i \in Waiting' : Notable(wire'[i]) /\ comments[wire'[i].call] = 1 =>
             i = 1 /\ CommentRecorded(row[wire'[i].call], wire'[i])
      BY <2>3, <2>4, <2>6 DEF CommentsOK, CommentKnown
    <2>8. QED
      BY <2>1, <2>5, <2>7 DEF CommentsOK, CommentedOnce, CommentKnown, Notable, CommentRecorded
  <1>8. CASE Employees
    BY <1>1, <1>8, EmployeesOK
  <1>9. CASE UNCHANGED vars
    BY <1>1, <1>9 DEF vars
  <1>10. QED
    BY <1>2, <1>3, <1>4, <1>5, <1>6, <1>7, <1>8, <1>9 DEF Next, Handler, Exchange

-----------------------------------------------------------------------------
(* Conversations.                                                          *)

\* A deleted order stays deleted.
LEMMA DeletedStays ==
    ASSUME TInv, [Next]_vars, NEW o \in Orders, place[o] = "deleted"
    PROVE  place'[o] = "deleted"
  <1>1. place \in [Orders -> {"none", "open", "repair", "invalid", "closed", "child", "deleted"}]
    BY DEF TInv, TypeOK
  <1>2. ASSUME place' = [place EXCEPT ![NextOrder] = "open"], \E p \in Orders : place[p] = "none"
        PROVE  place'[o] = "deleted"
    BY <1>1, <1>2, NextOrderIsFree
  <1>3. ASSUME NEW as, NewOrder(as) PROVE place'[o] = "deleted"
    BY <1>2, <1>3 DEF NewOrder
  <1>4. ASSUME NEW code, NEW fallback, NEW source, CreateFromWebhook(code, fallback, source)
        PROVE  place'[o] = "deleted"
    BY <1>3, <1>4 DEF CreateFromWebhook
  <1>5. CASE Act
    <2>1. CASE OutboundStart \/ InboundStart \/ Missed \/ Talked
      BY <1>4, <2>1 DEF OutboundStart, InboundStart, Missed, Talked, orderVars
    <2>2. CASE Answered
      BY <1>3, <2>2 DEF Answered
    <2>3. CASE CountNoAnswer
      BY <1>1, <2>3 DEF CountNoAnswer, orderVars
    <2>4. CASE EndUncounted
      BY <2>4 DEF EndUncounted, orderVars
    <2>5. QED
      BY <1>5, <2>1, <2>2, <2>3, <2>4 DEF Act
  <1>6. CASE Employees
    <2>1. CASE CreateByHand \/ OpenApplication
      BY <1>2, <2>1 DEF CreateByHand, OpenApplication
    <2>2. ASSUME NEW p \in Orders, Route(p) PROVE place'[o] = "deleted"
      <3>1. p # o
        BY <2>2 DEF Route, Routes
      <3>2. PICK to : place' = [place EXCEPT ![p] = to]
        BY <2>2 DEF Route
      <3>3. QED
        BY <1>1, <3>1, <3>2
    <2>3. ASSUME NEW p \in Orders, Revive(p) \/ AssignByHand(p) \/ Unassign(p)
          PROVE  place'[o] = "deleted"
      BY <1>1, <2>3 DEF Revive, AssignByHand, Unassign
    <2>4. QED
      BY <1>6, <2>1, <2>2, <2>3 DEF Employees
  <1>7. CASE Receive \/ Save \/ Answer200 \/ AnswerLost \/ Stop \/ Exchange \/ UNCHANGED vars
    BY <1>7 DEF Receive, Save, Answer200, AnswerLost, Stop, Exchange, Dial, PickUp, Miss, HangUp,
                Send, orderVars, vars
  <1>8. QED
    BY <1>5, <1>6, <1>7 DEF Next, Handler

\* Whoever ends a conversation leaves the handler with an order.
LEMMA TalkedHasOrder ==
    ASSUME TInv, OneOperatorPerRole, Act, Hook.talked, Hook.event = "call_end", job'.pc = "save"
    PROVE  job'.order # NoOrder
  <1>1. Talked
    BY DEF Act, OutboundStart, InboundStart, Answered, Missed, CountNoAnswer, EndUncounted, Acting
  <1>2. job \in Jobs
    BY DEF TInv
  <1>3. CASE job.order = NoOrder
    <2>1. OrdersOK /\ "answered" \in Telephonic /\ FALSE \in BOOLEAN
      BY OrdersFromTypes DEF Telephonic
    <2>2. CreateFromWebhook(Hook.code, FALSE, "answered")
      BY <1>1, <1>3 DEF Talked
    <2>3. PICK o \in Orders : Acted(o)
      BY <2>1, <2>2, CreateOK
    <2>4. job'.order = o
      BY <2>3, ActedTypes
    <2>5. QED
      BY <2>4, BoundsAssumption DEF Orders, NoOrder
  <1>4. CASE job.order # NoOrder
    <2>1. Acted(job.order)
      BY <1>1, <1>4 DEF Talked
    <2>2. QED
      BY <1>2, <1>4, <2>1, ActedTypes DEF Jobs
  <1>5. QED
    BY <1>3, <1>4

LEMMA ConversationStep ==
    TInv /\ TInv' /\ OneOperatorPerRole /\ WInv /\ CommentsOK /\ CommentsOK'
        /\ ConversationKept /\ [Next]_vars => ConversationKept'
  <1> SUFFICES ASSUME TInv, TInv', OneOperatorPerRole, WInv, CommentsOK, CommentsOK',
                      ConversationKept, [Next]_vars
               PROVE  ConversationKept'
    OBVIOUS
  <1>1. (\E o \in Orders : place[o] = "deleted") => \E o \in Orders : place'[o] = "deleted"
    BY DeletedStays
  <1>2. ASSUME UNCHANGED <<call, wire, row, comments>>,
               job'.pc = "save" /\ Hook.talked /\ Way # "internal" => job'.order # NoOrder
        PROVE  ConversationKept'
    BY <1>1, <1>2 DEF ConversationKept, Waiting, Hook, Way
  <1>3. CASE Receive
    BY <1>2, <1>3, ReceiveTypes
  <1>4. CASE Act
    <2>1. UNCHANGED <<call, wire, row, comments>>
      BY <1>4, ActOK, ActedTypes
    <2>2. wire # <<>>
      BY <1>4 DEF Act, OutboundStart, InboundStart, Answered, Missed, Talked, CountNoAnswer,
                  EndUncounted, Acting, TInv, TypeOK
    <2>3. Hook.talked => Hook.event = "call_end"
      BY <2>2, HookIsHook, WhatIsSaid DEF WInv
    <2>4. QED
      BY <1>2, <1>4, <2>1, <2>3, TalkedHasOrder
  <1>5. CASE Save
    <2> DEFINE c == Hook.call
    <2>1. /\ job.pc = "save" /\ wire # <<>> /\ UNCHANGED <<call, wire, place>>
          /\ \A d \in Calls \ {c} : row'[d] = row[d] /\ comments'[d] = comments[d]
          /\ job'.pc = "answer"
      BY <1>5, SaveTypes DEF Idle
    <2>2. PICK o :
            /\ job.order # NoOrder => o = job.order
            /\ o \in Orders \cup {NoOrder}
            /\ row'[c] = [event |-> Hook.event, talked |-> row[c].talked \/ Hook.talked,
                          order |-> IF o = NoOrder THEN row[c].order ELSE o]
            /\ comments'[c] = IF /\ o # NoOrder /\ Notable(Hook)
                                 /\ ~CommentRecorded(job.saw, Hook) /\ place[o] # "deleted"
                              THEN comments[c] + 1 ELSE comments[c]
      BY <1>5, SaveTypes
    <2>3. row'[c].talked = (row[c].talked \/ Hook.talked)
      BY <2>2
    <2>4. Hook = wire[1] /\ 1 \in Waiting /\ c \in Calls /\ Hook \in Hooks
      BY <2>1, HookIsHook DEF Hooks
    <2>5. Hook.talked => Hook.event = "call_end"
      BY <2>4, WhatIsSaid DEF WInv
    <2>6. job.saw = row[c] /\ comments[c] \in Nat /\ comments'[c] \in Nat /\ comments'[c] <= 1
      BY <2>1, <2>4 DEF WInv, HandlerKnows, TInv, CommentsOK, CommentedOnce
    <2>7. \A d \in Calls : row[d].talked => row'[d].talked
      BY <2>1, <2>3, <2>4
    <2>8. comments[c] = 1 => comments'[c] = 1
      BY <2>2, <2>6
    <2>9. ASSUME row'[c].talked, call[c].way # "internal"
          PROVE  comments'[c] = 1 \/ \E p \in Orders : place[p] = "deleted"
      <3>1. CASE row[c].talked
        BY <2>4, <2>8, <2>9, <3>1 DEF ConversationKept
      <3>2. CASE ~row[c].talked
        <4>1. Hook.talked /\ Hook.event = "call_end" /\ Notable(Hook)
          BY <2>3, <2>5, <2>9, <3>2 DEF Notable
        <4>2. job.order # NoOrder
          BY <2>1, <2>9, <4>1 DEF ConversationKept, Way
        <4>3. ~CommentRecorded(job.saw, Hook)
          BY <2>6, <3>2, <4>1 DEF CommentRecorded
        <4>4. CASE place[o] = "deleted"
          BY <2>2, <4>2, <4>4
        <4>5. CASE place[o] # "deleted"
          <5>1. comments'[c] = comments[c] + 1
            BY <2>2, <4>1, <4>2, <4>3, <4>5
          <5>2. QED
            BY <2>6, <5>1
        <4>6. QED
          BY <4>4, <4>5
      <3>3. QED
        BY <3>1, <3>2
    <2>10. \A d \in Calls : row'[d].talked /\ call[d].way # "internal" =>
             comments'[d] = 1 \/ \E p \in Orders : place[p] = "deleted"
      BY <2>1, <2>9 DEF ConversationKept
    <2>11. \A d \in Calls : call[d].at = "talked" /\ call[d].way # "internal" =>
             row'[d].talked \/ \E i \in Waiting : wire[i].call = d /\ wire[i].talked
      BY <2>7 DEF ConversationKept
    <2>12. QED
      BY <2>1, <2>10, <2>11 DEF ConversationKept, Waiting
  <1>6. CASE Answer200
    <2>1. /\ job.pc = "answer" /\ wire # <<>> /\ wire' = Tail(wire) /\ job'.pc = "idle"
          /\ UNCHANGED <<call, row, comments, place>>
      BY <1>6 DEF Answer200, TInv, TypeOK, Idle, orderVars
    <2>2. Hook = wire[1] /\ (Hook.talked => row[Hook.call].talked)
      BY <2>1, HookIsHook DEF WInv, HandlerKnows
    <2>3. ASSUME NEW i \in Waiting, i # 1 PROVE i - 1 \in Waiting' /\ wire'[i - 1] = wire[i]
      <3>1. Len(wire') = Len(wire) - 1 /\ Len(wire) \in Nat \ {0}
            /\ \A j \in Waiting' : wire'[j] = wire[j + 1]
        BY <2>1, TailWire
      <3>2. i \in 1 .. Len(wire) /\ i - 1 \in 1 .. Len(wire) - 1 /\ (i - 1) + 1 = i
        BY <2>3, <3>1 DEF Waiting
      <3>3. QED
        BY <3>1, <3>2 DEF Waiting
    <2>4. ASSUME NEW d \in Calls, call[d].at = "talked", call[d].way # "internal", ~row[d].talked
          PROVE  \E i \in Waiting' : wire'[i].call = d /\ wire'[i].talked
      <3>1. PICK i \in Waiting : wire[i].call = d /\ wire[i].talked
        BY <2>4 DEF ConversationKept
      <3>2. i # 1
        BY <2>2, <2>4, <3>1
      <3>3. QED
        BY <2>3, <3>1, <3>2
    <2>5. QED
      BY <2>1, <2>4 DEF ConversationKept
  <1>7. CASE AnswerLost \/ Stop
    BY <1>2, <1>7, IdleIsAJob DEF AnswerLost, Stop
  <1>8. ASSUME NEW c \in Calls, Dial(c) \/ PickUp(c) \/ Miss(c) \/ HangUp(c)
        PROVE  ConversationKept'
    <2>1. /\ UNCHANGED <<job, row, comments, place>>
          /\ \A d \in Calls : d # c => call'[d] = call[d]
          /\ ~row[c].talked
      BY <1>8, ExchangeTells, ExchangeKeepsTelling
    <2>2. PICK event \in Events, talked \in BOOLEAN, code \in Operators \cup {NoOne} :
            /\ Send(c, event, talked, code)
            /\ call'[c].at = "talked" => talked
            /\ call[c].at = "idle" \/ call'[c].way = call[c].way
      BY <1>8, ExchangeTells
    <2> DEFINE h == [call |-> c, event |-> event, talked |-> talked, code |-> code]
               n == Len(wire) + 1
    <2>3. h.call = c /\ h.talked = talked
      OBVIOUS
    <2>4. /\ n \in Waiting' /\ wire'[n] = h
          /\ \A i \in Waiting : i \in Waiting' /\ wire'[i] = wire[i]
          /\ wire # <<>> => Hook' = Hook
      BY <2>2, SendWire DEF Waiting
    <2> HIDE DEF h
    <2>5. ASSUME NEW d \in Calls, call'[d].at = "talked", call'[d].way # "internal"
          PROVE  row[d].talked \/ \E i \in Waiting' : wire'[i].call = d /\ wire'[i].talked
      <3>1. CASE d = c
        BY <2>2, <2>3, <2>4, <2>5, <3>1
      <3>2. CASE d # c
        BY <2>1, <2>4, <2>5, <3>2 DEF ConversationKept
      <3>3. QED
        BY <3>1, <3>2
    <2>6. \A d \in Calls : row[d].talked /\ call'[d].way # "internal" =>
            comments[d] = 1 \/ \E o \in Orders : place[o] = "deleted"
      BY <2>1 DEF ConversationKept
    <2>7. job.pc = "save" /\ Hook'.talked /\ Way' # "internal" => job.order # NoOrder
      <3> SUFFICES ASSUME job.pc = "save", Hook'.talked, Way' # "internal" PROVE job.order # NoOrder
        OBVIOUS
      <3>1. wire # <<>> /\ Hook' = Hook
        BY <2>4 DEF TInv, TypeOK
      <3>2. Hook.call \in Calls /\ call[Hook.call].at # "idle"
        BY <3>1, HookIsHook, WhatIsSaid DEF WInv, Hooks
      <3>3. Way' = Way
        BY <2>1, <2>2, <3>1, <3>2 DEF Way
      <3>4. QED
        BY <3>1, <3>3 DEF ConversationKept
    <2>8. QED
      BY <2>1, <2>5, <2>6, <2>7 DEF ConversationKept
  <1>9. CASE Employees
    BY <1>2, <1>9, EmployeesOK DEF ConversationKept
  <1>10. CASE UNCHANGED vars
    BY <1>2, <1>10 DEF vars, ConversationKept
  <1>11. QED
    BY <1>3, <1>4, <1>5, <1>6, <1>7, <1>8, <1>9, <1>10 DEF Next, Handler, Exchange

-----------------------------------------------------------------------------
(* Unanswered calls.                                                       *)

LEMMA CallsAreFinite ==
    /\ IsFiniteSet(Calls)
    /\ \A S \in SUBSET Calls : IsFiniteSet(S) /\ Cardinality(S) \in Nat
    /\ \A T \in SUBSET Calls : \A S \in SUBSET T : Cardinality(S) <= Cardinality(T)
  <1>1. IsFiniteSet(Calls)
    BY FS_Interval, BoundsAssumption DEF Calls
  <1>2. \A S \in SUBSET Calls : IsFiniteSet(S) /\ Cardinality(S) \in Nat
    BY <1>1, FS_Subset, FS_CardinalityType
  <1>3. QED
    BY <1>1, <1>2, FS_Subset

\* Before the oldest webhook is stored, an act of the handler raises a count
\* only for a call whose end is not stored.
LEMMA ActCounts ==
    ASSUME TInv, Act, NEW o \in Orders
    PROVE  /\ noAnswer'[o] <= noAnswer[o] + Counted'
           /\ Counted = 0 /\ Counted' \in {0, 1}
  <1>1. /\ noAnswer \in [Orders -> Nat] /\ noAnswer[o] \in Nat /\ job.order \in Orders \cup {NoOrder}
    BY DEF TInv, TypeOK
  <1>2. job.pc = "act"
    BY DEF Act, OutboundStart, InboundStart, Answered, Missed, Talked, CountNoAnswer,
           EndUncounted, Acting
  <1>3. Counted = 0 /\ Counted' \in {0, 1}
    BY <1>2 DEF Counted
  <1>4. ASSUME noAnswer'[o] = noAnswer[o] \/ noAnswer'[o] = 0 PROVE noAnswer'[o] <= noAnswer[o] + Counted'
    BY <1>1, <1>3, <1>4
  <1>5. CASE OutboundStart \/ InboundStart \/ Missed \/ EndUncounted
    BY <1>3, <1>4, <1>5 DEF OutboundStart, InboundStart, Missed, EndUncounted, CreateFromWebhook,
                      NewOrder, orderVars
  <1>6. CASE Answered
    BY <1>1, <1>3, <1>4, <1>6 DEF Answered, NewOrder
  <1>7. CASE Talked
    BY <1>1, <1>3, <1>4, <1>7 DEF Talked, CreateFromWebhook, NewOrder
  <1>8. CASE CountNoAnswer
    <2>1. CASE UNCHANGED orderVars
      BY <1>3, <1>4, <2>1 DEF orderVars
    <2>2. CASE noAnswer' = [noAnswer EXCEPT ![job.order] = noAnswer[job.order] + 1] /\ Acted(job.order)
      <3>1. UNCHANGED <<call, wire>> /\ job'.pc = "save" /\ job'.saw = job.saw
        BY <1>1, <2>2, ActedTypes
      <3>2. /\ Way = "outbound" /\ Hook.event = "call_end" /\ ~Hook.talked
            /\ ~NoAnswerRecorded(job.saw)
        BY <1>8 DEF CountNoAnswer, Counts, Acting
      <3>3. Counted' = 1
        BY <3>1, <3>2 DEF Counted, Way, Hook, NoAnswerRecorded
      <3>4. QED
        BY <1>1, <1>3, <2>2, <3>3
    <2>3. QED
      BY <1>8, <2>1, <2>2 DEF CountNoAnswer
  <1>9. QED
    BY <1>3, <1>5, <1>6, <1>7, <1>8 DEF Act

\* Storing the end of an unanswered call that was counted adds it to the stored
\* ones, and none is forgotten.
LEMMA SaveCounts ==
    ASSUME TInv, WInv, Save
    PROVE  Cardinality(Stored) + Counted <= Cardinality(Stored') /\ Counted' = 0
  <1> DEFINE c == Hook.call
  <1>1. /\ job.pc = "save" /\ wire # <<>> /\ UNCHANGED <<call, wire>> /\ job'.pc = "answer"
        /\ \A d \in Calls \ {c} : row'[d] = row[d]
    BY SaveTypes DEF Idle
  <1>2. PICK o :
          row'[c] = [event |-> Hook.event, talked |-> row[c].talked \/ Hook.talked,
                     order |-> IF o = NoOrder THEN row[c].order ELSE o]
    BY SaveTypes
  <1>3. row'[c].event = Hook.event
    BY <1>2
  <1>4. Hook = wire[1] /\ 1 \in Waiting /\ c \in Calls /\ Says(Hook)
    BY <1>1, HookIsHook DEF Hooks, WInv, Announced
  <1>5. row[c].event = "call_end" => Hook.event = "call_end"
    BY <1>4 DEF WInv, RowsTell
  <1>6. Stored \in SUBSET Calls /\ Stored' \in SUBSET Calls /\ Stored \subseteq Stored'
    BY <1>1, <1>3, <1>4, <1>5 DEF Stored, Unanswered
  <1>7. Counted' = 0
    BY <1>1 DEF Counted
  <1>8. CASE Counted = 0
    BY <1>6, <1>7, <1>8, CallsAreFinite
  <1>9. CASE Counted # 0
    <2>1. /\ Counted = 1 /\ Way = "outbound" /\ Hook.event = "call_end" /\ ~Hook.talked
          /\ ~NoAnswerRecorded(row[c])
      BY <1>1, <1>9 DEF Counted, WInv, HandlerKnows
    <2>2. c \in Unanswered
      BY <1>4, <2>1 DEF Unanswered, Way, Says
    <2>3. row[c].event # "call_end"
      BY <1>4, <2>1, <2>2 DEF NoAnswerRecorded, WInv, RowsTell, Unanswered
    <2>4. c \notin Stored /\ c \in Stored'
      BY <1>1, <1>3, <1>4, <2>1, <2>2, <2>3 DEF Stored, Unanswered
    <2>5. IsFiniteSet(Stored) /\ Cardinality(Stored) \in Nat
          /\ Stored \cup {c} \subseteq Stored'
      BY <1>6, <2>4, CallsAreFinite
    <2>6. Cardinality(Stored \cup {c}) = Cardinality(Stored) + 1
      BY <2>4, <2>5, FS_AddElement
    <2>7. Cardinality(Stored \cup {c}) <= Cardinality(Stored')
      BY <1>6, <2>5, CallsAreFinite
    <2>8. QED
      BY <1>7, <2>1, <2>6, <2>7
  <1>10. QED
    BY <1>8, <1>9

LEMMA CountsStep ==
    TInv /\ TInv' /\ OneOperatorPerRole /\ WInv /\ CountsKept /\ [Next]_vars => CountsKept'
  <1> SUFFICES ASSUME TInv, TInv', OneOperatorPerRole, WInv, CountsKept, [Next]_vars
               PROVE  CountsKept'
    OBVIOUS
  <1>1. /\ Cardinality(Stored) \in Nat /\ stops \in Nat /\ Counted \in {0, 1}
        /\ \A o \in Orders : noAnswer[o] \in Nat /\ noAnswer[o] <= Cardinality(Stored) + stops + Counted
    BY CallsAreFinite DEF Stored, Counted, TInv, TypeOK, CountsKept
  <1>2. ASSUME UNCHANGED <<call, row, noAnswer, stops>>, Counted' = Counted PROVE CountsKept'
    BY <1>2 DEF CountsKept, Stored, Unanswered
  <1>3. CASE Receive
    <2>1. Counted = 0 /\ Counted' = 0 /\ UNCHANGED <<call, row, noAnswer, stops>>
      BY <1>3, ReceiveTypes DEF Counted, Way, Hook
    <2>2. QED
      BY <1>2, <2>1
  <1>4. CASE Act
    <2>1. UNCHANGED <<call, row, stops>>
      BY <1>4, ActOK, ActedTypes
    <2>2. Stored' = Stored
      BY <2>1 DEF Stored, Unanswered
    <2>3. \A o \in Orders : noAnswer'[o] <= noAnswer[o] + Counted' /\ Counted = 0 /\ Counted' \in {0, 1}
      BY <1>4, ActCounts
    <2>4. noAnswer' \in [Orders -> Nat]
      BY DEF TInv, TypeOK
    <2>5. QED
      BY <1>1, <2>1, <2>2, <2>3, <2>4 DEF CountsKept
  <1>5. CASE Save
    <2>1. Cardinality(Stored) + Counted <= Cardinality(Stored') /\ Counted' = 0
      BY <1>5, SaveCounts
    <2>2. UNCHANGED <<noAnswer, stops>> /\ Cardinality(Stored') \in Nat
      BY <1>5, SaveTypes, CallsAreFinite DEF Stored
    <2>3. QED
      BY <1>1, <2>1, <2>2 DEF CountsKept
  <1>6. CASE Answer200 \/ AnswerLost
    <2>1. job.pc = "answer" /\ job'.pc = "idle" /\ UNCHANGED <<call, row, noAnswer, stops>>
      BY <1>6, IdleIsAJob DEF Answer200, AnswerLost, orderVars
    <2>2. Counted = 0 /\ Counted' = 0
      BY <2>1 DEF Counted
    <2>3. QED
      BY <1>2, <2>1, <2>2
  <1>7. CASE Stop
    <2>1. job'.pc = "idle" /\ UNCHANGED <<call, row, noAnswer>> /\ stops' = stops + 1
      BY <1>7, IdleIsAJob DEF Stop, orderVars
    <2>2. Counted' = 0 /\ Stored' = Stored
      BY <2>1 DEF Counted, Stored, Unanswered
    <2>3. QED
      BY <1>1, <2>1, <2>2 DEF CountsKept
  <1>8. ASSUME NEW c \in Calls, Dial(c) \/ PickUp(c) \/ Miss(c) \/ HangUp(c) PROVE CountsKept'
    <2>1. /\ UNCHANGED <<job, row, noAnswer, stops>>
          /\ \A d \in Calls : d # c => call'[d] = call[d]
          /\ row[c].event # "call_end"
      BY <1>8, ExchangeTells, ExchangeKeepsTelling
    <2>2. Stored' = Stored
      BY <2>1 DEF Stored, Unanswered
    <2>3. Counted' = Counted
      <3>1. PICK event \in Events, talked \in BOOLEAN, code \in Operators \cup {NoOne} :
              /\ Send(c, event, talked, code)
              /\ call[c].at = "idle" \/ call'[c].way = call[c].way
        BY <1>8, ExchangeTells
      <3>2. CASE job.pc # "save"
        BY <2>1, <3>2 DEF Counted
      <3>3. CASE job.pc = "save"
        <4>1. wire # <<>> /\ Hook' = Hook
          BY <3>1, <3>3, SendWire DEF TInv, TypeOK
        <4>2. Hook.call \in Calls /\ call[Hook.call].at # "idle"
          BY <4>1, HookIsHook, WhatIsSaid DEF WInv, Hooks
        <4>3. Way' = Way
          BY <2>1, <3>1, <4>1, <4>2 DEF Way
        <4>4. QED
          BY <2>1, <4>1, <4>3 DEF Counted, NoAnswerRecorded
      <3>4. QED
        BY <3>2, <3>3
    <2>4. QED
      BY <2>1, <2>2, <2>3 DEF CountsKept
  <1>9. CASE Employees
    <2>1. UNCHANGED <<call, wire, job, row, noAnswer, stops>>
      BY <1>9, EmployeesOK
    <2>2. QED
      BY <1>2, <2>1 DEF Counted, Way, Hook, NoAnswerRecorded
  <1>10. CASE UNCHANGED vars
    BY <1>2, <1>10 DEF vars, Counted, Way, Hook, NoAnswerRecorded
  <1>11. QED
    BY <1>3, <1>4, <1>5, <1>6, <1>7, <1>8, <1>9, <1>10 DEF Next, Handler, Exchange

-----------------------------------------------------------------------------
(* Theorems.                                                               *)

LEMMA InvInit == Init => IInv
  <1> SUFFICES ASSUME Init PROVE IInv
    OBVIOUS
  <1>1. TInv /\ OneOperatorPerRole
    BY TypesInit
  <1>2. /\ wire = <<>> /\ job.pc = "idle"
        /\ \A c \in Calls : /\ call[c].at = "idle" /\ call[c].way = "none"
                            /\ ~row[c].talked /\ row[c].event = "none" /\ comments[c] = 0
        /\ \A o \in Orders : noAnswer[o] = 0
        /\ stops = 0
    BY DEF Init, Idle
  <1>3. Waiting = {}
    BY <1>2, EmptySeq DEF Waiting
  <1>4. WInv
    BY <1>2, <1>3 DEF WInv, Announced, Ordered, RowsTell, HandlerKnows
  <1>5. CommentedOnce /\ CommentKnown /\ ConversationKept
    BY <1>2, <1>3 DEF CommentedOnce, CommentKnown, ConversationKept
  <1>6. Stored \in SUBSET Calls /\ Cardinality(Stored) \in Nat /\ Counted = 0
    BY <1>2, CallsAreFinite DEF Stored, Counted
  <1>7. CountsKept
    BY <1>2, <1>6 DEF CountsKept
  <1>8. QED
    BY <1>1, <1>4, <1>5, <1>7 DEF IInv

LEMMA InvStep == IInv /\ [Next]_vars => IInv'
  <1> SUFFICES ASSUME IInv, [Next]_vars PROVE IInv'
    OBVIOUS
  <1>1. TInv' /\ OneOperatorPerRole'
    BY TypesStep DEF IInv
  <1>2. WInv'
    BY <1>1, WireStep DEF IInv
  <1>3. CommentsOK /\ CommentsOK'
    BY <1>1, CommentsStep DEF IInv, CommentsOK
  <1>4. ConversationKept'
    BY <1>1, <1>3, ConversationStep DEF IInv
  <1>5. CountsKept'
    BY <1>1, CountsStep DEF IInv
  <1>6. QED
    BY <1>1, <1>2, <1>3, <1>4, <1>5 DEF IInv, CommentsOK

THEOREM Invariant == Spec => []IInv
  <1>1. QED
    BY InvInit, InvStep, PTL DEF Spec

\* Every variable keeps to its values, and the handler works only while a
\* webhook waits.
THEOREM TypeCorrect == Spec => []TypeOK
  <1>1. IInv => TypeOK
    BY DEF IInv, TInv
  <1>2. QED
    BY <1>1, Invariant, PTL

\* However webhooks, employees, crashes and repetitions interleave, telephony
\* never has two operators of one role on an order.
THEOREM OneOperatorPerRoleHolds == Spec => []OneOperatorPerRole
  <1>1. IInv => OneOperatorPerRole
    BY DEF IInv
  <1>2. QED
    BY <1>1, Invariant, PTL

\* However often the exchange repeats the webhooks of a call, and wherever the
\* server stops while it handles them, the call is commented at most once.
THEOREM CommentedOnceHolds == Spec => []CommentedOnce
  <1>1. IInv => CommentedOnce
    BY DEF IInv
  <1>2. QED
    BY <1>1, Invariant, PTL

\* The count of unanswered calls exceeds the calls nobody answered by at most
\* the times the server stopped between the count and the row of the call.
THEOREM NoAnswerCountedOnceHolds == Spec => []NoAnswerCountedOnce
  <1>1. IInv => NoAnswerCountedOnce
    <2> SUFFICES ASSUME IInv, NEW o \in Orders
                 PROVE  noAnswer[o] <= Cardinality(Unanswered) + stops
      BY DEF NoAnswerCountedOnce
    <2>1. /\ noAnswer[o] \in Nat /\ stops \in Nat
          /\ noAnswer[o] <= Cardinality(Stored) + stops + Counted
      BY DEF IInv, TInv, TypeOK, CountsKept
    <2>2. /\ Stored \in SUBSET Unanswered /\ Unanswered \in SUBSET Calls /\ Stored \in SUBSET Calls
      BY DEF Stored, Unanswered
    <2>3. Cardinality(Stored) <= Cardinality(Unanswered)
          /\ Cardinality(Stored) \in Nat /\ Cardinality(Unanswered) \in Nat
      BY <2>2, CallsAreFinite
    <2>4. CASE Counted = 0
      BY <2>1, <2>3, <2>4
    <2>5. CASE Counted # 0
      <3> DEFINE c == Hook.call
      <3>1. /\ Counted = 1 /\ job.pc = "save" /\ Way = "outbound" /\ Hook.event = "call_end"
            /\ ~Hook.talked /\ ~NoAnswerRecorded(job.saw)
        BY <2>5 DEF Counted
      <3>2. wire # <<>>
        BY <3>1 DEF IInv, TInv, TypeOK
      <3>3. c \in Calls /\ Says(Hook) /\ job.saw = row[c]
        BY <3>1, <3>2, HookIsHook DEF Hooks, IInv, TInv, WInv, Announced, HandlerKnows
      <3>4. c \in Unanswered
        BY <3>1, <3>3 DEF Unanswered, Way, Says
      <3>5. c \notin Stored
        BY <3>1, <3>3, <3>4 DEF Stored, NoAnswerRecorded, IInv, WInv, RowsTell, Unanswered
      <3>6. IsFiniteSet(Stored) /\ Stored \cup {c} \in SUBSET Unanswered
        BY <2>2, <3>4, CallsAreFinite
      <3>7. Cardinality(Stored \cup {c}) = Cardinality(Stored) + 1
        BY <3>5, <3>6, FS_AddElement
      <3>8. Cardinality(Stored \cup {c}) <= Cardinality(Unanswered)
        BY <2>2, <3>6, CallsAreFinite
      <3>9. QED
        BY <2>1, <2>3, <3>1, <3>7, <3>8
    <2>6. QED
      BY <2>4, <2>5
  <1>2. QED
    BY <1>1, Invariant, PTL

\* When the exchange has all its answers, every conversation with the customer
\* has its comment, unless an order of the customer was deleted.
THEOREM ConversationNotedHolds == Spec => []ConversationNoted
  <1>1. IInv => ConversationNoted
    <2> SUFFICES ASSUME IInv, wire = <<>>, NEW c \in Calls,
                        call[c].at = "talked", call[c].way # "internal"
                 PROVE  comments[c] = 1 \/ \E o \in Orders : place[o] = "deleted"
      BY DEF ConversationNoted
    <2>1. Waiting = {}
      BY EmptySeq DEF Waiting
    <2>2. QED
      BY <2>1 DEF IInv, ConversationKept
  <1>2. QED
    BY <1>1, Invariant, PTL

\* An act of a webhook that adds an order saw none that it had to use.
LEMMA CreatesOnlyUnknown ==
    ASSUME TInv, Act, NEW o \in Orders, place[o] = "none", place'[o] # "none",
           NEW p \in Orders
    PROVE  ~ (place[p] \in Visible /\ key[p] = "phone")
  <1>1. ASSUME NoOrder \in Found({"phone"}) PROVE ~ (place[p] \in Visible /\ key[p] = "phone")
    <2>1. NoOrder \notin Orders
      BY BoundsAssumption DEF Orders, NoOrder
    <2>2. QED
      BY <1>1, <2>1 DEF Found
  <1>2. ASSUME NEW code, NEW fallback, NEW source, CreateFromWebhook(code, fallback, source)
        PROVE  NoOrder \in Found({"phone"})
    BY <1>2 DEF CreateFromWebhook
  <1>3. CASE OutboundStart \/ InboundStart \/ Missed \/ Talked
    BY <1>1, <1>2, <1>3 DEF OutboundStart, InboundStart, Missed, Talked, orderVars
  <1>4. CASE Answered
    BY <1>1, <1>4 DEF Answered
  <1>5. CASE CountNoAnswer
    <2>1. place' = place \/ place[job.order] \in {"open", "child"}
      BY <1>5 DEF CountNoAnswer, orderVars
    <2>2. place' = place
          \/ \E to : place' = [place EXCEPT ![job.order] = to]
      BY <1>5 DEF CountNoAnswer, orderVars
    <2>3. QED
      BY <2>1, <2>2 DEF TInv, TypeOK
  <1>6. CASE EndUncounted
    BY <1>6 DEF EndUncounted, orderVars
  <1>7. QED
    BY <1>3, <1>4, <1>5, <1>6 DEF Act

\* A webhook creates no order for a customer who has an open one under his
\* number, although the handler looks for it in two separate queries.
THEOREM NoSecondOrderHolds == Spec => NoSecondOrder
  <1>1. IInv /\ [Next]_vars =>
          [Act /\ (\E o \in Orders : place[o] = "none" /\ place'[o] # "none")
             => ~\E o \in Orders : place[o] \in Visible /\ key[o] = "phone"]_vars
    BY CreatesOnlyUnknown DEF IInv
  <1>2. QED
    BY <1>1, Invariant, PTL DEF Spec, NoSecondOrder

\* Assigning the operator who answered either succeeds or finds a colleague who
\* was not put there automatically.
LEMMA AnswererIsIn ==
    ASSUME NEW as \in [Operators -> Sources], NEW a \in Operators
    PROVE  LET new == AssignIfEligible(as, a, "answered", TRUE)
           IN  \/ new[a] # "no"
               \/ \E b \in Operators \ {a} : SameRole(a, b) /\ new[b] \notin {"no", "auto"}
  <1> DEFINE kept == RemoveAuto(as, a)
             new == AssignIfEligible(as, a, "answered", TRUE)
  <1>1. a # NoOne
    BY OperatorsAssumption
  <1>2. new = IF HasSameRole(kept, a) THEN kept ELSE AssignIfNeeded(kept, a, "answered")
    BY <1>1 DEF AssignIfEligible
  <1>3. kept \in [Operators -> Sources]
        /\ \A b \in Operators \ {a} : SameRole(a, b) => kept[b] # "auto"
    BY DEF RemoveAuto, Sources
  <1> HIDE DEF kept, new
  <1>4. CASE HasSameRole(kept, a)
    BY <1>2, <1>3, <1>4 DEF HasSameRole, new
  <1>5. CASE ~HasSameRole(kept, a)
    <2>1. new[a] # "no"
      BY <1>2, <1>3, <1>5 DEF AssignIfNeeded
    <2>2. QED
      BY <2>1 DEF new
  <1>6. QED
    BY <1>4, <1>5

\* The operator who answers is not kept out of the order by an automatic
\* assignment.
THEOREM AnswererNotKeptOutHolds == Spec => AnswererNotKeptOut
  <1> DEFINE In(a) == \E o \in Orders :
                 /\ place'[o] \in Visible \cup {"invalid"} /\ key'[o] = "phone"
                 /\ \/ assigned'[o][a] # "no"
                    \/ \E b \in Operators \ {a} :
                         SameRole(a, b) /\ assigned'[o][b] \notin {"no", "auto"}
  <1>1. ASSUME TInv, Answered, Resolve(Hook.code) # NoOne PROVE In(Resolve(Hook.code))
    <2> DEFINE a == Resolve(Hook.code)
    <2>1. a \in Operators
      BY <1>1, ResolveTypes
    <2>2. /\ place \in [Orders -> {"none", "open", "repair", "invalid", "closed", "child", "deleted"}]
          /\ key \in [Orders -> {"phone", "user"}]
          /\ assigned \in [Orders -> [Operators -> Sources]]
      BY <1>1 DEF TInv, TypeOK
    <2>3. PICK found \in Found({"phone"}) :
            IF found = NoOrder
            THEN NewOrder(AssignIfEligible(Nobody, a, "answered", TRUE))
            ELSE /\ noAnswer' = [noAnswer EXCEPT ![found] = 0]
                 /\ assigned' = [assigned EXCEPT ![found] =
                                   AssignIfEligible(assigned[found], a, "answered", TRUE)]
                 /\ UNCHANGED <<place, key>>
      BY <1>1 DEF Answered
    <2> HIDE DEF a
    <2>4. CASE found = NoOrder
      <3> DEFINE new == AssignIfEligible(Nobody, a, "answered", TRUE)
      <3>1. NextOrder \in Orders
        BY <2>3, <2>4, NextOrderIsFree DEF NewOrder
      <3>2. place'[NextOrder] = "open" /\ key'[NextOrder] = "phone" /\ assigned'[NextOrder] = new
        BY <2>2, <2>3, <2>4, <3>1 DEF NewOrder
      <3>3. Nobody \in [Operators -> Sources]
        BY DEF Nobody, Sources
      <3>4. QED
        BY <2>1, <3>1, <3>2, <3>3, AnswererIsIn DEF Visible, a
    <2>5. CASE found # NoOrder
      <3>1. found \in Orders /\ place[found] \in Visible \cup {"invalid"} /\ key[found] = "phone"
        BY <2>5 DEF Found
      <3>2. assigned'[found] = AssignIfEligible(assigned[found], a, "answered", TRUE)
            /\ UNCHANGED <<place, key>>
        BY <2>2, <2>3, <2>5, <3>1
      <3>3. assigned[found] \in [Operators -> Sources]
        BY <2>2, <3>1
      <3>4. \/ assigned'[found][a] # "no"
            \/ \E b \in Operators \ {a} :
                 SameRole(a, b) /\ assigned'[found][b] \notin {"no", "auto"}
        BY <2>1, <3>2, <3>3, AnswererIsIn
      <3>5. QED
        BY <3>1, <3>2, <3>4 DEF a
    <2>6. QED
      BY <2>4, <2>5
  <1>2. IInv /\ [Next]_vars => [Answered /\ Resolve(Hook.code) # NoOne => In(Resolve(Hook.code))]_vars
    BY <1>1 DEF IInv
  <1>3. QED
    BY <1>2, Invariant, PTL DEF Spec, AnswererNotKeptOut
=============================================================================
