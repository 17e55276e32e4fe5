----------------------------- MODULE Telephony -----------------------------
(***************************************************************************)
(* Webhooks of the OnlinePBX exchange about the calls of one customer: how *)
(* OnlinePbxService.handleWebhook finds, creates and updates the repair    *)
(* order the call is about, whom it assigns to it, and the phone_calls row *)
(* by which it recognises what it has already done.                        *)
(*                                                                         *)
(* A webhook is handled in the three parts the code has: what is read      *)
(* first, the call of RepairOrdersService (a transaction of its own), and  *)
(* the transaction that stores the call.  Employees act between any two of *)
(* them, the server may stop between them, and the exchange repeats a      *)
(* webhook until it has the answer 200.  Webhooks are handled one at a     *)
(* time, in the order of the events.                                       *)
(***************************************************************************)
EXTENDS Integers, Sequences, FiniteSets

CONSTANTS
    MaxCalls,     \* bound on the calls of the customer
    MaxWire,      \* bound on the webhooks waiting for an answer
    Operators,    \* admins with an onlinepbx_code
    Active,       \* those that are active and belong to the Mother branch
    Roles,        \* the active roles (by id, type or name) of each
    NoOne,        \* no operator, no code
    MaxOrders,    \* bound on the orders of the customer
    NoAnswerLimit,
    MaxEdits,     \* bound on what employees do
    MaxMishaps    \* bound on crashes of the server and lost answers

Calls == 1 .. MaxCalls  \* numbered as they begin
Orders == 1 .. MaxOrders
NoOrder == 0

ASSUME OperatorsAssumption ==
    /\ NoOne \notin Operators
    /\ Active \subseteq Operators
    /\ DOMAIN Roles = Operators
ASSUME BoundsAssumption ==
    /\ MaxOrders \in Nat /\ NoAnswerLimit \in Nat
    /\ MaxCalls \in Nat /\ MaxWire \in Nat
    /\ MaxEdits \in Nat /\ MaxMishaps \in Nat

VARIABLES
    call,      \* the exchange's view: direction, progress, operator's code
    wire,      \* webhooks not yet answered, oldest first
    job,       \* what the handler of the oldest one is doing
    row,       \* phone_calls: last event, whether talked, repair_order_id
    comments,  \* comments about each call
    place,     \* orders: none, open, repair, invalid, closed, child, deleted
    key,       \* how the customer is found: phone (ro.phone_number) or user
    noAnswer,  \* customer_no_answer_count
    assigned,  \* assignment_source of each operator, or no
    edits, stops, repeats

vars == <<call, wire, job, row, comments, place, key, noAnswer, assigned,
          edits, stops, repeats>>

orderVars == <<place, key, noAnswer, assigned>>

Sources == {"no", "auto", "answered", "manual", "role"}

Idle == [pc |-> "idle", saw |-> [event |-> "none", talked |-> FALSE, order |-> NoOrder],
         order |-> NoOrder]

Hook == Head(wire)

Way == call[Hook.call].way

Init ==
    /\ call = [c \in Calls |-> [way |-> "none", at |-> "idle", code |-> NoOne]]
    /\ wire = <<>>
    /\ job = Idle
    /\ row = [c \in Calls |-> Idle.saw]
    /\ comments = [c \in Calls |-> 0]
    /\ place = [o \in Orders |-> "none"]
    /\ key = [o \in Orders |-> "phone"]
    /\ noAnswer = [o \in Orders |-> 0]
    /\ assigned = [o \in Orders |-> [a \in Operators |-> "no"]]
    /\ edits = 0 /\ stops = 0 /\ repeats = 0

(***************************************************************************)
(* The exchange.                                                           *)
(***************************************************************************)
Send(c, event, talked, code) ==
    /\ Len(wire) < MaxWire
    /\ wire' = Append(wire, [call |-> c, event |-> event, talked |-> talked, code |-> code])
    /\ UNCHANGED <<job, row, comments, orderVars, edits, stops, repeats>>

\* internal: the other side is an admin or the gateway itself.
Dial(c) ==
    /\ call[c].at = "idle"
    /\ \A d \in Calls : d < c => call[d].at # "idle"
    /\ \E way \in {"inbound", "outbound", "internal"}, code \in Operators \cup {NoOne} :
        /\ way = "outbound" => code # NoOne
        /\ way = "internal" => code = NoOne
        /\ call' = [call EXCEPT ![c] = [way |-> way, at |-> "ringing", code |-> code]]
        /\ Send(c, "call_start", FALSE, code)

PickUp(c) ==
    /\ call[c].at = "ringing"
    /\ \E code \in IF call[c].way = "inbound" /\ call[c].code = NoOne
                   THEN Operators ELSE {call[c].code} :
        /\ call' = [call EXCEPT ![c].at = "answered", ![c].code = code]
        /\ Send(c, "call_answered", FALSE, code)

Miss(c) ==
    /\ call[c].at = "ringing"
    /\ call[c].way = "inbound"
    /\ call' = [call EXCEPT ![c].at = "missed"]
    /\ Send(c, "call_missed", FALSE, call[c].code)

HangUp(c) ==
    /\ \/ call[c].at \in {"answered", "missed"}
       \/ call[c].at = "ringing" /\ call[c].way # "inbound"
    /\ call' = [call EXCEPT ![c] = IF @.at = "answered" THEN [@ EXCEPT !.at = "talked"]
                                   ELSE [@ EXCEPT !.at = "ended", !.code = NoOne]]
    /\ Send(c, "call_end", call[c].at = "answered", call[c].code)

(***************************************************************************)
(* Orders of the customer.                                                 *)
(***************************************************************************)
NextOrder == CHOOSE o \in Orders : place[o] = "none" /\ \A p \in Orders : p < o => place[p] # "none"

\* Where an order of Mother is that buildTelephonyWorkflowOpenOrderQuery
\* always returns: tracked for unanswered calls (Open, Missed) or in repair.
Visible == {"open", "repair"}

\* What the query may return for the given keys.  There is no ORDER BY, and
\* whether an Invalid order counts depends on the dates of its history.
Found(keys) ==
    LET sure  == {o \in Orders : place[o] \in Visible /\ key[o] \in keys}
        maybe == {o \in Orders : place[o] = "invalid" /\ key[o] \in keys}
    IN  maybe \cup (IF sure = {} THEN {NoOrder} ELSE sure)

(***************************************************************************)
(* Assignment.  as is the assignment_source of every operator on an order. *)
(***************************************************************************)
SameRole(a, b) == Roles[a] \cap Roles[b] # {}

\* resolveWebhookAdminId
Resolve(code) == IF code \in Active THEN code ELSE NoOne

\* resolveLeastBusyWebhookAdminId: who that is depends on the working days and
\* on the orders of other customers.
LeastBusy == Active \cup {NoOne}

\* assignAdminToOrderIfNeeded
AssignIfNeeded(as, a, source) ==
    [as EXCEPT ![a] = IF @ = "no" \/ (@ = "auto" /\ source # "auto") THEN source ELSE @]

\* Mutant of HasSameRole: an automatic assignment does not count.
HasSameRoleChosen(as, a) ==
    \E b \in Operators \ {a} : as[b] \notin {"no", "auto"} /\ SameRole(a, b)

\* hasAssignedAdminWithSameRole
HasSameRole(as, a) == \E b \in Operators \ {a} : as[b] # "no" /\ SameRole(a, b)

\* Mutant of RemoveAuto: it removes the wrong ones.
RemoveOwn(as, a) == [as EXCEPT ![a] = IF @ = "auto" THEN "no" ELSE @]

\* removeAutoAssignedAdminsWithSameRole
RemoveAuto(as, a) ==
    [b \in Operators |->
        IF b # a /\ as[b] = "auto" /\ SameRole(a, b) THEN "no" ELSE as[b]]

\* assignTelephonyAdminToOrderIfEligible; without an admin it is not called.
AssignIfEligible(as, a, source, replace) ==
    IF a = NoOne THEN as
    ELSE LET kept == IF replace THEN RemoveAuto(as, a) ELSE as
         IN  IF HasSameRole(kept, a) THEN kept ELSE AssignIfNeeded(kept, a, source)

\* assignFallbackAdminIfOrderHasNone
AssignFallback(as, a) ==
    IF \E b \in Operators : as[b] # "no" THEN as ELSE AssignIfEligible(as, a, "auto", FALSE)

Nobody == [a \in Operators |-> "no"]

(***************************************************************************)
(* The handler of the oldest webhook.                                      *)
(***************************************************************************)
\* Mutant of Receive: the webhook is acknowledged before it is handled.
ReceiveAcknowledging ==
    /\ job.pc = "idle"
    /\ wire # <<>>
    /\ \E o \in Found({"phone", "user"}) :
        job' = [pc |-> "act", saw |-> row[Hook.call], order |-> o]
    /\ wire' = Tail(wire)
    /\ UNCHANGED <<call, row, comments, orderVars, edits, stops, repeats>>

\* The call's row and the customer's open order, by number or user.
Receive ==
    /\ job.pc = "idle"
    /\ wire # <<>>
    /\ \E o \in IF Way = "internal" THEN {NoOrder} ELSE Found({"phone", "user"}) :
        job' = [pc |-> IF Way = "internal" THEN "save" ELSE "act",
                saw |-> row[Hook.call], order |-> o]
    /\ UNCHANGED <<call, wire, row, comments, orderVars, edits, stops, repeats>>

Acted(o) ==
    /\ job' = [job EXCEPT !.pc = "save", !.order = o]
    /\ UNCHANGED <<call, wire, row, comments, edits, stops, repeats>>

Acting(event) == job.pc = "act" /\ Hook.event = event

NewOrder(as) ==
    /\ \E o \in Orders : place[o] = "none"
    /\ place' = [place EXCEPT ![NextOrder] = "open"]
    /\ key' = [key EXCEPT ![NextOrder] = "phone"]
    /\ assigned' = [assigned EXCEPT ![NextOrder] = as]
    /\ UNCHANGED noAnswer

\* Mutant of CreateFromWebhook: it relies on the order handleWebhook has read.
CreateUnchecked(code, fallback, source) ==
    \E a \in IF Resolve(code) = NoOne /\ fallback THEN LeastBusy ELSE {Resolve(code)} :
        /\ NewOrder(AssignIfEligible(Nobody, a, source, FALSE))
        /\ Acted(NextOrder)

\* createFromWebhook looks again, by number only, before it inserts.
CreateFromWebhook(code, fallback, source) ==
    \E found \in Found({"phone"}) :
        IF found # NoOrder
        THEN /\ \E a \in IF fallback THEN LeastBusy ELSE {NoOne} :
                  assigned' = [assigned EXCEPT ![found] =
                                IF fallback THEN AssignFallback(@, a) ELSE @]
             /\ UNCHANGED <<place, key, noAnswer>>
             /\ Acted(found)
        ELSE \E a \in IF Resolve(code) = NoOne /\ fallback THEN LeastBusy ELSE {Resolve(code)} :
             /\ NewOrder(AssignIfEligible(Nobody, a, source, FALSE))
             /\ Acted(NextOrder)

\* An operator calls the customer.
OutboundStart ==
    /\ Acting("call_start") /\ Way = "outbound"
    /\ IF job.order = NoOrder
       THEN CreateFromWebhook(Hook.code, FALSE, "answered")
       ELSE /\ assigned' = IF place[job.order] = "child" THEN assigned
                           ELSE [assigned EXCEPT ![job.order] =
                                   AssignIfEligible(@, Resolve(Hook.code), "answered", FALSE)]
            /\ UNCHANGED <<place, key, noAnswer>>
            /\ Acted(job.order)

\* The customer calls.  A known order only has its call count incremented.
InboundStart ==
    /\ Acting("call_start") /\ Way = "inbound"
    /\ IF job.order = NoOrder
       THEN CreateFromWebhook(Hook.code, Hook.code = NoOne, "auto")
       ELSE Acted(job.order) /\ UNCHANGED orderVars

\* handleCallAnswered, either direction.
Answered ==
    /\ Acting("call_answered")
    /\ LET a == Resolve(Hook.code)
       IN  \E found \in Found({"phone"}) :
             IF found = NoOrder
             THEN NewOrder(AssignIfEligible(Nobody, a, "answered", TRUE))
             ELSE /\ noAnswer' = [noAnswer EXCEPT ![found] = 0]
                  /\ assigned' = [assigned EXCEPT ![found] =
                                    AssignIfEligible(@, a, "answered", TRUE)]
                  /\ UNCHANGED <<place, key>>
    /\ Acted(job.order)

Missed ==
    /\ Acting("call_missed")
    /\ IF job.order = NoOrder
       THEN CreateFromWebhook(NoOne, FALSE, "answered")
       ELSE Acted(job.order) /\ UNCHANGED orderVars

\* call_end after a conversation: moveToTopById, or an order for the call.
Talked ==
    /\ Acting("call_end") /\ Hook.talked
    /\ IF job.order = NoOrder
       THEN CreateFromWebhook(Hook.code, FALSE, "answered")
       ELSE /\ noAnswer' = [noAnswer EXCEPT ![job.order] =
                              IF place[job.order] = "deleted" THEN @ ELSE 0]
            /\ UNCHANGED <<place, key, assigned>>
            /\ Acted(job.order)

\* Mutant of NoAnswerRecorded: a duration of null is not taken for 0.
NoAnswerNeverRecorded(saw) == FALSE

\* hasCustomerNoAnswerRecorded
NoAnswerRecorded(saw) == saw.event = "call_end" /\ ~saw.talked

Counts == Way = "outbound" /\ job.order # NoOrder /\ ~NoAnswerRecorded(job.saw)

\* recordCustomerNoAnswer; an order of a child branch above the limit throws
\* and the webhook fails.  Only orders in tracked statuses count; a child's may
\* be in one or not.
CountNoAnswer ==
    /\ Acting("call_end") /\ ~Hook.talked /\ Counts
    /\ LET o == job.order
           n == noAnswer[o] + 1
       IN  \/ /\ place[o] \in {"open", "child"}
              /\ noAnswer' = [noAnswer EXCEPT ![o] = n]
              /\ place' = [place EXCEPT ![o] = IF n > NoAnswerLimit THEN "invalid" ELSE @]
              /\ n > NoAnswerLimit => place[o] = "open"
              /\ UNCHANGED <<key, assigned>>
              /\ Acted(o)
           \/ place[o] # "open" /\ Acted(o) /\ UNCHANGED orderVars
           \/ /\ place[o] = "child" /\ n > NoAnswerLimit
              /\ job' = Idle
              /\ UNCHANGED <<call, wire, row, comments, orderVars, edits, stops, repeats>>

EndUncounted ==
    /\ Acting("call_end") /\ ~Hook.talked /\ ~Counts
    /\ Acted(job.order)
    /\ UNCHANGED orderVars

\* shouldCreateRepairOrderComment
Notable(hook) == hook.event = "call_missed" \/ (hook.event = "call_end" /\ hook.talked)

\* Mutant of CommentRecorded: only conversations are recognised.
CommentRecordedIfTalked(saw, hook) == saw.event = hook.event /\ saw.talked

\* Mutant of CommentRecorded: any row of the call will do.
CommentRecordedByAnyRow(saw, hook) == saw.event # "none"

\* hasCallCommentRecorded
CommentRecorded(saw, hook) ==
    saw.event = hook.event /\ (hook.event = "call_end" => saw.talked)

\* If there is no order yet it is looked up once more; the row of the call and
\* the comment are written in one transaction.  Merging keeps what the webhook
\* says nothing about; a deleted order gets no comment.
Save ==
    /\ job.pc = "save"
    /\ \E o \in IF job.order = NoOrder /\ Way # "internal" THEN Found({"phone", "user"})
                ELSE {job.order} :
        LET c == Hook.call
            noted == /\ o # NoOrder
                     /\ Notable(Hook)
                     /\ ~CommentRecorded(job.saw, Hook)
                     /\ place[o] # "deleted"
        IN  /\ row' = [row EXCEPT ![c] =
                         [event |-> Hook.event, talked |-> @.talked \/ Hook.talked,
                          order |-> IF o = NoOrder THEN @.order ELSE o]]
            /\ comments' = IF noted THEN [comments EXCEPT ![c] = @ + 1] ELSE comments
    /\ job' = [Idle EXCEPT !.pc = "answer"]
    /\ UNCHANGED <<call, wire, orderVars, edits, stops, repeats>>

Answer200 ==
    /\ job.pc = "answer"
    /\ wire' = Tail(wire)
    /\ job' = Idle
    /\ UNCHANGED <<call, row, comments, orderVars, edits, stops, repeats>>

AnswerLost ==
    /\ job.pc = "answer"
    /\ stops + repeats < MaxMishaps
    /\ repeats' = repeats + 1
    /\ job' = Idle
    /\ UNCHANGED <<call, wire, row, comments, orderVars, edits, stops>>

Stop ==
    /\ job.pc \in {"act", "save"}
    /\ stops + repeats < MaxMishaps
    /\ stops' = stops + 1
    /\ job' = Idle
    /\ UNCHANGED <<call, wire, row, comments, orderVars, edits, repeats>>

(***************************************************************************)
(* Employees and the web site.                                             *)
(***************************************************************************)
Edit ==
    /\ edits < MaxEdits
    /\ edits' = edits + 1
    /\ UNCHANGED <<call, wire, job, row, comments, noAnswer, stops, repeats>>

\* create, under the customer's number or only for his user; the creator and
\* the admins he names are assigned.
CreateByHand ==
    /\ Edit
    /\ \E o \in Orders : place[o] = "none"
    /\ place' = [place EXCEPT ![NextOrder] = "open"]
    /\ \E k \in {"phone", "user"} : key' = [key EXCEPT ![NextOrder] = k]
    /\ \E chosen \in SUBSET Operators :
         assigned' = [assigned EXCEPT ![NextOrder] =
                        [a \in Operators |-> IF a \in chosen THEN "manual" ELSE "no"]]

\* createOpenApplication always inserts, and assigns as the telephony does.
OpenApplication ==
    /\ Edit
    /\ \E o \in Orders : place[o] = "none"
    /\ place' = [place EXCEPT ![NextOrder] = "open"]
    /\ key' = [key EXCEPT ![NextOrder] = "phone"]
    /\ \E a \in LeastBusy :
         assigned' = [assigned EXCEPT ![NextOrder] = AssignFallback(Nobody, a)]

\* Steps of an order on the board: to repair, Invalid or a closed status, to a
\* child branch and back, deletion.
Routes == {<<"open", "repair">>, <<"repair", "open">>, <<"open", "invalid">>,
           <<"invalid", "open">>, <<"open", "closed">>, <<"repair", "closed">>,
           <<"open", "child">>, <<"repair", "child">>, <<"child", "open">>,
           <<"open", "deleted">>, <<"child", "deleted">>}

\* autoAssignRepairWorkerFromUpdateIfNeeded assigns a specialist who did it.
Route(o) ==
    /\ Edit
    /\ \E to \in {r[2] : r \in {r \in Routes : r[1] = place[o]}} :
         place' = [place EXCEPT ![o] = to]
    /\ \E as \in {assigned[o]} \cup {AssignIfNeeded(assigned[o], a, "role") : a \in Operators} :
         assigned' = [assigned EXCEPT ![o] = as]
    /\ UNCHANGED key

\* handleInvalidStatusReassignment: the operator who talked to the customer and
\* revives the order replaces the operators it had.
Revive(o) ==
    /\ Edit
    /\ place[o] = "invalid"
    /\ \E a \in Operators :
        /\ assigned[o][a] = "no"
        /\ \E c \in Calls : row[c].order = o /\ row[c].talked /\ call[c].code = a
        /\ assigned' = [assigned EXCEPT ![o] = [Nobody EXCEPT ![a] = "manual"]]
    /\ place' = [place EXCEPT ![o] = "open"]
    /\ UNCHANGED key

\* AssignAdminUpdaterService: an operator already assigned keeps its source.
AssignByHand(o) ==
    /\ Edit
    /\ place[o] # "none"
    /\ \E chosen \in SUBSET Operators :
        assigned' = [assigned EXCEPT ![o] =
            [a \in Operators |-> IF a \in chosen /\ @[a] = "no" THEN "manual" ELSE @[a]]]
    /\ UNCHANGED <<place, key>>

Unassign(o) ==
    /\ Edit
    /\ place[o] # "none"
    /\ \E gone \in SUBSET Operators :
        assigned' = [assigned EXCEPT ![o] =
                       [a \in Operators |-> IF a \in gone THEN "no" ELSE @[a]]]
    /\ UNCHANGED <<place, key>>

Act ==
    \/ OutboundStart \/ InboundStart \/ Answered \/ Missed
    \/ Talked \/ CountNoAnswer \/ EndUncounted

Handler == Receive \/ Act \/ Save \/ Answer200 \/ AnswerLost \/ Stop

Exchange == \E c \in Calls : Dial(c) \/ PickUp(c) \/ Miss(c) \/ HangUp(c)

Employees ==
    \/ CreateByHand \/ OpenApplication
    \/ \E o \in Orders : Route(o) \/ Revive(o) \/ AssignByHand(o) \/ Unassign(o)

Next == Handler \/ Exchange \/ Employees

Spec == Init /\ [][Next]_vars

(***************************************************************************)
(* Properties.                                                             *)
(***************************************************************************)
TypeOK ==
    /\ call \in [Calls -> [way : {"none", "inbound", "outbound", "internal"},
                           at : {"idle", "ringing", "answered", "missed", "ended", "talked"},
                           code : Operators \cup {NoOne}]]
    /\ job.pc \in {"idle", "act", "save", "answer"}
    /\ job.pc # "idle" => wire # <<>>
    /\ job.order \in Orders \cup {NoOrder}
    /\ \A c \in Calls : row[c].order \in Orders \cup {NoOrder}
    /\ place \in [Orders -> {"none", "open", "repair", "invalid", "closed", "child", "deleted"}]
    /\ key \in [Orders -> {"phone", "user"}]
    /\ noAnswer \in [Orders -> Nat]
    /\ assigned \in [Orders -> [Operators -> Sources]]

\* Telephony assigns an operator only next to operators of other roles: no two
\* of those it has assigned to an order share a role, whatever employees add or
\* remove between the calls.
OneOperatorPerRole ==
    \A o \in Orders : \A a, b \in Operators :
        /\ assigned[o][a] \in {"auto", "answered"}
        /\ assigned[o][b] \in {"auto", "answered"}
        /\ SameRole(a, b)
        => a = b

\* The operator who answers a call is assigned to the customer's order unless a
\* colleague of the same role got there by answering or by an employee's choice:
\* an automatic assignment never keeps the answering operator out.
AnswererNotKeptOut ==
    [][Answered /\ Resolve(Hook.code) # NoOne =>
         LET a == Resolve(Hook.code)
         IN  \E o \in Orders :
               /\ place'[o] \in Visible \cup {"invalid"} /\ key'[o] = "phone"
               /\ \/ assigned'[o][a] # "no"
                  \/ \E b \in Operators \ {a} :
                       SameRole(a, b) /\ assigned'[o][b] \notin {"no", "auto"}]_vars

\* A webhook creates no order while the customer has an open one under this
\* number, also when an employee entered it while the webhook was handled.
NoSecondOrder ==
    [][Act /\ (\E o \in Orders : place[o] = "none" /\ place'[o] # "none")
         => ~\E o \in Orders : place[o] \in Visible /\ key[o] = "phone"]_vars

\* A call is commented once, however often its webhooks are repeated and
\* wherever the server stopped.
CommentedOnce == \A c \in Calls : comments[c] <= 1

Unanswered == {c \in Calls : call[c].way = "outbound" /\ call[c].at = "ended"}

\* An unanswered call counts once; only a server that stopped between the count
\* and the row of the call makes it count again.
NoAnswerCountedOnce == \A o \in Orders : noAnswer[o] <= Cardinality(Unanswered) + stops

\* Once the exchange has its answers, every conversation with the customer is a
\* comment of an order, unless somebody deleted an order of the customer.
ConversationNoted ==
    wire = <<>> => \A c \in Calls :
        call[c].at = "talked" /\ call[c].way # "internal"
            => comments[c] = 1 \/ \E o \in Orders : place[o] = "deleted"
=============================================================================
