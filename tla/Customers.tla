------------------------------ MODULE Customers ------------------------------
(***************************************************************************)
(* Customers and the repair orders opened for them.  A customer is a row   *)
(* of `users`, whose phone number is unique among all rows, the deleted    *)
(* ones too.  Telephone webhooks, applications from the web site and       *)
(* employees each look for the row of a number, insert it when they find   *)
(* none, and open an order in the same transaction.  One statement of a    *)
(* transaction is one step: other transactions commit between any two, and *)
(* an INSERT or UPDATE that takes a number another open transaction has    *)
(* taken waits for that one to end.                                        *)
(*                                                                         *)
(* Telephone calls look for orders among the open ones of the Mother       *)
(* branch; an order leaves these when a child branch takes it or it gets   *)
(* a final status, and may come back.  A number and its nine-digit         *)
(* spelling, which the lookups accept as well, are one value here.         *)
(***************************************************************************)
EXTENDS Integers, FiniteSets

CONSTANTS
    Numbers,    \* phone numbers
    NoNumber,
    Customers,  \* rows of users: numbered as they are inserted
    Calls,      \* repair orders: numbered as they are inserted
    Handlers,   \* requests served at a time
    MaxVisits   \* bound on the requests

ASSUME CustomersAssumption ==
    /\ Customers \subseteq Nat \ {0} /\ Calls \subseteq Nat \ {0}
    /\ NoNumber \notin Numbers
    /\ MaxVisits \in Nat

NoUser == 0

NoCall == 0

VARIABLES
    customer,  \* users: number and status
    opened,    \* repair_orders: number, user_id and whether calls find it
    handler,   \* what each request is doing
    visits     \* requests so far

customersVars == <<customer, opened, handler, visits>>

\* A pending customer is treated like one who is banned.
Standings == {"absent", "Open", "Banned", "Deleted"}

Origins == {"none", "webhook", "answered", "application", "employee", "edited"}

\* "away": taken by a child branch, or in a final status.
\* registers: the transaction that opened the order inserted its customer;
\* beside: orders that committed while it ran; shut: those of the number that were
\* away or deleted when it looked.
NotOpened == [state |-> "absent", number |-> NoNumber, user |-> NoUser, origin |-> "none",
              registers |-> FALSE, beside |-> {}, shut |-> {}]

\* claim: the row this transaction has inserted, or whose number it changed.
\* before, known: the orders there were, and the rows of the number not
\* deleted, when the transaction looked.
AtDesk == [pc |-> "free", way |-> "none", number |-> NoNumber, user |-> NoUser,
           order |-> NoCall, claim |-> NoUser, standing |-> "Open",
           before |-> {}, known |-> {}, shut |-> {}]

CustomersInit ==
    /\ customer \in {c \in [Customers -> [number : Numbers \cup {NoNumber}, standing : Standings]] :
                        /\ \A u \in Customers : c[u].standing = "absent" <=> c[u].number = NoNumber
                        /\ \A u, w \in Customers : u < w => c[w].standing = "absent"}
    /\ opened = [o \in Calls |-> NotOpened]
    /\ handler = [h \in Handlers |-> AtDesk]
    /\ visits = 0

(***************************************************************************)
(* Reads.                                                                  *)
(***************************************************************************)
\* Rows with this number, whatever their status: the unique constraint.
Bearers(n) == {u \in Customers : customer[u].number = n}

Undeleted(n) == {u \in Bearers(n) : customer[u].standing # "Deleted"}

\* Mutant: a banned or pending customer is overlooked.
findUserByPhoneOpen(n) == {u \in Bearers(n) : customer[u].standing = "Open"}

findUserByPhone(n) == {u \in Bearers(n) : customer[u].standing # "Deleted"}

OpenCalls(n) == {o \in Calls : opened[o].state = "open" /\ opened[o].number = n}

\* findOpenOrderByPhoneNumber: by the customer as well.
OpenCallsOf(n, u) ==
    OpenCalls(n) \cup {o \in Calls : opened[o].state = "open" /\ u # NoUser /\ opened[o].user = u}

Existing == {o \in Calls : opened[o].state # "absent"}

\* Whose row of repair_orders has the status Open, wherever it is.
Editable(o) == opened[o].state \in {"open", "away"}

HiddenCalls(n) == {o \in Existing : opened[o].number = n /\ opened[o].state # "open"}

OneOf(S, none) == IF S = {} THEN {none} ELSE S

(***************************************************************************)
(* Numbers taken by transactions that have not ended.                      *)
(***************************************************************************)
Claimed(h) == {g \in Handlers \ {h} : handler[g].claim # NoUser}

ClaimedNumber(h, n) == \E g \in Claimed(h) : handler[g].number = n

FreeRow(h) == {u \in Customers : /\ customer[u].standing = "absent"
                                 /\ \A g \in Claimed(h) : handler[g].claim # u
                                 /\ \A w \in Customers : w < u =>
                                        \/ customer[w].standing # "absent"
                                        \/ \E g \in Claimed(h) : handler[g].claim = w}

At(h, pc) == handler[h].pc = pc

Go(h, d) == handler' = [handler EXCEPT ![h] = d]

Receive(h, d) ==
    /\ At(h, "free")
    /\ visits < MaxVisits
    /\ visits' = visits + 1
    /\ Go(h, d)
    /\ UNCHANGED <<customer, opened>>

Onward(h, d) == Go(h, d) /\ UNCHANGED <<customer, opened, visits>>

Finish(h) == Go(h, AtDesk) /\ UNCHANGED visits

(***************************************************************************)
(* Webhooks: who calls, read by number alone and before any transaction,   *)
(* and whether an order is open.                                           *)
(***************************************************************************)
Ring(h, n, way) ==
    \E u \in OneOf(Bearers(n), NoUser) :
        Receive(h, [AtDesk EXCEPT !.pc = "rung", !.way = way, !.number = n, !.user = u])

\* With an open order the webhook updates that one (Telephony models it),
\* unless the call was answered: handleCallAnswered looks again.
LookForOrder(h) ==
    LET d == handler[h]
    IN  /\ At(h, "rung")
        /\ \/ d.way = "answered" /\ Onward(h, [d EXCEPT !.pc = "seek"])
           \/ /\ d.way = "webhook"
              /\ IF OpenCallsOf(d.number, d.user) # {} THEN Onward(h, AtDesk)
                 ELSE Onward(h, [d EXCEPT !.pc = IF d.user = NoUser THEN "ensure" ELSE "seek"])

(***************************************************************************)
(* Applications from the web site, orders opened by employees, and orders  *)
(* without a customer that get one when they are moved or updated.         *)
(***************************************************************************)
Apply(h, n) ==
    Receive(h, [AtDesk EXCEPT !.pc = "ensure", !.way = "application", !.number = n])

CreateByPhone(h, n) ==
    Receive(h, [AtDesk EXCEPT !.pc = "ensure", !.way = "employee", !.number = n])

CreateByUser(h, u) ==
    /\ customer[u].standing = "Open"
    /\ Receive(h, [AtDesk EXCEPT !.pc = "open", !.way = "employee", !.user = u,
                                 !.number = customer[u].number, !.before = Existing])

EnsureUserLinked(h, o) ==
    /\ Editable(o)
    /\ opened[o].user = NoUser
    /\ Receive(h, [AtDesk EXCEPT !.pc = "ensure", !.way = "link", !.order = o,
                                 !.number = opened[o].number])

(***************************************************************************)
(* ensureUserByPhone.                                                      *)
(***************************************************************************)
NextStage(way) == CASE way = "webhook" -> "search"
                    [] way \in {"application", "employee"} -> "open"
                    [] way \in {"link", "renumber"} -> "link"
                    [] way = "user" -> "commit"

FindCustomer(h) ==
    LET d == handler[h]
        looked == [d EXCEPT !.before = Existing, !.known = Undeleted(d.number)]
        found == findUserByPhone(d.number)
    IN  /\ At(h, "ensure")
        /\ \/ found = {} /\ Onward(h, [looked EXCEPT !.pc = "insert"])
           \/ \E u \in found :
                Onward(h, [looked EXCEPT !.pc = NextStage(d.way), !.user = u])

InsertCustomer(h) ==
    LET d == handler[h]
    IN  /\ At(h, "insert")
        /\ ~ClaimedNumber(h, d.number)
        /\ Bearers(d.number) = {}
        /\ \E u \in FreeRow(h) :
            Onward(h, [d EXCEPT !.pc = NextStage(d.way), !.user = u, !.claim = u])

\* The number has a row: the unique constraint fails the whole request.
InsertRefused(h) ==
    /\ At(h, "insert")
    /\ ~ClaimedNumber(h, handler[h].number)
    /\ Bearers(handler[h].number) # {}
    /\ Onward(h, AtDesk)

(***************************************************************************)
(* The order.                                                              *)
(***************************************************************************)
\* Looking for it begins the transaction when no customer had to be found.
Looked(h) == IF At(h, "seek") THEN [handler[h] EXCEPT !.before = Existing] ELSE handler[h]

\* Mutant: the transaction relies on what was read before it began.
SeekOrderNot(h) ==
    /\ At(h, "seek") \/ At(h, "search")
    /\ Onward(h, [Looked(h) EXCEPT !.pc = "open", !.shut = HiddenCalls(handler[h].number)])

SeekOrder(h) ==
    LET found == OpenCalls(handler[h].number)
    IN  /\ At(h, "seek") \/ At(h, "search")
        /\ \/ /\ found = {}
              /\ Onward(h, [Looked(h) EXCEPT !.pc = "open", !.shut = HiddenCalls(handler[h].number)])
           \/ \E o \in found : Onward(h, [Looked(h) EXCEPT !.pc = "touch", !.order = o])

\* The row the transaction has inserted becomes visible.
CommitCustomer(h) ==
    LET d == handler[h]
    IN  customer' = [u \in Customers |->
                        IF u = d.claim THEN [number |-> d.number, standing |-> d.standing]
                        ELSE customer[u]]

OpenOrder(h) ==
    LET d == handler[h]
    IN  /\ At(h, "open")
        /\ \E o \in Calls \ Existing :
            /\ \A x \in Calls : x < o => x \in Existing
            /\ opened' = [opened EXCEPT ![o] =
                            [state |-> "open", number |-> d.number, user |-> d.user,
                             origin |-> d.way, registers |-> d.claim # NoUser,
                             beside |-> Existing \ d.before, shut |-> d.shut]]
        /\ CommitCustomer(h)
        /\ Finish(h)

\* The order found may have been taken away since; handleCallAnswered does not
\* link the customer.
TouchOrder(h) ==
    LET d == handler[h]
    IN  /\ At(h, "touch")
        /\ opened' = [opened EXCEPT ![d.order].user =
                        IF d.way = "webhook" /\ @ = NoUser THEN d.user ELSE @]
        /\ CommitCustomer(h)
        /\ Finish(h)

\* update with a new number writes that as well.
LinkOrder(h) ==
    LET d == handler[h]
    IN  /\ At(h, "link")
        /\ opened' = [opened EXCEPT ![d.order] =
                        IF d.way = "link" THEN [@ EXCEPT !.user = d.user]
                        ELSE [@ EXCEPT !.user = d.user, !.number = d.number, !.origin = "edited"]]
        /\ CommitCustomer(h)
        /\ Finish(h)

Becomes(o, state) ==
    /\ opened' = [opened EXCEPT ![o].state = state]
    /\ UNCHANGED <<customer, handler, visits>>

\* take, or a final status.
LeaveQueue(o) == opened[o].state = "open" /\ Becomes(o, "away")

\* restoreToMother, or a move out of a final status.
ComeBack(o) == opened[o].state = "away" /\ Becomes(o, "open")

\* softDelete.
DeleteOrder(o) == Editable(o) /\ Becomes(o, "deleted")

\* A validation fails, or the server stops: nothing is kept.
Withdraw(h) ==
    /\ ~At(h, "free")
    /\ Onward(h, AtDesk)

(***************************************************************************)
(* The number of an order changed, with that of its customer.              *)
(* updateClientInfo asks for other rows of any status, update for those    *)
(* not deleted; without a customer update finds one, updateClientInfo does *)
(* not.                                                                    *)
(***************************************************************************)
EditClient(h, o, n, way) ==
    LET d == [AtDesk EXCEPT !.way = way, !.order = o, !.number = n, !.user = opened[o].user]
        others == (IF way = "info" THEN Bearers(n) ELSE Undeleted(n)) \ {d.user}
    IN  /\ Editable(o)
        /\ n # opened[o].number
        /\ \/ /\ way = "update" /\ d.user = NoUser
              /\ Receive(h, [d EXCEPT !.pc = "ensure", !.way = "renumber"])
           \/ /\ way = "info" \/ d.user # NoUser
              /\ d.user # NoUser => others = {}
              /\ Receive(h, [d EXCEPT !.pc = "rewrite", !.known = Undeleted(n)])

\* update may also give the order another customer.
AttachUser(o, u) ==
    /\ Editable(o) /\ customer[u].standing = "Open"
    /\ visits < MaxVisits /\ visits' = visits + 1
    /\ opened' = [opened EXCEPT ![o].user = u, ![o].origin = "edited"]
    /\ UNCHANGED <<customer, handler>>

\* UsersService.update looks at no other row.
UpdateUser(h, u, n) ==
    /\ customer[u].standing = "Open"
    /\ Receive(h, [AtDesk EXCEPT !.pc = "rewrite", !.way = "user", !.number = n, !.user = u])

Rewritable(h) ==
    LET d == handler[h]
    IN  d.user # NoUser => ~ClaimedNumber(h, d.number)

RewriteClient(h) ==
    LET d == handler[h]
    IN  /\ At(h, "rewrite")
        /\ Rewritable(h)
        /\ d.user # NoUser => Bearers(d.number) \subseteq {d.user}
        /\ customer' = [u \in Customers |-> IF u = d.user THEN [customer[u] EXCEPT !.number = d.number]
                                            ELSE customer[u]]
        /\ opened' = [o \in Calls |->
                        IF o = d.order THEN [opened[o] EXCEPT !.number = d.number, !.origin = "edited"]
                        ELSE opened[o]]
        /\ Finish(h)

RewriteRefused(h) ==
    LET d == handler[h]
    IN  /\ At(h, "rewrite")
        /\ Rewritable(h)
        /\ d.user # NoUser /\ ~(Bearers(d.number) \subseteq {d.user})
        /\ Onward(h, AtDesk)

(***************************************************************************)
(* UsersService.                                                           *)
(***************************************************************************)
CreateUser(h, n, standing) ==
    /\ Undeleted(n) = {}
    /\ Receive(h, [AtDesk EXCEPT !.pc = "insert", !.way = "user", !.number = n,
                                 !.standing = standing])

CommitUser(h) ==
    /\ At(h, "commit")
    /\ CommitCustomer(h)
    /\ Finish(h)
    /\ UNCHANGED opened

DeleteUser(u) ==
    /\ customer[u].standing = "Open"
    /\ customer' = [customer EXCEPT ![u].standing = "Deleted"]
    /\ UNCHANGED <<opened, handler, visits>>

CustomersNext ==
    \/ \E h \in Handlers :
        \/ \E n \in Numbers :
            \/ \E way \in {"webhook", "answered"} : Ring(h, n, way)
            \/ Apply(h, n)
            \/ CreateByPhone(h, n)
            \/ \E o \in Calls, way \in {"info", "update"} : EditClient(h, o, n, way)
            \/ \E u \in Customers : UpdateUser(h, u, n)
            \/ \E standing \in {"Open", "Banned"} : CreateUser(h, n, standing)
        \/ \E u \in Customers : CreateByUser(h, u)
        \/ \E o \in Calls : EnsureUserLinked(h, o)
        \/ LookForOrder(h)
        \/ FindCustomer(h) \/ InsertCustomer(h) \/ InsertRefused(h)
        \/ SeekOrder(h) \/ OpenOrder(h) \/ TouchOrder(h) \/ LinkOrder(h)
        \/ RewriteClient(h) \/ RewriteRefused(h) \/ CommitUser(h)
        \/ Withdraw(h)
    \/ \E o \in Calls :
        \/ LeaveQueue(o) \/ ComeBack(o) \/ DeleteOrder(o)
        \/ \E u \in Customers : AttachUser(o, u)
    \/ \E u \in Customers : DeleteUser(u)

CustomersSpec == CustomersInit /\ [][CustomersNext]_customersVars

(***************************************************************************)
(* Properties.                                                             *)
(***************************************************************************)
\* Types; no two rows of users have one number.
CustomersTypeOK ==
    /\ customer \in [Customers -> [number : Numbers \cup {NoNumber}, standing : Standings]]
    /\ \A u, w \in Customers : u # w /\ customer[u].number = customer[w].number =>
            customer[u].number = NoNumber
    /\ opened \in [Calls -> [state : {"absent", "open", "away", "deleted"},
                             number : Numbers \cup {NoNumber}, user : Customers \cup {NoUser},
                             origin : Origins, registers : BOOLEAN, beside : SUBSET Calls,
                             shut : SUBSET Calls]]
    /\ DOMAIN handler = Handlers
    /\ \A h \in Handlers : handler[h].claim \in Customers \cup {NoUser}
    /\ visits \in 0 .. MaxVisits

\* createFromWebhook and handleCallAnswered look for an open order of the
\* number and open one only if there is none.  Two orders of one number are left
\* by calls only when one was away or deleted as the transaction of the other
\* looked (it may have come back since: then both are open), or when their
\* transactions ran at the same time; and not then by two webhooks of a new
\* caller, of which one registers the caller while the other waits for the
\* number and fails (unless the number passed from one customer to another
\* meanwhile).  Orders whose number or customer an employee changed do not count.
OneOrderPerCaller ==
    \A o, x \in Calls :
        LET p == opened[o]
            q == opened[x]
        IN  /\ o # x /\ p.number = q.number
            /\ p.origin \in {"webhook", "answered"} /\ q.origin \in {"webhook", "answered"}
            /\ x \notin p.shut /\ o \notin q.shut
            => /\ x \in p.beside \/ o \in q.beside
               /\ p.registers /\ q.origin = "webhook" => ~q.registers /\ q.user # p.user

\* A request fails on the unique number of users only when the row that has
\* it is a deleted customer's or was given it after the request looked, an
\* update of the user itself excepted, which does not look: a customer who
\* is banned or pending is found, not inserted again.
RefusedOnlyWhenTaken ==
    [][\A h \in Handlers :
        (InsertRefused(h) \/ (RewriteRefused(h) /\ handler[h].way # "user")) =>
            \E u \in Bearers(handler[h].number) :
                customer[u].standing = "Deleted" \/ u \notin handler[h].known]_customersVars
=============================================================================
