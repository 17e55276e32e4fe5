-------------------------- MODULE RepairOrderBoard --------------------------
(***************************************************************************)
(* The Kanban board of repair orders: which branch owns an order, in which *)
(* workflow status it is, at which position of that column, and how often  *)
(* its customer has not answered.  Every handler of RepairOrdersService    *)
(* that changes these columns of repair_orders is one action, run as if    *)
(* its transaction were alone; BoardTransactions takes the handlers apart  *)
(* into statements.                                                        *)
(***************************************************************************)
EXTENDS ColumnOrder, FiniteSets

CONSTANTS
    Orders,          \* rows that may come to exist
    Mother,          \* MOTHER_BRANCH_ID
    Children,        \* active child branches
    Statuses,        \* rows of repair_order_statuses owned by Mother
    StatusType,      \* their type: Open, Missed, Invalid, Completed, Cancelled
    Transitions,     \* status transitions some role is allowed
    Positions,       \* values of dto.sort in use (the DTO admits 0..9999)
    ClientsInRange,  \* TRUE: clients drop a card next to a card of the column
    Last,            \* 999999, the position a row gets before moveToTop
    MaxSort,         \* bound: no position ever exceeds it
    NoAnswerLimit,   \* customerNoAnswerLimit
    MaxNoAnswer      \* bound on customer_no_answer_count

Branches == {Mother} \cup Children

StatusTypes == {"Open", "Missed", "Invalid", "Completed", "Cancelled"}

ASSUME BranchesAssumption == Mother \notin Children
ASSUME StatusAssumption ==
    /\ StatusType \in [Statuses -> StatusTypes]
    /\ Transitions \subseteq Statuses \X Statuses
ASSUME PositionAssumption ==
    /\ Positions \subseteq Nat
    /\ MaxSort \in Nat
    /\ Last \in Nat
    /\ MaxSort >= 1
    /\ MaxSort < Last
    /\ ClientsInRange \in BOOLEAN
ASSUME NoAnswerAssumption == NoAnswerLimit \in Nat /\ MaxNoAnswer \in Nat

VARIABLES
    life,        \* repair_orders.status: None (no row), Open, Deleted
    branch,      \* branch_id
    status,      \* status_id
    sort,        \* sort
    fromMother,  \* a branch_id history row Mother -> child exists
    noAnswer,    \* customer_no_answer_count
    due          \* customer_no_answer_due_at: none (NULL), waiting, elapsed

vars == <<life, branch, status, sort, fromMother, noAnswer, due>>

Column(b, s) == {o \in Orders : life[o] = "Open" /\ branch[o] = b /\ status[o] = s}

Peers(o) == Column(branch[o], status[o])

Terminal(s) == StatusType[s] \in {"Cancelled", "Completed", "Invalid"}

Trackable(s) == StatusType[s] \in {"Open", "Missed"}

\* getRequiredStatusByType: statuses belong to Mother, so an order of a child
\* branch finds none and the handler throws.
RequiredStatus(b, type) == {s \in Statuses : b = Mother /\ StatusType[s] = type}

\* Orders buildTelephonyWorkflowOpenOrderQuery can return for the Mother
\* branch.  Whether an Invalid order is still reusable depends on the dates of
\* its history and is left open.
TelephonySees(o) ==
    /\ life[o] = "Open"
    /\ branch[o] = Mother
    /\ StatusType[status[o]] \notin {"Cancelled", "Completed"}

\* Where clients aim a card: in front of or behind a card of the column.
Aimed(col, pos) ==
    ClientsInRange => \/ pos = 1
                      \/ \E p \in col : pos = sort[p] \/ pos = sort[p] + 1

Init ==
    /\ life = [o \in Orders |-> "None"]
    /\ branch \in [Orders -> {Mother}]
    /\ \E s \in Statuses : status = [o \in Orders |-> s]
    /\ sort = [o \in Orders |-> 0]
    /\ fromMother = [o \in Orders |-> FALSE]
    /\ noAnswer = [o \in Orders |-> 0]
    /\ due = [o \in Orders |-> "none"]

(***************************************************************************)
(* Arrival of an order.                                                    *)
(***************************************************************************)
\* The row is inserted with sort = Last and moved to the top of its column.
Insert(o, b, s) ==
    /\ life[o] = "None"
    /\ life' = [life EXCEPT ![o] = "Open"]
    /\ branch' = [branch EXCEPT ![o] = b]
    /\ status' = [status EXCEPT ![o] = s]
    /\ sort' = ArriveAtTop(sort, Column(b, s), o, Last)
    /\ UNCHANGED <<fromMother, noAnswer, due>>

\* create: an employee enters an order for a branch that exists
\* (BranchExistGuard), Mother included, in any status of the board.
Create(o) == \E b \in Branches, s \in Statuses : Insert(o, b, s)

\* createOpenApplication, createFromWebhook and handleCallAnswered without an
\* open order of the caller: always in Mother, in an Open status.
CreateInMother(o) ==
    \E s \in Statuses : StatusType[s] = "Open" /\ Insert(o, Mother, s)

(***************************************************************************)
(* Employees at the board.                                                 *)
(***************************************************************************)
\* update with a new status_id: close the gap, then go to the top of the new
\* column.
Update(o) ==
    /\ life[o] = "Open"
    /\ \E s \in Statuses \ {status[o]} :
        /\ <<status[o], s>> \in Transitions
        /\ status' = [status EXCEPT ![o] = s]
        /\ sort' = ArriveAtTop(CloseGap(sort, Peers(o), sort[o]),
                               Column(branch[o], s), o, Last)
    /\ UNCHANGED <<life, branch, fromMother, noAnswer, due>>

\* move to another status at a position; 0 and "no sort" both mean 1.
MoveAcross(o) ==
    /\ life[o] = "Open"
    /\ \E s \in Statuses \ {status[o]}, pos \in Positions :
        LET target == IF pos = 0 THEN 1 ELSE pos
            col    == Column(branch[o], s)
        IN  /\ <<status[o], s>> \in Transitions
            /\ Aimed(col, pos)
            /\ status' = [status EXCEPT ![o] = s]
            /\ sort' = [OpenSlot(CloseGap(sort, Peers(o), sort[o]), col, target)
                           EXCEPT ![o] = target]
    /\ UNCHANGED <<life, branch, fromMother, noAnswer, due>>

\* move within the status, and updateSort.
MoveWithin(o) ==
    /\ life[o] = "Open"
    /\ \E pos \in Positions \ {sort[o]} :
        /\ Aimed(Peers(o), pos)
        /\ ClientsInRange => \E p \in Peers(o) : sort[p] >= pos
        /\ sort' = [Slide(sort, Peers(o), sort[o], pos) EXCEPT ![o] = pos]
    /\ UNCHANGED <<life, branch, status, fromMother, noAnswer, due>>

SoftDelete(o) ==
    /\ life[o] = "Open"
    /\ life' = [life EXCEPT ![o] = "Deleted"]
    /\ sort' = CloseGap(sort, Peers(o) \ {o}, sort[o])
    /\ UNCHANGED <<branch, status, fromMother, noAnswer, due>>

(***************************************************************************)
(* Change of the owning branch.                                            *)
(***************************************************************************)
\* Mutant of TransferBranch: the gap in the column the order leaves stays.
TransferLeavingGap(o) ==
    /\ life[o] = "Open"
    /\ \E b \in Children :
        /\ branch' = [branch EXCEPT ![o] = b]
        /\ sort' = ArriveAtTop(sort, Column(b, status[o]), o, Last)
    /\ fromMother' = [fromMother EXCEPT ![o] = @ \/ branch[o] = Mother]
    /\ UNCHANGED <<life, status, noAnswer, due>>

\* transferBranch: to a child branch, possibly the one the order is in.
TransferBranch(o) ==
    /\ life[o] = "Open"
    /\ \E b \in Children :
        /\ branch' = [branch EXCEPT ![o] = b]
        /\ sort' = ArriveAtTop(CloseGap(sort, Peers(o), sort[o]),
                               Column(b, status[o]), o, Last)
    /\ fromMother' = [fromMother EXCEPT ![o] = @ \/ branch[o] = Mother]
    /\ UNCHANGED <<life, status, noAnswer, due>>

\* take: a child branch takes an order of Mother.  The column it leaves is
\* not touched.
Take(o) ==
    /\ life[o] = "Open"
    /\ branch[o] = Mother
    /\ \E b \in Children :
        /\ branch' = [branch EXCEPT ![o] = b]
        /\ sort' = ArriveAtTop(sort, Column(b, status[o]), o, Last)
    /\ fromMother' = [fromMother EXCEPT ![o] = TRUE]
    /\ UNCHANGED <<life, status, noAnswer, due>>

RestoreToMother(o) ==
    /\ life[o] = "Open"
    /\ branch[o] # Mother
    /\ fromMother[o]
    /\ branch' = [branch EXCEPT ![o] = Mother]
    /\ sort' = ArriveAtTop(CloseGap(sort, Peers(o), sort[o]),
                           Column(Mother, status[o]), o, Last)
    /\ UNCHANGED <<life, status, fromMother, noAnswer, due>>

(***************************************************************************)
(* Telephony.                                                              *)
(***************************************************************************)
\* incrementCallCount, incrementMissedCallCount, and createFromWebhook that
\* finds an open order of the caller: the order goes to the top.
CallOnOrder(o) ==
    /\ TelephonySees(o)
    /\ sort' = MoveToTop(sort, Peers(o), o, sort[o])
    /\ UNCHANGED <<life, branch, status, fromMother, noAnswer, due>>

\* Mutant of CallAnswered: customer_no_answer_due_at is not reset.
CallAnsweredStaysDue(o) ==
    /\ TelephonySees(o)
    /\ sort' = MoveToTop(sort, Peers(o), o, sort[o])
    /\ noAnswer' = [noAnswer EXCEPT ![o] = 0]
    /\ UNCHANGED <<life, branch, status, fromMother, due>>

\* moveToTopById after a conversation, and handleCallAnswered on an open
\* order: to the top, and the no-answer tracking starts anew.
CallAnswered(o) ==
    /\ TelephonySees(o)
    /\ sort' = MoveToTop(sort, Peers(o), o, sort[o])
    /\ noAnswer' = [noAnswer EXCEPT ![o] = 0]
    /\ due' = [due EXCEPT ![o] = "none"]
    /\ UNCHANGED <<life, branch, status, fromMother>>

\* moveOrderToStatusAtTop followed by the UPDATE that sets status and sort 1.
SystemMove(o, s) ==
    /\ status' = [status EXCEPT ![o] = s]
    /\ sort' = IF s = status[o]
               THEN MoveToTop(sort, Peers(o), o, sort[o])
               ELSE [OpenSlot(CloseGap(sort, Peers(o), sort[o]), Column(branch[o], s), 1)
                        EXCEPT ![o] = 1]

\* recordCustomerNoAnswer below the limit: wait for another 24 hours.
RecordNoAnswer(o) ==
    /\ TelephonySees(o)
    /\ Trackable(status[o])
    /\ noAnswer[o] < MaxNoAnswer
    /\ noAnswer[o] + 1 <= NoAnswerLimit
    /\ noAnswer' = [noAnswer EXCEPT ![o] = @ + 1]
    /\ due' = [due EXCEPT ![o] = "waiting"]
    /\ UNCHANGED <<life, branch, status, sort, fromMother>>

\* recordCustomerNoAnswer above the limit: the order becomes Invalid.
InvalidateNoAnswer(o) ==
    /\ TelephonySees(o)
    /\ Trackable(status[o])
    /\ noAnswer[o] < MaxNoAnswer
    /\ noAnswer[o] + 1 > NoAnswerLimit
    /\ \E s \in RequiredStatus(branch[o], "Invalid") : SystemMove(o, s)
    /\ noAnswer' = [noAnswer EXCEPT ![o] = @ + 1]
    /\ due' = [due EXCEPT ![o] = "none"]
    /\ UNCHANGED <<life, branch, fromMother>>

\* 24 hours pass.
DueElapses(o) ==
    /\ due[o] = "waiting"
    /\ due' = [due EXCEPT ![o] = "elapsed"]
    /\ UNCHANGED <<life, branch, status, sort, fromMother, noAnswer>>

(***************************************************************************)
(* CustomerNoAnswerCron, every minute: processDueCustomerNoAnswer.         *)
(***************************************************************************)
\* Mutant of IsDue: the first unanswered call does not count.
IsDueAfterTwo(o) == life[o] = "Open" /\ due[o] = "elapsed" /\ noAnswer[o] > 1

IsDue(o) == life[o] = "Open" /\ due[o] = "elapsed" /\ noAnswer[o] > 0

\* The order has left the statuses the tracking is about.
ForgetDue(o) ==
    /\ IsDue(o)
    /\ ~Trackable(status[o])
    /\ due' = [due EXCEPT ![o] = "none"]
    /\ UNCHANGED <<life, branch, status, sort, fromMother, noAnswer>>

\* To Missed, or to Invalid when the count is already above the limit.
ProcessDue(o) ==
    /\ IsDue(o)
    /\ Trackable(status[o])
    /\ LET type == IF noAnswer[o] > NoAnswerLimit THEN "Invalid" ELSE "Missed"
       IN  \E s \in RequiredStatus(branch[o], type) : SystemMove(o, s)
    /\ due' = [due EXCEPT ![o] = "none"]
    /\ UNCHANGED <<life, branch, fromMother, noAnswer>>

Handle(o) ==
    \/ Create(o) \/ CreateInMother(o)
    \/ Update(o) \/ MoveAcross(o) \/ MoveWithin(o) \/ SoftDelete(o)
    \/ TransferBranch(o) \/ Take(o) \/ RestoreToMother(o)
    \/ CallOnOrder(o) \/ CallAnswered(o)
    \/ RecordNoAnswer(o) \/ InvalidateNoAnswer(o) \/ DueElapses(o)
    \/ ForgetDue(o) \/ ProcessDue(o)

\* Positions are bounded by MaxSort < Last: the board never sees the million
\* arrivals it takes to push a card to the position new rows come from.
Next ==
    /\ \E o \in Orders : Handle(o)
    /\ \A o \in Orders : sort'[o] <= MaxSort

Spec == Init /\ [][Next]_vars

\* The cron comes back every minute and reads at most 200 due orders, so an
\* order it can process is processed: weak fairness of that order's step.
Cron(o) == (ForgetDue(o) \/ ProcessDue(o)) /\ Next

FairSpec == Spec /\ \A o \in Orders : WF_vars(Cron(o)) /\ WF_vars(DueElapses(o) /\ Next)

(***************************************************************************)
(* Properties.                                                             *)
(***************************************************************************)
TypeOK ==
    /\ life \in [Orders -> {"None", "Open", "Deleted"}]
    /\ branch \in [Orders -> Branches]
    /\ status \in [Orders -> Statuses]
    /\ sort \in [Orders -> Nat]
    /\ fromMother \in [Orders -> BOOLEAN]
    /\ noAnswer \in [Orders -> Nat]
    /\ due \in [Orders -> {"none", "waiting", "elapsed"}]

\* Two cards of a column never have the same position: the lists ORDER BY sort
\* show every card at one place.  No unique constraint of the table says so;
\* it rests on the shifts of the handlers.
NoSharedPosition ==
    \A b \in Branches, s \in Statuses : NoSharedPlace(sort, Column(b, s))

\* The positions of every column of a child branch are 1, 2, ..., n, what the
\* "maintain contiguity" comments of softDelete, transferBranch and
\* handleStatusChangeReordering promise.
ChildColumnsContiguous ==
    \A b \in Children, s \in Statuses : Contiguous(sort, Column(b, s))

\* A handler moves one card; any two other cards that share a column before
\* and after its step keep their order, however the shifts renumber them.
NeighboursKeepOrder ==
    [][\A o \in Orders : Handle(o) => \A p, q \in Orders \ {o} :
         /\ life[p] = "Open" /\ life[q] = "Open"
         /\ branch[p] = branch[q] /\ status[p] = status[q]
         /\ sort[p] < sort[q]
         => sort'[p] < sort'[q]]_vars

\* moveToTop does what its comment says: after a call about it the order comes
\* before every other card of its column.
CallRaisesToTop ==
    [][\A o \in Orders :
         CallOnOrder(o) \/ CallAnswered(o)
            => IsFirst(sort', Column(branch[o], status[o]), o)]_vars

\* While nobody has answered and the order is still tracked, the 24 hours are
\* running or the cron has acted on them; an order Mother leaves waiting is one
\* with a count.
DueHasCount == \A o \in Orders : due[o] # "none" => noAnswer[o] > 0

\* An order of Mother whose 24 hours have elapsed does not stay due: the cron
\* moves it to Missed or Invalid, forgets it, or it leaves Mother or the board.
MotherDueSettled ==
    \A o \in Orders :
        due[o] = "elapsed" /\ branch[o] = Mother
            ~> due[o] # "elapsed" \/ branch[o] # Mother \/ life[o] # "Open"

\* The same of an order a child branch has.
ChildDueSettled ==
    \A o \in Orders :
        due[o] = "elapsed" /\ branch[o] # Mother
            ~> due[o] # "elapsed" \/ branch[o] = Mother \/ life[o] # "Open"

=============================================================================
