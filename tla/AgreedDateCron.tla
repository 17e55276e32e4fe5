--------------------------- MODULE AgreedDateCron ---------------------------
(***************************************************************************)
(* AgreedDateCronService.handleAgreedDateTrigger: every hour the orders    *)
(* whose agreed date falls in the hour go to the top of their columns.     *)
(* All rows are read at once, without ORDER BY, and then moved one         *)
(* transaction after the other with what was read.                         *)
(***************************************************************************)
EXTENDS RepairOrderBoard

CONSTANT TriggerStatuses  \* statuses with cannot_continue_without_agreed_date

VARIABLE batch  \* rows read and not yet moved

cronVars == <<life, branch, status, sort, fromMother, noAnswer, due, batch>>

CronInit == Init /\ batch = {}

\* Any of the open orders in those statuses may be agreed for this hour.
ReadMatching ==
    /\ batch = {}
    /\ \E matching \in SUBSET {o \in Orders : life[o] = "Open" /\ status[o] \in TriggerStatuses} :
         batch' = {[o |-> o, branch |-> branch[o], status |-> status[o], sort |-> sort[o]] :
                     o \in matching}
    /\ UNCHANGED vars

\* One matching order goes to the top of the column it was read in.
Trigger(row) ==
    /\ sort' = MoveToTop(sort, Column(row.branch, row.status), row.o, row.sort)
    /\ batch' = batch \ {row}
    /\ UNCHANGED <<life, branch, status, fromMother, noAnswer, due>>

\* Handlers could run between two of its transactions as well; the model leaves
\* them out during a batch, so that what goes wrong is the cron's own doing.
CronNext ==
    /\ \/ ReadMatching
       \/ \E row \in batch : Trigger(row)
       \/ batch = {} /\ Next /\ UNCHANGED batch
    /\ \A o \in Orders : sort'[o] <= MaxSort

CronSpec == CronInit /\ [][CronNext]_cronVars

\* The cron moves an order "to the top of its status list" and shifts "existing
\* items that were above this one": the columns it leaves have no two cards at
\* one position, even when no handler runs during the batch.
NoSharedPositionAfterCron == batch = {} => NoSharedPosition
=============================================================================
