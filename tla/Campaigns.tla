----------------------------- MODULE Campaigns -----------------------------
(***************************************************************************)
(* One marketing campaign: its row in campaigns, its recipients, the       *)
(* BullMQ jobs that deliver to them, the workers that run the jobs, and    *)
(* the employees who edit, pause, resume or delete it.  Every statement on *)
(* the database and every call of the queue is a step.  A job whose worker *)
(* dies, throws or lets its lock expire is delivered again, up to          *)
(* MaxDeliveries times.                                                    *)
(***************************************************************************)
EXTENDS Integers, Sequences, FiniteSets

Seqs == INSTANCE SequencesExt

CONSTANTS
    Users,          \* users the filters of the campaign select
    Splits,         \* A/B configurations: sequences of percentages
    Workers,        \* worker processes; the queue knows no bound on them
    Edits,          \* what employees make of the status with update
    MaxDeliveries   \* bound: deliveries of one job (attempts is 3)

ASSUME SplitsAssumption == Splits \subseteq Seq(0 .. 100)
ASSUME EditsAssumption == Edits \subseteq {"queued", "scheduled", "paused", "canceled"}
ASSUME DeliveriesAssumption == MaxDeliveries \in Nat \ {0}

VARIABLES
    campaign,   \* campaigns.status: absent, queued, ..., completed, removed
    recipient,  \* campaign_recipient.status of each user: none, pending, ...
    job,        \* its job: none, unborn, waiting (or delayed), active, gone
    tries,      \* how often the job was delivered
    worker,     \* what each worker is doing, for whom, what it counted
    edit,       \* status the open transaction of update will write, or none
    pausing,    \* pauseCampaign is between its UPDATE and the queue
    messages    \* messages Telegram was asked to deliver to each user

vars == <<campaign, recipient, job, tries, worker, edit, pausing, messages>>

Idle == [at |-> "idle"]

Rows(s) == {u \in Users : recipient[u] \in s}

Remaining == Rows({"pending", "processing"})

\* prepareAbTest: what the variants leave of 100 % is a variant of its own.
Variants(split) ==
    LET total == Seqs!FoldLeft(+, 0, split)
    IN  IF total < 100 THEN Append(split, 100 - total) ELSE split

\* insertRecipients: a variant gets floor(n * percentage / 100) users.
Selected(split) ==
    IF split = <<>> THEN Cardinality(Users)
    ELSE Seqs!FoldLeft(LAMBDA sum, p : sum + (Cardinality(Users) * p) \div 100, 0, Variants(split))

Init ==
    /\ campaign = "absent"
    /\ recipient = [u \in Users |-> "none"]
    /\ job = [u \in Users |-> "none"]
    /\ tries = [u \in Users |-> 0]
    /\ worker = [w \in Workers |-> Idle]
    /\ edit = "none"
    /\ pausing = FALSE
    /\ messages = [u \in Users |-> 0]

(***************************************************************************)
(* Employees.                                                              *)
(***************************************************************************)
\* create: the transaction writes the campaign and its recipients.
Create ==
    /\ campaign = "absent"
    /\ \E split \in Splits, chosen \in SUBSET Users :
        /\ Seqs!FoldLeft(+, 0, split) <= 100
        /\ Cardinality(chosen) = Selected(split)
        /\ campaign' \in {"queued", "scheduled"}
        /\ recipient' = [u \in Users |-> IF u \in chosen THEN "pending" ELSE "none"]
        /\ job' = [u \in Users |-> IF u \in chosen THEN "unborn" ELSE "none"]
    /\ UNCHANGED <<tries, worker, edit, pausing, messages>>

\* enqueueRecipients after the commit: one job per recipient, all at once.
\* The delay of a scheduled campaign is time the job waits to be fetched.
Enqueue ==
    /\ campaign # "removed"
    /\ \E u \in Users : job[u] = "unborn"
    /\ job' = [u \in Users |-> IF job[u] = "unborn" THEN "waiting" ELSE job[u]]
    /\ UNCHANGED <<campaign, recipient, tries, worker, edit, pausing, messages>>

\* The API process dies, or Redis refuses addBulk, between the two.
EnqueueFails ==
    /\ \E u \in Users : job[u] = "unborn"
    /\ job' = [u \in Users |-> IF job[u] = "unborn" THEN "gone" ELSE job[u]]
    /\ UNCHANGED <<campaign, recipient, tries, worker, edit, pausing, messages>>

\* The transaction of update reads the campaign without locking it ...
UpdateReads ==
    /\ edit = "none"
    /\ campaign \in {"queued", "scheduled"}
    /\ edit' \in Edits
    /\ UNCHANGED <<campaign, recipient, job, tries, worker, pausing, messages>>

\* ... and writes what it computed, whatever the status is by then.
UpdateWrites ==
    /\ edit # "none"
    /\ edit' = "none"
    /\ campaign' = IF campaign = "removed" THEN campaign ELSE edit
    /\ UNCHANGED <<recipient, job, tries, worker, pausing, messages>>

\* pauseCampaign: the status first, whatever it was ...
Pause ==
    /\ campaign \notin {"absent", "removed"}
    /\ ~pausing
    /\ campaign' = "paused"
    /\ pausing' = TRUE
    /\ UNCHANGED <<recipient, job, tries, worker, edit, messages>>

\* ... then the jobs.  A job some worker holds cannot be removed: the call
\* fails and only the chunks before and with it are worked off.
PauseRemovesJobs ==
    /\ pausing
    /\ pausing' = FALSE
    /\ LET queued == {u \in Users : job[u] = "waiting"}
           held   == {u \in Users : job[u] = "active"}
       IN  \E removed \in SUBSET queued :
             /\ held = {} => removed = queued
             /\ job' = [u \in Users |-> IF u \in removed THEN "gone" ELSE job[u]]
    /\ UNCHANGED <<campaign, recipient, tries, worker, edit, messages>>

\* resumeCampaign: enqueueRecipients without recipients enqueues nothing.
Resume ==
    /\ campaign \notin {"absent", "removed"}
    /\ campaign' = "sending"
    /\ UNCHANGED <<recipient, job, tries, worker, edit, pausing, messages>>

\* remove: ON DELETE CASCADE takes the recipients, nothing takes the jobs.
RemoveCampaign ==
    /\ campaign \notin {"absent", "removed"}
    /\ campaign' = "removed"
    /\ recipient' = [u \in Users |-> "none"]
    /\ UNCHANGED <<job, tries, worker, edit, pausing, messages>>

(***************************************************************************)
(* The queue.                                                              *)
(***************************************************************************)
Fetch(w, u) ==
    /\ worker[w] = Idle
    /\ job[u] = "waiting"
    /\ job' = [job EXCEPT ![u] = "active"]
    /\ tries' = [tries EXCEPT ![u] = @ + 1]
    /\ worker' = [worker EXCEPT ![w] = [at |-> "read", user |-> u, try |-> tries[u] + 1]]
    /\ UNCHANGED <<campaign, recipient, edit, pausing, messages>>

\* The lock of w's job expires: the job waits again, or fails for good, and w
\* goes on not knowing.
Stall(w) ==
    /\ worker[w] # Idle
    /\ LET u == worker[w].user
       IN  /\ job[u] = "active"
           /\ tries[u] = worker[w].try
           /\ job' = [job EXCEPT ![u] = IF tries[u] < MaxDeliveries THEN "waiting" ELSE "gone"]
    /\ UNCHANGED <<campaign, recipient, tries, worker, edit, pausing, messages>>

\* What becomes of the job when w returns from process: a job delivered again
\* is no longer w's.
Finish(w) ==
    /\ worker' = [worker EXCEPT ![w] = Idle]
    /\ LET u == worker[w].user
       IN  job' = IF tries[u] = worker[w].try /\ job[u] = "active"
                  THEN [job EXCEPT ![u] = "gone"] ELSE job

\* Mutant of Abandon: the attempts of a job are not limited.
AbandonForEver(w) ==
    /\ worker[w] # Idle
    /\ worker' = [worker EXCEPT ![w] = Idle]
    /\ LET u == worker[w].user
       IN  job' = IF tries[u] = worker[w].try /\ job[u] = "active"
                  THEN [job EXCEPT ![u] = "waiting"]
                  ELSE job
    /\ UNCHANGED <<campaign, recipient, tries, edit, pausing, messages>>

\* Mutant of Abandon: what was in hand becomes pending again.
AbandonUnclaiming(w) ==
    /\ worker[w] # Idle
    /\ worker' = [worker EXCEPT ![w] = Idle]
    /\ LET u == worker[w].user
       IN  /\ job' = IF tries[u] = worker[w].try /\ job[u] = "active"
                     THEN [job EXCEPT ![u] = IF tries[u] < MaxDeliveries THEN "waiting" ELSE "gone"]
                     ELSE job
           /\ recipient' = [recipient EXCEPT ![u] = IF @ = "processing" THEN "pending" ELSE @]
    /\ UNCHANGED <<campaign, tries, edit, pausing, messages>>

\* w dies or its database call throws.
Abandon(w) ==
    /\ worker[w] # Idle
    /\ worker' = [worker EXCEPT ![w] = Idle]
    /\ LET u == worker[w].user
       IN  job' = IF tries[u] = worker[w].try /\ job[u] = "active"
                  THEN [job EXCEPT ![u] = IF tries[u] < MaxDeliveries THEN "waiting" ELSE "gone"]
                  ELSE job
    /\ UNCHANGED <<campaign, recipient, tries, edit, pausing, messages>>

(***************************************************************************)
(* CampaignsJobHandler.process.                                            *)
(***************************************************************************)
Goto(w, place) == worker' = [worker EXCEPT ![w].at = place]

\* A campaign that is gone, paused, canceled or failed: the job is consumed.
ReadCampaign(w) ==
    /\ worker[w].at = "read"
    /\ IF campaign \in {"removed", "paused", "canceled", "failed"} THEN Finish(w)
       ELSE Goto(w, "claim") /\ UNCHANGED job
    /\ UNCHANGED <<campaign, recipient, tries, edit, pausing, messages>>

\* Mutant of Claim: a recipient another worker has in hand is claimed again.
ClaimUnsettled(w) ==
    /\ worker[w].at = "claim"
    /\ campaign' = IF campaign = "queued" THEN "sending" ELSE campaign
    /\ LET u == worker[w].user
       IN  IF recipient[u] \in {"pending", "processing"}
           THEN /\ recipient' = [recipient EXCEPT ![u] = "processing"]
                /\ Goto(w, "send")
                /\ UNCHANGED job
           ELSE Finish(w) /\ UNCHANGED recipient
    /\ UNCHANGED <<tries, edit, pausing, messages>>

\* A queued campaign becomes sending, a pending recipient processing: two
\* statements on two tables, in one step.
Claim(w) ==
    /\ worker[w].at = "claim"
    /\ campaign' = IF campaign = "queued" THEN "sending" ELSE campaign
    /\ LET u == worker[w].user
       IN  IF recipient[u] = "pending"
           THEN /\ recipient' = [recipient EXCEPT ![u] = "processing"]
                /\ Goto(w, "send")
                /\ UNCHANGED job
           ELSE Finish(w) /\ UNCHANGED recipient
    /\ UNCHANGED <<tries, edit, pausing, messages>>

\* TelegramService.sendMessage; it never throws, so the recipient counts as
\* sent whatever Telegram answered.
Send(w) ==
    /\ worker[w].at = "send"
    /\ messages' = [messages EXCEPT ![worker[w].user] = @ + 1]
    /\ Goto(w, "sent")
    /\ UNCHANGED <<campaign, recipient, job, tries, edit, pausing>>

\* Mutant of CannotSend: no completion check after it.
CannotSendSilently(w) ==
    /\ worker[w].at = "send"
    /\ LET u == worker[w].user
       IN  recipient' = [recipient EXCEPT ![u] = IF @ = "none" THEN @ ELSE "failed"]
    /\ Finish(w)
    /\ UNCHANGED <<campaign, tries, edit, pausing, messages>>

\* No such user or template, or no chat: markAsFailedNoTrx instead.
CannotSend(w) ==
    /\ worker[w].at = "send"
    /\ LET u == worker[w].user
       IN  recipient' = [recipient EXCEPT ![u] = IF @ = "none" THEN @ ELSE "failed"]
    /\ Goto(w, "count")
    /\ UNCHANGED <<campaign, job, tries, edit, pausing, messages>>

\* The UPDATE to sent has no condition on the status; a row deleted meanwhile
\* is not there to be updated.
Record(w) ==
    /\ worker[w].at = "sent"
    /\ LET u == worker[w].user
       IN  recipient' = [recipient EXCEPT ![u] = IF @ = "none" THEN @ ELSE "sent"]
    /\ Goto(w, "count")
    /\ UNCHANGED <<campaign, job, tries, edit, pausing, messages>>

\* Mutant of CountRemaining: recipients in other workers' hands do not count.
CountPending(w) ==
    /\ worker[w].at = "count"
    /\ Goto(w, IF Rows({"pending"}) = {} THEN "complete" ELSE "continue")
    /\ UNCHANGED <<campaign, recipient, job, tries, edit, pausing, messages>>

\* checkCampaignCompletionSafe counts ...
CountRemaining(w) ==
    /\ worker[w].at = "count"
    /\ Goto(w, IF Remaining = {} THEN "complete" ELSE "continue")
    /\ UNCHANGED <<campaign, recipient, job, tries, edit, pausing, messages>>

\* ... and then writes, whatever the status is by then.
Close(w) ==
    /\ worker[w].at \in {"complete", "continue"}
    /\ campaign' = IF campaign = "removed" THEN campaign
                   ELSE IF worker[w].at = "complete" THEN "completed"
                   ELSE IF campaign \in {"queued", "scheduled"} THEN "sending"
                   ELSE campaign
    /\ Finish(w)
    /\ UNCHANGED <<recipient, tries, edit, pausing, messages>>

Process(w) ==
    \/ ReadCampaign(w) \/ Claim(w) \/ Send(w) \/ CannotSend(w)
    \/ Record(w) \/ CountRemaining(w) \/ Close(w)

Next ==
    \/ Create \/ Enqueue \/ EnqueueFails
    \/ UpdateReads \/ UpdateWrites \/ Pause \/ PauseRemovesJobs \/ Resume \/ RemoveCampaign
    \/ \E w \in Workers, u \in Users : Fetch(w, u)
    \/ \E w \in Workers : Stall(w) \/ Abandon(w) \/ Process(w)

Spec == Init /\ [][Next]_vars

\* A worker that runs goes on with its job, a free worker takes a waiting job
\* (BullMQ's blocking fetch; delays elapse), and an accepted create call reaches
\* the queue.
FairSpec ==
    /\ Spec
    /\ WF_vars(Enqueue)
    /\ \A u \in Users : WF_vars(\E w \in Workers : Fetch(w, u))
    /\ \A w \in Workers : WF_vars(Process(w))

(***************************************************************************)
(* Properties.                                                             *)
(***************************************************************************)
Places == {"read", "claim", "send", "sent", "count", "complete", "continue"}

TypeOK ==
    /\ campaign \in {"absent", "queued", "scheduled", "sending", "paused", "completed",
                     "failed", "canceled", "removed"}
    /\ recipient \in [Users -> {"none", "pending", "processing", "sent", "failed"}]
    /\ job \in [Users -> {"none", "unborn", "waiting", "active", "gone"}]
    /\ tries \in [Users -> 0 .. MaxDeliveries]
    /\ worker \in [Workers ->
                    {Idle} \cup [at : Places, user : Users, try : 1 .. MaxDeliveries]]
    /\ edit \in Edits \cup {"none"}
    /\ pausing \in BOOLEAN
    /\ messages \in [Users -> Nat]

\* A customer gets at most one message of a campaign, however often the job is
\* delivered, to however many workers at a time.
OneMessage == \A u \in Users : messages[u] <= 1

\* What the recipient row says of the message is true as far as it goes: none
\* was sent while it says pending or failed, one was when it says sent.
RowTellsTheTruth ==
    \A u \in Users : /\ recipient[u] \in {"pending", "failed"} => messages[u] = 0
                     /\ recipient[u] = "sent" => messages[u] = 1

\* A campaign is never completed while a recipient is waiting or in a worker's
\* hands, although the count and the write are two statements.
CompletedMeansSettled == campaign = "completed" => Remaining = {}

\* Some recipient is open, its job is gone and no worker has it.
Stranded ==
    \E u \in Remaining :
        job[u] = "gone" /\ \A w \in Workers : worker[w] = Idle \/ worker[w].user # u

\* A job was taken back from a worker that had it.
TakenBack == \E u \in Users : tries[u] > 1 \/ (tries[u] = 1 /\ job[u] = "waiting")

\* A campaign with recipients completes, unless a recipient loses its job or
\* some job has to be delivered twice.
CompletesUndisturbed ==
    /\ [](~Stranded /\ ~TakenBack)
    /\ <>(Rows({"pending"}) # {})
    => <>(campaign \in {"completed", "removed"})

=============================================================================
