---------------------------- MODULE OrderComments ----------------------------
(***************************************************************************)
(* The comments a repair order gets from its change history.  A handler    *)
(* inserts a history row for what it changed and then a comment on it, in  *)
(* its transaction or, for attachments, in none; a script run when the     *)
(* program is deployed comments the rows that have none, batch by batch.   *)
(* A comment carries the status the order had at the time of the change.   *)
(***************************************************************************)
EXTENDS Integers, FiniteSets

CONSTANTS
    Statuses,   \* statuses the order may have
    RowIds,     \* identifiers of history rows, in the order of the database
    OldRows,    \* rows there may be that are older than the comments
    Editors,    \* handlers at work at the same time
    BatchSize,  \* rows the script reads at once
    LastTime,   \* bound: milliseconds
    MaxChanges, \* bound: handlers ever started
    NoStatus,   \* a row without a comment
    Nobody      \* the row is committed

ASSUME RowIdsAssumption ==
    /\ RowIds \subseteq Nat /\ IsFiniteSet(RowIds) /\ OldRows \subseteq SUBSET RowIds
    /\ BatchSize \in Nat \ {0} /\ {LastTime, MaxChanges} \subseteq Nat
ASSUME NoStatusAssumption == NoStatus \notin Statuses /\ Nobody \notin Editors

VARIABLES
    status,     \* the order's
    now,        \* milliseconds
    history,    \* history rows, by identifier
    comments,   \* status_by of each row's comment
    editor,     \* what each handler does
    changes,    \* handlers started so far
    script,     \* where the script is
    expected,   \* history: rows the script found without a comment when it started
    late        \* history: rows the script commented

commentVars == <<status, now, history, comments, editor, changes, script, expected, late>>

\* comments is the field of what employees write themselves: it is not commented.
RowFields == {"status_id", "other", "comments"}
NoRow == [field |-> "none"]
Resting == [kind |-> "rest", mine |-> {}]
NoScript == [step |-> "ended", batch |-> {}, after |-> <<>>]

\* during: the statuses the order had, or was being given, while the row was
\* being written.
HistoryRow(field, to, owner, during) ==
    [field |-> field, at |-> now, to |-> to, owner |-> owner, during |-> during]

Written == {id \in RowIds : history[id] # NoRow}
Seen(w) == {id \in Written : history[id].owner \in {w, Nobody}}

\* Rows of the time before there were comments, written in one millisecond.
CommentsInit ==
    /\ now = 0
    /\ \E first, second \in Statuses, old \in OldRows : \E fields \in [old -> RowFields] :
        /\ status = second
        /\ Cardinality({id \in old : fields[id] = "status_id"}) = IF first = second THEN 0 ELSE 1
        /\ history = [id \in RowIds |->
                IF id \in old THEN HistoryRow(fields[id], second, Nobody, {first, second}) ELSE NoRow]
    /\ comments = [id \in RowIds |-> NoStatus]
    /\ editor = [w \in Editors |-> Resting]
    /\ changes = 0
    /\ script = NoScript
    /\ expected = {} /\ late = {}

(***************************************************************************)
(* Which status a comment gets.                                            *)
(***************************************************************************)
Commentable(id) == history[id].field # "comments"

\* By creation time, then by identifier.
Precedes(r, s) == history[r].at < history[s].at \/ (history[r].at = history[s].at /\ r < s)

\* Mutant of resolveStatusBy: the status the order has now.
resolveStatusNow(id, visible, current) ==
    IF history[id].field = "status_id" THEN history[id].to ELSE current

\* A change of status tells its own; for another the last one recorded until
\* then is looked up, or else the order's own status is taken.
resolveStatusBy(id, visible, current) ==
    LET moves == {m \in visible :
                    history[m].field = "status_id" /\ history[m].at <= history[id].at}
    IN  CASE history[id].field = "status_id" -> history[id].to
          [] history[id].field # "status_id" /\ moves # {} ->
                history[CHOOSE m \in moves : \A n \in moves \ {m} : Precedes(n, m)].to
          [] OTHER -> current

(***************************************************************************)
(* Handlers.                                                               *)
(***************************************************************************)
\* move and update take the order from one status to another; the row of the
\* order is locked.
BeginMove(w, to) ==
    /\ editor[w] = Resting /\ to # status
    /\ \A v \in Editors : editor[v].kind # "move"
    /\ changes < MaxChanges /\ changes' = changes + 1
    /\ editor' = [editor EXCEPT ![w] =
            [kind |-> "move", to |-> to, during |-> {status, to}, mine |-> {}]]
    /\ UNCHANGED <<status, now, history, comments, script, expected, late>>

\* Others read the order's status at most, and lock nothing.
BeginChange(w, kind) ==
    /\ editor[w] = Resting
    /\ changes < MaxChanges /\ changes' = changes + 1
    /\ editor' = [editor EXCEPT ![w] =
            [kind |-> kind, to |-> status, during |-> {status}, mine |-> {}]]
    /\ UNCHANGED <<status, now, history, comments, script, expected, late>>

\* updateClientInfo and the other parts of an order.
UpdateClientInfo(w) == BeginChange(w, "change")

CreateComment(w) == BeginChange(w, "comment")

\* update and delete of a comment an employee wrote; those made from the
\* history can be neither edited nor deleted.
ReviseComment(w) ==
    /\ \E id \in Seen(Nobody) : history[id].field = "comments"
    /\ BeginChange(w, "comment")

\* The file and its row are written first, each by itself.
UploadAttachment(w) == BeginChange(w, "attach")
DeleteAttachment(w) == BeginChange(w, "attach")

UnderWay == {editor[v].to : v \in {u \in Editors : editor[u].kind = "move"}}

\* logIfChanged and logAction insert the row first.
LogChange(w, id, field) ==
    LET doing == editor[w]
    IN  /\ doing # Resting /\ id \notin Written
        /\ field \in CASE doing.kind = "move"    -> {"status_id", "other"}
                       [] doing.kind = "comment" -> {"comments"}
                       [] doing.kind \in {"change", "attach"} -> {"other"}
        /\ \A m \in doing.mine : doing.kind = "move" /\ history[m].field # field
        /\ history' = [history EXCEPT ![id] =
                HistoryRow(field, doing.to, IF doing.kind = "attach" THEN Nobody ELSE w,
                           doing.during \cup UnderWay)]
        /\ editor' = [editor EXCEPT ![w].mine = @ \cup {id}]
        /\ UNCHANGED <<status, now, comments, changes, script, expected, late>>

\* ensureCommentForHistory: then the comment, unless there is one.
CommentChange(w, id) ==
    /\ id \in editor[w].mine /\ Commentable(id) /\ comments[id] = NoStatus
    /\ comments' = [comments EXCEPT ![id] =
            resolveStatusBy(id, Seen(w), IF editor[w].kind = "move" THEN editor[w].to ELSE status)]
    /\ UNCHANGED <<status, now, history, editor, changes, script, expected, late>>

\* The rows of those still at work saw the order change.
Witness(rows, to) ==
    [id \in RowIds |-> IF \E v \in Editors : id \in editor[v].mine
                       THEN [rows[id] EXCEPT !.during = @ \cup {to}] ELSE rows[id]]

Commit(w) ==
    LET doing == editor[w]
        owned == [id \in RowIds |-> IF id \in doing.mine THEN [history[id] EXCEPT !.owner = Nobody]
                                    ELSE history[id]]
    IN  /\ doing.mine # {}
        /\ \A id \in doing.mine : Commentable(id) => comments[id] # NoStatus
        /\ doing.kind = "move" => \E id \in doing.mine : history[id].field = "status_id"
        /\ status' = IF doing.kind = "move" THEN doing.to ELSE status
        /\ history' = IF doing.kind = "move" THEN Witness(owned, doing.to) ELSE owned
        /\ editor' = [v \in Editors |->
                CASE v = w -> Resting
                  [] v # w /\ editor[v] # Resting -> [editor[v] EXCEPT !.during = @ \cup {status'}]
                  [] OTHER -> Resting]
        /\ UNCHANGED <<now, comments, changes, script, expected, late>>

\* The handler fails or its process stops: what no transaction holds remains.
Abandon(w) ==
    /\ editor[w] # Resting
    /\ LET undone == {id \in editor[w].mine : history[id].owner = w}
       IN  /\ history' = [id \in RowIds |-> IF id \in undone THEN NoRow ELSE history[id]]
           /\ comments' = [id \in RowIds |-> IF id \in undone THEN NoStatus ELSE comments[id]]
    /\ editor' = [editor EXCEPT ![w] = Resting]
    /\ UNCHANGED <<status, now, changes, script, expected, late>>

Tick ==
    /\ now < LastTime /\ now' = now + 1
    /\ UNCHANGED <<status, history, comments, editor, changes, script, expected, late>>

(***************************************************************************)
(* The script: backfillMissingComments.                                    *)
(***************************************************************************)
Missing == {id \in Seen(Nobody) : comments[id] = NoStatus}

StartBackfill ==
    /\ script.step = "ended"
    /\ script' = [NoScript EXCEPT !.step = "fetch"]
    /\ expected' = {id \in Missing : Commentable(id)}
    /\ UNCHANGED <<status, now, history, comments, editor, changes, late>>

\* Mutant of Behind: rows of the same millisecond are behind.
BehindInTime(id, last) == last # <<>> => history[id].at > last[1]

\* Rows behind the last one of the batch before.
Behind(id, last) ==
    last # <<>> => history[id].at > last[1] \/ (history[id].at = last[1] /\ id > last[2])

\* fetchMissingHistoryRows: the first of them, at most a batch.
fetchMissingHistoryRows ==
    /\ script.step = "fetch"
    /\ LET rest  == {id \in Missing : Behind(id, script.after)}
           first == {id \in rest : Cardinality({r \in rest : Precedes(r, id)}) < BatchSize}
       IN  script' = IF first = {} THEN NoScript
                     ELSE [step |-> "fill", batch |-> first, after |-> script.after]
    /\ UNCHANGED <<status, now, history, comments, editor, changes, expected, late>>

\* One transaction; a batch that is not full is the last.
FillBatch ==
    /\ script.step = "fill"
    /\ LET todo == {id \in script.batch : comments[id] = NoStatus /\ Commentable(id)}
           last == CHOOSE id \in script.batch : \A r \in script.batch \ {id} : Precedes(r, id)
       IN  /\ comments' = [id \in RowIds |->
                IF id \in todo THEN resolveStatusBy(id, Seen(Nobody), status) ELSE comments[id]]
           /\ late' = late \cup todo
           /\ script' = IF Cardinality(script.batch) < BatchSize THEN NoScript
                        ELSE [step |-> "fetch", batch |-> {}, after |-> <<history[last].at, last>>]
    /\ UNCHANGED <<status, now, history, editor, changes, expected>>

ScriptFails ==
    /\ script.step # "ended"
    /\ script' = NoScript /\ expected' = {}
    /\ UNCHANGED <<status, now, history, comments, editor, changes, late>>

CommentsNext ==
    \/ \E w \in Editors :
        \/ \E to \in Statuses : BeginMove(w, to)
        \/ UpdateClientInfo(w)
        \/ CreateComment(w) \/ ReviseComment(w)
        \/ UploadAttachment(w) \/ DeleteAttachment(w)
        \/ \E id \in RowIds, field \in RowFields : LogChange(w, id, field)
        \/ \E id \in RowIds : CommentChange(w, id)
        \/ Commit(w)
        \/ Abandon(w)
    \/ Tick
    \/ StartBackfill
    \/ fetchMissingHistoryRows
    \/ FillBatch
    \/ ScriptFails

CommentsSpec == CommentsInit /\ [][CommentsNext]_commentVars

(***************************************************************************)
(* What must hold.                                                         *)
(***************************************************************************)
\* Types: employees' own comments are not commented.
CommentsTypeOK ==
    /\ status \in Statuses /\ now \in 0 .. LastTime
    /\ \A id \in RowIds :
        /\ comments[id] \in Statuses \cup {NoStatus}
        /\ comments[id] # NoStatus => id \in Written /\ Commentable(id)
        /\ id \in Written => history[id].at \in 0 .. now
    /\ expected \cup late \cup script.batch \subseteq RowIds

\* A comment tells a status the order had, or was being given, while the change
\* it is about was made, however late it is written.  Excepted are comments the script wrote on
\* changes older than the first recorded status, for which it has only the
\* order's status now, and what was recorded in the same millisecond as a
\* change of status, or after two changes of status in one millisecond.
CommentTellsStatus ==
    LET moves(until) == {m \in Written :
                history[m].field = "status_id" /\ history[m].at <= until}
    IN  \A id \in RowIds : comments[id] # NoStatus =>
            \/ comments[id] \in history[id].during
            \/ id \in late /\ moves(history[id].at) = {}
            \/ \E m \in moves(history[id].at) :
                  \/ history[m].at = history[id].at /\ comments[id] = history[m].to
                  \/ \E n \in moves(history[id].at) \ {m} : history[m].at = history[n].at

\* When the script ends, every row it could comment when it started has its
\* comment, whatever else was written meanwhile.
BackfillComplete ==
    script.step = "ended" => \A id \in expected : comments[id] # NoStatus

=============================================================================
