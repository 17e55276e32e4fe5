------------------------------- MODULE History -------------------------------
(***************************************************************************)
(* What the change history says a field is now (history_current_values).   *)
(* Handlers read a row, write it, record the difference between what they  *)
(* read and what they wrote, and commit; a script fills in the fields of   *)
(* rows older than the history.  A relation - the roles or branches of an  *)
(* administrator, the parts of a problem, the administrators of a branch - *)
(* is recorded as one field with the last row that was linked.             *)
(***************************************************************************)
EXTENDS Integers, FiniteSets

CONSTANTS
    Entities,   \* identifiers of rows, used and unused
    Values,     \* contents of a field
    Linkable,   \* rows a relation may link
    NoValue,    \* nothing is recorded
    Writers,    \* handlers at work at the same time
    MaxWrites   \* bound: handlers ever started, and fields ever backfilled

ASSUME NoValueAssumption == NoValue \notin Values \cup Linkable
ASSUME MaxWritesAssumption == MaxWrites \in Nat

VARIABLES
    entity,     \* rows: state and content
    relation,   \* how its links are edited: all at once, or from both ends
    links,      \* the relation of one row
    recorded,   \* current values of the fields of each row
    latest,     \* current value of the relation
    writer,     \* what each handler read, wrote and recorded
    backlog,    \* what the script still has to write
    writes,     \* handlers started and fields backfilled so far
    surprised   \* history: current values that races and crashes left behind

historyVars == <<entity, relation, links, recorded, latest, writer, backlog, writes, surprised>>

Fields == {"state", "value"}
Unused == [state |-> "absent", value |-> NoValue]
NothingRecorded == [field \in Fields |-> NoValue]
AtRest == [step |-> "rest"]
OfLinks == <<NoValue, "links">>

HistoryInit ==
    /\ entity \in [Entities -> {Unused} \cup [state : {"Open"}, value : Values]]
    /\ relation \in {"replaced", "edited"}
    /\ links \in {{}, Linkable}
    /\ recorded = [e \in Entities |-> NothingRecorded]
    /\ latest = NoValue
    /\ writer = [w \in Writers |-> AtRest]
    /\ backlog = {}
    /\ writes = 0
    /\ surprised = {e \in Entities : entity[e] # Unused} \X Fields

\* What is in the hands of a transaction that has written, and of one that has
\* recorded: the database makes others wait for both.
Holding(w) == writer[w].step \in {"written", "recorded"}
HoldsRow(w, e) == Holding(w) /\ writer[w].kind = "row" /\ writer[w].id = e
HoldsRecord(w, e) == writer[w].step = "recorded" /\ writer[w].kind = "row" /\ writer[w].id = e

(***************************************************************************)
(* Checks: what the handler reads here it compares with later.             *)
(***************************************************************************)
Enter(w, work) ==
    /\ writer[w] = AtRest
    /\ writes < MaxWrites /\ writes' = writes + 1
    /\ writer' = [writer EXCEPT ![w] = work]
    /\ UNCHANGED <<entity, relation, links, recorded, latest, backlog, surprised>>

\* before is what the handler read; set is what it is about to write.
RowWork(of, e, before, set) ==
    [step |-> "checked", kind |-> "row", of |-> of, id |-> e, before |-> before, set |-> set,
     misled |-> FALSE, note |-> NothingRecorded]

CreateEntity(w, e, v) ==
    /\ entity[e] = Unused /\ \A q \in Writers : writer[q] # AtRest => writer[q].id # e
    /\ Enter(w, RowWork("create", e, Unused, [state |-> "Open", value |-> v]))

UpdateEntity(w, e, v) ==
    /\ entity[e].state = "Open"
    /\ Enter(w, RowWork("update", e, entity[e], [value |-> v]))

DeleteEntity(w, e) ==
    /\ entity[e].state = "Open"
    /\ Enter(w, RowWork("delete", e, entity[e], [state |-> "Deleted"]))

\* Handlers of accounts: the row is written by itself and recorded afterwards.
UpdateAccount(w, e, v) ==
    /\ entity[e].state # "absent"
    /\ Enter(w, RowWork("account", e, entity[e], [value |-> v]))

\* All links of the row are replaced, some are added, or some are removed.
LinkWork(of, before, set) ==
    [step |-> "checked", kind |-> "links", of |-> of, id |-> NoValue, before |-> before, set |-> set,
     misled |-> FALSE, gone |-> {}, last |-> NoValue, touched |-> FALSE]

ReplaceLinks(w, new) ==
    /\ relation = "replaced"
    /\ Enter(w, LinkWork("replace", links, new))

AssignLinks(w, new) ==
    /\ relation = "edited" /\ new # {} /\ new \cap links = {}
    /\ Enter(w, LinkWork("assign", links, new))

RemoveLinks(w, old) ==
    /\ relation = "edited" /\ old \cap links # {}
    /\ Enter(w, LinkWork("remove", links \cap old, {}))

\* The other end of the relation is updated: an administrator's branches.
\* What is recorded of it then is recorded of the other end.
LinkElsewhere(l) ==
    /\ relation = "edited"
    /\ \A q \in Writers : Holding(q) => writer[q].kind # "links"
    /\ writes < MaxWrites /\ writes' = writes + 1
    /\ links' = IF l \in links THEN links \ {l} ELSE links \cup {l}
    /\ surprised' = surprised \cup {OfLinks}
    /\ UNCHANGED <<entity, relation, recorded, latest, writer, backlog>>

(***************************************************************************)
(* Writing, recording, committing.                                         *)
(***************************************************************************)
Merged(e, set) ==
    [field \in Fields |-> IF field \in DOMAIN set THEN set[field] ELSE entity[e][field]]

Becomes(w, work) == writer' = [writer EXCEPT ![w] = work]

\* The row is written whatever became of it since it was read.
WriteRow(w) ==
    /\ writer[w].step = "checked" /\ writer[w].kind = "row"
    /\ \A q \in Writers : ~HoldsRow(q, writer[w].id)
    /\ LET work  == writer[w]
           stale == \E field \in DOMAIN work.set :
                        work.before[field] # entity[work.id][field]
       IN  IF work.of = "account"
           THEN /\ entity' = [entity EXCEPT ![work.id] = Merged(work.id, work.set)]
                /\ surprised' = surprised \cup ({work.id} \X DOMAIN work.set)
                /\ Becomes(w, [work EXCEPT !.step = "committed", !.misled = stale])
           ELSE /\ Becomes(w, [work EXCEPT !.step = "written", !.misled = stale])
                /\ UNCHANGED <<entity, surprised>>
    /\ UNCHANGED <<relation, links, recorded, latest, backlog, writes>>

\* The account's history is written in a transaction of its own.
OpenRecord(w) ==
    /\ writer[w].step = "committed"
    /\ \A q \in Writers : ~HoldsRecord(q, writer[w].id)
    /\ LET work  == writer[w]
           noted == {field \in DOMAIN work.set : work.before[field] # work.set[field]}
       IN  /\ recorded' = [recorded EXCEPT ![work.id] =
                    [field \in Fields |-> IF field \in noted THEN work.set[field] ELSE @[field]]]
           /\ surprised' = (surprised \ ({work.id} \X noted)) \cup
                    {<<work.id, field>> : field \in {x \in noted : work.set[x] # entity[work.id][x]}}
    /\ writer' = [writer EXCEPT ![w] = AtRest]
    /\ UNCHANGED <<entity, relation, links, latest, backlog, writes>>

\* buildEntityChanges: an update notes the fields that differ from what was
\* read; a creation notes every field and a deletion those it changes.
Noted(work) ==
    {field \in DOMAIN work.set : work.of = "update" => work.before[field] # work.set[field]}

\* Mutant of Record: the history is not part of the handler's transaction.
RecordApart(w) ==
    /\ writer[w].step = "written" /\ writer[w].kind = "row"
    /\ \A q \in Writers : ~HoldsRecord(q, writer[w].id)
    /\ LET work == writer[w]
           now(field) == IF work.of = "delete" THEN NoValue ELSE work.set[field]
       IN  /\ recorded' = [recorded EXCEPT ![work.id] =
                    [field \in Fields |-> IF field \in Noted(work) THEN now(field) ELSE @[field]]]
           /\ Becomes(w, [work EXCEPT !.step = "recorded", !.note = recorded'[work.id]])
    /\ UNCHANGED <<entity, relation, links, latest, backlog, writes, surprised>>

\* recordEntityCreated, recordEntityUpdated, recordEntityDeleted: an update
\* that changed nothing records nothing.  What was deleted has no current value.
Record(w) ==
    /\ writer[w].step = "written" /\ writer[w].kind = "row"
    /\ \A q \in Writers : ~HoldsRecord(q, writer[w].id)
    /\ LET work == writer[w]
           now(field) == IF work.of = "delete" THEN NoValue ELSE work.set[field]
       IN  Becomes(w, [work EXCEPT !.step = "recorded", !.note =
                [field \in Fields |->
                    IF field \in Noted(work) THEN now(field) ELSE recorded[work.id][field]]])
    /\ UNCHANGED <<entity, relation, links, recorded, latest, backlog, writes, surprised>>

CommitRow(w) ==
    /\ writer[w].step = "recorded" /\ writer[w].kind = "row"
    /\ LET work == writer[w]
       IN  /\ entity' = [entity EXCEPT ![work.id] = Merged(work.id, work.set)]
           /\ recorded' = [recorded EXCEPT ![work.id] = work.note]
           /\ surprised' = IF work.misled
                THEN surprised \cup ({work.id} \X (DOMAIN work.set \ Noted(work)))
                ELSE surprised \ ({work.id} \X Noted(work))
    /\ writer' = [writer EXCEPT ![w] = AtRest]
    /\ UNCHANGED <<relation, links, latest, backlog, writes>>

\* Links others are adding or removing are waited for; one that is there twice
\* is refused, and the handler starts over.
WriteLinks(w) ==
    /\ writer[w].step = "checked" /\ writer[w].kind = "links"
    /\ \A q \in Writers : Holding(q) /\ writer[q].kind = "links" =>
        (writer[q].set \cup writer[q].gone) \cap (links \cup writer[w].set) = {}
    /\ LET work == writer[w]
           gone == CASE work.of = "replace" -> links
                     [] work.of = "assign"  -> {}
                     [] work.of = "remove"  -> work.before \cap links
       IN  IF work.set \cap (links \ gone) # {}
           THEN writer' = [writer EXCEPT ![w] = AtRest]
           ELSE Becomes(w, [work EXCEPT !.step = "written", !.gone = gone,
                                !.misled = (work.of = "replace" /\ work.before # links)])
    /\ UNCHANGED <<entity, relation, links, recorded, latest, backlog, writes, surprised>>

NobodyRecordsLinks ==
    \A q \in Writers : writer[q].step = "recorded" /\ writer[q].kind = "links" => ~writer[q].touched

\* Mutant of RecordLinks: rows that were unlinked are not recorded.
RecordLinksOnly(w) ==
    /\ writer[w].step = "written" /\ writer[w].kind = "links"
    /\ LET added == writer[w].set \ writer[w].before
       IN  /\ added # {} => NobodyRecordsLinks
           /\ \E last \in IF added # {} THEN added ELSE {NoValue} :
                Becomes(w, [writer[w] EXCEPT !.step = "recorded", !.last = last,
                                             !.touched = (added # {})])
    /\ UNCHANGED <<entity, relation, links, recorded, latest, backlog, writes, surprised>>

\* recordRelationDiff: first what was linked, the last of which is remembered,
\* then what was unlinked, which forgets whatever is remembered; where nothing
\* is, there is nothing to wait for.
RecordLinks(w) ==
    /\ writer[w].step = "written" /\ writer[w].kind = "links"
    /\ LET work    == writer[w]
           added   == work.set \ work.before
           dropped == IF work.of = "assign" THEN {} ELSE work.before \ work.set
           touched == added # {} \/ (dropped # {} /\ latest # NoValue)
       IN  /\ touched => NobodyRecordsLinks
           /\ \E last \in IF dropped = {} /\ added # {} THEN added ELSE {NoValue} :
                Becomes(w, [work EXCEPT !.step = "recorded", !.last = last, !.touched = touched])
    /\ UNCHANGED <<entity, relation, links, recorded, latest, backlog, writes, surprised>>

CommitLinks(w) ==
    /\ writer[w].step = "recorded" /\ writer[w].kind = "links"
    /\ links' = (links \ writer[w].gone) \cup writer[w].set
    /\ latest' = IF writer[w].touched THEN writer[w].last ELSE latest
    /\ surprised' = IF writer[w].misled THEN surprised \cup {OfLinks}
                    ELSE IF latest' \in links' \cup {NoValue} THEN surprised \ {OfLinks}
                    ELSE surprised
    /\ writer' = [writer EXCEPT ![w] = AtRest]
    /\ UNCHANGED <<entity, relation, recorded, backlog, writes>>

\* The handler fails or its process stops: an open transaction is rolled back,
\* an account that was written stays so.
GiveUp(w) ==
    /\ writer[w] # AtRest
    /\ writer' = [writer EXCEPT ![w] = AtRest]
    /\ UNCHANGED <<entity, relation, links, recorded, latest, backlog, writes, surprised>>

(***************************************************************************)
(* The script that fills in what is missing.                               *)
(***************************************************************************)
\* One field of all rows is read at once.
ReadField(field) ==
    /\ backlog = {}
    /\ writes < MaxWrites /\ writes' = writes + 1
    /\ backlog' = {<<e, field, entity[e][field]>> : e \in {x \in Entities : entity[x] # Unused}}
    /\ UNCHANGED <<entity, relation, links, recorded, latest, writer, surprised>>

\* Row by row it becomes the current value, whatever was recorded meanwhile.
FillIn(item) ==
    /\ item \in backlog
    /\ \A w \in Writers : ~HoldsRecord(w, item[1])
    /\ backlog' = backlog \ {item}
    /\ recorded' = [recorded EXCEPT ![item[1]][item[2]] = item[3]]
    /\ surprised' = IF entity[item[1]][item[2]] = item[3] THEN surprised \ {<<item[1], item[2]>>}
                    ELSE surprised \cup {<<item[1], item[2]>>}
    /\ UNCHANGED <<entity, relation, links, latest, writer, writes>>

ScriptStops ==
    /\ backlog # {} /\ backlog' = {}
    /\ UNCHANGED <<entity, relation, links, recorded, latest, writer, writes, surprised>>

HistoryNext ==
    \/ \E w \in Writers, e \in Entities, v \in Values :
        \/ CreateEntity(w, e, v)
        \/ UpdateEntity(w, e, v)
        \/ UpdateAccount(w, e, v)
    \/ \E w \in Writers, e \in Entities : DeleteEntity(w, e)
    \/ \E w \in Writers, some \in SUBSET Linkable :
        \/ ReplaceLinks(w, some)
        \/ AssignLinks(w, some)
        \/ RemoveLinks(w, some)
    \/ \E l \in Linkable : LinkElsewhere(l)
    \/ \E w \in Writers :
        \/ WriteRow(w)
        \/ OpenRecord(w)
        \/ Record(w)
        \/ CommitRow(w)
        \/ WriteLinks(w)
        \/ RecordLinks(w)
        \/ CommitLinks(w)
        \/ GiveUp(w)
    \/ \E field \in Fields : ReadField(field)
    \/ \E item \in backlog : FillIn(item)
    \/ ScriptStops

HistorySpec == HistoryInit /\ [][HistoryNext]_historyVars

(***************************************************************************)
(* What must hold.                                                         *)
(***************************************************************************)
\* Types: nothing is recorded of a row that never was, and only what rows held.
HistoryTypeOK ==
    /\ \A e \in Entities :
        /\ entity[e].state \in {"absent", "Open", "Deleted"}
        /\ entity[e].value \in Values \cup {NoValue}
        /\ recorded[e].state \in {NoValue, "Open", "Deleted"}
        /\ recorded[e].value \in Values \cup {NoValue}
        /\ entity[e] = Unused => recorded[e] = NothingRecorded
    /\ links \subseteq Linkable /\ latest \in Linkable \cup {NoValue}
    /\ writes \in 0 .. MaxWrites

\* The current value of a field is what the row has, after any changes that
\* committed or were rolled back: the state of a deleted row is forgotten, or
\* given by the script.  Excepted are rows the history never saw, fields last
\* written by an update that had read an older row and so recorded nothing,
\* accounts written but not yet recorded, or recorded late, and fields the
\* script read before and wrote after they changed.
FieldsFollowRows ==
    \A e \in Entities, field \in Fields :
        entity[e] # Unused /\ <<e, field>> \notin surprised =>
            \/ recorded[e][field] = entity[e][field]
            \/ field = "state" /\ entity[e].state = "Deleted" /\ recorded[e].state = NoValue

\* The current value of a relation, where there is one, is a row it links;
\* unless a handler replaced links it had not read, or the other end of the
\* relation was edited.
LatestIsLinked == latest \in links \cup {NoValue} \/ OfLinks \in surprised

CurrentValuesTrue == FieldsFollowRows /\ LatestIsLinked

=============================================================================
