---------------------------- MODULE HistoryGraph ----------------------------
(***************************************************************************)
(* The chain and the graph of history events.  A transaction records one   *)
(* or more events; each is hashed with the hash of the event that occurred *)
(* last, has nodes for itself, who acted, what was affected, what changed  *)
(* and what it was changed with, and edges between them.  A change becomes *)
(* the current value of a fact, or forgets it.  Administrators ask where a *)
(* current value comes from and what happened to a row.                    *)
(***************************************************************************)
EXTENDS Naturals, FiniteSets, Sequences

CONSTANTS
    Facts,       \* fields of rows
    NoFact,      \* an event may change none
    EventIds,    \* events: numbered as they are inserted
    Recorders,   \* transactions open at a time
    LastMoment   \* bound of the clock, in milliseconds

ASSUME GraphAssumption == NoFact \notin Facts /\ EventIds \subseteq Nat \ {0} /\ LastMoment \in Nat

NoEvent == 0

VARIABLES
    event,     \* history_events with their changes
    value,     \* current values: the last change and all since it has a row
    recorder,  \* what each transaction is doing
    settled,   \* history: events in the order of their commit
    moment     \* the clock

graphVars == <<event, value, recorder, settled, moment>>

NotRecorded == [state |-> "absent", fact |-> NoFact, forgets |-> FALSE, acted |-> FALSE,
                at |-> 0, began |-> 0, prev |-> NoEvent, seen |-> {}]
NoValueRow == [change |-> NoEvent, since |-> {}]
Aside == [pc |-> "rest", began |-> 0, prev |-> NoEvent, seen |-> {}, own |-> << >>,
          held |-> {}, view |-> [f \in Facts |-> NoValueRow]]

GraphInit ==
    /\ event = [e \in EventIds |-> NotRecorded]
    /\ value = [f \in Facts |-> NoValueRow]
    /\ recorder = [w \in Recorders |-> Aside]
    /\ settled = << >>
    /\ moment = 0

CommittedEvents == {e \in EventIds : event[e].state = "committed"}
Own(w) == {recorder[w].own[i] : i \in DOMAIN recorder[w].own}

Turn(w, work) == recorder' = [recorder EXCEPT ![w] = work]

(***************************************************************************)
(* Recording: createEvent, within the transaction of the handler.          *)
(***************************************************************************)
OpenTransaction(w) ==
    /\ recorder[w].pc = "rest" /\ \E e \in EventIds : event[e] = NotRecorded
    /\ Turn(w, [Aside EXCEPT !.pc = "ready", !.began = moment])
    /\ UNCHANGED <<event, value, settled, moment>>

\* Mutant of LastOccurred: the event that occurred first.
FirstOccurred(S) ==
    {e \in S : \A f \in S : event[e].at <= event[f].at}

\* By occurred_at and then created_at, which is when its transaction began;
\* between equals the database chooses.
LastOccurred(S) ==
    {e \in S : \A f \in S :
        \/ event[f].at < event[e].at
        \/ event[f].at = event[e].at /\ event[f].began <= event[e].began}

FindPrevious(w) ==
    /\ recorder[w].pc = "ready"
    /\ LET visible == CommittedEvents \cup Own(w)
       IN  \E prev \in IF visible = {} THEN {NoEvent} ELSE LastOccurred(visible) :
               Turn(w, [recorder[w] EXCEPT !.pc = "chaining", !.prev = prev, !.seen = visible])
    /\ UNCHANGED <<event, value, settled, moment>>

\* The event, its actor, what it affects, and its change, with their nodes and
\* edges (below); forgets: the change deletes or unlinks.
InsertEvent(w, fact, forgets, acted) ==
    /\ recorder[w].pc = "chaining"
    /\ \E e \in EventIds :
        /\ event[e] = NotRecorded
        /\ \A d \in EventIds : d < e => event[d] # NotRecorded
        /\ event' = [event EXCEPT ![e] =
                [state |-> "open", fact |-> fact, forgets |-> forgets, acted |-> acted,
                 at |-> moment, began |-> recorder[w].began,
                 prev |-> recorder[w].prev, seen |-> recorder[w].seen]]
        /\ Turn(w, [recorder[w] EXCEPT !.own = Append(@, e), !.prev = NoEvent, !.seen = {},
                        !.pc = IF fact = NoFact THEN "ready" ELSE "changing"])
    /\ UNCHANGED <<value, settled, moment>>

Holds(w, f) == f \in recorder[w].held
ValueSeen(w, f) == IF Holds(w, f) THEN recorder[w].view[f] ELSE value[f]
Free(w, f) == \A x \in Recorders \ {w} : ~Holds(x, f)

\* upsertCurrentValue: a change that deletes or unlinks deletes the current
\* value with its node and edges, where there is one; any other becomes it, and
\* an edge from the value's node to the change is added.
UpsertCurrentValue(w) ==
    /\ recorder[w].pc = "changing"
    /\ LET e == recorder[w].own[Len(recorder[w].own)]
           f == event[e].fact
       IN  IF event[e].forgets /\ ValueSeen(w, f) = NoValueRow
           THEN Turn(w, [recorder[w] EXCEPT !.pc = "ready"])
           ELSE /\ Free(w, f)
                /\ Turn(w, [recorder[w] EXCEPT !.pc = "ready", !.held = @ \cup {f},
                    !.view[f] = IF event[e].forgets THEN NoValueRow
                                ELSE [change |-> e, since |-> ValueSeen(w, f).since \cup {e}]])
    /\ UNCHANGED <<event, value, settled, moment>>

CommitEvents(w) ==
    /\ recorder[w].pc = "ready" /\ recorder[w].own # << >>
    /\ event' = [e \in EventIds |-> IF e \in Own(w) THEN [event[e] EXCEPT !.state = "committed"]
                                                    ELSE event[e]]
    /\ value' = [f \in Facts |-> ValueSeen(w, f)]
    /\ settled' = settled \o recorder[w].own
    /\ Turn(w, Aside)
    /\ UNCHANGED moment

RollBackEvents(w) ==
    /\ recorder[w].pc = "ready" /\ recorder[w].own # << >>
    /\ event' = [e \in EventIds |-> IF e \in Own(w) THEN [NotRecorded EXCEPT !.state = "gone"]
                                                    ELSE event[e]]
    /\ Turn(w, Aside)
    /\ UNCHANGED <<value, settled, moment>>

TimePasses ==
    /\ moment < LastMoment /\ moment' = moment + 1
    /\ UNCHANGED <<event, value, recorder, settled>>

GraphNext ==
    \/ \E w \in Recorders :
        \/ OpenTransaction(w)
        \/ FindPrevious(w)
        \/ \E f \in Facts, forgets \in BOOLEAN : InsertEvent(w, f, forgets, TRUE)
        \/ InsertEvent(w, NoFact, FALSE, FALSE)
        \/ UpsertCurrentValue(w)
        \/ CommitEvents(w)
        \/ RollBackEvents(w)
    \/ TimePasses

GraphSpec == GraphInit /\ [][GraphNext]_graphVars

(***************************************************************************)
(* The graph, and what is asked of it.                                     *)
(***************************************************************************)
\* Edges an event inserts.
EdgesOf(e) ==
    (IF event[e].acted THEN {<<<<"actor", e>>, <<"event", e>>>>} ELSE {})
    \cup (IF event[e].fact = NoFact
          THEN {<<<<"event", e>>, <<"input", e>>>>}
          ELSE {<<<<"event", e>>, <<"entity", e>>>>, <<<<"event", e>>, <<"change", e>>>>,
                <<<<"change", e>>, <<"entity", e>>>>})

EdgesOfValue(f) == {<<<<"value", f>>, <<"change", e>>>> : e \in value[f].since}

Edges == UNION ({EdgesOf(e) : e \in CommittedEvents} \cup {EdgesOfValue(f) : f \in Facts})

Ends(edges) == UNION {{x[1], x[2]} : x \in edges}

\* walkGraph: edges at nodes that are no further than depth, whichever way they
\* point.
walkGraph(start, depth) ==
    LET edges == Edges
        At(nodes) == {x \in edges : {x[1], x[2]} \cap nodes # {}}
        reach[n \in 0 .. depth] ==
            IF n = 0 THEN {start}
            ELSE LET near == reach[n - 1] IN near \cup Ends(At(near))
        far == reach[depth]
    IN  At(far)

\* getValueLineage: from the value's node, depth 1 to 8.
getValueLineage(f, depth) ==
    [producingChange |-> value[f].change, event |-> value[f].change,
     graph |-> walkGraph(<<"value", f>>, depth)]

\* getEntityTimeline: what may be first of the events of a row, in the order
\* they occurred, last first.
getEntityTimeline(f) ==
    LET told == {e \in CommittedEvents : event[e].fact = f}
    IN  {e \in told : \A d \in told : event[d].at <= event[e].at}

\* getEventDetail: the edges of the event, those of the value it became with
\* them.
getEventDetail(e) == EdgesOf(e) \cup {x \in UNION {EdgesOfValue(f) : f \in Facts} : x[2] = <<"change", e>>}

(***************************************************************************)
(* What must hold.                                                         *)
(***************************************************************************)
\* Types: events are chained to events inserted before them.
GraphTypeOK ==
    /\ \A e \in EventIds :
        /\ event[e].state \in {"absent", "open", "committed", "gone"}
        /\ event[e].fact \in Facts \cup {NoFact}
        /\ event[e].at \in 0 .. moment /\ event[e].prev \in EventIds \cup {NoEvent}
    /\ \A f \in Facts : value[f].change \in EventIds \cup {NoEvent}
    /\ {settled[i] : i \in DOMAIN settled} = CommittedEvents /\ Len(settled) = Cardinality(CommittedEvents)

\* The chain: a committed event names one that was committed, or was in the
\* same transaction; and two name the same one only when neither was there for
\* the other to see, or the one that was occurred in the same millisecond as the
\* one they name.
ForksAreRaces ==
    \A e, f \in CommittedEvents :
        /\ event[e].prev = NoEvent \/ event[e].prev \in CommittedEvents \cap event[e].seen
        /\ e # f /\ event[e].prev = event[f].prev /\ f \in event[e].seen =>
                event[e].prev # NoEvent /\ event[f].at = event[event[e].prev].at

CommitOf(e) == CHOOSE i \in DOMAIN settled : settled[i] = e

\* Where a value comes from: a change of that fact that was committed, after
\* which only what did not see it forgot the fact; the graph leads from it to
\* all changes since the value is there, their events, and who acted.
LineageTold ==
    \A f \in Facts :
        LET c == value[f].change
            of == {e \in CommittedEvents : event[e].fact = f}
        IN  /\ c = NoEvent => \A e \in of : ~event[e].forgets =>
                    \E d \in of : event[d].forgets /\ CommitOf(e) < CommitOf(d)
            /\ c # NoEvent =>
                /\ c \in of /\ ~event[c].forgets
                /\ \A e \in of : CommitOf(c) < CommitOf(e) => event[e].forgets /\ c \notin event[e].seen
                /\ UNION {getEventDetail(e) : e \in value[f].since} \subseteq getValueLineage(f, 3).graph
                /\ \A depth \in 1 .. 3 :
                    <<<<"event", c>>, <<"change", c>>>> \in getValueLineage(f, depth).graph

\* The timeline of a row begins with an event later than the one its value comes
\* from only when that one could not see it.
TimelineLeadsToValue ==
    \A f \in Facts : value[f].change # NoEvent =>
        \A e \in getEntityTimeline(f) :
            event[e].at > event[value[f].change].at => e \notin event[value[f].change].seen

HistoryChained == ForksAreRaces /\ LineageTold /\ TimelineLeadsToValue
=============================================================================
