---------------------------- MODULE ColumnOrder ----------------------------
(***************************************************************************)
(* The UPDATE statements by which the repair-order service keeps the       *)
(* "sort" column of a Kanban column.  Each operator takes the positions    *)
(* srt of all rows, the rows col that the WHERE clause of the statement    *)
(* selects by branch_id, status_id and status = 'Open', and the position   *)
(* k the caller read; it returns the positions after the statement.  The   *)
(* k of a caller may be stale: nothing here assumes it is still srt[o].    *)
(***************************************************************************)
EXTENDS Integers

\* Mutant of CloseGap: the comparison with k is forgotten.
CloseGapOfAll(srt, col, k) ==
    [p \in DOMAIN srt |-> IF p \in col THEN srt[p] - 1 ELSE srt[p]]

\* .andWhere('sort', '>', k).decrement('sort', 1)
CloseGap(srt, col, k) ==
    [p \in DOMAIN srt |-> IF p \in col /\ srt[p] > k THEN srt[p] - 1 ELSE srt[p]]

\* .andWhere('sort', '>=', k).increment('sort', 1)
OpenSlot(srt, col, k) ==
    [p \in DOMAIN srt |-> IF p \in col /\ srt[p] >= k THEN srt[p] + 1 ELSE srt[p]]

\* Mutant of ShiftAbove: the branch and status of the WHERE clause are forgotten.
ShiftAboveInAllColumns(srt, col, k) ==
    [p \in DOMAIN srt |-> IF srt[p] < k THEN srt[p] + 1 ELSE srt[p]]

\* .andWhere('sort', '<', k).increment('sort', 1)
ShiftAbove(srt, col, k) ==
    [p \in DOMAIN srt |-> IF p \in col /\ srt[p] < k THEN srt[p] + 1 ELSE srt[p]]

\* Mutant of Slide: the row at the new position is left where it is.
SlideOffByOne(srt, col, k, new) ==
    [p \in DOMAIN srt |->
        CASE p \in col /\ new < srt[p] /\ srt[p] < k -> srt[p] + 1
          [] p \in col /\ k < srt[p] /\ srt[p] < new -> srt[p] - 1
          [] OTHER -> srt[p]]

\* handleSameStatusReordering: the rows between the old and the new position
\* step towards the old one.
Slide(srt, col, k, new) ==
    [p \in DOMAIN srt |->
        CASE p \in col /\ new <= srt[p] /\ srt[p] < k -> srt[p] + 1
          [] p \in col /\ k < srt[p] /\ srt[p] <= new -> srt[p] - 1
          [] OTHER -> srt[p]]

\* Mutant of MoveToTop: the rows above are not shifted.
MoveToTopUnshifted(srt, col, o, k) == [srt EXCEPT ![o] = 1]

\* moveToTop(trx, order): nothing when the row read says position 1, otherwise
\* shift what is above it and give it position 1.
MoveToTop(srt, col, o, k) ==
    IF k = 1 THEN srt ELSE [ShiftAbove(srt, col, k) EXCEPT ![o] = 1]

\* A row inserted or re-homed with sort = last, then moved to the top of col.
ArriveAtTop(srt, col, o, last) ==
    MoveToTop([srt EXCEPT ![o] = last], col, o, last)

(***************************************************************************)
(* What the positions of a column are for.                                 *)
(***************************************************************************)
\* No two rows of the column claim the same place.
NoSharedPlace(srt, col) == \A p, q \in col : srt[p] = srt[q] => p = q

\* The places are 1, 2, ..., n: every row below the first has one just above.
Contiguous(srt, col) ==
    \A p \in col : /\ srt[p] >= 1
                   /\ srt[p] > 1 => \E q \in col : srt[q] = srt[p] - 1

\* o comes before every other row of the column.
IsFirst(srt, col, o) == \A p \in col \ {o} : srt[o] < srt[p]
=============================================================================
