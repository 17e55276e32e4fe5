----------------------- MODULE RepairOrderBoardProofs -----------------------
(***************************************************************************)
(* Theorems about the board for every set of orders, branches, statuses    *)
(* and positions.                                                          *)
(***************************************************************************)
EXTENDS RepairOrderBoard, FiniteSetTheorems, TLAPS

(***************************************************************************)
(* What the shifts do to one row.                                          *)
(***************************************************************************)
LEMMA CloseGapAt ==
    ASSUME NEW S, NEW srt \in [S -> Int], NEW col, NEW k \in Int
    PROVE  /\ CloseGap(srt, col, k) \in [S -> Int]
           /\ \A p \in S : CloseGap(srt, col, k)[p] =
                IF p \in col /\ srt[p] > k THEN srt[p] - 1 ELSE srt[p]
BY DEF CloseGap

LEMMA OpenSlotAt ==
    ASSUME NEW S, NEW srt \in [S -> Int], NEW col, NEW k \in Int
    PROVE  /\ OpenSlot(srt, col, k) \in [S -> Int]
           /\ \A p \in S : OpenSlot(srt, col, k)[p] =
                IF p \in col /\ srt[p] >= k THEN srt[p] + 1 ELSE srt[p]
BY DEF OpenSlot

LEMMA SlideAt ==
    ASSUME NEW S, NEW srt \in [S -> Int], NEW col, NEW k \in Int, NEW new \in Int
    PROVE  /\ Slide(srt, col, k, new) \in [S -> Int]
           /\ \A p \in S : Slide(srt, col, k, new)[p] =
                IF p \in col /\ new <= srt[p] /\ srt[p] < k THEN srt[p] + 1
                ELSE IF p \in col /\ k < srt[p] /\ srt[p] <= new THEN srt[p] - 1
                ELSE srt[p]
BY DEF Slide

LEMMA MoveToTopAt ==
    ASSUME NEW S, NEW srt \in [S -> Int], NEW col, NEW k \in Int, NEW o \in S
    PROVE  /\ MoveToTop(srt, col, o, k) \in [S -> Int]
           /\ \A p \in S : MoveToTop(srt, col, o, k)[p] =
                IF k = 1 THEN srt[p]
                ELSE IF p = o THEN 1
                ELSE IF p \in col /\ srt[p] < k THEN srt[p] + 1
                ELSE srt[p]
BY DEF MoveToTop, ShiftAbove

LEMMA ArriveAtTopAt ==
    ASSUME NEW S, NEW srt \in [S -> Int], NEW col, NEW o \in S, NEW last \in Int,
           last > 1
    PROVE  /\ ArriveAtTop(srt, col, o, last) \in [S -> Int]
           /\ \A p \in S : ArriveAtTop(srt, col, o, last)[p] =
                IF p = o THEN 1
                ELSE IF p \in col /\ srt[p] < last THEN srt[p] + 1
                ELSE srt[p]
<1> DEFINE tmp == [srt EXCEPT ![o] = last]
<1>1. tmp \in [S -> Int]
  OBVIOUS
<1>2. ArriveAtTop(srt, col, o, last) = MoveToTop(tmp, col, o, last)
  BY DEF ArriveAtTop
<1>3. /\ MoveToTop(tmp, col, o, last) \in [S -> Int]
      /\ \A p \in S : MoveToTop(tmp, col, o, last)[p] =
            IF last = 1 THEN tmp[p]
            ELSE IF p = o THEN 1
            ELSE IF p \in col /\ tmp[p] < last THEN tmp[p] + 1
            ELSE tmp[p]
  <2> HIDE DEF tmp
  <2> QED
    BY <1>1, MoveToTopAt
<1>4. \A p \in S : tmp[p] = IF p = o THEN last ELSE srt[p]
  OBVIOUS
<1> HIDE DEF tmp
<1>5. ASSUME NEW p \in S
      PROVE  ArriveAtTop(srt, col, o, last)[p] =
                IF p = o THEN 1
                ELSE IF p \in col /\ srt[p] < last THEN srt[p] + 1
                ELSE srt[p]
  BY <1>2, <1>3, <1>4
<1> QED
  BY <1>2, <1>3, <1>5

(***************************************************************************)
(* Type correctness.                                                       *)
(***************************************************************************)
LEMMA ColumnIsOrders == \A b, s : Column(b, s) \subseteq Orders
BY DEF Column

LEMMA ArriveIsNat ==
    ASSUME NEW S, NEW srt \in [S -> Nat], NEW col, NEW o \in S, NEW last \in Nat,
           last > 1
    PROVE  ArriveAtTop(srt, col, o, last) \in [S -> Nat]
<1> DEFINE new == ArriveAtTop(srt, col, o, last)
<1>1. srt \in [S -> Int] /\ last \in Int
  OBVIOUS
<1>2. /\ new \in [S -> Int]
      /\ \A p \in S : new[p] = IF p = o THEN 1
                               ELSE IF p \in col /\ srt[p] < last THEN srt[p] + 1
                               ELSE srt[p]
  BY <1>1, ArriveAtTopAt
<1> HIDE DEF new
<1>3. \A p \in S : new[p] \in Nat
  BY <1>2
<1>4. new \in [S -> Nat]
  BY <1>2, <1>3
<1> QED
  BY <1>4 DEF new

LEMMA ShiftsAreNat ==
    ASSUME TypeOK, NEW o \in Orders, NEW c, NEW d
    PROVE  /\ CloseGap(sort, c, sort[o]) \in [Orders -> Nat]
           /\ ArriveAtTop(sort, d, o, Last) \in [Orders -> Nat]
           /\ ArriveAtTop(CloseGap(sort, c, sort[o]), d, o, Last) \in [Orders -> Nat]
           /\ MoveToTop(sort, c, o, sort[o]) \in [Orders -> Nat]
           /\ \A t \in Nat :
                /\ [OpenSlot(CloseGap(sort, c, sort[o]), d, t) EXCEPT ![o] = t]
                        \in [Orders -> Nat]
                /\ [Slide(sort, c, sort[o], t) EXCEPT ![o] = t] \in [Orders -> Nat]
<1>1. /\ sort \in [Orders -> Nat] /\ sort \in [Orders -> Int]
      /\ sort[o] \in Int /\ sort[o] >= 0 /\ Last \in Nat /\ Last > 1
  BY PositionAssumption DEF TypeOK
<1> DEFINE gap == CloseGap(sort, c, sort[o])
<1>2. gap \in [Orders -> Nat]
  BY <1>1, CloseGapAt
<1>3. \A srt \in [Orders -> Nat] : ArriveAtTop(srt, d, o, Last) \in [Orders -> Nat]
  <2> HIDE DEF gap
  <2> QED
    BY <1>1, ArriveIsNat
<1>4. MoveToTop(sort, c, o, sort[o]) \in [Orders -> Nat]
  BY <1>1, MoveToTopAt
<1>5. ASSUME NEW t \in Nat
      PROVE  [OpenSlot(gap, d, t) EXCEPT ![o] = t] \in [Orders -> Nat]
  <2> HIDE DEF gap
  <2>1. gap \in [Orders -> Int]
    BY <1>2
  <2>2. OpenSlot(gap, d, t) \in [Orders -> Nat]
    BY <1>2, <2>1, OpenSlotAt
  <2> QED
    BY <2>2
<1>6. ASSUME NEW t \in Nat
      PROVE  [Slide(sort, c, sort[o], t) EXCEPT ![o] = t] \in [Orders -> Nat]
  <2>1. Slide(sort, c, sort[o], t) \in [Orders -> Nat]
    BY <1>1, SlideAt
  <2> QED
    BY <2>1
<1> QED
  BY <1>1, <1>2, <1>3, <1>4, <1>5, <1>6

LEMMA SystemMoveTyped ==
    ASSUME TypeOK, NEW o \in Orders, NEW s \in Statuses, SystemMove(o, s)
    PROVE  status' \in [Orders -> Statuses] /\ sort' \in [Orders -> Nat]
BY ShiftsAreNat DEF TypeOK, SystemMove

LEMMA HandleTyped ==
    ASSUME TypeOK, NEW o \in Orders, Handle(o)
    PROVE  TypeOK'
<1> USE DEF TypeOK
<1>1. ASSUME NEW b \in Branches, NEW s \in Statuses, Insert(o, b, s)
      PROVE  TypeOK'
  BY <1>1, ShiftsAreNat DEF Insert
<1>2. CASE Create(o)
  BY <1>1, <1>2 DEF Create
<1>3. CASE CreateInMother(o)
  BY <1>1, <1>3 DEF CreateInMother, Branches
<1>4. CASE Update(o)
  BY <1>4, ShiftsAreNat DEF Update
<1>5. CASE MoveAcross(o)
  <2>1. PICK t \in Statuses, pos \in Positions :
           /\ status' = [status EXCEPT ![o] = t]
           /\ sort' = [OpenSlot(CloseGap(sort, Peers(o), sort[o]), Column(branch[o], t),
                                IF pos = 0 THEN 1 ELSE pos)
                          EXCEPT ![o] = IF pos = 0 THEN 1 ELSE pos]
    BY <1>5 DEF MoveAcross
  <2>2. (IF pos = 0 THEN 1 ELSE pos) \in Nat
    BY PositionAssumption
  <2>3. sort' \in [Orders -> Nat]
    BY <2>1, <2>2, ShiftsAreNat
  <2> QED
    BY <1>5, <2>1, <2>3 DEF MoveAcross
<1>6. CASE MoveWithin(o)
  <2>1. PICK pos \in Positions :
           sort' = [Slide(sort, Peers(o), sort[o], pos) EXCEPT ![o] = pos]
    BY <1>6 DEF MoveWithin
  <2>2. sort' \in [Orders -> Nat]
    BY <2>1, PositionAssumption, ShiftsAreNat
  <2> QED
    BY <1>6, <2>2 DEF MoveWithin
<1>7. CASE SoftDelete(o)
  BY <1>7, ShiftsAreNat DEF SoftDelete
<1>8. CASE TransferBranch(o)
  BY <1>8, ShiftsAreNat DEF TransferBranch, Branches
<1>9. CASE Take(o)
  <2>1. fromMother' \in [Orders -> BOOLEAN]
    BY <1>9 DEF Take
  <2>2. PICK b \in Children :
           /\ branch' = [branch EXCEPT ![o] = b]
           /\ sort' = ArriveAtTop(sort, Column(b, status[o]), o, Last)
    BY <1>9 DEF Take
  <2>3. branch' \in [Orders -> Branches] /\ sort' \in [Orders -> Nat]
    BY <2>2, ShiftsAreNat DEF Branches
  <2> QED
    BY <1>9, <2>1, <2>3 DEF Take
<1>10. CASE RestoreToMother(o)
  BY <1>10, ShiftsAreNat DEF RestoreToMother, Branches
<1>11. CASE CallOnOrder(o)
  BY <1>11, ShiftsAreNat DEF CallOnOrder
<1>12. CASE CallAnswered(o)
  BY <1>12, ShiftsAreNat DEF CallAnswered
<1>13. CASE RecordNoAnswer(o)
  BY <1>13 DEF RecordNoAnswer
<1>14. CASE InvalidateNoAnswer(o)
  BY <1>14, SystemMoveTyped DEF InvalidateNoAnswer, RequiredStatus
<1>15. CASE DueElapses(o)
  BY <1>15 DEF DueElapses
<1>16. CASE ForgetDue(o)
  BY <1>16 DEF ForgetDue
<1>17. CASE ProcessDue(o)
  BY <1>17, SystemMoveTyped DEF ProcessDue, RequiredStatus
<1> QED
  BY <1>2, <1>3, <1>4, <1>5, <1>6, <1>7, <1>8, <1>9, <1>10, <1>11, <1>12, <1>13,
     <1>14, <1>15, <1>16, <1>17 DEF Handle

\* Every reachable board is well typed: the handlers keep the columns of
\* repair_orders in their domains, and no shift makes a position negative.
THEOREM TypeCorrect == Spec => []TypeOK
<1>1. Init => TypeOK
  BY DEF Init, TypeOK, Branches
<1>2. TypeOK /\ [Next]_vars => TypeOK'
  <2>1. ASSUME TypeOK, Next PROVE TypeOK'
    BY <2>1, HandleTyped DEF Next
  <2>2. ASSUME TypeOK, UNCHANGED vars PROVE TypeOK'
    BY <2>2 DEF TypeOK, vars
  <2> QED
    BY <2>1, <2>2
<1> QED
  BY <1>1, <1>2, PTL DEF Spec

(***************************************************************************)
(* No two cards of a column share a position, provided no card is put at   *)
(* position 0: clients do not ask for it, or they aim at cards of the      *)
(* column, whose positions start at 1.  The invariant is inductive once positions are known to *)
(* be at least 1 (moveToTop puts a card at 1 and pushes the others up) and *)
(* below Last (a card that arrives at Last must not meet one there).       *)
(***************************************************************************)
Together(p, q) ==
    /\ life[p] = "Open" /\ life[q] = "Open"
    /\ branch[p] = branch[q] /\ status[p] = status[q]

Placed == \A p \in Orders : life[p] = "Open" => sort[p] >= 1

Bounded == \A p \in Orders : sort[p] <= MaxSort

Distinct == \A p, q \in Orders : Together(p, q) /\ sort[p] = sort[q] => p = q

PositionsFit == ClientsInRange \/ 0 \notin Positions

IInv == TypeOK /\ Placed /\ Bounded /\ Distinct

LEMMA DistinctIsNoShared == TypeOK => (Distinct => NoSharedPosition)
BY DEF TypeOK, Distinct, Together, NoSharedPosition, NoSharedPlace, Column

\* srt gives every open card but o a place of its own.
OthersApart(srt, o) ==
    /\ \A p \in Orders \ {o} : life[p] = "Open" => srt[p] >= 1 /\ srt[p] <= MaxSort
    /\ \A p, q \in Orders \ {o} : Together(p, q) /\ srt[p] = srt[q] => p = q

\* Closing the gap card o leaves keeps the other cards apart.
LEMMA CloseGapApart ==
    ASSUME IInv, NEW o \in Orders, life[o] = "Open",
           NEW col, \A p \in Orders \ {o} : p \in col <=> Together(o, p)
    PROVE  /\ CloseGap(sort, col, sort[o]) \in [Orders -> Int]
           /\ OthersApart(CloseGap(sort, col, sort[o]), o)
<1> DEFINE gap == CloseGap(sort, col, sort[o])
<1>1. sort \in [Orders -> Int] /\ sort[o] \in Int /\ sort[o] >= 1 /\ MaxSort \in Int
  BY PositionAssumption DEF IInv, TypeOK, Placed
<1>2. /\ gap \in [Orders -> Int]
      /\ \A p \in Orders : gap[p] =
            IF p \in col /\ sort[p] > sort[o] THEN sort[p] - 1 ELSE sort[p]
  BY <1>1, CloseGapAt
<1> HIDE DEF gap
<1>3. ASSUME NEW p \in Orders \ {o}, life[p] = "Open"
      PROVE  gap[p] >= 1 /\ gap[p] <= MaxSort
  <2>1. sort[p] >= 1 /\ sort[p] <= MaxSort /\ sort[p] \in Int
    BY <1>1, <1>3 DEF IInv, Placed, Bounded
  <2> QED
    BY <1>1, <1>2, <2>1
<1>4. ASSUME NEW p \in Orders \ {o}, NEW q \in Orders \ {o}, Together(p, q), gap[p] = gap[q]
      PROVE  p = q
  <2>1. sort[p] = sort[q] => p = q
    BY <1>4 DEF IInv, Distinct
  <2>2. p \in col <=> q \in col
    BY <1>4 DEF Together
  <2>3. p \in col => sort[p] # sort[o] /\ sort[q] # sort[o]
    BY <1>4, <2>2 DEF IInv, Distinct, Together
  <2>4. sort[p] \in Int /\ sort[q] \in Int
    BY <1>1
  <2> QED
    BY <1>1, <1>2, <1>4, <2>1, <2>2, <2>3, <2>4
<1> QED
  BY <1>2, <1>3, <1>4 DEF OthersApart, gap

LEMMA SortApart ==
    ASSUME IInv, NEW o \in Orders
    PROVE  sort \in [Orders -> Int] /\ OthersApart(sort, o)
BY DEF IInv, TypeOK, Placed, Bounded, Distinct, OthersApart

\* Card o goes to the top of the column of b and s, the others being apart.
LEMMA ArrivalKeeps ==
    ASSUME TypeOK, NEW o \in Orders, NEW b, NEW s,
           NEW srt \in [Orders -> Int], OthersApart(srt, o),
           life' = [life EXCEPT ![o] = "Open"],
           branch' = [branch EXCEPT ![o] = b],
           status' = [status EXCEPT ![o] = s],
           sort' = ArriveAtTop(srt, Column(b, s), o, Last)
    PROVE  Placed' /\ Distinct'
<1>1. Last \in Int /\ Last > 1 /\ MaxSort < Last /\ MaxSort \in Int
  BY PositionAssumption
<1>2. \A p \in Orders : sort'[p] =
         IF p = o THEN 1
         ELSE IF p \in Column(b, s) /\ srt[p] < Last THEN srt[p] + 1
         ELSE srt[p]
  BY <1>1, ArriveAtTopAt
<1>3. \A p \in Orders \ {o} : /\ life'[p] = life[p]
                              /\ branch'[p] = branch[p]
                              /\ status'[p] = status[p]
  BY DEF TypeOK
<1>4. life'[o] = "Open" /\ branch'[o] = b /\ status'[o] = s
  BY DEF TypeOK
<1>5. ASSUME NEW p \in Orders, life'[p] = "Open"
      PROVE  sort'[p] >= 1
  <2>1. p # o => srt[p] >= 1 /\ srt[p] \in Int
    BY <1>3, <1>5 DEF OthersApart
  <2> QED
    BY <1>2, <2>1
<1>6. ASSUME NEW p \in Orders \ {o}, Together(p, o)'
      PROVE  sort'[p] # sort'[o]
  <2>1. p \in Column(b, s)
    BY <1>3, <1>4, <1>6 DEF Together, Column
  <2>2. srt[p] >= 1 /\ srt[p] <= MaxSort /\ srt[p] \in Int
    BY <1>3, <1>6 DEF OthersApart, Together
  <2> QED
    BY <1>1, <1>2, <2>1, <2>2
<1>7. ASSUME NEW p \in Orders \ {o}, NEW q \in Orders \ {o}, Together(p, q)',
             sort'[p] = sort'[q]
      PROVE  p = q
  <2>1. Together(p, q)
    BY <1>3, <1>7 DEF Together
  <2>2. p \in Column(b, s) <=> q \in Column(b, s)
    BY <2>1 DEF Together, Column
  <2>3. /\ srt[p] <= MaxSort /\ srt[p] \in Int
        /\ srt[q] <= MaxSort /\ srt[q] \in Int
    BY <2>1 DEF OthersApart, Together
  <2>4. srt[p] = srt[q]
    BY <1>1, <1>2, <1>7, <2>2, <2>3
  <2> QED
    BY <2>1, <2>4 DEF OthersApart
<1> QED
  BY <1>5, <1>6, <1>7 DEF Placed, Distinct, Together

\* Card o lands at position t of another column, where a slot was opened.
LEMMA LandingKeeps ==
    ASSUME TypeOK, NEW o \in Orders, NEW s, NEW t \in Int, t >= 1, s # status[o],
           NEW srt \in [Orders -> Int], OthersApart(srt, o), life[o] = "Open",
           UNCHANGED <<life, branch>>,
           status' = [status EXCEPT ![o] = s],
           sort' = [OpenSlot(srt, Column(branch[o], s), t) EXCEPT ![o] = t]
    PROVE  Placed' /\ Distinct'
<1> DEFINE col == Column(branch[o], s)
           open == OpenSlot(srt, col, t)
<1>1. /\ open \in [Orders -> Int]
      /\ \A p \in Orders : open[p] = IF p \in col /\ srt[p] >= t THEN srt[p] + 1 ELSE srt[p]
  BY OpenSlotAt
<1>2. sort'[o] = t /\ \A p \in Orders \ {o} : sort'[p] = open[p]
  <2> HIDE DEF open
  <2>1. sort' = [open EXCEPT ![o] = t]
    BY DEF open
  <2> QED
    BY <1>1, <2>1
<1>3. /\ \A p \in Orders \ {o} : status'[p] = status[p]
      /\ status'[o] = s
  BY DEF TypeOK
<1> HIDE DEF open
<1>4. ASSUME NEW p \in Orders, life'[p] = "Open"
      PROVE  sort'[p] >= 1
  <2>1. p # o => srt[p] >= 1 /\ srt[p] \in Int
    BY <1>4 DEF OthersApart
  <2> QED
    BY <1>1, <1>2, <2>1
<1>5. ASSUME NEW p \in Orders \ {o}, Together(p, o)'
      PROVE  sort'[p] # sort'[o]
  <2>1. p \in col
    BY <1>3, <1>5 DEF Together, Column
  <2>2. srt[p] \in Int
    OBVIOUS
  <2> QED
    BY <1>1, <1>2, <2>1, <2>2
<1>6. ASSUME NEW p \in Orders \ {o}, NEW q \in Orders \ {o}, Together(p, q)',
             sort'[p] = sort'[q]
      PROVE  p = q
  <2>1. Together(p, q)
    BY <1>3, <1>6 DEF Together
  <2>2. p \in col <=> q \in col
    BY <2>1 DEF Together, Column
  <2>3. srt[p] \in Int /\ srt[q] \in Int
    OBVIOUS
  <2>4. srt[p] = srt[q]
    BY <1>1, <1>2, <1>6, <2>2, <2>3
  <2> QED
    BY <2>1, <2>4 DEF OthersApart
<1> QED
  BY <1>4, <1>5, <1>6 DEF Placed, Distinct, Together

\* Card o goes to the top of the column it is in.
LEMMA TopKeeps ==
    ASSUME IInv, NEW o \in Orders, life[o] = "Open",
           UNCHANGED <<life, branch, status>>,
           sort' = MoveToTop(sort, Peers(o), o, sort[o])
    PROVE  Placed' /\ Distinct'
<1>1. sort \in [Orders -> Int] /\ sort[o] \in Int
  BY DEF IInv, TypeOK
<1>2. \A p \in Orders : sort'[p] =
         IF sort[o] = 1 THEN sort[p]
         ELSE IF p = o THEN 1
         ELSE IF p \in Peers(o) /\ sort[p] < sort[o] THEN sort[p] + 1
         ELSE sort[p]
  BY <1>1, MoveToTopAt
<1>3. \A p \in Orders : life[p] = "Open" => sort[p] >= 1 /\ sort[p] \in Int
  BY <1>1 DEF IInv, Placed
<1>4. ASSUME NEW p \in Orders, NEW q \in Orders, Together(p, q), sort'[p] = sort'[q]
      PROVE  p = q
  <2>1. sort[p] = sort[q] => p = q
    BY <1>4 DEF IInv, Distinct
  <2>2. /\ sort[p] = sort[o] /\ Together(p, o) => p = o
        /\ sort[q] = sort[o] /\ Together(q, o) => q = o
    BY DEF IInv, Distinct
  <2>3. /\ p \in Peers(o) <=> Together(p, o)
        /\ q \in Peers(o) <=> Together(q, o)
        /\ p \in Peers(o) <=> q \in Peers(o)
        /\ o \in Peers(o)
    BY <1>4 DEF Together, Peers, Column
  <2>4. /\ sort[p] >= 1 /\ sort[p] \in Int
        /\ sort[q] >= 1 /\ sort[q] \in Int
    BY <1>3, <1>4 DEF Together
  <2> QED
    BY <1>1, <1>2, <1>4, <2>1, <2>2, <2>3, <2>4
<1>5. \A p \in Orders : life[p] = "Open" => sort'[p] >= 1
  BY <1>2, <1>3
<1> QED
  BY <1>4, <1>5 DEF Placed, Distinct, Together

\* Card o slides to position t of the column it is in.
LEMMA SlideKeeps ==
    ASSUME IInv, NEW o \in Orders, life[o] = "Open", NEW t \in Int, t >= 1,
           UNCHANGED <<life, branch, status>>,
           sort' = [Slide(sort, Peers(o), sort[o], t) EXCEPT ![o] = t]
    PROVE  Placed' /\ Distinct'
<1> DEFINE slid == Slide(sort, Peers(o), sort[o], t)
<1>1. sort \in [Orders -> Int] /\ sort[o] \in Int /\ sort[o] >= 1
  BY DEF IInv, TypeOK, Placed
<1>2. /\ slid \in [Orders -> Int]
      /\ \A p \in Orders : slid[p] =
            IF p \in Peers(o) /\ t <= sort[p] /\ sort[p] < sort[o] THEN sort[p] + 1
            ELSE IF p \in Peers(o) /\ sort[o] < sort[p] /\ sort[p] <= t THEN sort[p] - 1
            ELSE sort[p]
  BY <1>1, SlideAt
<1>3. sort'[o] = t /\ \A p \in Orders \ {o} : sort'[p] = slid[p]
  <2> HIDE DEF slid
  <2>1. sort' = [slid EXCEPT ![o] = t]
    BY DEF slid
  <2> QED
    BY <1>2, <2>1
<1> HIDE DEF slid
<1>4. \A p \in Orders : life[p] = "Open" => sort[p] >= 1 /\ sort[p] \in Int
  BY <1>1 DEF IInv, Placed
<1>5. ASSUME NEW p \in Orders \ {o}, Together(p, o)
      PROVE  sort'[p] # t
  <2>1. p \in Peers(o) /\ sort[p] # sort[o] /\ sort[p] \in Int
    BY <1>1, <1>5 DEF IInv, Distinct, Together, Peers, Column
  <2> QED
    BY <1>1, <1>2, <1>3, <2>1
<1>6. ASSUME NEW p \in Orders \ {o}, NEW q \in Orders \ {o}, Together(p, q),
             sort'[p] = sort'[q]
      PROVE  p = q
  <2>1. sort[p] = sort[q] => p = q
    BY <1>6 DEF IInv, Distinct
  <2>2. p \in Peers(o) => sort[p] # sort[o] /\ sort[q] # sort[o]
    BY <1>6 DEF IInv, Distinct, Together, Peers, Column
  <2>3. p \in Peers(o) <=> q \in Peers(o)
    BY <1>6 DEF Together, Peers, Column
  <2>4. sort[p] \in Int /\ sort[q] \in Int
    BY <1>1
  <2> QED
    BY <1>1, <1>2, <1>3, <1>6, <2>1, <2>2, <2>3, <2>4
<1>7. \A p \in Orders : life[p] = "Open" => sort'[p] >= 1
  BY <1>1, <1>2, <1>3, <1>4
<1> QED
  BY <1>3, <1>5, <1>6, <1>7 DEF Placed, Distinct, Together

\* What every handler relies on to know the rows of its column.
LEMMA PeersTogether ==
    ASSUME NEW o \in Orders, life[o] = "Open"
    PROVE  /\ \A p \in Orders \ {o} : p \in Peers(o) <=> Together(o, p)
           /\ \A p \in Orders \ {o} : p \in Peers(o) \ {o} <=> Together(o, p)
BY DEF Peers, Column, Together

LEMMA GapApart ==
    ASSUME IInv, NEW o \in Orders, life[o] = "Open"
    PROVE  /\ CloseGap(sort, Peers(o), sort[o]) \in [Orders -> Int]
           /\ OthersApart(CloseGap(sort, Peers(o), sort[o]), o)
<1>1. \A p \in Orders \ {o} : p \in Peers(o) <=> Together(o, p)
  BY PeersTogether
<1> DEFINE col == Peers(o)
<1>2. \A p \in Orders \ {o} : p \in col <=> Together(o, p)
  BY <1>1
<1> HIDE DEF col
<1>3. /\ CloseGap(sort, col, sort[o]) \in [Orders -> Int]
      /\ OthersApart(CloseGap(sort, col, sort[o]), o)
  BY <1>2, CloseGapApart
<1> QED
  BY <1>3 DEF col

LEMMA SystemMoveKeeps ==
    ASSUME IInv, NEW o \in Orders, life[o] = "Open", NEW s \in Statuses,
           SystemMove(o, s), UNCHANGED <<life, branch>>
    PROVE  Placed' /\ Distinct'
<1>1. CASE s = status[o]
  <2>1. status' = status /\ sort' = MoveToTop(sort, Peers(o), o, sort[o])
    BY <1>1 DEF SystemMove, IInv, TypeOK
  <2> QED
    BY <2>1, TopKeeps
<1>2. CASE s # status[o]
  <2> DEFINE gap == CloseGap(sort, Peers(o), sort[o])
  <2>1. gap \in [Orders -> Int] /\ OthersApart(gap, o) /\ TypeOK
    BY GapApart DEF IInv
  <2>2. /\ status' = [status EXCEPT ![o] = s]
        /\ sort' = [OpenSlot(gap, Column(branch[o], s), 1) EXCEPT ![o] = 1]
    BY <1>2 DEF SystemMove
  <2> HIDE DEF gap
  <2>3. 1 \in Int /\ 1 >= 1
    OBVIOUS
  <2>4. life' = life /\ branch' = branch
    OBVIOUS
  <2> QED
    BY ONLY <1>2, <2>1, <2>2, <2>3, <2>4, LandingKeeps, o \in Orders, life[o] = "Open"
<1> QED
  BY <1>1, <1>2

LEMMA UntouchedKeeps ==
    ASSUME IInv, UNCHANGED <<life, branch, status, sort>>
    PROVE  Placed' /\ Distinct'
BY DEF IInv, Placed, Distinct, Together

LEMMA InsertKeeps ==
    ASSUME IInv, NEW o \in Orders, NEW b, NEW s, Insert(o, b, s)
    PROVE  Placed' /\ Distinct'
<1>1. sort \in [Orders -> Int] /\ OthersApart(sort, o) /\ TypeOK
  BY SortApart DEF IInv
<1>2. /\ life' = [life EXCEPT ![o] = "Open"]
      /\ branch' = [branch EXCEPT ![o] = b]
      /\ status' = [status EXCEPT ![o] = s]
      /\ sort' = ArriveAtTop(sort, Column(b, s), o, Last)
  BY DEF Insert
<1> QED
  BY ONLY <1>1, <1>2, ArrivalKeeps, o \in Orders

\* Card o leaves its column, whose gap is closed, for the top of another one.
LEMMA RehomeKeeps ==
    ASSUME IInv, NEW o \in Orders, life[o] = "Open", NEW b, NEW s,
           life' = life,
           branch' = [branch EXCEPT ![o] = b],
           status' = [status EXCEPT ![o] = s],
           sort' = ArriveAtTop(CloseGap(sort, Peers(o), sort[o]), Column(b, s), o, Last)
    PROVE  Placed' /\ Distinct'
<1> DEFINE gap == CloseGap(sort, Peers(o), sort[o])
<1>1. gap \in [Orders -> Int] /\ OthersApart(gap, o) /\ TypeOK
  BY GapApart DEF IInv
<1>2. life' = [life EXCEPT ![o] = "Open"]
  BY DEF IInv, TypeOK
<1>3. sort' = ArriveAtTop(gap, Column(b, s), o, Last)
  OBVIOUS
<1> HIDE DEF gap
<1> QED
  BY <1>1, <1>2, <1>3, ArrivalKeeps

LEMMA SoftDeleteKeeps ==
    ASSUME IInv, NEW o \in Orders, SoftDelete(o)
    PROVE  Placed' /\ Distinct'
<1> DEFINE col == Peers(o) \ {o}
<1>1. life[o] = "Open" /\ life' = [life EXCEPT ![o] = "Deleted"]
      /\ sort' = CloseGap(sort, col, sort[o]) /\ UNCHANGED <<branch, status>>
  BY DEF SoftDelete
<1>2. \A p \in Orders \ {o} : p \in col <=> Together(o, p)
  BY <1>1, PeersTogether
<1> HIDE DEF col
<1>3. OthersApart(CloseGap(sort, col, sort[o]), o)
  BY <1>1, <1>2, CloseGapApart
<1>4. \A p \in Orders : life'[p] = "Open" => p # o /\ life[p] = "Open"
  BY <1>1 DEF IInv, TypeOK
<1> QED
  BY <1>1, <1>3, <1>4 DEF OthersApart, Placed, Distinct, Together

LEMMA AimIsPositive ==
    ASSUME PositionsFit, IInv, NEW o \in Orders, NEW pos \in Positions,
           Aimed(Peers(o), pos)
    PROVE  pos \in Int /\ pos >= 1
<1>1. pos \in Nat
  BY PositionAssumption
<1>2. \A p \in Peers(o) : sort[p] \in Int /\ sort[p] >= 1
  BY DEF IInv, TypeOK, Placed, Peers, Column
<1> QED
  BY <1>1, <1>2 DEF PositionsFit, Aimed

LEMMA HandleKeeps ==
    ASSUME PositionsFit, IInv, NEW o \in Orders, Handle(o)
    PROVE  Placed' /\ Distinct'
<1>1. CASE Create(o)
  BY <1>1, InsertKeeps DEF Create
<1>2. CASE CreateInMother(o)
  BY <1>2, InsertKeeps DEF CreateInMother
<1>3. CASE Update(o)
  <2>1. PICK s \in Statuses :
           /\ status' = [status EXCEPT ![o] = s]
           /\ sort' = ArriveAtTop(CloseGap(sort, Peers(o), sort[o]),
                                  Column(branch[o], s), o, Last)
    BY <1>3 DEF Update
  <2>2. life[o] = "Open" /\ life' = life /\ branch' = [branch EXCEPT ![o] = branch[o]]
    BY <1>3 DEF Update, IInv, TypeOK
  <2> QED
    BY <2>1, <2>2, RehomeKeeps
<1>4. CASE MoveAcross(o)
  <2> DEFINE gap == CloseGap(sort, Peers(o), sort[o])
             Target(pos) == IF pos = 0 THEN 1 ELSE pos
  <2>1. PICK s \in Statuses \ {status[o]}, pos \in Positions :
           /\ status' = [status EXCEPT ![o] = s]
           /\ sort' = [OpenSlot(gap, Column(branch[o], s), Target(pos))
                          EXCEPT ![o] = Target(pos)]
    BY <1>4 DEF MoveAcross
  <2>2. Target(pos) \in Int /\ Target(pos) >= 1
    BY PositionAssumption
  <2>3. life[o] = "Open" /\ life' = life /\ branch' = branch
    BY <1>4 DEF MoveAcross
  <2>4. gap \in [Orders -> Int] /\ OthersApart(gap, o) /\ TypeOK
    BY <2>3, GapApart DEF IInv
  <2>5. s # status[o]
    OBVIOUS
  <2> HIDE DEF gap, Target
  <2> QED
    BY ONLY <2>1, <2>2, <2>3, <2>4, <2>5, LandingKeeps, o \in Orders
<1>5. CASE MoveWithin(o)
  <2>1. PICK pos \in Positions :
           /\ Aimed(Peers(o), pos)
           /\ sort' = [Slide(sort, Peers(o), sort[o], pos) EXCEPT ![o] = pos]
    BY <1>5 DEF MoveWithin
  <2>2. pos \in Int /\ pos >= 1
    BY <2>1, AimIsPositive
  <2>3. life[o] = "Open" /\ UNCHANGED <<life, branch, status>>
    BY <1>5 DEF MoveWithin
  <2> QED
    BY <2>1, <2>2, <2>3, SlideKeeps
<1>6. CASE SoftDelete(o)
  BY <1>6, SoftDeleteKeeps
<1>7. CASE TransferBranch(o)
  <2>1. PICK b \in Children :
           /\ branch' = [branch EXCEPT ![o] = b]
           /\ sort' = ArriveAtTop(CloseGap(sort, Peers(o), sort[o]),
                                  Column(b, status[o]), o, Last)
    BY <1>7 DEF TransferBranch
  <2>2. life[o] = "Open" /\ life' = life /\ status' = [status EXCEPT ![o] = status[o]]
    BY <1>7 DEF TransferBranch, IInv, TypeOK
  <2> QED
    BY <2>1, <2>2, RehomeKeeps
<1>8. CASE Take(o)
  <2>1. PICK b \in Children :
           /\ branch' = [branch EXCEPT ![o] = b]
           /\ sort' = ArriveAtTop(sort, Column(b, status[o]), o, Last)
    BY <1>8 DEF Take
  <2>2. /\ life' = [life EXCEPT ![o] = "Open"]
        /\ status' = [status EXCEPT ![o] = status[o]]
    BY <1>8 DEF Take, IInv, TypeOK
  <2>3. sort \in [Orders -> Int] /\ OthersApart(sort, o) /\ TypeOK
    BY SortApart DEF IInv
  <2> QED
    BY <2>1, <2>2, <2>3, ArrivalKeeps
<1>9. CASE RestoreToMother(o)
  <2>1. /\ branch' = [branch EXCEPT ![o] = Mother]
        /\ sort' = ArriveAtTop(CloseGap(sort, Peers(o), sort[o]),
                               Column(Mother, status[o]), o, Last)
    BY <1>9 DEF RestoreToMother
  <2>2. life[o] = "Open" /\ life' = life /\ status' = [status EXCEPT ![o] = status[o]]
    BY <1>9 DEF RestoreToMother, IInv, TypeOK
  <2> QED
    BY <2>1, <2>2, RehomeKeeps
<1>10. CASE CallOnOrder(o)
  BY <1>10, TopKeeps DEF CallOnOrder, TelephonySees
<1>11. CASE CallAnswered(o)
  BY <1>11, TopKeeps DEF CallAnswered, TelephonySees
<1>12. CASE RecordNoAnswer(o)
  BY <1>12, UntouchedKeeps DEF RecordNoAnswer
<1>13. CASE InvalidateNoAnswer(o)
  <2>1. PICK s \in Statuses : SystemMove(o, s)
    BY <1>13 DEF InvalidateNoAnswer, RequiredStatus
  <2>2. life[o] = "Open" /\ UNCHANGED <<life, branch>>
    BY <1>13 DEF InvalidateNoAnswer, TelephonySees
  <2> QED
    BY <2>1, <2>2, SystemMoveKeeps
<1>14. CASE DueElapses(o)
  BY <1>14, UntouchedKeeps DEF DueElapses
<1>15. CASE ForgetDue(o)
  BY <1>15, UntouchedKeeps DEF ForgetDue
<1>16. CASE ProcessDue(o)
  <2>1. PICK s \in Statuses : SystemMove(o, s)
    BY <1>16 DEF ProcessDue, RequiredStatus
  <2>2. life[o] = "Open" /\ UNCHANGED <<life, branch>>
    BY <1>16 DEF ProcessDue, IsDue
  <2> QED
    BY <2>1, <2>2, SystemMoveKeeps
<1> QED
  BY <1>1, <1>2, <1>3, <1>4, <1>5, <1>6, <1>7, <1>8, <1>9, <1>10, <1>11, <1>12, <1>13,
     <1>14, <1>15, <1>16 DEF Handle

LEMMA BoardInvariant ==
    ASSUME PositionsFit
    PROVE  Spec => []IInv
<1>1. Init => IInv
  BY PositionAssumption
  DEF Init, IInv, TypeOK, Placed, Bounded, Distinct, Together, Branches
<1>2. IInv /\ [Next]_vars => IInv'
  <2>1. ASSUME IInv, Next PROVE IInv'
    <3>1. PICK o \in Orders : Handle(o)
      BY <2>1 DEF Next
    <3>2. TypeOK'
      BY <2>1, <3>1, HandleTyped DEF IInv
    <3>3. Placed' /\ Distinct'
      BY <2>1, <3>1, HandleKeeps
    <3>4. Bounded'
      BY <2>1 DEF Next, Bounded
    <3> QED
      BY <3>2, <3>3, <3>4 DEF IInv
  <2>2. ASSUME IInv, UNCHANGED vars PROVE IInv'
    BY <2>2 DEF vars, IInv, TypeOK, Placed, Bounded, Distinct, Together
  <2> QED
    BY <2>1, <2>2
<1> QED
  BY <1>1, <1>2, PTL DEF Spec

\* If no card is ever put at position 0, no two cards of a column ever share
\* a position, whatever mixture of handlers runs, one after the other.
THEOREM NoSharedPositionHolds ==
    ASSUME PositionsFit
    PROVE  Spec => []NoSharedPosition
<1>1. IInv => NoSharedPosition
  BY DistinctIsNoShared DEF IInv
<1> QED
  BY <1>1, BoardInvariant, PTL

(***************************************************************************)
(* The shifts renumber the other cards without changing their order.       *)
(***************************************************************************)
KeepsOrder(o, srt, new) ==
    \A p, q \in Orders \ {o} : Together(p, q) /\ srt[p] < srt[q] => new[p] < new[q]

LEMMA CloseGapOrder ==
    ASSUME IInv, NEW o \in Orders, life[o] = "Open",
           NEW col, \A p \in Orders \ {o} : p \in col <=> Together(o, p)
    PROVE  KeepsOrder(o, sort, CloseGap(sort, col, sort[o]))
<1> DEFINE gap == CloseGap(sort, col, sort[o])
<1>1. sort \in [Orders -> Int] /\ sort[o] \in Int
  BY DEF IInv, TypeOK
<1>2. \A p \in Orders : gap[p] =
         IF p \in col /\ sort[p] > sort[o] THEN sort[p] - 1 ELSE sort[p]
  BY <1>1, CloseGapAt
<1> HIDE DEF gap
<1>3. ASSUME NEW p \in Orders \ {o}, NEW q \in Orders \ {o}, Together(p, q),
             sort[p] < sort[q]
      PROVE  gap[p] < gap[q]
  <2>1. p \in col <=> q \in col
    BY <1>3 DEF Together
  <2>2. p \in col => sort[p] # sort[o]
    BY DEF IInv, Distinct, Together
  <2>3. sort[p] \in Int /\ sort[q] \in Int
    BY <1>1
  <2> QED
    BY <1>1, <1>2, <1>3, <2>1, <2>2, <2>3
<1> QED
  BY <1>3 DEF KeepsOrder, gap

LEMMA GapOrder ==
    ASSUME IInv, NEW o \in Orders, life[o] = "Open"
    PROVE  /\ KeepsOrder(o, sort, CloseGap(sort, Peers(o), sort[o]))
           /\ KeepsOrder(o, sort, CloseGap(sort, Peers(o) \ {o}, sort[o]))
<1>1. \A col : (\A p \in Orders \ {o} : p \in col <=> Together(o, p))
        => KeepsOrder(o, sort, CloseGap(sort, col, sort[o]))
  BY CloseGapOrder
<1> QED
  BY <1>1, PeersTogether

LEMMA ArrivalOrder ==
    ASSUME NEW o \in Orders, NEW b, NEW s,
           NEW srt \in [Orders -> Int], OthersApart(srt, o)
    PROVE  KeepsOrder(o, srt, ArriveAtTop(srt, Column(b, s), o, Last))
<1> DEFINE new == ArriveAtTop(srt, Column(b, s), o, Last)
<1>1. Last \in Int /\ Last > 1 /\ MaxSort < Last /\ MaxSort \in Int
  BY PositionAssumption
<1>2. \A p \in Orders : new[p] =
         IF p = o THEN 1
         ELSE IF p \in Column(b, s) /\ srt[p] < Last THEN srt[p] + 1
         ELSE srt[p]
  BY <1>1, ArriveAtTopAt
<1> HIDE DEF new
<1>3. ASSUME NEW p \in Orders \ {o}, NEW q \in Orders \ {o}, Together(p, q),
             srt[p] < srt[q]
      PROVE  new[p] < new[q]
  <2>1. p \in Column(b, s) <=> q \in Column(b, s)
    BY <1>3 DEF Together, Column
  <2>2. /\ srt[p] \in Int /\ srt[p] <= MaxSort
        /\ srt[q] \in Int /\ srt[q] <= MaxSort
    BY <1>3 DEF OthersApart, Together
  <2> QED
    BY <1>1, <1>2, <1>3, <2>1, <2>2
<1> QED
  BY <1>3 DEF KeepsOrder, new

LEMMA LandingOrder ==
    ASSUME NEW o \in Orders, NEW b, NEW s, NEW t \in Int, NEW srt \in [Orders -> Int]
    PROVE  KeepsOrder(o, srt, [OpenSlot(srt, Column(b, s), t) EXCEPT ![o] = t])
<1> DEFINE open == OpenSlot(srt, Column(b, s), t)
           new  == [open EXCEPT ![o] = t]
<1>1. /\ open \in [Orders -> Int]
      /\ \A p \in Orders : open[p] =
            IF p \in Column(b, s) /\ srt[p] >= t THEN srt[p] + 1 ELSE srt[p]
  BY OpenSlotAt
<1> HIDE DEF open
<1>2. \A p \in Orders \ {o} : new[p] = open[p]
  BY <1>1
<1> HIDE DEF new
<1>3. ASSUME NEW p \in Orders \ {o}, NEW q \in Orders \ {o}, Together(p, q),
             srt[p] < srt[q]
      PROVE  new[p] < new[q]
  <2>1. p \in Column(b, s) <=> q \in Column(b, s)
    BY <1>3 DEF Together, Column
  <2>2. srt[p] \in Int /\ srt[q] \in Int
    OBVIOUS
  <2> QED
    BY <1>1, <1>2, <1>3, <2>1, <2>2
<1> QED
  BY <1>3 DEF KeepsOrder, new, open

LEMMA TopOrder ==
    ASSUME IInv, NEW o \in Orders, life[o] = "Open"
    PROVE  KeepsOrder(o, sort, MoveToTop(sort, Peers(o), o, sort[o]))
<1> DEFINE new == MoveToTop(sort, Peers(o), o, sort[o])
<1>1. sort \in [Orders -> Int] /\ sort[o] \in Int
  BY DEF IInv, TypeOK
<1>2. \A p \in Orders : new[p] =
         IF sort[o] = 1 THEN sort[p]
         ELSE IF p = o THEN 1
         ELSE IF p \in Peers(o) /\ sort[p] < sort[o] THEN sort[p] + 1
         ELSE sort[p]
  BY <1>1, MoveToTopAt
<1> HIDE DEF new
<1>3. ASSUME NEW p \in Orders \ {o}, NEW q \in Orders \ {o}, Together(p, q),
             sort[p] < sort[q]
      PROVE  new[p] < new[q]
  <2>1. p \in Peers(o) <=> q \in Peers(o)
    BY <1>3 DEF Together, Peers, Column
  <2>2. q \in Peers(o) => sort[q] # sort[o]
    BY DEF IInv, Distinct, Together, Peers, Column
  <2>3. sort[p] \in Int /\ sort[q] \in Int
    BY <1>1
  <2> QED
    BY <1>1, <1>2, <1>3, <2>1, <2>2, <2>3
<1> QED
  BY <1>3 DEF KeepsOrder, new

LEMMA SlideOrder ==
    ASSUME IInv, NEW o \in Orders, life[o] = "Open", NEW t \in Int
    PROVE  KeepsOrder(o, sort, [Slide(sort, Peers(o), sort[o], t) EXCEPT ![o] = t])
<1> DEFINE slid == Slide(sort, Peers(o), sort[o], t)
           new  == [slid EXCEPT ![o] = t]
<1>1. sort \in [Orders -> Int] /\ sort[o] \in Int
  BY DEF IInv, TypeOK
<1>2. /\ slid \in [Orders -> Int]
      /\ \A p \in Orders : slid[p] =
            IF p \in Peers(o) /\ t <= sort[p] /\ sort[p] < sort[o] THEN sort[p] + 1
            ELSE IF p \in Peers(o) /\ sort[o] < sort[p] /\ sort[p] <= t THEN sort[p] - 1
            ELSE sort[p]
  BY <1>1, SlideAt
<1> HIDE DEF slid
<1>3. \A p \in Orders \ {o} : new[p] = slid[p]
  BY <1>2
<1> HIDE DEF new
<1>4. ASSUME NEW p \in Orders \ {o}, NEW q \in Orders \ {o}, Together(p, q),
             sort[p] < sort[q]
      PROVE  new[p] < new[q]
  <2>1. p \in Peers(o) <=> q \in Peers(o)
    BY <1>4 DEF Together, Peers, Column
  <2>2. p \in Peers(o) => sort[p] # sort[o] /\ sort[q] # sort[o]
    BY <2>1 DEF IInv, Distinct, Together, Peers, Column
  <2>3. sort[p] \in Int /\ sort[q] \in Int
    BY <1>1
  <2> QED
    BY <1>1, <1>2, <1>3, <1>4, <2>1, <2>2, <2>3
<1> QED
  BY <1>4 DEF KeepsOrder, new, slid

LEMMA OrderChains ==
    ASSUME NEW o, NEW f, NEW g, NEW h, KeepsOrder(o, f, g), KeepsOrder(o, g, h)
    PROVE  KeepsOrder(o, f, h)
BY DEF KeepsOrder

\* Card o leaves a closed gap for the top of the column of b and s.
LEMMA RehomeOrder ==
    ASSUME IInv, NEW o \in Orders, life[o] = "Open", NEW b, NEW s
    PROVE  KeepsOrder(o, sort, ArriveAtTop(CloseGap(sort, Peers(o), sort[o]),
                                           Column(b, s), o, Last))
<1> DEFINE gap == CloseGap(sort, Peers(o), sort[o])
<1>1. gap \in [Orders -> Int] /\ OthersApart(gap, o) /\ KeepsOrder(o, sort, gap)
  BY GapApart, GapOrder
<1> HIDE DEF gap
<1>2. KeepsOrder(o, gap, ArriveAtTop(gap, Column(b, s), o, Last))
  BY <1>1, ArrivalOrder
<1>3. KeepsOrder(o, sort, ArriveAtTop(gap, Column(b, s), o, Last))
  BY <1>1, <1>2, OrderChains
<1> QED
  BY <1>3 DEF gap

\* Card o leaves a closed gap for position t of the column of b and s.
LEMMA RelandOrder ==
    ASSUME IInv, NEW o \in Orders, life[o] = "Open", NEW b, NEW s, NEW t \in Int
    PROVE  KeepsOrder(o, sort, [OpenSlot(CloseGap(sort, Peers(o), sort[o]), Column(b, s), t)
                                   EXCEPT ![o] = t])
<1> DEFINE gap == CloseGap(sort, Peers(o), sort[o])
<1>1. gap \in [Orders -> Int] /\ KeepsOrder(o, sort, gap)
  BY GapApart, GapOrder
<1> HIDE DEF gap
<1>2. KeepsOrder(o, gap, [OpenSlot(gap, Column(b, s), t) EXCEPT ![o] = t])
  BY <1>1, LandingOrder
<1>3. KeepsOrder(o, sort, [OpenSlot(gap, Column(b, s), t) EXCEPT ![o] = t])
  BY <1>1, <1>2, OrderChains
<1> QED
  BY <1>3 DEF gap

LEMMA SystemMoveOrder ==
    ASSUME IInv, NEW o \in Orders, life[o] = "Open", NEW s, SystemMove(o, s)
    PROVE  KeepsOrder(o, sort, sort')
<1>1. CASE s = status[o]
  BY <1>1, TopOrder DEF SystemMove
<1>2. CASE s # status[o]
  <2>1. 1 \in Int
    OBVIOUS
  <2> QED
    BY <1>2, <2>1, RelandOrder DEF SystemMove
<1> QED
  BY <1>1, <1>2

LEMMA HandleOrder ==
    ASSUME IInv, NEW o \in Orders, Handle(o)
    PROVE  KeepsOrder(o, sort, sort')
<1>1. ASSUME NEW b, NEW s, sort' = ArriveAtTop(sort, Column(b, s), o, Last)
      PROVE  KeepsOrder(o, sort, sort')
  BY <1>1, SortApart, ArrivalOrder
<1>2. ASSUME sort' = sort PROVE KeepsOrder(o, sort, sort')
  BY <1>2 DEF KeepsOrder
<1>3. CASE Create(o) \/ CreateInMother(o)
  BY <1>1, <1>3 DEF Create, CreateInMother, Insert
<1>4. CASE Update(o)
  BY <1>4, RehomeOrder DEF Update
<1>5. CASE MoveAcross(o)
  <2> DEFINE Target(pos) == IF pos = 0 THEN 1 ELSE pos
  <2>1. PICK s \in Statuses, pos \in Positions :
           sort' = [OpenSlot(CloseGap(sort, Peers(o), sort[o]), Column(branch[o], s),
                             Target(pos)) EXCEPT ![o] = Target(pos)]
    BY <1>5 DEF MoveAcross
  <2>2. Target(pos) \in Int /\ life[o] = "Open"
    BY <1>5, PositionAssumption DEF MoveAcross
  <2> HIDE DEF Target
  <2> QED
    BY <2>1, <2>2, RelandOrder
<1>6. CASE MoveWithin(o)
  BY <1>6, SlideOrder, PositionAssumption DEF MoveWithin
<1>7. CASE SoftDelete(o)
  BY <1>7, GapOrder DEF SoftDelete
<1>8. CASE TransferBranch(o)
  BY <1>8, RehomeOrder DEF TransferBranch
<1>9. CASE Take(o)
  BY <1>1, <1>9 DEF Take
<1>10. CASE RestoreToMother(o)
  BY <1>10, RehomeOrder DEF RestoreToMother
<1>11. CASE CallOnOrder(o) \/ CallAnswered(o)
  BY <1>11, TopOrder DEF CallOnOrder, CallAnswered, TelephonySees
<1>12. CASE InvalidateNoAnswer(o)
  BY <1>12, SystemMoveOrder DEF InvalidateNoAnswer, TelephonySees
<1>13. CASE ProcessDue(o)
  BY <1>13, SystemMoveOrder DEF ProcessDue, IsDue
<1>14. CASE RecordNoAnswer(o) \/ DueElapses(o) \/ ForgetDue(o)
  BY <1>2, <1>14 DEF RecordNoAnswer, DueElapses, ForgetDue
<1> QED
  BY <1>3, <1>4, <1>5, <1>6, <1>7, <1>8, <1>9, <1>10, <1>11, <1>12, <1>13, <1>14 DEF Handle

\* Whichever handler moves a card, any two other cards of one column keep
\* their order: no shift lets a card overtake another one.
THEOREM NeighboursKeepOrderHolds ==
    ASSUME PositionsFit
    PROVE  Spec => NeighboursKeepOrder
<1> DEFINE Kept == \A o \in Orders : Handle(o) => \A p, q \in Orders \ {o} :
                     /\ life[p] = "Open" /\ life[q] = "Open"
                     /\ branch[p] = branch[q] /\ status[p] = status[q]
                     /\ sort[p] < sort[q]
                     => sort'[p] < sort'[q]
<1>1. IInv => Kept
  BY HandleOrder DEF KeepsOrder, Together
<1>2. IInv /\ [Next]_vars => [Kept]_vars
  BY <1>1
<1>3. NeighboursKeepOrder <=> [][Kept]_vars
  BY DEF NeighboursKeepOrder
<1> HIDE DEF Kept
<1> QED
  BY <1>2, <1>3, BoardInvariant, PTL DEF Spec

(***************************************************************************)
(* The columns of a child branch are numbered 1, 2, ..., n.  Contiguous    *)
(* says that a card past the first has one just above it; what the shifts  *)
(* preserve is that every place up to a card's own is taken, so that a     *)
(* place known to be at most some card's has a card to point at.           *)
(***************************************************************************)
Filled(srt, col) ==
    \A p \in col : srt[p] >= 1 /\ \A n \in 1..srt[p] : \E q \in col : srt[q] = n

ChildColumnsFilled == \A b \in Children, s \in Statuses : Filled(sort, Column(b, s))

\* So are the columns of the child branches once card o is taken out of them.
FilledBut(srt, o) ==
    \A b \in Children, s \in Statuses : Filled(srt, Column(b, s) \ {o})

LEMMA FilledIsContiguous ==
    ASSUME NEW srt \in [Orders -> Int], NEW col \in SUBSET Orders, Filled(srt, col)
    PROVE  Contiguous(srt, col)
<1>1. ASSUME NEW p \in col, srt[p] > 1
      PROVE  \E q \in col : srt[q] = srt[p] - 1
  <2>1. srt[p] \in Int
    OBVIOUS
  <2>2. srt[p] - 1 \in 1..srt[p]
    BY <1>1, <2>1
  <2> QED
    BY <2>2 DEF Filled
<1> QED
  BY <1>1 DEF Contiguous, Filled

\* Without card o the gap it leaves is closed by the cards below it.
LEMMA GapFills ==
    ASSUME IInv, ChildColumnsFilled, NEW o \in Orders, life[o] = "Open",
           NEW col, \A p \in Orders \ {o} : p \in col <=> Together(o, p)
    PROVE  FilledBut(CloseGap(sort, col, sort[o]), o)
<1> DEFINE gap == CloseGap(sort, col, sort[o])
           k == sort[o]
<1>1. sort \in [Orders -> Int] /\ k \in Int
  BY DEF IInv, TypeOK
<1>2. \A p \in Orders : gap[p] = IF p \in col /\ sort[p] > k THEN sort[p] - 1 ELSE sort[p]
  BY <1>1, CloseGapAt
<1> HIDE DEF gap
<1> SUFFICES ASSUME NEW b \in Children, NEW s \in Statuses
             PROVE  Filled(gap, Column(b, s) \ {o})
  BY DEF FilledBut, gap
<1> DEFINE C == Column(b, s)
<1>3. C \subseteq Orders /\ Filled(sort, C)
  BY DEF Column, ChildColumnsFilled
<1>4. CASE o \in C
  <2>1. \A p \in C \ {o} : p \in col /\ sort[p] # k
    BY <1>3, <1>4 DEF Column, Together, IInv, Distinct
  <2>2. ASSUME NEW p \in C \ {o}, NEW n \in 1..gap[p]
        PROVE  \E q \in C \ {o} : gap[q] = n
    <3>1. /\ sort[p] \in Int /\ sort[p] # k /\ n \in Int /\ n >= 1 /\ n <= gap[p]
          /\ gap[p] = IF sort[p] > k THEN sort[p] - 1 ELSE sort[p]
      BY <1>1, <1>2, <1>3, <2>1
    <3>2. CASE n < k
      <4>1. n \in 1..sort[p]
        BY <3>1
      <4>2. PICK q \in C : sort[q] = n
        BY <1>3, <4>1 DEF Filled
      <4> QED
        BY <1>1, <1>2, <1>3, <3>2, <4>2
    <3>3. CASE n >= k
      <4>1. n + 1 \in 1..sort[p] /\ n + 1 > k
        BY <1>1, <3>1, <3>3
      <4>2. PICK q \in C : sort[q] = n + 1
        BY <1>3, <4>1 DEF Filled
      <4>3. q # o /\ sort[q] > k
        BY <1>1, <4>1, <4>2
      <4>4. gap[q] = n
        BY <1>2, <1>3, <2>1, <3>1, <4>2, <4>3
      <4> QED
        BY <4>3, <4>4
    <3> QED
      BY <1>1, <3>1, <3>2, <3>3
  <2>3. ASSUME NEW p \in C \ {o}
        PROVE  gap[p] >= 1
    <3>1. p \in Orders /\ sort[p] \in Int /\ sort[p] >= 1 /\ k >= 1
      BY <1>1, <1>3, <1>4 DEF Filled
    <3> QED
      BY <1>1, <1>2, <3>1
  <2> QED
    BY <2>2, <2>3 DEF Filled
<1>5. CASE o \notin C
  <2>1. \A p \in C : p \in Orders \ {o} /\ p \notin col
    BY <1>5 DEF Column, Together
  <2>2. \A p \in C : gap[p] = sort[p]
    BY <1>2, <2>1
  <2>3. C \ {o} = C
    BY <1>5
  <2> QED
    BY <1>3, <2>2, <2>3 DEF Filled
<1> QED
  BY <1>4, <1>5

LEMMA OwnGapFills ==
    ASSUME IInv, ChildColumnsFilled, NEW o \in Orders, life[o] = "Open"
    PROVE  /\ FilledBut(CloseGap(sort, Peers(o), sort[o]), o)
           /\ FilledBut(CloseGap(sort, Peers(o) \ {o}, sort[o]), o)
<1>1. \A col : (\A p \in Orders \ {o} : p \in col <=> Together(o, p))
        => FilledBut(CloseGap(sort, col, sort[o]), o)
  BY GapFills
<1> QED
  BY <1>1, PeersTogether

\* A card that is in no child column leaves none of them with a gap.
LEMMA AbsentFills ==
    ASSUME ChildColumnsFilled, NEW o \in Orders,
           life[o] # "Open" \/ branch[o] = Mother
    PROVE  FilledBut(sort, o)
<1>1. ASSUME NEW b \in Children, NEW s \in Statuses
      PROVE  Column(b, s) \ {o} = Column(b, s)
  BY BranchesAssumption DEF Column
<1> QED
  BY <1>1 DEF ChildColumnsFilled, FilledBut

\* A card that arrives at the top pushes the others down by one.
LEMMA ArrivalFills ==
    ASSUME TypeOK, NEW o \in Orders, NEW b, NEW s,
           NEW srt \in [Orders -> Int], OthersApart(srt, o), FilledBut(srt, o),
           life' = [life EXCEPT ![o] = "Open"],
           branch' = [branch EXCEPT ![o] = b],
           status' = [status EXCEPT ![o] = s],
           sort' = ArriveAtTop(srt, Column(b, s), o, Last)
    PROVE  ChildColumnsFilled'
<1>0. /\ Column(b, s)' = (Column(b, s) \ {o}) \cup {o}
      /\ \A c, r : c # b \/ r # s => Column(c, r)' = Column(c, r) \ {o}
  <2>1. /\ \A p \in Orders \ {o} : /\ life'[p] = life[p]
                                  /\ branch'[p] = branch[p]
                                  /\ status'[p] = status[p]
        /\ life'[o] = "Open" /\ branch'[o] = b /\ status'[o] = s
    BY DEF TypeOK
  <2> QED
    BY <2>1 DEF Column
<1>1. Last \in Int /\ Last > 1 /\ MaxSort < Last /\ MaxSort \in Int
  BY PositionAssumption
<1>2. \A p \in Orders : sort'[p] =
         IF p = o THEN 1
         ELSE IF p \in Column(b, s) /\ srt[p] < Last THEN srt[p] + 1
         ELSE srt[p]
  BY <1>1, ArriveAtTopAt
<1> SUFFICES ASSUME NEW c \in Children, NEW r \in Statuses
             PROVE  Filled(sort', Column(c, r)')
  BY DEF ChildColumnsFilled
<1> DEFINE C == Column(c, r) \ {o}
<1>3. C \subseteq Orders \ {o} /\ Filled(srt, C)
  BY DEF Column, FilledBut
<1>4. \A p \in C : life[p] = "Open" /\ srt[p] \in Int /\ srt[p] <= MaxSort
  BY DEF Column, OthersApart
<1>5. CASE c = b /\ r = s
  <2>1. Column(c, r)' = C \cup {o}
    BY <1>0, <1>5
  <2>2. sort'[o] = 1 /\ \A p \in C : sort'[p] = srt[p] + 1
    BY <1>1, <1>2, <1>3, <1>4, <1>5
  <2>3. ASSUME NEW p \in C \cup {o}, NEW n \in 1..sort'[p]
        PROVE  \E q \in C \cup {o} : sort'[q] = n
    <3>1. CASE n = 1
      BY <2>2, <3>1
    <3>2. CASE n # 1
      <4>1. p \in C
        BY <2>2, <3>2
      <4>2. n - 1 \in 1..srt[p]
        BY <1>4, <2>2, <3>2, <4>1
      <4>3. PICK q \in C : srt[q] = n - 1
        BY <1>3, <4>1, <4>2 DEF Filled
      <4> QED
        BY <2>2, <4>3
    <3> QED
      BY <3>1, <3>2
  <2>4. \A p \in C \cup {o} : sort'[p] >= 1
    BY <1>3, <1>4, <2>2 DEF Filled
  <2> QED
    BY <2>1, <2>3, <2>4 DEF Filled
<1>6. CASE c # b \/ r # s
  <2>1. Column(c, r)' = C
    BY <1>0, <1>6
  <2>2. \A p \in C : p \notin Column(b, s)
    BY <1>6 DEF Column
  <2>3. \A p \in C : sort'[p] = srt[p]
    BY <1>2, <1>3, <2>2
  <2> QED
    BY <1>3, <2>1, <2>3 DEF Filled
<1> QED
  BY <1>5, <1>6

\* A card that lands next to a card of another column, or at its top, leaves
\* no place above it empty.
LEMMA LandingFills ==
    ASSUME TypeOK, NEW o \in Orders, NEW s, NEW t \in Int, t >= 1, s # status[o],
           NEW srt \in [Orders -> Int], FilledBut(srt, o), life[o] = "Open",
           \/ t = 1
           \/ \E p \in Column(branch[o], s) : t = srt[p] \/ t = srt[p] + 1,
           UNCHANGED <<life, branch>>,
           status' = [status EXCEPT ![o] = s],
           sort' = [OpenSlot(srt, Column(branch[o], s), t) EXCEPT ![o] = t]
    PROVE  ChildColumnsFilled'
<1> DEFINE col == Column(branch[o], s)
           open == OpenSlot(srt, col, t)
<1>1. /\ open \in [Orders -> Int]
      /\ \A p \in Orders : open[p] = IF p \in col /\ srt[p] >= t THEN srt[p] + 1 ELSE srt[p]
  BY OpenSlotAt
<1>2. sort'[o] = t /\ \A p \in Orders \ {o} : sort'[p] = open[p]
  <2> HIDE DEF open
  <2>1. sort' = [open EXCEPT ![o] = t]
    BY DEF open
  <2> QED
    BY <1>1, <2>1
<1> HIDE DEF open
<1>3. /\ col' = col \cup {o}
      /\ \A c, r : c # branch[o] \/ r # s => Column(c, r)' = Column(c, r) \ {o}
      /\ o \notin col
  <2>1. /\ \A p \in Orders \ {o} : /\ life'[p] = life[p]
                                  /\ branch'[p] = branch[p]
                                  /\ status'[p] = status[p]
        /\ life'[o] = "Open" /\ branch'[o] = branch[o] /\ status'[o] = s
        /\ branch' = branch
    BY DEF TypeOK
  <2> QED
    BY <2>1 DEF Column
<1> SUFFICES ASSUME NEW c \in Children, NEW r \in Statuses
             PROVE  Filled(sort', Column(c, r)')
  BY DEF ChildColumnsFilled
<1> DEFINE C == Column(c, r) \ {o}
<1>4. C \subseteq Orders \ {o} /\ Filled(srt, C) /\ \A p \in C : srt[p] \in Int
  BY DEF Column, FilledBut
<1>5. CASE c = branch[o] /\ r = s
  <2>1. Column(c, r)' = C \cup {o} /\ C = col
    BY <1>3, <1>5
  <2>2. \A p \in C : sort'[p] = IF srt[p] >= t THEN srt[p] + 1 ELSE srt[p]
    BY <1>1, <1>2, <1>4, <2>1
  <2>3. ASSUME NEW n \in Int, n >= 1, n # t,
               n < t \/ \E p \in C : n <= sort'[p]
        PROVE  \E q \in C : sort'[q] = n
    <3>1. CASE n < t
      <4>1. PICK p \in C : t = srt[p] \/ t = srt[p] + 1
        BY <2>1, <2>3, <3>1
      <4>2. n \in 1..srt[p]
        BY <1>4, <2>3, <3>1, <4>1
      <4>3. PICK q \in C : srt[q] = n
        BY <1>4, <4>2 DEF Filled
      <4> QED
        BY <2>2, <3>1, <4>3
    <3>2. CASE n > t
      <4>1. PICK p \in C : n <= sort'[p]
        BY <2>3, <3>2
      <4>2. n - 1 \in 1..srt[p] /\ n - 1 >= t
        BY <1>4, <2>2, <2>3, <3>2, <4>1
      <4>3. PICK q \in C : srt[q] = n - 1
        BY <1>4, <4>2 DEF Filled
      <4> QED
        BY <2>2, <4>2, <4>3
    <3> QED
      BY <2>3, <3>1, <3>2
  <2>4. ASSUME NEW p \in C \cup {o}, NEW n \in 1..sort'[p]
        PROVE  \E q \in C \cup {o} : sort'[q] = n
    <3>1. n \in Int /\ n >= 1 /\ (n = t \/ n < t \/ \E q \in C : n <= sort'[q])
      BY <1>2, <1>4, <2>2
    <3> QED
      BY <1>2, <2>3, <3>1
  <2>5. \A p \in C \cup {o} : sort'[p] >= 1
    BY <1>2, <1>4, <2>2 DEF Filled
  <2> QED
    BY <2>1, <2>4, <2>5 DEF Filled
<1>6. CASE c # branch[o] \/ r # s
  <2>1. Column(c, r)' = C
    BY <1>3, <1>6
  <2>2. \A p \in C : p \notin col
    BY <1>6 DEF Column
  <2>3. \A p \in C : sort'[p] = srt[p]
    BY <1>1, <1>2, <1>4, <2>2
  <2> QED
    BY <1>4, <2>1, <2>3 DEF Filled
<1> QED
  BY <1>5, <1>6

\* A card that slides to a place some card of the column is at or beyond swaps
\* places with the cards it passes.
LEMMA SlideFills ==
    ASSUME IInv, ChildColumnsFilled, NEW o \in Orders, life[o] = "Open",
           NEW t \in Int, t >= 1, \E p \in Peers(o) : sort[p] >= t,
           UNCHANGED <<life, branch, status>>,
           sort' = [Slide(sort, Peers(o), sort[o], t) EXCEPT ![o] = t]
    PROVE  ChildColumnsFilled'
<1> DEFINE slid == Slide(sort, Peers(o), sort[o], t)
           k == sort[o]
<1>1. sort \in [Orders -> Int] /\ k \in Int /\ k >= 1
  BY DEF IInv, TypeOK, Placed
<1>2. /\ slid \in [Orders -> Int]
      /\ \A p \in Orders : slid[p] =
            IF p \in Peers(o) /\ t <= sort[p] /\ sort[p] < k THEN sort[p] + 1
            ELSE IF p \in Peers(o) /\ k < sort[p] /\ sort[p] <= t THEN sort[p] - 1
            ELSE sort[p]
  BY <1>1, SlideAt
<1>3. sort'[o] = t /\ \A p \in Orders \ {o} : sort'[p] = slid[p]
  <2> HIDE DEF slid
  <2>1. sort' = [slid EXCEPT ![o] = t]
    BY DEF slid
  <2> QED
    BY <1>2, <2>1
<1> HIDE DEF slid
<1>4. \A c, r : Column(c, r)' = Column(c, r)
  BY DEF Column
<1> SUFFICES ASSUME NEW c \in Children, NEW r \in Statuses
             PROVE  Filled(sort', Column(c, r))
  BY <1>4 DEF ChildColumnsFilled
<1> DEFINE C == Column(c, r)
<1>5. C \subseteq Orders /\ Filled(sort, C) /\ \A p \in C : sort[p] \in Int
  BY <1>1 DEF Column, ChildColumnsFilled
<1>6. CASE o \in C
  <2>1. C = Peers(o)
    BY <1>6 DEF Column, Peers
  <2>2. \A p \in C \ {o} : sort[p] # k
    BY <1>6 DEF Column, Together, IInv, Distinct
  <2>3. \A p \in C \ {o} : sort'[p] = IF t <= sort[p] /\ sort[p] < k THEN sort[p] + 1
                                    ELSE IF k < sort[p] /\ sort[p] <= t THEN sort[p] - 1
                                    ELSE sort[p]
    BY <1>2, <1>3, <1>5, <2>1
  <2>4. PICK far \in C : sort[far] >= t
    BY <2>1
  <2>5. ASSUME NEW n \in Int, n >= 1, \E p \in C : n <= sort[p]
        PROVE  \E q \in C : sort[q] = n
    <3>1. PICK p \in C : n \in 1..sort[p]
      BY <1>5, <2>5
    <3> QED
      BY <1>5, <3>1 DEF Filled
  <2>6. ASSUME NEW p \in C, NEW n \in 1..sort'[p]
        PROVE  \E q \in C : sort'[q] = n
    <3>1. n \in Int /\ n >= 1 /\ (n <= t \/ n <= k \/ n <= sort[p])
      BY <1>1, <1>3, <1>5, <2>3
    <3>2. CASE n = t
      BY <1>3, <1>6, <3>2
    <3>3. CASE n # t /\ t < k /\ t < n /\ n <= k
      <4>1. PICK q \in C : sort[q] = n - 1
        BY <1>1, <1>6, <2>5, <3>1, <3>3
      <4> QED
        BY <1>1, <2>3, <3>1, <3>3, <4>1
    <3>4. CASE n # t /\ k < t /\ k <= n /\ n < t
      <4>1. n + 1 \in Int /\ n + 1 >= 1 /\ n + 1 <= sort[far]
        BY <1>5, <2>4, <3>1, <3>4
      <4>2. PICK q \in C : sort[q] = n + 1
        BY <2>5, <4>1
      <4> QED
        BY <1>1, <2>3, <3>1, <3>4, <4>2
    <3>5. CASE n # t /\ ~(t < n /\ n <= k) /\ ~(k <= n /\ n < t)
      <4>1. PICK q \in C : sort[q] = n
        BY <1>1, <1>5, <1>6, <2>4, <2>5, <3>1
      <4>2. q # o
        BY <1>1, <3>1, <3>5, <4>1
      <4>3. ~(t <= n /\ n < k) /\ ~(k < n /\ n <= t)
        BY <1>1, <3>1, <3>5
      <4>4. sort'[q] = n
        BY <2>3, <4>1, <4>2, <4>3
      <4> QED
        BY <4>4
    <3> QED
      BY <1>1, <3>1, <3>2, <3>3, <3>4, <3>5
  <2>7. ASSUME NEW p \in C PROVE sort'[p] >= 1
    <3>1. sort[p] \in Int /\ sort[p] >= 1
      BY <1>5 DEF Filled
    <3> QED
      BY <1>1, <1>3, <2>3, <3>1
  <2> QED
    BY <2>6, <2>7 DEF Filled
<1>7. CASE o \notin C
  <2>1. \A p \in C : p # o /\ p \notin Peers(o)
    BY <1>7 DEF Column, Peers
  <2>2. \A p \in C : sort'[p] = sort[p]
    BY <1>2, <1>3, <1>5, <2>1
  <2> QED
    BY <1>5, <2>2 DEF Filled
<1> QED
  BY <1>6, <1>7

\* What happens to the cards of Mother does not concern the child columns.
LEMMA MotherApart ==
    ASSUME ChildColumnsFilled, TypeOK, UNCHANGED <<life, branch>>,
           \A p \in Orders : branch[p] # Mother
                => status'[p] = status[p] /\ sort'[p] = sort[p]
    PROVE  ChildColumnsFilled'
<1>1. ASSUME NEW c \in Children, NEW r \in Statuses
      PROVE  /\ Column(c, r)' = Column(c, r)
             /\ \A p \in Column(c, r) : sort'[p] = sort[p]
  BY BranchesAssumption DEF Column
<1> QED
  BY <1>1 DEF ChildColumnsFilled, Filled

LEMMA MotherTopFills ==
    ASSUME IInv, ChildColumnsFilled, NEW o \in Orders, branch[o] = Mother,
           UNCHANGED <<life, branch, status>>,
           sort' = MoveToTop(sort, Peers(o), o, sort[o])
    PROVE  ChildColumnsFilled'
<1>1. sort \in [Orders -> Int] /\ sort[o] \in Int /\ TypeOK
  BY DEF IInv, TypeOK
<1>2. \A p \in Orders : sort'[p] =
         IF sort[o] = 1 THEN sort[p]
         ELSE IF p = o THEN 1
         ELSE IF p \in Peers(o) /\ sort[p] < sort[o] THEN sort[p] + 1
         ELSE sort[p]
  BY <1>1, MoveToTopAt
<1>3. \A p \in Orders : branch[p] # Mother => p # o /\ p \notin Peers(o)
  BY DEF Peers, Column
<1>4. \A p \in Orders : branch[p] # Mother
         => status'[p] = status[p] /\ sort'[p] = sort[p]
  BY <1>2, <1>3
<1> QED
  BY <1>1, <1>4, MotherApart

LEMMA SystemMoveFills ==
    ASSUME IInv, ChildColumnsFilled, NEW o \in Orders, branch[o] = Mother, NEW s,
           SystemMove(o, s), UNCHANGED <<life, branch>>
    PROVE  ChildColumnsFilled'
<1>1. sort \in [Orders -> Int] /\ sort[o] \in Int /\ TypeOK
  BY DEF IInv, TypeOK
<1>2. CASE s = status[o]
  BY <1>1, <1>2, MotherTopFills DEF SystemMove, TypeOK
<1>3. CASE s # status[o]
  <2> DEFINE gap == CloseGap(sort, Peers(o), sort[o])
             open == OpenSlot(gap, Column(branch[o], s), 1)
  <2>1. /\ gap \in [Orders -> Int]
        /\ \A p \in Orders : p \notin Peers(o) => gap[p] = sort[p]
    BY <1>1, CloseGapAt
  <2> HIDE DEF gap
  <2>2. /\ open \in [Orders -> Int]
        /\ \A p \in Orders : p \notin Column(branch[o], s) => open[p] = gap[p]
    BY <2>1, OpenSlotAt
  <2> HIDE DEF open
  <2>3. sort' = [open EXCEPT ![o] = 1] /\ status' = [status EXCEPT ![o] = s]
    BY <1>3 DEF SystemMove, open, gap
  <2>4. \A p \in Orders : branch[p] # Mother
           => p # o /\ p \notin Peers(o) /\ p \notin Column(branch[o], s)
    BY DEF Peers, Column
  <2>5. \A p \in Orders : branch[p] # Mother
           => status'[p] = status[p] /\ sort'[p] = sort[p]
    BY <1>1, <2>1, <2>2, <2>3, <2>4 DEF TypeOK
  <2> QED
    BY <1>1, <2>5, MotherApart
<1> QED
  BY <1>2, <1>3

LEMMA InsertFills ==
    ASSUME IInv, ChildColumnsFilled, NEW o \in Orders, NEW b, NEW s, Insert(o, b, s)
    PROVE  ChildColumnsFilled'
<1>1. /\ TypeOK /\ sort \in [Orders -> Int] /\ OthersApart(sort, o)
      /\ FilledBut(sort, o)
  BY SortApart, AbsentFills DEF IInv, Insert
<1>2. /\ life' = [life EXCEPT ![o] = "Open"]
      /\ branch' = [branch EXCEPT ![o] = b]
      /\ status' = [status EXCEPT ![o] = s]
      /\ sort' = ArriveAtTop(sort, Column(b, s), o, Last)
  BY DEF Insert
<1> QED
  BY ONLY <1>1, <1>2, ArrivalFills, o \in Orders

LEMMA RehomeFills ==
    ASSUME IInv, ChildColumnsFilled, NEW o \in Orders, life[o] = "Open", NEW b, NEW s,
           life' = life,
           branch' = [branch EXCEPT ![o] = b],
           status' = [status EXCEPT ![o] = s],
           sort' = ArriveAtTop(CloseGap(sort, Peers(o), sort[o]), Column(b, s), o, Last)
    PROVE  ChildColumnsFilled'
<1> DEFINE gap == CloseGap(sort, Peers(o), sort[o])
<1>1. /\ gap \in [Orders -> Int] /\ OthersApart(gap, o) /\ FilledBut(gap, o)
      /\ TypeOK
  BY GapApart, OwnGapFills DEF IInv
<1>2. life' = [life EXCEPT ![o] = "Open"]
  BY DEF IInv, TypeOK
<1>3. sort' = ArriveAtTop(gap, Column(b, s), o, Last)
  OBVIOUS
<1> HIDE DEF gap
<1> QED
  BY <1>1, <1>2, <1>3, ArrivalFills

LEMMA MoveAcrossFills ==
    ASSUME ClientsInRange, IInv, ChildColumnsFilled, NEW o \in Orders, MoveAcross(o)
    PROVE  ChildColumnsFilled'
<1> DEFINE gap == CloseGap(sort, Peers(o), sort[o])
           Target(pos) == IF pos = 0 THEN 1 ELSE pos
<1>1. PICK s \in Statuses \ {status[o]}, pos \in Positions :
         /\ Aimed(Column(branch[o], s), pos)
         /\ status' = [status EXCEPT ![o] = s]
         /\ sort' = [OpenSlot(gap, Column(branch[o], s), Target(pos))
                        EXCEPT ![o] = Target(pos)]
  BY DEF MoveAcross
<1>2. Target(pos) \in Int /\ Target(pos) >= 1
  BY PositionAssumption
<1>3. life[o] = "Open" /\ life' = life /\ branch' = branch
  BY DEF MoveAcross
<1>4. /\ gap \in [Orders -> Int] /\ FilledBut(gap, o) /\ TypeOK
  BY <1>3, GapApart, OwnGapFills DEF IInv
<1>5. \A p \in Column(branch[o], s) : gap[p] = sort[p] /\ sort[p] >= 1
  <2>1. sort \in [Orders -> Int] /\ sort[o] \in Int
    BY DEF IInv, TypeOK
  <2>2. \A p \in Orders : p \notin Peers(o) => gap[p] = sort[p]
    BY <2>1, CloseGapAt
  <2>3. \A p \in Column(branch[o], s) : p \in Orders /\ p \notin Peers(o)
    BY <1>1 DEF Column, Peers
  <2>4. \A p \in Column(branch[o], s) : sort[p] >= 1
    BY DEF Column, IInv, Placed
  <2> HIDE DEF gap
  <2> QED
    BY <2>2, <2>3, <2>4
<1>6. \/ Target(pos) = 1
      \/ \E p \in Column(branch[o], s) :
            Target(pos) = gap[p] \/ Target(pos) = gap[p] + 1
  <2> HIDE DEF gap
  <2> QED
    BY <1>1, <1>5 DEF Aimed
<1>7. s # status[o]
  OBVIOUS
<1> HIDE DEF gap, Target
<1> QED
  BY ONLY <1>1, <1>2, <1>3, <1>4, <1>6, <1>7, LandingFills, o \in Orders

LEMMA SoftDeleteFills ==
    ASSUME IInv, ChildColumnsFilled, NEW o \in Orders, SoftDelete(o)
    PROVE  ChildColumnsFilled'
<1>1. FilledBut(sort', o)
  BY OwnGapFills DEF SoftDelete
<1>2. /\ \A p \in Orders \ {o} : life'[p] = life[p]
      /\ life'[o] # "Open" /\ UNCHANGED <<branch, status>>
  BY DEF SoftDelete, IInv, TypeOK
<1>3. \A c, r : Column(c, r)' = Column(c, r) \ {o}
  BY <1>2 DEF Column
<1> QED
  BY <1>1, <1>3 DEF FilledBut, ChildColumnsFilled

LEMMA HandleFills ==
    ASSUME ClientsInRange, IInv, ChildColumnsFilled, NEW o \in Orders, Handle(o)
    PROVE  ChildColumnsFilled'
<1>1. CASE Create(o) \/ CreateInMother(o)
  BY <1>1, InsertFills DEF Create, CreateInMother
<1>2. CASE Update(o)
  <2>1. PICK s \in Statuses :
           /\ status' = [status EXCEPT ![o] = s]
           /\ sort' = ArriveAtTop(CloseGap(sort, Peers(o), sort[o]),
                                  Column(branch[o], s), o, Last)
    BY <1>2 DEF Update
  <2>2. life[o] = "Open" /\ life' = life /\ branch' = [branch EXCEPT ![o] = branch[o]]
    BY <1>2 DEF Update, IInv, TypeOK
  <2> QED
    BY <2>1, <2>2, RehomeFills
<1>3. CASE MoveAcross(o)
  BY <1>3, MoveAcrossFills
<1>4. CASE MoveWithin(o)
  <2>1. PICK pos \in Positions :
           /\ Aimed(Peers(o), pos)
           /\ \E p \in Peers(o) : sort[p] >= pos
           /\ sort' = [Slide(sort, Peers(o), sort[o], pos) EXCEPT ![o] = pos]
    BY <1>4 DEF MoveWithin
  <2>2. pos \in Int /\ pos >= 1
    BY <2>1, AimIsPositive DEF PositionsFit
  <2>3. life[o] = "Open" /\ UNCHANGED <<life, branch, status>>
    BY <1>4 DEF MoveWithin
  <2> QED
    BY <2>1, <2>2, <2>3, SlideFills
<1>5. CASE SoftDelete(o)
  BY <1>5, SoftDeleteFills
<1>6. CASE TransferBranch(o)
  <2>1. PICK b \in Children :
           /\ branch' = [branch EXCEPT ![o] = b]
           /\ sort' = ArriveAtTop(CloseGap(sort, Peers(o), sort[o]),
                                  Column(b, status[o]), o, Last)
    BY <1>6 DEF TransferBranch
  <2>2. life[o] = "Open" /\ life' = life /\ status' = [status EXCEPT ![o] = status[o]]
    BY <1>6 DEF TransferBranch, IInv, TypeOK
  <2> QED
    BY <2>1, <2>2, RehomeFills
<1>7. CASE Take(o)
  <2>1. PICK b \in Children :
           /\ branch' = [branch EXCEPT ![o] = b]
           /\ sort' = ArriveAtTop(sort, Column(b, status[o]), o, Last)
    BY <1>7 DEF Take
  <2>2. /\ life' = [life EXCEPT ![o] = "Open"]
        /\ status' = [status EXCEPT ![o] = status[o]]
    BY <1>7 DEF Take, IInv, TypeOK
  <2>3. /\ sort \in [Orders -> Int] /\ OthersApart(sort, o) /\ TypeOK
        /\ FilledBut(sort, o)
    BY <1>7, SortApart, AbsentFills DEF IInv, Take
  <2> QED
    BY <2>1, <2>2, <2>3, ArrivalFills
<1>8. CASE RestoreToMother(o)
  <2>1. /\ branch' = [branch EXCEPT ![o] = Mother]
        /\ sort' = ArriveAtTop(CloseGap(sort, Peers(o), sort[o]),
                               Column(Mother, status[o]), o, Last)
    BY <1>8 DEF RestoreToMother
  <2>2. life[o] = "Open" /\ life' = life /\ status' = [status EXCEPT ![o] = status[o]]
    BY <1>8 DEF RestoreToMother, IInv, TypeOK
  <2> QED
    BY <2>1, <2>2, RehomeFills
<1>9. CASE CallOnOrder(o) \/ CallAnswered(o)
  BY <1>9, MotherTopFills DEF CallOnOrder, CallAnswered, TelephonySees
<1>10. CASE InvalidateNoAnswer(o)
  BY <1>10, SystemMoveFills DEF InvalidateNoAnswer, TelephonySees
<1>11. CASE ProcessDue(o)
  BY <1>11, SystemMoveFills DEF ProcessDue, RequiredStatus
<1>12. CASE RecordNoAnswer(o) \/ DueElapses(o) \/ ForgetDue(o)
  <2>1. UNCHANGED <<life, branch, status, sort>> /\ TypeOK
    BY <1>12 DEF RecordNoAnswer, DueElapses, ForgetDue, IInv
  <2> QED
    BY <2>1, MotherApart
<1> QED
  BY <1>1, <1>2, <1>3, <1>4, <1>5, <1>6, <1>7, <1>8, <1>9, <1>10, <1>11, <1>12 DEF Handle

\* If clients drop a card next to a card of the column, the positions of every
\* column of a child branch stay 1, 2, ..., n: the contiguity the comments of
\* softDelete, transferBranch and handleStatusChangeReordering promise.
THEOREM ChildColumnsContiguousHolds ==
    ASSUME ClientsInRange
    PROVE  Spec => []ChildColumnsContiguous
<1>1. PositionsFit
  BY DEF PositionsFit
<1>2. Init => ChildColumnsFilled
  BY DEF Init, ChildColumnsFilled, Filled, Column
<1>3. IInv /\ ChildColumnsFilled /\ [Next]_vars => ChildColumnsFilled'
  <2>1. ASSUME IInv, ChildColumnsFilled, Next PROVE ChildColumnsFilled'
    BY <2>1, HandleFills DEF Next
  <2>2. ASSUME ChildColumnsFilled, UNCHANGED vars PROVE ChildColumnsFilled'
    BY <2>2 DEF vars, ChildColumnsFilled, Filled, Column
  <2> QED
    BY <2>1, <2>2
<1>4. IInv /\ ChildColumnsFilled => ChildColumnsContiguous
  <2>1. ASSUME IInv PROVE sort \in [Orders -> Int]
    BY <2>1 DEF IInv, TypeOK
  <2>2. \A b, s : Column(b, s) \in SUBSET Orders
    BY DEF Column
  <2> QED
    BY <2>1, <2>2, FilledIsContiguous DEF ChildColumnsFilled, ChildColumnsContiguous
<1>5. Spec => []IInv
  BY <1>1, BoardInvariant
<1> QED
  BY <1>2, <1>3, <1>4, <1>5, PTL DEF Spec

(***************************************************************************)
(* Calls and the count of unanswered ones.                                 *)
(***************************************************************************)
\* A call about an order raises it above every other card of its column; an
\* order that is at position 1 already, and is left alone, is the first.
THEOREM CallRaisesToTopHolds ==
    ASSUME PositionsFit
    PROVE  Spec => CallRaisesToTop
<1> DEFINE Raised == \A o \in Orders : CallOnOrder(o) \/ CallAnswered(o)
                        => IsFirst(sort', Column(branch[o], status[o]), o)
<1>1. ASSUME IInv, NEW o \in Orders, CallOnOrder(o) \/ CallAnswered(o)
      PROVE  IsFirst(sort', Column(branch[o], status[o]), o)
  <2>1. life[o] = "Open" /\ sort' = MoveToTop(sort, Peers(o), o, sort[o])
    BY <1>1 DEF CallOnOrder, CallAnswered, TelephonySees
  <2>2. sort \in [Orders -> Int] /\ sort[o] \in Int /\ sort[o] >= 1
    BY <1>1, <2>1 DEF IInv, TypeOK, Placed
  <2>3. \A p \in Orders : sort'[p] =
           IF sort[o] = 1 THEN sort[p]
           ELSE IF p = o THEN 1
           ELSE IF p \in Peers(o) /\ sort[p] < sort[o] THEN sort[p] + 1
           ELSE sort[p]
    BY <2>1, <2>2, MoveToTopAt
  <2>4. \A p \in Peers(o) \ {o} :
           p \in Orders /\ sort[p] \in Int /\ sort[p] >= 1 /\ sort[p] # sort[o]
    BY <1>1, <2>1, <2>2 DEF Peers, Column, IInv, Placed, Distinct, Together
  <2>5. \A p \in Peers(o) \ {o} : sort'[o] < sort'[p]
    BY <2>2, <2>3, <2>4
  <2> QED
    BY <2>5 DEF IsFirst, Peers
<1>2. IInv /\ [Next]_vars => [Raised]_vars
  BY <1>1
<1>3. CallRaisesToTop <=> [][Raised]_vars
  BY DEF CallRaisesToTop
<1> HIDE DEF Raised
<1> QED
  BY <1>2, <1>3, BoardInvariant, PTL DEF Spec

\* Whatever happens to an order meanwhile, one whose 24 hours run or have
\* elapsed is one a customer has not answered.
THEOREM DueHasCountHolds == Spec => []DueHasCount
<1>1. Init => DueHasCount
  BY DEF Init, DueHasCount
<1>2. TypeOK /\ DueHasCount /\ [Next]_vars => DueHasCount'
  <2>1. ASSUME TypeOK, DueHasCount, NEW o \in Orders, Handle(o)
        PROVE  DueHasCount'
    <3> USE <2>1 DEF TypeOK, DueHasCount
    <3>1. CASE UNCHANGED <<noAnswer, due>>
      BY <3>1
    <3>2. CASE CallAnswered(o)
      BY <3>2 DEF CallAnswered
    <3>3. CASE RecordNoAnswer(o)
      BY <3>3 DEF RecordNoAnswer
    <3>4. CASE InvalidateNoAnswer(o)
      BY <3>4 DEF InvalidateNoAnswer
    <3>5. CASE DueElapses(o)
      BY <3>5 DEF DueElapses
    <3>6. CASE ForgetDue(o) \/ ProcessDue(o)
      BY <3>6 DEF ForgetDue, ProcessDue
    <3> QED
      BY <3>1, <3>2, <3>3, <3>4, <3>5, <3>6
      DEF Handle, Create, CreateInMother, Insert, Update, MoveAcross, MoveWithin,
          SoftDelete, TransferBranch, Take, RestoreToMother, CallOnOrder
  <2> QED
    BY <2>1 DEF Next, vars, DueHasCount
<1> QED
  BY <1>1, <1>2, TypeCorrect, PTL DEF Spec

=============================================================================
