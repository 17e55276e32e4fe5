------------------------ MODULE MCBoardTransactions ------------------------
(* Small boards and pools for TLC. *)
EXTENDS BoardTransactions

CONSTANTS c1, c2, o1, o2, o3, mother, child, child2, new, ready

AllPairs == Statuses \X Statuses

SuperAdmin == {Branches}

\* A super admin and an admin of each child branch.
EveryScope == {Branches} \cup {{b} : b \in Children}

EmptyBoard == {[o \in Orders |-> NoRow(s)] : s \in Statuses}

Card(b, s, place, from) ==
    [life |-> "Open", branch |-> b, status |-> s, sort |-> place,
     logged |-> b, fromMother |-> from]

\* Mother has o1 above o2; child has o3, which it took from Mother.
SmallBoard ==
    {[o \in Orders |-> CASE o = o1 -> Card(mother, new, 1, FALSE)
                         [] o = o2 -> Card(mother, new, 2, FALSE)
                         [] o = o3 -> Card(child, new, 1, TRUE)]}
=============================================================================
