---------------------------- MODULE DetailsProofs ----------------------------
(***************************************************************************)
(* What the proofs about an order's details (OrderDetailsProofs) and about *)
(* its record (OrderRecordProofs) say of all that MCDetails puts side by   *)
(* side.                                                                   *)
(***************************************************************************)
EXTENDS MCDetails, OrderDetailsProofs, OrderRecordProofs

(***************************************************************************)
(* All of them side by side (MCDetails), for any values of its constants:  *)
(* what a behaviour is about keeps its invariant, the others do not move.  *)
(***************************************************************************)
Subjects == {"catalogue", "rental", "customer", "log", "comments", "papers", "documents", "lists",
             "notices", "gates"}

DetailsInv ==
    /\ about \in Subjects
    /\ about = "catalogue" => CatalogueInv
    /\ about = "rental" => RInv
    /\ about = "customer" => CInv
    /\ about = "log" => LogInv
    /\ about = "comments" => OrderCommentsInv
    /\ about = "papers" => DatesInv
    /\ about = "documents" => ClockInv
    /\ about = "lists" => ListingInv
    /\ about = "notices" => NoticesInv
    /\ about = "gates" => GatesInv

LEMMA DetailsStart == Init => DetailsInv
<1> SUFFICES ASSUME Init PROVE DetailsInv
  OBVIOUS
<1>1. about \in Subjects
  BY DEF Init, Subjects
<1>2. /\ RentalInit /\ CustomersInit /\ LogInit
      /\ about = "catalogue" => CatalogueInit
      /\ about = "comments" => CommentsInit
      /\ about = "papers" => PapersInit
      /\ about = "documents" => DocumentsInit
      /\ about = "lists" => ListingInit
      /\ about = "notices" => NoticesInit
      /\ about = "gates" => GatesInit
  BY DEF Init
<1> QED
  BY <1>1, <1>2, CatalogueStarts, InitKeeps, CustomersInitInvariant, LogInitKeeps, CommentsInitKeeps,
     DatesInitInv, ClockInitInv, ListingInitInv, NoticesInitInv, GatesInitInv DEF DetailsInv

LEMMA DetailsStep == DetailsInv /\ [Next]_vars => DetailsInv'
<1> SUFFICES ASSUME DetailsInv, [Next]_vars PROVE DetailsInv'
  OBVIOUS
<1>1. about' = about /\ about \in Subjects
  BY DEF Next, vars, DetailsInv
<1>2. CASE about = "catalogue"
  <2>1. [CatalogueNext]_catalogueVars
    BY <1>2 DEF Next, vars
  <2> QED
    BY <2>1, <1>1, <1>2, CatalogueKeeps DEF DetailsInv
<1>3. CASE about = "rental"
  <2>1. [RentalNext]_rentalVars
    BY <1>3 DEF Next, vars
  <2> QED
    BY <2>1, <1>1, <1>3, NextKeeps DEF DetailsInv
<1>4. CASE about = "customer"
  <2>1. [CustomersNext]_customersVars
    BY <1>4 DEF Next, vars
  <2> QED
    BY <2>1, <1>1, <1>4, CustomersNextInvariant DEF DetailsInv
<1>5. CASE about = "log"
  <2>1. [LogNext]_logVars
    BY <1>5 DEF Next, vars
  <2> QED
    BY <2>1, <1>1, <1>5, LogStepKeeps DEF DetailsInv
<1>6. CASE about = "comments"
  <2>1. [CommentsNext]_commentVars
    BY <1>6 DEF Next, vars
  <2> QED
    BY <2>1, <1>1, <1>6, CommentsStepKeeps DEF DetailsInv
<1>7. CASE about = "papers"
  <2>1. [PapersNext]_papersVars
    BY <1>7 DEF Next, vars
  <2> QED
    BY <2>1, <1>1, <1>7, DatesNextInv DEF DetailsInv
<1>8. CASE about = "documents"
  <2>1. [DocumentsNext]_documentsVars
    BY <1>8 DEF Next, vars
  <2> QED
    BY <2>1, <1>1, <1>8, ClockNextInv DEF DetailsInv
<1>9. CASE about = "lists"
  <2>1. ListingNext \/ UNCHANGED listingVars
    BY <1>9 DEF Next, vars
  <2> QED
    BY <2>1, <1>1, <1>9, ListingNextInv, ListingStutters DEF DetailsInv
<1>10. CASE about = "notices"
  <2>1. [NoticesNext]_noticeVars
    BY <1>10 DEF Next, vars
  <2> QED
    BY <2>1, <1>1, <1>10, NoticesNextInv DEF DetailsInv
<1>11. CASE about = "gates"
  <2>1. [GatesNext]_gateVars
    BY <1>11 DEF Next, vars
  <2> QED
    BY <2>1, <1>1, <1>11, GatesNextInv DEF DetailsInv
<1> QED
  BY <1>1, <1>2, <1>3, <1>4, <1>5, <1>6, <1>7, <1>8, <1>9, <1>10, <1>11 DEF Subjects

LEMMA DetailsInvariant == Spec => []DetailsInv
  BY DetailsStart, DetailsStep, PTL DEF Spec

\* Types: whatever a behaviour is about keeps to its values.
THEOREM DetailsTypeCorrect == Spec => []TypeOK
<1>1. ASSUME DetailsInv PROVE TypeOK
  <2>1. /\ about = "catalogue" => CatalogueTypeOK
        /\ about = "rental" => RentalTypeOK
        /\ about = "customer" => CustomersTypeOK
        /\ about = "log" => LogTypeOK
        /\ about = "comments" => CommentsTypeOK
    BY <1>1, CatalogueTells, RentalTyped, CustomersAreTyped, LogIsTyped, CommentsAreTyped DEF DetailsInv
  <2>2. /\ about = "papers" => PapersTypeOK
        /\ about = "documents" => DocumentsTypeOK
        /\ about = "lists" => ListingTypeOK
        /\ about = "notices" => NoticesTypeOK
        /\ about = "gates" => GatesTypeOK
    BY <1>1, PapersAreTyped, ClockTells, ListingTells, NoticesAreTyped, GatesAreTyped DEF DetailsInv
  <2> QED
    BY <2>1, <2>2, <1>1 DEF TypeOK, DetailsInv, Subjects
<1> QED
  BY <1>1, DetailsInvariant, PTL

\* The catalogue hangs together and the order fits it, but for the races and
\* rows the statements of Catalogue name; an order is in a status whose gates
\* let it pass, and what is offered is accepted (OrderGates).
THEOREM OrderSoundHolds == Spec => []OrderSound
<1>1. DetailsInv => OrderSound
  BY CatalogueTells, GatesTell DEF DetailsInv, OrderSound, CatalogueInv
<1> QED
  BY <1>1, DetailsInvariant, PTL

\* Lists in redis, of categories and of orders, are what the database has, but
\* for the exceptions named (findPhoneCategories, findAllByAdminBranch).
THEOREM CachesTrueHolds == Spec => []CachesTrue
<1>1. DetailsInv => CachesTrue
  BY CatalogueTells, OrderListsTell DEF DetailsInv, CachesTrue
<1> QED
  BY <1>1, DetailsInvariant, PTL

\* What leaves the server is what it keeps: papers that are printed, documents
\* that are published, notices that are sent.
THEOREM OutputsTrueHolds == Spec => []OutputsTrue
<1>1. DetailsInv => OutputsTrue
  BY PublishedTells, NoticesTell DEF DetailsInv, OutputsTrue, DatesInv, PapersInv, ClockInv
<1> QED
  BY <1>1, DetailsInvariant, PTL

=============================================================================
