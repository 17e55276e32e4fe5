------------------------- MODULE PublishedDocuments -------------------------
(***************************************************************************)
(* The public offer and the warranty conditions: versions in a table, of   *)
(* which one is active, and the PDF of the active one, kept under a fixed  *)
(* name outside the database.  A new offer is uploaded before its          *)
(* transaction commits, a warranty document after; warranty documents can  *)
(* be activated again, and a unique index allows one active at most.       *)
(***************************************************************************)
EXTENDS Naturals, FiniteSets, Sequences

CONSTANTS
    Texts,     \* contents
    NoText,    \* there is no PDF
    Bumps,     \* parts of the version that another content may raise: 1, 2 or 3
    Authors,   \* requests served at a time
    MaxDrafts  \* bound: requests ever made

ASSUME DocumentsAssumption == NoText \notin Texts /\ Bumps \subseteq 1 .. 3 /\ MaxDrafts \in Nat
ASSUME AuthorsAssumption == IsFiniteSet(Authors)

VARIABLES
    table,      \* offers or warranty documents
    documents,  \* its rows, in the order of their insertion
    pdf,        \* the text the PDF has
    author,     \* what each request is doing
    drafts,     \* requests so far
    clock,      \* transactions begun
    unsettled   \* history: overlapping or broken requests put the PDF in doubt

documentsVars == <<table, documents, pdf, author, drafts, clock, unsettled>>

DocumentRows == DOMAIN documents
FirstVersion == <<1, 0, 0>>

\* alone: no other request wrote documents at the same time.
NoDraft == [step |-> "rest", job |-> "none", text |-> NoText, version |-> FirstVersion,
            target |-> 0, at |-> 0, seen |-> {}, alone |-> TRUE]

DocumentsInit ==
    /\ table \in {"offers", "warranty"}
    /\ documents \in {<< >>} \cup {<<[version |-> FirstVersion, text |-> t, active |-> TRUE,
                                      status |-> "Open", at |-> 0]>> : t \in Texts}
    /\ pdf = NoText
    /\ author = [w \in Authors |-> NoDraft]
    /\ drafts = 0 /\ clock = 0
    /\ unsettled = FALSE

NewestOf(S) == {i \in S : \A j \in S : documents[j].at <= documents[i].at}
ActiveOpen == {i \in DocumentRows : documents[i].active /\ documents[i].status = "Open"}

\* findActive: the newest of them.
findActive == NewestOf(ActiveOpen)

\* The more the content changes, the higher the part that is raised.
smartIncrement(old, text) ==
    {[i \in 1 .. 3 |-> CASE i < part -> old.version[i]
                         [] i = part -> old.version[i] + 1
                         [] i > part -> 0] : part \in IF text = old.text THEN {3} ELSE Bumps}

Writing == {w \in Authors : author[w] # NoDraft}

Draft(w, d) ==
    /\ w \notin Writing
    /\ drafts < MaxDrafts /\ drafts' = drafts + 1
    /\ author' = [x \in Authors |->
            CASE x = w -> [d EXCEPT !.alone = Writing = {}]
              [] x \in Writing -> [author[x] EXCEPT !.alone = FALSE]
              [] OTHER -> author[x]]
    /\ UNCHANGED <<table, documents, pdf, clock, unsettled>>

MoveOn(w, d) == author' = [author EXCEPT ![w] = d] /\ UNCHANGED <<table, drafts>>

\* A new document settles what was in doubt, and so does an activation.
Complete(w) ==
    /\ unsettled' = (~author[w].alone \/ (unsettled /\ author[w].job = "get"))
    /\ MoveOn(w, NoDraft)

(***************************************************************************)
(* create: the version follows the newest row's, of any status.            *)
(***************************************************************************)
CreateDocument(w, text) ==
    \E version \in IF DocumentRows = {} THEN {FirstVersion}
                   ELSE UNION {smartIncrement(documents[i], text) : i \in NewestOf(DocumentRows)} :
        Draft(w, [NoDraft EXCEPT !.step = "begin", !.job = "create", !.text = text,
                                 !.version = version])

\* activate, for a warranty document that is not deleted; when it is the active
\* one its PDF is only uploaded again.
Activate(w, i) ==
    /\ table = "warranty" /\ documents[i].status = "Open"
    /\ Draft(w, [NoDraft EXCEPT !.job = "activate", !.target = i, !.text = documents[i].text,
                                !.step = IF documents[i].active THEN "upload" ELSE "begin"])

\* getPdfUrl makes a PDF where there is none.
GetPdfUrl(w) ==
    /\ pdf = NoText
    /\ \E i \in findActive :
        Draft(w, [NoDraft EXCEPT !.step = "upload", !.job = "get", !.text = documents[i].text])

\* The UPDATE of all rows finds those there are when it begins.
BeginWrite(w) ==
    /\ author[w].step = "begin"
    /\ clock' = clock + 1
    /\ MoveOn(w, [author[w] EXCEPT !.step = "deactivate", !.at = clock', !.seen = DocumentRows])
    /\ UNCHANGED <<documents, pdf, unsettled>>

Holders(i) == {w \in Authors : author[w].step \in {"write", "commit", "send"} /\ i \in author[w].seen}

\* It waits for whoever has updated them.
DeactivateAll(w) ==
    /\ author[w].step = "deactivate"
    /\ \A i \in author[w].seen : Holders(i) = {}
    /\ MoveOn(w, [author[w] EXCEPT !.step = "write"])
    /\ UNCHANGED <<documents, pdf, clock, unsettled>>

Taken(d) ==
    \/ d.job = "create" /\ \E i \in DocumentRows : documents[i].version = d.version
    \/ table = "warranty" /\ \E i \in ActiveOpen : i \notin d.seen

Undecided(w) == {x \in Authors \ {w} : author[x].step \in {"commit", "send"}}

\* The row is inserted or marked active.  Unique versions, and for warranty
\* documents the index of the active one, make it wait for others or fail.
WriteDocument(w) ==
    LET d == author[w]
        rejected == Taken(d)
    IN  /\ d.step = "write"
        /\ \A x \in Undecided(w) :
            table = "offers" /\ author[x].version # d.version
        /\ MoveOn(w, CASE rejected -> NoDraft
                        [] ~rejected /\ table = "offers" -> [d EXCEPT !.step = "send"]
                        [] OTHER -> [d EXCEPT !.step = "commit"])
        /\ UNCHANGED <<documents, pdf, clock, unsettled>>

\* The offer's PDF is uploaded inside the transaction.
UploadOffer(w) ==
    /\ author[w].step = "send"
    /\ pdf' = author[w].text
    /\ MoveOn(w, [author[w] EXCEPT !.step = "commit"])
    /\ UNCHANGED <<documents, clock, unsettled>>

\* The rows after an UPDATE that puts those it found to rest.
Rested(seen) ==
    [i \in DocumentRows |->
        IF i \in seen THEN [documents[i] EXCEPT !.active = FALSE] ELSE documents[i]]

Committed(d) ==
    IF d.job = "create"
    THEN Append(Rested(d.seen), [version |-> d.version, text |-> d.text, active |-> TRUE,
                                 status |-> "Open", at |-> d.at])
    ELSE [Rested(d.seen) EXCEPT ![d.target].active = TRUE]

\* Mutant of CommitDocument: it does not go on to the PDF.
CommitUnpublished(w) ==
    /\ author[w].step = "commit"
    /\ documents' = Committed(author[w])
    /\ Complete(w)
    /\ UNCHANGED <<pdf, clock>>

\* A warranty document's PDF is still to be uploaded.
CommitDocument(w) ==
    /\ author[w].step = "commit"
    /\ documents' = Committed(author[w])
    /\ IF table = "offers" THEN Complete(w)
       ELSE MoveOn(w, [author[w] EXCEPT !.step = "upload"]) /\ UNCHANGED unsettled
    /\ UNCHANGED <<pdf, clock>>

UploadPdf(w) ==
    /\ author[w].step = "upload"
    /\ pdf' = author[w].text
    /\ Complete(w)
    /\ UNCHANGED <<documents, clock>>

\* Making the PDF or uploading it fails, or the server stops.
Fail(w) ==
    /\ w \in Writing
    /\ unsettled' = (unsettled \/ (author[w].step = "commit" /\ table = "offers")
                               \/ (author[w].step = "upload" /\ author[w].job # "get"))
    /\ MoveOn(w, NoDraft)
    /\ UNCHANGED <<documents, pdf, clock>>

\* remove waits for who is updating the row.
RemoveDocument(i) ==
    /\ documents[i].status = "Open" /\ Holders(i) = {}
    /\ documents' = [documents EXCEPT ![i] = [@ EXCEPT !.status = "Deleted", !.active = FALSE]]
    /\ UNCHANGED <<table, pdf, author, drafts, clock, unsettled>>

DocumentsNext ==
    \/ \E w \in Authors :
        \/ \E text \in Texts : CreateDocument(w, text)
        \/ \E i \in DocumentRows : Activate(w, i)
        \/ GetPdfUrl(w)
        \/ BeginWrite(w) \/ DeactivateAll(w) \/ WriteDocument(w)
        \/ UploadOffer(w) \/ CommitDocument(w) \/ UploadPdf(w)
        \/ Fail(w)
    \/ \E i \in DocumentRows : RemoveDocument(i)

DocumentsSpec == DocumentsInit /\ [][DocumentsNext]_documentsVars

(***************************************************************************)
(* What must hold.                                                         *)
(***************************************************************************)
\* Types: versions are unique.
DocumentsTypeOK ==
    /\ \A i, j \in DocumentRows : documents[i].version = documents[j].version => i = j
    /\ \A i \in DocumentRows :
          documents[i].text \in Texts /\ documents[i].status \in {"Open", "Deleted"}
    /\ pdf \in Texts \cup {NoText}
    /\ drafts \in 0 .. MaxDrafts /\ clock \in 0 .. MaxDrafts

\* Of warranty documents one is active at most.  Of offers too, and the PDF
\* customers are given is that of the active document, while nothing is being
\* written, unless requests overlapped or one was cut short since a document
\* was last created or activated by itself.
PublishedIsActive ==
    /\ table = "warranty" => Cardinality(ActiveOpen) <= 1
    /\ Writing = {} /\ ~unsettled =>
        /\ Cardinality(ActiveOpen) <= 1
        /\ \A i \in ActiveOpen : pdf \in {NoText, documents[i].text}
=============================================================================
