----------------------------- MODULE OrderPapers -----------------------------
(***************************************************************************)
(* The two papers printed for one repair order: the service form, which    *)
(* has a row and a file, and the warranty agreement, a file named after    *)
(* the form.  Either is printed anew on request.  Files are kept outside   *)
(* the database; what goes wrong with one that is to be deleted, or with   *)
(* the list of them, is only logged.                                       *)
(***************************************************************************)
EXTENDS Naturals, FiniteSets

CONSTANTS
    PaperIds,   \* warranty_id of forms, in the order they are drawn
    Clerks,     \* requests served at a time
    MaxPapers   \* bound: papers ever asked for

ASSUME PapersAssumption == PaperIds \subseteq Nat /\ MaxPapers \in Nat
ASSUME ClerksAssumption == IsFiniteSet(Clerks)

VARIABLES
    stored,    \* files of forms and of agreements
    forms,     \* service_forms: warranty_id and created_at
    clerk,     \* what each request is doing
    papers,    \* requests so far
    issued,    \* forms dated so far
    agreed,    \* history: an agreement was printed
    astray     \* history: papers that overlapping or broken requests left in doubt

papersVars == <<stored, forms, clerk, papers, issued, agreed, astray>>

\* alone: no other request meddled with the same paper.
NoPaper == [kind |-> "none", step |-> "rest", id |-> 0, at |-> 0, files |-> {}, old |-> {}, alone |-> TRUE]

PapersInit ==
    /\ stored = [form |-> {}, agreement |-> {}]
    /\ forms = {}
    /\ clerk = [w \in Clerks |-> NoPaper]
    /\ papers = 0 /\ issued = 0
    /\ agreed = FALSE /\ astray = {}

\* getServiceForm, and the query of the agreement: the latest.
CurrentForm == {f \in forms : \A g \in forms : g.at <= f.at}

Printing(kind) == {w \in Clerks : clerk[w].kind = kind}

\* Everything else that is being printed meddles, but another agreement of the
\* same form does not.
Meddles(w, kind, id) == clerk[w].kind = kind /\ ~(kind = "agreement" /\ clerk[w].id = id)

BeginPaper(w, paper) ==
    LET rivals == {x \in Clerks : Meddles(x, paper.kind, paper.id)}
    IN  /\ clerk[w] = NoPaper
        /\ papers < MaxPapers /\ papers' = papers + 1
        /\ clerk' = [x \in Clerks |->
                CASE x = w -> [paper EXCEPT !.alone = rivals = {}]
                  [] x \in rivals -> [clerk[x] EXCEPT !.alone = FALSE]
                  [] OTHER -> clerk[x]]
        /\ UNCHANGED <<stored, forms, issued, agreed, astray>>

PutDown(w) == clerk' = [clerk EXCEPT ![w] = NoPaper]

Settle(w) ==
    astray' = IF clerk[w].alone THEN astray \ {clerk[w].kind} ELSE astray \cup {clerk[w].kind}

(***************************************************************************)
(* createServiceForm: delete what is listed, print, upload, replace the    *)
(* row.                                                                    *)
(***************************************************************************)
\* The list fails or tells what is there.
CreateServiceForm(w) ==
    \E listed \in {{}, stored.form} :
        BeginPaper(w, [NoPaper EXCEPT !.kind = "form", !.step = "clear", !.files = listed])

ClearForm(w, id) ==
    LET p == clerk[w]
    IN  /\ p.kind = "form" /\ p.step = "clear" /\ id \in p.files
        /\ \E kept \in {{}, {id}} : stored' = [stored EXCEPT !.form = (@ \ {id}) \cup (@ \cap kept)]
        /\ clerk' = [clerk EXCEPT ![w].files = @ \ {id}]
        /\ UNCHANGED <<forms, papers, issued, agreed, astray>>

Drawn == stored.form \cup {f.id : f \in forms} \cup {clerk[w].id : w \in Clerks}

\* Its date is taken once it is uploaded.
UploadForm(w, id) ==
    /\ clerk[w].kind = "form" /\ clerk[w].step = "clear" /\ clerk[w].files = {}
    /\ id \notin Drawn
    /\ stored' = [stored EXCEPT !.form = @ \cup {id}]
    /\ issued' = issued + 1
    /\ clerk' = [clerk EXCEPT ![w] = [@ EXCEPT !.step = "save", !.id = id, !.at = issued']]
    /\ UNCHANGED <<forms, papers, agreed, astray>>

\* The rows of the order are deleted that there are when the DELETE begins.
DropForms(w) ==
    /\ clerk[w].step = "save"
    /\ clerk' = [clerk EXCEPT ![w] = [@ EXCEPT !.step = "commit", !.old = forms]]
    /\ UNCHANGED <<stored, forms, papers, issued, agreed, astray>>

\* Mutant of SaveForm: the order keeps the row it has.
SaveFirstForm(w) ==
    /\ clerk[w].step = "commit"
    /\ forms' = IF forms = {} THEN {[id |-> clerk[w].id, at |-> clerk[w].at]} ELSE forms
    /\ Settle(w) /\ PutDown(w)
    /\ UNCHANGED <<stored, papers, issued, agreed>>

SaveForm(w) ==
    /\ clerk[w].step = "commit"
    /\ forms' = (forms \ clerk[w].old) \cup {[id |-> clerk[w].id, at |-> clerk[w].at]}
    /\ Settle(w) /\ PutDown(w)
    /\ UNCHANGED <<stored, papers, issued, agreed>>

(***************************************************************************)
(* createWarrantyAgreement: list, upload, delete what was listed.          *)
(***************************************************************************)
CreateWarrantyAgreement(w) ==
    \E form \in CurrentForm :
        BeginPaper(w, [NoPaper EXCEPT !.kind = "agreement", !.step = "list", !.id = form.id])

ListAgreements(w) ==
    /\ clerk[w].step = "list"
    /\ \E listed \in {{}, stored.agreement} :
        clerk' = [clerk EXCEPT ![w] = [@ EXCEPT !.step = "upload", !.files = listed]]
    /\ UNCHANGED <<stored, forms, papers, issued, agreed, astray>>

\* Mutant of UploadAgreement: everything that was listed is to be deleted.
UploadToDeleted(w) ==
    /\ clerk[w].step = "upload"
    /\ stored' = [stored EXCEPT !.agreement = @ \cup {clerk[w].id}]
    /\ agreed' = TRUE
    /\ clerk' = [clerk EXCEPT ![w] = [@ EXCEPT !.step = "clear"]]
    /\ UNCHANGED <<forms, papers, issued, astray>>

\* An agreement of the same name was overwritten and is not deleted.
UploadAgreement(w) ==
    LET p == clerk[w]
    IN  /\ p.step = "upload"
        /\ stored' = [stored EXCEPT !.agreement = @ \cup {p.id}]
        /\ agreed' = TRUE
        /\ clerk' = [clerk EXCEPT ![w] = [p EXCEPT !.step = "clear", !.files = @ \ {p.id}]]
        /\ UNCHANGED <<forms, papers, issued, astray>>

ClearAgreement(w, id) ==
    LET p == clerk[w]
    IN  /\ p.kind = "agreement" /\ p.step = "clear" /\ id \in p.files
        /\ \E kept \in {{}, {id}} :
            stored' = [stored EXCEPT !.agreement = (@ \ {id}) \cup (@ \cap kept)]
        /\ clerk' = [clerk EXCEPT ![w].files = @ \ {id}]
        /\ UNCHANGED <<forms, papers, issued, agreed, astray>>

\* The change is logged and the link handed out.
HandOver(w) ==
    /\ clerk[w].kind = "agreement" /\ clerk[w].step = "clear" /\ clerk[w].files = {}
    /\ Settle(w) /\ PutDown(w)
    /\ UNCHANGED <<stored, forms, papers, issued, agreed>>

\* Printing or uploading fails, or the server stops.
Drop(w) ==
    /\ clerk[w] # NoPaper
    /\ astray' = IF clerk[w].kind = "form" \/ ~clerk[w].alone THEN astray \cup {clerk[w].kind}
                 ELSE astray
    /\ PutDown(w)
    /\ UNCHANGED <<stored, forms, papers, issued, agreed>>

PapersNext ==
    \E w \in Clerks :
        \/ CreateServiceForm(w)
        \/ \E id \in PaperIds : ClearForm(w, id) \/ UploadForm(w, id)
        \/ DropForms(w)
        \/ SaveForm(w)
        \/ CreateWarrantyAgreement(w)
        \/ ListAgreements(w)
        \/ UploadAgreement(w)
        \/ \E id \in PaperIds : ClearAgreement(w, id)
        \/ HandOver(w)
        \/ Drop(w)

PapersSpec == PapersInit /\ [][PapersNext]_papersVars

(***************************************************************************)
(* What must hold.                                                         *)
(***************************************************************************)
\* Types: no two forms have one date.
PapersTypeOK ==
    /\ stored \in [form : SUBSET PaperIds, agreement : SUBSET PaperIds]
    /\ \A f, g \in forms : f.id \in PaperIds /\ f.at \in 1 .. issued /\ (f.at = g.at => f = g)
    /\ papers \in 0 .. MaxPapers /\ issued \in 0 .. MaxPapers
    /\ astray \subseteq {"form", "agreement"}

\* getServiceForm finds the file of the row it reads, and an agreement that
\* was printed stays until the next is there.  Excepted are a form being
\* printed, or whose printing was cut short or overlapped another's, and
\* agreements of two different forms printed at the same time.
PapersKept ==
    /\ Printing("form") = {} /\ "form" \notin astray =>
            \A f \in CurrentForm : f.id \in stored.form
    /\ agreed /\ "agreement" \notin astray
       /\ (\A w \in Printing("agreement") : clerk[w].alone) => stored.agreement # {}
=============================================================================
