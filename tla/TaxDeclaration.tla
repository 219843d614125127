--------------------------- MODULE TaxDeclaration ---------------------------
(***************************************************************************)
(* The tax declaration of one employee for one financial year and regime:  *)
(* TaxDeclarationService (create or replace the items, move through the    *)
(* stages), the employee portal's submission and the approval endpoint.    *)
(* Each request loads the row, works on what it loaded and commits; the    *)
(* session writes only the columns whose value differs from the loaded     *)
(* one, so the row two requests leave behind can mix columns of both.      *)
(*                                                                         *)
(* A request refused at the load, or one that stops half way, writes       *)
(* nothing: the first is left out and a request that takes no further step *)
(* shows the second.  Reasons and timestamps are left out.                 *)
(***************************************************************************)
EXTENDS Naturals, FiniteSets, FiniteSetsExt

CONSTANTS
  DeclRequests,   \* requests, each made once, numbered as they come
  Owner,          \* the employee's user
  Reviewers,      \* other users of the organization
  Sections,       \* section codes items are declared under
  Amounts,        \* amounts of an item, and amounts a reviewer verifies
  PortalAmount,   \* the total the portal writes for a declaration it creates
  Nobody          \* no user: actor_id or verified_by is None

ASSUME DeclAssumption ==
  /\ DeclRequests \subseteq Nat
  /\ Amounts \subseteq Nat /\ PortalAmount \in Nat
  /\ Owner \notin Reviewers /\ Nobody \notin Reviewers \cup {Owner}

NoRow == [status |-> "none"]

VARIABLES
  decl,         \* the row of tax_declarations, or NoRow
  items,        \* its rows of tax_declaration_items
  req,          \* req[r]: what request r is doing
  mixed,        \* history: the last update to commit had overlapped another one
  late,         \* history: updates under way that began before the last commit of one
  early,        \* history: updates under way that began before the row was frozen
  through       \* history: the kind of the request that last verified it and
                \*          whose actor the row names as its verifier

declarationVars == <<decl, items, req, mixed, late, early, through>>

-----------------------------------------------------------------------------
Stages == {"DRAFT", "SUBMITTED", "UNDER_REVIEW", "VERIFIED", "REJECTED", "FROZEN"}
Kinds == {"update", "transition", "portal", "APPROVE", "REJECT", "CLARIFICATION_REQUIRED"}
Actors == Reviewers \cup {Owner}

(* Sums of bounded sets of items stay in Nat.                              *)
Declaration == [status : Stages, declared : Nat, verified : Nat, verifier : Actors \cup {Nobody}]

(* by: the request that inserted the row; with the section it tells items  *)
(* apart as their ids do.                                                  *)
DeclItem == [by : DeclRequests, section : Sections, amount : Amounts, verified : Amounts \cup {0}, accepted : BOOLEAN]

Request == [step : {"waiting", "loaded", "listed", "done"}, kind : Kinds \cup {"none"}, actor : Actors \cup {Nobody},
            seen : Declaration \cup {NoRow}, items : SUBSET DeclItem]

At(step) == [step |-> step, kind |-> "none", actor |-> Owner, seen |-> NoRow, items |-> {}]

DeclTypeOK ==
  /\ decl \in Declaration \cup {NoRow}
  /\ items \subseteq DeclItem
  /\ DOMAIN req = DeclRequests /\ \A r \in DeclRequests : req[r] \in Request
  /\ mixed \in BOOLEAN /\ late \subseteq DeclRequests /\ early \subseteq DeclRequests
  /\ through \in Kinds \cup {"none"}

DeclInit ==
  /\ decl = NoRow /\ items = {}
  /\ req = [r \in DeclRequests |-> At("waiting")]
  /\ mixed = FALSE /\ late = {} /\ early = {} /\ through = "none"

-----------------------------------------------------------------------------
Answered(r) == req' = [req EXCEPT ![r] = At("done")]

(* The call raises or is answered with an error, and writes nothing.       *)
Refuse(r) == Answered(r) /\ late' = late \ {r} /\ early' = early \ {r} /\ UNCHANGED <<decl, items, mixed, through>>

(* What the session sends: the columns of new that differ from what it     *)
(* loaded.                                                                 *)
Written(r, new) ==
  [c \in DOMAIN decl |-> IF new[c] = req[r].seen[c] THEN decl[c] ELSE new[c]]

SameUserNever(actor) == FALSE
SameUser(actor) == actor = Owner

(* What passes the checks on the row as loaded: a frozen declaration is    *)
(* not updated, a missing one does not move, nobody reviews their own, and *)
(* what is verified or frozen is not approved again.                       *)
MayLoadFrozen(kind, actor) ==
  CASE kind \in {"update", "portal"} -> actor = Owner
    [] kind = "transition" -> decl # NoRow
    [] OTHER -> decl # NoRow /\ ~SameUser(actor)
MayLoad(kind, actor) ==
  CASE kind = "update"     -> decl # NoRow => decl.status # "FROZEN"
    [] kind = "portal"     -> actor = Owner
    [] kind = "transition" -> decl # NoRow
    [] OTHER -> /\ decl # NoRow /\ ~SameUser(actor)
                /\ kind = "APPROVE" => decl.status \notin {"VERIFIED", "FROZEN"}

(* A transition may be asked for without naming an actor.                  *)
Load(r, kind, actor) ==
  /\ req[r].step = "waiting" /\ \A q \in DeclRequests : q < r => req[q].step # "waiting"
  /\ actor = Nobody => kind = "transition"
  /\ MayLoad(kind, actor)
  /\ req' = [req EXCEPT ![r].step = "loaded", ![r].kind = kind, ![r].actor = actor, ![r].seen = decl]
  /\ UNCHANGED <<decl, items, mixed, late, early, through>>

(* decl.items: an update lists what it will delete, a verification looks   *)
(* its items up.                                                           *)
List(r) ==
  /\ req[r].step = "loaded" /\ req[r].kind \in {"update", "transition"}
  /\ req' = [req EXCEPT ![r].step = "listed", ![r].items = items]
  /\ UNCHANGED <<decl, items, mixed, late, early, through>>

SameRow(i, j) == i.by = j.by /\ i.section = j.section

(* What items declare, without what a reviewer made of them.               *)
Declared(its) == {[by |-> i.by, section |-> i.section, amount |-> i.amount] : i \in its}
ItemSum(its) == MapThenSumSet(LAMBDA d : d.amount, Declared(its))
VerifiedSum(amount, checked) == MapThenSumSet(LAMBDA it : amount[it], checked)

UpdatesUnderWay == {q \in DeclRequests : req[q].kind = "update" /\ req[q].step \in {"loaded", "listed"}}

RemovesNothing(r) == {}
Removes(r) == {i \in items : \E j \in req[r].items : SameRow(i, j)}

(* create_or_update_declaration from the deletions to the commit: a racing *)
(* first insert is refused by the unique key.                              *)
CommitUpdate(r) ==
  /\ req[r].step = "listed" /\ req[r].kind = "update"
  /\ IF req[r].seen = NoRow /\ decl # NoRow
     THEN Refuse(r)
     ELSE \E declared \in UNION {[S -> Amounts] : S \in SUBSET Sections} :
            LET new == {[by |-> r, section |-> s, amount |-> declared[s], verified |-> 0, accepted |-> FALSE] :
                          s \in DOMAIN declared} IN
            /\ items' = (items \ Removes(r)) \cup new
            /\ decl' = IF decl = NoRow
                       THEN [status |-> "DRAFT", declared |-> ItemSum(new), verified |-> 0, verifier |-> Nobody]
                       ELSE Written(r, [req[r].seen EXCEPT !.declared = ItemSum(new)])
            /\ mixed' = (r \in late)
            /\ late' = UpdatesUnderWay \ {r}
            /\ early' = early \ {r}
            /\ Answered(r) /\ UNCHANGED through

(* The stages a transition may go to from the one it loaded.               *)
VALID_TRANSITIONS ==
  [DRAFT |-> {"SUBMITTED"}, SUBMITTED |-> {"UNDER_REVIEW", "DRAFT"}, UNDER_REVIEW |-> {"VERIFIED", "REJECTED"},
   REJECTED |-> {"DRAFT", "SUBMITTED"}, VERIFIED |-> {"FROZEN", "UNDER_REVIEW"}, FROZEN |-> {"UNDER_REVIEW"}]

(* The row as the commit leaves it, with what it tells about freezing.     *)
Commits(r, new) ==
  /\ decl' = Written(r, new)
  /\ early' = IF decl'.status = "FROZEN" /\ decl.status # "FROZEN" THEN UpdatesUnderWay ELSE early
  /\ through' = IF new.status = "VERIFIED" /\ decl'.verifier = new.verifier THEN req[r].kind ELSE through
  /\ UNCHANGED <<mixed, late>>
  /\ Answered(r)

CommitTransition(r, target) ==
  /\ req[r].step = "listed" /\ req[r].kind = "transition"
  /\ target \in VALID_TRANSITIONS[req[r].seen.status] \ {"VERIFIED"}
  /\ Commits(r, [req[r].seen EXCEPT !.status = target])
  /\ UNCHANGED items

(* Verification item by item: amounts for some of the items looked up.     *)
(* With none given the verified total stays.                               *)
CommitVerification(r) ==
  /\ req[r].step = "listed" /\ req[r].kind = "transition"
  /\ "VERIFIED" \in VALID_TRANSITIONS[req[r].seen.status]
  /\ \E checked \in SUBSET req[r].items : \E amount \in [checked -> Amounts] :
       LET accepted(it) == [it EXCEPT !.verified = amount[it], !.accepted = TRUE] IN
       IF \E it \in checked : accepted(it) # it /\ ~\E j \in items : SameRow(it, j)
       THEN UNCHANGED items /\ Refuse(r)     \* an item was deleted under it
       ELSE /\ items' = {IF \E it \in checked : SameRow(it, j)
                         THEN LET it == CHOOSE it \in checked : SameRow(it, j) IN
                              [j EXCEPT !.verified = IF amount[it] = it.verified THEN j.verified ELSE amount[it],
                                        !.accepted = TRUE]
                         ELSE j : j \in items}
            /\ Commits(r, [req[r].seen EXCEPT !.status = "VERIFIED", !.verifier = req[r].actor,
                             !.verified = IF checked = {} THEN req[r].seen.verified
                                          ELSE VerifiedSum(amount, checked)])

(* The target is not one the table gives for the loaded stage.             *)
RefuseTransition(r) ==
  /\ req[r].step = "listed" /\ req[r].kind = "transition"
  /\ Refuse(r)

(* submit_employee_declaration: whatever the stage, and without items when *)
(* the declaration is new.                                                 *)
CommitPortal(r) ==
  /\ req[r].step = "loaded" /\ req[r].kind = "portal"
  /\ UNCHANGED items
  /\ CASE req[r].seen # NoRow -> Commits(r, [req[r].seen EXCEPT !.status = "SUBMITTED"])
       [] req[r].seen = NoRow /\ decl # NoRow -> Refuse(r)
       [] OTHER ->
            /\ decl' = [status |-> "SUBMITTED", declared |-> PortalAmount, verified |-> 0, verifier |-> Nobody]
            /\ Answered(r) /\ UNCHANGED <<mixed, late, early, through>>

(* process_approval_action.  A verified amount of 0 counts as none given.  *)
CommitApproval(r, amount) ==
  LET d == req[r].seen IN
  /\ req[r].step = "loaded"
  /\ CASE req[r].kind = "APPROVE" ->
            Commits(r, [d EXCEPT !.status = "VERIFIED", !.verifier = req[r].actor,
                                 !.verified = IF amount = 0 THEN d.declared ELSE amount])
       [] req[r].kind = "REJECT" -> Commits(r, [d EXCEPT !.status = "REJECTED"])
       [] req[r].kind = "CLARIFICATION_REQUIRED" -> Commits(r, [d EXCEPT !.status = "UNDER_REVIEW"])
       [] OTHER -> FALSE
  /\ UNCHANGED items

DeclNext ==
  \E r \in DeclRequests :
    \/ \E kind \in Kinds, actor \in Actors \cup {Nobody} : Load(r, kind, actor)
    \/ List(r) \/ CommitUpdate(r)
    \/ \E target \in Stages : CommitTransition(r, target)
    \/ CommitVerification(r) \/ RefuseTransition(r)
    \/ CommitPortal(r)
    \/ \E amount \in Amounts \cup {0} : CommitApproval(r, amount)

DeclSpec == DeclInit /\ [][DeclNext]_declarationVars

-----------------------------------------------------------------------------
(* The declared total is what the items add up to, unless the last update  *)
(* overlapped another one or the portal created the declaration and nobody *)
(* has itemised it since.                                                  *)
DeclaredTotalExplained ==
  decl # NoRow /\ ~mixed =>
    \/ decl.declared = ItemSum(items)
    \/ decl.declared = PortalAmount /\ items = {}

(* A declaration that counts as verified or frozen names one of the        *)
(* reviewers as its verifier, unless it was verified by the stage          *)
(* transition: that one takes whatever actor it is given, the owner or     *)
(* none, where the approval endpoint keeps owner and reviewer apart.       *)
VerificationAccounted ==
  decl # NoRow /\ decl.status \in {"VERIFIED", "FROZEN"} /\ decl.verifier \notin Reviewers
    => through = "transition"

DeclarationAccounted == DeclaredTotalExplained /\ VerificationAccounted

(* What is declared in a frozen declaration, in its items and in all,      *)
(* changes only by an update that was already under way when it was frozen.*)
FrozenContentHolds ==
  [][decl # NoRow /\ decl.status = "FROZEN" /\ (Declared(items)' # Declared(items) \/ decl'.declared # decl.declared)
       => \E r \in early : req'[r].step = "done"]_declarationVars
=============================================================================
