----------------------------- MODULE RecordProofs -----------------------------
(***************************************************************************)
(* Proofs about the records the services keep.                             *)
(*                                                                         *)
(* The stored calculations, for any number of calls and employees: two     *)
(* CURRENT runs of an employee come only from saves that overlapped, and a *)
(* deleted run never comes back.                                           *)
(*                                                                         *)
(* A tax declaration under any number of concurrent requests, sections,    *)
(* amounts and reviewers.  The sums of items are left as they are: no      *)
(* proof looks into one.                                                   *)
(*                                                                         *)
(* The registry of statutory rules and the documents of the pipeline: how  *)
(* the registry came to hold what it holds, that a supersession leaves no  *)
(* domain without a rule, and that a document is carried at most once, by  *)
(* three officers.                                                         *)
(***************************************************************************)
EXTENDS CalculationStore, TaxDeclaration, RuleSupersession, RuleCandidates, FiniteSetTheorems, TLAPS

-----------------------------------------------------------------------------
(* Stored calculations.                                                    *)

Saving(c) == call[c].step \in {"matched", "holds"}

(* A call inserts its run only with its commit, and knows only runs that   *)
(* were committed before it.                                               *)
RunsOfEnded ==
  \A c \in Calls : /\ call[c].step # "done" => c \notin Committed
                   /\ known[c] \subseteq Committed

(* What a call is about to write are committed runs: those of a save are   *)
(* its employee's, from before it began, and once it holds them they are   *)
(* CURRENT and nobody else holds them.                                     *)
RowsCommitted == \A c \in Calls : call[c].rows \subseteq Committed
RowsOfSave ==
  \A c \in Calls : Saving(c) =>
    /\ call[c].user \in Employees /\ call[c].rows \subseteq known[c]
    /\ \A r \in call[c].rows : runs[r].owner = call[c].user
HeldCurrent == \A c \in Calls : call[c].step = "holds" => \A r \in call[c].rows : runs[r].status = "CURRENT"
HeldOnce ==
  \A c, d \in Calls : call[c].step = "holds" /\ call[d].step = "holds" /\ c # d => call[c].rows \cap call[d].rows = {}

(* No run a save knows turns CURRENT later, so those of its employee that  *)
(* still are were matched by its UPDATE.                                   *)
NoneMissed ==
  \A c \in Calls : Saving(c) =>
    \A r \in known[c] : runs[r].owner = call[c].user /\ runs[r].status = "CURRENT" => r \in call[c].rows

StoreIInv ==
  /\ StoreTypeOK /\ RunsOfEnded /\ RowsCommitted /\ RowsOfSave
  /\ HeldCurrent /\ HeldOnce /\ NoneMissed /\ CurrentExplained

LEMMA StoreInitHolds == StoreInit => StoreIInv
BY StoreAssumption DEF StoreInit, StoreIInv, StoreTypeOK, RunsOfEnded, RowsCommitted, RowsOfSave, HeldCurrent, HeldOnce, NoneMissed,
       CurrentExplained, Committed, Saving, Call, Run

(* What holds of a committed run and of every call.                        *)
LEMMA Rows ==
  ASSUME StoreTypeOK
  PROVE  /\ \A r \in Committed : runs[r] \in Run
         /\ \A c \in Calls : call[c] \in Call /\ known[c] \subseteq Calls
         /\ Committed \subseteq Calls
BY DEF StoreTypeOK, Committed

(* A step explains what the state before it explained when it turns no run *)
(* CURRENT or SUPERSEDED and none back to VERIFIED.                        *)
LEMMA StillExplained ==
  ASSUME CurrentExplained, Committed \subseteq Committed',
         \A r \in Committed : /\ known'[r] = known[r] /\ runs'[r].owner = runs[r].owner
                             /\ runs'[r].status \in {runs[r].status, "DELETED"},
         \A r \in Committed' : r \notin Committed => runs'[r].status = "VERIFIED"
  PROVE  CurrentExplained'
<1>1. ASSUME NEW r \in Committed', runs'[r].status = "CURRENT", NEW q \in Committed' \ {r},
             runs'[q].owner = runs'[r].owner, runs'[q].status = "CURRENT"
      PROVE  r \notin known'[q]
  <2>1. r \in Committed /\ q \in Committed
    BY <1>1
  <2>. QED
    BY <1>1, <2>1 DEF CurrentExplained
<1>2. ASSUME NEW r \in Committed', runs'[r].status = "SUPERSEDED"
      PROVE  \E q \in Committed' : r \in known'[q] /\ runs'[q].owner = runs'[r].owner /\ runs'[q].status # "VERIFIED"
  <2>1. r \in Committed /\ runs[r].status = "SUPERSEDED"
    BY <1>2
  <2>2. PICK q \in Committed : r \in known[q] /\ runs[q].owner = runs[r].owner /\ runs[q].status # "VERIFIED"
    BY <2>1 DEF CurrentExplained
  <2>. QED
    BY <2>1, <2>2
<1>. QED
  BY <1>1, <1>2 DEF CurrentExplained

-----------------------------------------------------------------------------
(* A call begins: everything a call under way relies on is there.  ran is  *)
(* whether its run is committed at once, which only a calculation does.    *)
LEMMA BeginStep ==
  ASSUME StoreIInv, NEW c \in Calls, NEW step, NEW user \in Employees \cup {NoOne}, NEW rows \in SUBSET Calls,
         Begins(c, step, user, rows), rows \subseteq Committed,
         \/ step = "done" /\ rows = {} /\ runs' = [runs EXCEPT ![c] = [owner |-> user, status |-> "VERIFIED"]]
         \/ step = "loaded" /\ runs' = runs
         \/ /\ step = "matched" /\ runs' = runs /\ user \in Employees
            /\ rows = {r \in Calls : Supersedes(runs[r], user)}
  PROVE  StoreIInv'
<1> DEFINE new == [step |-> step, user |-> user, rows |-> rows]
           run == [owner |-> user, status |-> "VERIFIED"]
<1>1. new \in Call /\ new.step = step /\ new.user = user /\ new.rows = rows
  BY DEF Call
<1>2. run \in Run /\ run # NoRun /\ run.status = "VERIFIED"
  BY StoreAssumption DEF Run
<1>3. /\ call[c].step = "waiting"
      /\ call' = [call EXCEPT ![c] = new] /\ known' = [known EXCEPT ![c] = Committed]
      /\ \/ step = "done" /\ rows = {} /\ runs' = [runs EXCEPT ![c] = run]
         \/ step \in {"matched", "loaded"} /\ runs' = runs
  BY DEF Begins
<1>. HIDE DEF new, run
<1>4. StoreTypeOK'
  BY <1>1, <1>2, <1>3, Rows DEF StoreIInv, StoreTypeOK
<1>5. c \notin Committed /\ call[c].step # "holds"
  BY <1>3 DEF StoreIInv, RunsOfEnded
<1>6. /\ \A d \in Calls : d # c => call'[d] = call[d] /\ known'[d] = known[d]
      /\ call'[c] = new /\ known'[c] = Committed
  BY <1>3 DEF StoreIInv, StoreTypeOK
<1>7. /\ Committed' = IF step = "done" THEN Committed \cup {c} ELSE Committed
      /\ \A r \in Committed : runs'[r] = runs[r]
      /\ step = "done" => runs'[c] = run
  BY <1>2, <1>3, <1>5 DEF StoreIInv, StoreTypeOK, Committed
<1>8. RunsOfEnded'
  BY <1>1, <1>6, <1>7, <1>3 DEF StoreIInv, RunsOfEnded
<1>9. RowsCommitted'
  BY <1>1, <1>6, <1>7 DEF StoreIInv, RowsCommitted
<1>10. HeldCurrent' /\ HeldOnce'
  BY <1>1, <1>3, <1>6, <1>7 DEF StoreIInv, RowsCommitted, HeldCurrent, HeldOnce
<1>11. RowsOfSave' /\ NoneMissed'
  <2>1. CASE step = "matched"
    <3>1. /\ user \in Employees /\ rows = {r \in Calls : Supersedes(runs[r], user)}
      BY <2>1
    <3>. QED
      BY <1>1, <1>6, <1>7, <2>1, <3>1, Rows
      DEF StoreIInv, RowsOfSave, NoneMissed, Saving, RunsOfEnded, RowsCommitted, Supersedes, Committed
  <2>2. CASE step # "matched"
    BY <1>1, <1>3, <1>6, <1>7, <2>2 DEF StoreIInv, RowsOfSave, NoneMissed, Saving, RunsOfEnded, RowsCommitted
  <2>. QED
    BY <2>1, <2>2
<1>12. CurrentExplained'
  <2>1. /\ Committed \subseteq Committed'
        /\ \A r \in Committed' : r \notin Committed => runs'[r].status = "VERIFIED"
    BY <1>2, <1>7
  <2>2. \A r \in Committed : known'[r] = known[r] /\ runs'[r] = runs[r]
    BY <1>5, <1>6, <1>7 DEF Committed
  <2>. QED
    BY <2>1, <2>2, StillExplained DEF StoreIInv
<1>. QED
  BY <1>4, <1>8, <1>9, <1>10, <1>11, <1>12 DEF StoreIInv

LEMMA HoldStep ==
  ASSUME StoreIInv, NEW c \in Calls, SaveHolds(c)
  PROVE  StoreIInv'
<1> DEFINE kept == {r \in call[c].rows : Supersedes(runs[r], call[c].user)}
<1>1. call[c] \in Call /\ call[c].rows \subseteq Calls
  BY Rows DEF StoreIInv, Call
<1>2. /\ call[c].step = "matched" /\ call[c].rows \cap Held = {} /\ runs' = runs /\ known' = known
      /\ call' = [call EXCEPT ![c].step = "holds", ![c].rows = kept]
  BY DEF SaveHolds
<1>3. /\ \A d \in Calls : d # c => call'[d] = call[d]
      /\ call'[c] \in Call /\ call'[c].step = "holds" /\ call'[c].rows = kept /\ call'[c].user = call[c].user
      /\ kept \subseteq call[c].rows
  BY <1>1, <1>2 DEF StoreIInv, StoreTypeOK, Call
<1>4. StoreTypeOK'
  BY <1>2, <1>3 DEF StoreIInv, StoreTypeOK
<1>5. Committed' = Committed
  BY <1>2 DEF Committed
<1>6. RunsOfEnded' /\ RowsCommitted'
  BY <1>2, <1>3, <1>5 DEF StoreIInv, RunsOfEnded, RowsCommitted
<1>12. CurrentExplained'
  BY <1>2, <1>5, StillExplained DEF StoreIInv
<1>7. \A d \in Calls : call[d].step = "holds" => kept \cap call[d].rows = {}
  BY <1>2, <1>3 DEF Held
<1>8. \A r \in kept : runs[r].status = "CURRENT"
  BY DEF Supersedes
<1>. HIDE DEF kept
<1>9. HeldCurrent'
  BY <1>2, <1>3, <1>8 DEF StoreIInv, HeldCurrent
<1>13. HeldOnce'
  <2>1. \A d, e \in Calls : d # c /\ e # c /\ d # e /\ call'[d].step = "holds" /\ call'[e].step = "holds"
          => call'[d].rows \cap call'[e].rows = {}
    BY <1>3 DEF StoreIInv, HeldOnce
  <2>2. \A d \in Calls : d # c /\ call'[d].step = "holds" =>
          call'[d].rows \cap call'[c].rows = {} /\ call'[c].rows \cap call'[d].rows = {}
    BY <1>3, <1>7
  <2>. QED
    BY <2>1, <2>2 DEF HeldOnce
<1>10. RowsOfSave'
  BY ZenonT(40), <1>2, <1>3 DEF StoreIInv, RowsOfSave, Saving
<1>11. NoneMissed'
  <2>1. \A r \in known[c] : runs[r].owner = call[c].user /\ runs[r].status = "CURRENT" => r \in kept
    BY <1>2 DEF StoreIInv, NoneMissed, Saving, Supersedes, RowsCommitted, Committed, kept
  <2>2. \A d \in Calls : d # c /\ call'[d].step \in {"matched", "holds"} =>
          \A r \in known[d] : runs[r].owner = call'[d].user /\ runs[r].status = "CURRENT" => r \in call'[d].rows
    BY <1>3 DEF StoreIInv, NoneMissed, Saving
  <2>. QED
    BY ZenonT(40), <1>2, <1>3, <2>1, <2>2 DEF NoneMissed, Saving
<1>. QED
  BY <1>4, <1>6, <1>9, <1>10, <1>11, <1>12, <1>13 DEF StoreIInv

-----------------------------------------------------------------------------
(* The end of a call: it has no rows any more, and the others keep theirs. *)
LEMMA EndStep ==
  ASSUME StoreTypeOK, NEW c \in Calls, Ends(c)
  PROVE  /\ \A d \in Calls : d # c => call'[d] = call[d]
         /\ call'[c] \in Call /\ call'[c].step = "done" /\ call'[c].rows = {}
         /\ call' \in [Calls -> Call]
<1>1. call[c] \in Call
  BY Rows
<1>2. call' = [call EXCEPT ![c] = [call[c] EXCEPT !.step = "done", !.rows = {}]]
  BY <1>1 DEF Ends, StoreTypeOK, Call
<1>3. [call[c] EXCEPT !.step = "done", !.rows = {}] \in Call
  BY <1>1 DEF Call
<1>. QED
  BY <1>1, <1>2, <1>3 DEF StoreTypeOK, Call

LEMMA CommitStep ==
  ASSUME StoreIInv, NEW c \in Calls, SaveCommits(c)
  PROVE  StoreIInv' /\ \A r \in Committed : runs[r].status = "DELETED" => runs'[r] = runs[r]
<1> DEFINE run == [owner |-> call[c].user, status |-> "CURRENT"]
           rows == call[c].rows
<1>1. /\ call[c].step = "holds" /\ known' = known /\ Ends(c)
      /\ runs' = [r \in Calls |-> IF r \in rows THEN [runs[r] EXCEPT !.status = "SUPERSEDED"]
                                  ELSE IF r = c THEN run ELSE runs[r]]
  BY DEF SaveCommits
<1>2. /\ rows \subseteq known[c] /\ rows \subseteq Committed /\ c \notin Committed
      /\ call[c].user \in Employees
      /\ \A r \in rows : runs[r] \in Run /\ runs[r].owner = call[c].user /\ runs[r].status = "CURRENT"
  BY <1>1, Rows DEF StoreIInv, RowsOfSave, Saving, RowsCommitted, HeldCurrent, RunsOfEnded
<1>3. /\ run \in Run /\ run # NoRun /\ run.owner = call[c].user /\ run.status = "CURRENT"
  BY <1>2, StoreAssumption DEF Run
<1>4. \A r \in rows : /\ runs'[r] \in Run /\ runs'[r] # NoRun
                      /\ runs'[r].owner = runs[r].owner /\ runs'[r].status = "SUPERSEDED"
  <2>. SUFFICES ASSUME NEW r \in rows
                PROVE  /\ runs'[r] \in Run /\ runs'[r] # NoRun
                       /\ runs'[r].owner = runs[r].owner /\ runs'[r].status = "SUPERSEDED"
    OBVIOUS
  <2>1. runs'[r] = [runs[r] EXCEPT !.status = "SUPERSEDED"] /\ runs[r] \in Run
    BY <1>1, <1>2, Rows DEF StoreIInv
  <2>. QED
    BY <2>1, StoreAssumption DEF Run
<1>5. /\ runs'[c] = run
      /\ \A r \in Calls : r # c /\ r \notin rows => runs'[r] = runs[r]
  BY <1>1, <1>2
<1>. HIDE DEF run, rows
<1>6. StoreTypeOK'
  <2>1. DOMAIN runs' = Calls /\ \A r \in Calls : runs'[r] \in Run \cup {NoRun}
    BY <1>1, <1>3, <1>4, <1>5 DEF StoreIInv, StoreTypeOK
  <2>. QED
    BY <1>1, <2>1, EndStep DEF StoreIInv, StoreTypeOK
<1>7. Committed' = Committed \cup {c}
  BY <1>2, <1>3, <1>4, <1>5, Rows DEF StoreIInv, Committed
<1>8. RunsOfEnded' /\ RowsCommitted'
  BY <1>1, <1>7, EndStep DEF StoreIInv, RunsOfEnded, RowsCommitted
<1>9. \A r \in Committed : r # c /\ runs'[r].owner = runs[r].owner
  BY <1>2, <1>4, <1>5, Rows DEF StoreIInv
<1>10. RowsOfSave'
  <2>1. \A d \in Calls : call'[d].step # "done" => call'[d] = call[d]
    BY <1>1, EndStep DEF StoreIInv
  <2>. QED
    <3>. SUFFICES ASSUME NEW d \in Calls, Saving(d)'
                  PROVE  /\ call'[d].user \in Employees /\ call'[d].rows \subseteq known'[d]
                         /\ \A r \in call'[d].rows : runs'[r].owner = call'[d].user
      BY DEF RowsOfSave
    <3>1. call'[d] = call[d] /\ Saving(d)
      BY <2>1 DEF Saving
    <3>. QED
      BY <1>1, <1>9, <3>1 DEF StoreIInv, RowsOfSave, RowsCommitted
<1>11. \A d \in Calls : call'[d].step = "holds" => call'[d] = call[d] /\ d # c /\ call[d].rows \cap rows = {}
  BY <1>1, EndStep DEF StoreIInv, HeldOnce, rows
<1>12. HeldCurrent' /\ HeldOnce'
  BY <1>2, <1>5, <1>9, <1>11, Rows DEF StoreIInv, HeldCurrent, HeldOnce, RowsCommitted
<1>13. \A r \in Committed : runs'[r].status = "CURRENT" => runs[r].status = "CURRENT" /\ r \notin rows
  BY <1>4, <1>5, <1>9, Rows DEF StoreIInv
<1>14. NoneMissed'
  BY <1>1, <1>9, <1>13, EndStep DEF StoreIInv, NoneMissed, RunsOfEnded, Saving
<1>15. CurrentExplained'
  <2>1. ASSUME NEW r \in Committed', runs'[r].status = "CURRENT", NEW q \in Committed' \ {r},
               runs'[q].owner = runs'[r].owner, runs'[q].status = "CURRENT"
        PROVE  r \notin known'[q]
    <3>1. CASE r = c
      BY <1>1, <1>2, <1>7, <3>1, Rows DEF StoreIInv, RunsOfEnded
    <3>2. CASE r # c /\ q = c
      BY <1>1, <1>3, <1>5, <1>7, <1>9, <1>13, <2>1, <3>2 DEF StoreIInv, NoneMissed, Saving, rows
    <3>3. CASE r # c /\ q # c
      BY <1>1, <1>7, <1>9, <1>13, <2>1, <3>3 DEF StoreIInv, CurrentExplained
    <3>. QED
      BY <3>1, <3>2, <3>3
  <2>2. ASSUME NEW r \in Committed', runs'[r].status = "SUPERSEDED"
        PROVE  \E q \in Committed' :
                 r \in known'[q] /\ runs'[q].owner = runs'[r].owner /\ runs'[q].status # "VERIFIED"
    <3>1. CASE r \in rows
      BY ZenonT(40), <1>1, <1>2, <1>3, <1>4, <1>5, <1>7, <3>1
    <3>2. CASE r \notin rows
      <4>1. r \in Committed /\ runs[r].status = "SUPERSEDED" /\ runs'[r] = runs[r]
        BY <1>3, <1>5, <1>7, <2>2, <3>2, Rows DEF StoreIInv
      <4>2. PICK q \in Committed : r \in known[q] /\ runs[q].owner = runs[r].owner /\ runs[q].status # "VERIFIED"
        BY <4>1 DEF StoreIInv, CurrentExplained
      <4>3. runs'[q].status # "VERIFIED"
        BY <1>4, <1>5, <1>9, <4>2, Rows DEF StoreIInv
      <4>. QED
        BY <1>1, <1>7, <1>9, <4>1, <4>2, <4>3
    <3>. QED
      BY <3>1, <3>2
  <2>. QED
    BY <2>1, <2>2 DEF CurrentExplained
<1>16. \A r \in Committed : runs[r].status = "DELETED" => runs'[r] = runs[r]
  BY <1>2, <1>5, <1>9, Rows DEF StoreIInv
<1>. QED
  BY <1>6, <1>8, <1>10, <1>12, <1>14, <1>15, <1>16 DEF StoreIInv

LEMMA FailStep ==
  ASSUME StoreIInv, NEW c \in Calls, SaveFails(c)
  PROVE  StoreIInv'
<1>1. runs' = runs /\ known' = known /\ Ends(c) /\ Committed' = Committed
  BY DEF SaveFails, Committed
<1>2. StoreTypeOK' /\ RunsOfEnded' /\ RowsCommitted' /\ CurrentExplained'
  BY <1>1, EndStep DEF StoreIInv, StoreTypeOK, RunsOfEnded, RowsCommitted, CurrentExplained
<1>3. RowsOfSave' /\ HeldCurrent' /\ HeldOnce' /\ NoneMissed'
  BY <1>1, EndStep DEF StoreIInv, RowsOfSave, HeldCurrent, HeldOnce, NoneMissed, Saving
<1>. QED
  BY <1>2, <1>3 DEF StoreIInv

LEMMA DeleteStep ==
  ASSUME StoreIInv, NEW c \in Calls, DeleteCommits(c)
  PROVE  StoreIInv' /\ \A r \in Committed : runs'[r].owner = runs[r].owner
                                       /\ (runs[r].status = "DELETED" => runs'[r].status = "DELETED")
<1> DEFINE rows == call[c].rows
<1>1. /\ call[c].step = "loaded" /\ known' = known /\ Ends(c) /\ rows \cap Held = {}
      /\ runs' = [r \in Calls |-> IF r \in rows THEN [runs[r] EXCEPT !.status = "DELETED"] ELSE runs[r]]
  BY DEF DeleteCommits
<1>2. rows \subseteq Committed /\ \A d \in Calls : call[d].step = "holds" => call[d].rows \cap rows = {}
  BY <1>1 DEF StoreIInv, RowsCommitted, Held
<1>3. \A r \in rows : /\ runs'[r] \in Run /\ runs'[r] # NoRun
                      /\ runs'[r].owner = runs[r].owner /\ runs'[r].status = "DELETED"
  <2>. SUFFICES ASSUME NEW r \in rows
                PROVE  /\ runs'[r] \in Run /\ runs'[r] # NoRun
                       /\ runs'[r].owner = runs[r].owner /\ runs'[r].status = "DELETED"
    OBVIOUS
  <2>1. runs'[r] = [runs[r] EXCEPT !.status = "DELETED"] /\ runs[r] \in Run
    BY <1>1, <1>2, Rows DEF StoreIInv
  <2>. QED
    BY <2>1, StoreAssumption DEF Run
<1>4. \A r \in Calls : r \notin rows => runs'[r] = runs[r]
  BY <1>1
<1>. HIDE DEF rows
<1>5. StoreTypeOK'
  <2>1. DOMAIN runs' = Calls /\ \A r \in Calls : runs'[r] \in Run \cup {NoRun}
    BY <1>1, <1>3, <1>4 DEF StoreIInv, StoreTypeOK
  <2>. QED
    BY <1>1, <2>1, EndStep DEF StoreIInv, StoreTypeOK
<1>6. Committed' = Committed
  BY <1>2, <1>3, <1>4, Rows DEF StoreIInv, Committed
<1>7. \A r \in Committed : /\ runs'[r].owner = runs[r].owner
                           /\ runs'[r].status \in {runs[r].status, "DELETED"}
                           /\ runs[r].status = "DELETED" => runs'[r].status = "DELETED"
  BY <1>3, <1>4, Rows DEF StoreIInv
<1>8. RunsOfEnded' /\ RowsCommitted'
  BY <1>1, <1>6, EndStep DEF StoreIInv, RunsOfEnded, RowsCommitted
<1>9. RowsOfSave' /\ NoneMissed'
  BY <1>1, <1>7, EndStep, Rows DEF StoreIInv, RowsOfSave, RowsCommitted, RunsOfEnded, NoneMissed, Saving
<1>10. HeldCurrent' /\ HeldOnce'
  BY <1>1, <1>2, <1>4, EndStep, Rows DEF StoreIInv, HeldCurrent, HeldOnce, RowsCommitted
<1>11. CurrentExplained'
  BY <1>1, <1>6, <1>7, StillExplained DEF StoreIInv
<1>. QED
  BY <1>5, <1>7, <1>8, <1>9, <1>10, <1>11 DEF StoreIInv

-----------------------------------------------------------------------------
(* What every step does with a deleted run: nothing that shows it again.   *)
DeletedKept ==
  \A r \in Committed : runs[r].status = "DELETED" =>
    r \in Committed' /\ runs'[r].status = "DELETED" /\ runs'[r].owner = runs[r].owner

LEMMA StoreNextStep ==
  ASSUME StoreIInv, [StoreNext]_storeVars
  PROVE  StoreIInv' /\ DeletedKept
<1>1. ASSUME NEW c \in Calls, NEW user \in Employees \cup Others, Calculate(c, user)
      PROVE  StoreIInv' /\ DeletedKept
  <2> DEFINE owner == IF user \in Employees THEN user ELSE NoOne
  <2>1. /\ Begins(c, "done", owner, {}) /\ runs' = [runs EXCEPT ![c] = [owner |-> owner, status |-> "VERIFIED"]]
        /\ owner \in Employees \cup {NoOne}
    BY <1>1 DEF Calculate
  <2>. HIDE DEF owner
  <2>2. StoreIInv'
    <3>1. {} \in SUBSET Calls /\ {} \subseteq Committed
      OBVIOUS
    <3>. QED
      BY <2>1, <3>1, BeginStep
  <2>3. c \notin Committed
    BY <2>1 DEF StoreIInv, RunsOfEnded, Begins
  <2>. QED
    BY <2>1, <2>2, <2>3 DEF DeletedKept, Committed, StoreIInv, StoreTypeOK
<1>2. ASSUME NEW c \in Calls, NEW employee \in Employees, SaveStarts(c, employee)
      PROVE  StoreIInv' /\ DeletedKept
  <2> DEFINE rows == {r \in Calls : Supersedes(runs[r], employee)}
  <2>1. Begins(c, "matched", employee, rows) /\ runs' = runs /\ rows \subseteq Calls
    BY <1>2 DEF SaveStarts
  <2>2. rows \subseteq Committed
    BY DEF Supersedes, Committed
  <2>. QED
    BY <2>1, <2>2, BeginStep DEF DeletedKept, Committed
<1>3. ASSUME NEW c \in Calls, NEW employee \in Employees, NEW r \in Calls, DeleteLoads(c, employee, r)
      PROVE  StoreIInv' /\ DeletedKept
  <2>1. Begins(c, "loaded", employee, {r}) /\ runs' = runs /\ {r} \subseteq Committed
    BY <1>3 DEF DeleteLoads, Committed
  <2>. QED
    BY <2>1, BeginStep DEF DeletedKept, Committed
<1>4. ASSUME NEW c \in Calls, SaveHolds(c)
      PROVE  StoreIInv' /\ DeletedKept
  BY <1>4, HoldStep DEF SaveHolds, DeletedKept, Committed
<1>5. ASSUME NEW c \in Calls, SaveCommits(c)
      PROVE  StoreIInv' /\ DeletedKept
  BY <1>5, CommitStep DEF DeletedKept, Committed
<1>6. ASSUME NEW c \in Calls, SaveFails(c)
      PROVE  StoreIInv' /\ DeletedKept
  BY <1>6, FailStep DEF SaveFails, DeletedKept, Committed
<1>7. ASSUME NEW c \in Calls, DeleteCommits(c)
      PROVE  StoreIInv' /\ DeletedKept
  <2>1. StoreIInv'
    BY <1>7, DeleteStep
  <2>2. \A r \in Committed : r \in Committed'
    <3>1. \A r \in Committed : runs[r].status \in {"VERIFIED", "CURRENT", "SUPERSEDED", "DELETED"}
      BY Rows DEF StoreIInv, Run
    <3>. QED
      BY <1>7, Rows, StoreAssumption DEF DeleteCommits, Committed, StoreIInv, Run
  <2>. QED
    BY <1>7, <2>1, <2>2, DeleteStep DEF DeletedKept
<1>8. CASE UNCHANGED storeVars
  BY <1>8 DEF storeVars, StoreIInv, StoreTypeOK, RunsOfEnded, RowsCommitted, RowsOfSave, HeldCurrent, HeldOnce, NoneMissed,
              CurrentExplained, Committed, Saving, DeletedKept
<1>. QED
  BY <1>1, <1>2, <1>3, <1>4, <1>5, <1>6, <1>7, <1>8 DEF StoreNext

(* The strengthening the theorems below rest on.                           *)
THEOREM StoreInvariantHolds == StoreSpec => []StoreIInv
<1>1. StoreInit => StoreIInv
  BY StoreInitHolds
<1>2. StoreIInv /\ [StoreNext]_storeVars => StoreIInv'
  BY StoreNextStep
<1>. QED
  BY <1>1, <1>2, PTL DEF StoreSpec

(* However calculations, saves and deletions interleave, two runs of an    *)
(* employee are both CURRENT only if neither save saw the other's run      *)
(* committed when it began, and a superseded run has a saved successor     *)
(* (save_calculation_for_employee).                                        *)
THEOREM CurrentAlwaysExplained == StoreSpec => []CurrentExplained
<1>1. StoreIInv => CurrentExplained
  BY DEF StoreIInv
<1>. QED
  BY <1>1, StoreInvariantHolds, PTL

Stays ==
  \A r \in Committed : runs[r].status = "DELETED" =>
    /\ runs'[r].status = "DELETED"
    /\ \A u \in Employees : r \notin Listed(u)' /\ (r \in Resolvable(u) => r \in Resolvable(u)')

(* A run deleted from the history is neither listed again nor unlinked by  *)
(* any save or deletion that was under way (delete_calculation_from_history*)
(* and the UPDATE of save_calculation_for_employee).                       *)
THEOREM DeletedAlwaysStays == StoreSpec => DeletedStaysDeleted
<1>1. StoreIInv /\ [StoreNext]_storeVars => [Stays]_storeVars
  <2>. SUFFICES ASSUME StoreIInv, [StoreNext]_storeVars
                PROVE  Stays
    OBVIOUS
  <2>1. DeletedKept
    BY StoreNextStep
  <2>. QED
    BY <2>1 DEF DeletedKept, Stays, Listed, Resolvable
<1>2. [][Stays]_storeVars => DeletedStaysDeleted
  BY PTL DEF Stays, DeletedStaysDeleted
<1>3. StoreSpec => []StoreIInv
  BY StoreInvariantHolds
<1>. QED
  BY <1>1, <1>2, <1>3, PTL DEF StoreSpec

-----------------------------------------------------------------------------
(* Tax declarations.                                                       *)

(* The values the columns take.                                            *)
Totals == {ItemSum(its) : its \in SUBSET DeclItem} \cup {PortalAmount}
SumsOver(checked) == {VerifiedSum(amount, checked) : amount \in [checked -> Amounts]}
Sums == UNION {SumsOver(checked) : checked \in SUBSET DeclItem}
Verifieds == Sums \cup Amounts \cup Totals \cup {0}
Row == [status : Stages, declared : Totals, verified : Verifieds, verifier : Actors \cup {Nobody}]
State == [step : {"waiting", "loaded", "listed", "done"}, kind : Kinds \cup {"none"}, actor : Actors \cup {Nobody},
          seen : Row \cup {NoRow}, items : SUBSET DeclItem]

Typed ==
  /\ decl \in Row \cup {NoRow} /\ items \subseteq DeclItem
  /\ req \in [DeclRequests -> State]

(* What a request has loaded came before: a row that is there stays.       *)
SeenBefore ==
  /\ decl = NoRow => items = {}
  /\ \A r \in DeclRequests : req[r].seen # NoRow => decl # NoRow

(* Which requests get past the load with what.                             *)
Admitted ==
  \A r \in DeclRequests : req[r].step \in {"loaded", "listed"} =>
    /\ req[r].kind \in Kinds
    /\ req[r].kind \notin {"update", "portal"} => req[r].seen # NoRow
    /\ req[r].kind \in {"APPROVE", "REJECT", "CLARIFICATION_REQUIRED"} => req[r].actor \in Reviewers
    /\ req[r].kind = "APPROVE" => req[r].seen.status \notin {"VERIFIED", "FROZEN"}

(* As long as nobody has verified the declaration, no row that was loaded  *)
(* says otherwise; what the approval endpoint verified last names the      *)
(* reviewer who did.                                                       *)
Unverified(d) == d # NoRow => d.verifier = Nobody /\ d.status \notin {"VERIFIED", "FROZEN"}
VerifierNamed ==
  /\ through \in {"none", "transition", "APPROVE"}
  /\ through = "none" => Unverified(decl) /\ \A r \in DeclRequests : Unverified(req[r].seen)
  /\ through = "APPROVE" => decl # NoRow /\ decl.verifier \in Reviewers

(* An update that overlaps no other one finds the total and the items as   *)
(* it loaded them.                                                         *)
Keys(its) == {<<i.by, i.section>> : i \in its}
UpToDate ==
  \A r \in UpdatesUnderWay \ late :
    /\ req[r].seen # NoRow => req[r].seen.declared = decl.declared
    /\ req[r].step = "listed" => Keys(req[r].items) = Keys(items)

(* Nobody starts to update a frozen declaration.                           *)
FrozenKnown == decl # NoRow /\ decl.status = "FROZEN" => UpdatesUnderWay \subseteq early

DeclarationIInv ==
  /\ Typed /\ SeenBefore /\ Admitted /\ VerifierNamed
  /\ UpToDate /\ FrozenKnown /\ DeclaredTotalExplained

-----------------------------------------------------------------------------
LEMMA NoRowIsNone == NoRow \notin Row
BY DEF NoRow, Row, Stages

LEMMA Zeros ==
  /\ \A its \in SUBSET DeclItem : ItemSum(its) \in Totals
  /\ PortalAmount \in Totals
  /\ Totals \subseteq Verifieds /\ Amounts \subseteq Verifieds /\ 0 \in Verifieds
<1>1. \A its \in SUBSET DeclItem : ItemSum(its) \in {ItemSum(i) : i \in SUBSET DeclItem}
  OBVIOUS
<1>2. \A its \in SUBSET DeclItem : ItemSum(its) \in Totals
  BY <1>1, Zenon DEF Totals
<1>3. PortalAmount \in Totals
  BY DEF Totals
<1>4. Totals \subseteq Verifieds /\ Amounts \subseteq Verifieds /\ 0 \in Verifieds
  BY DEF Verifieds
<1>. QED
  BY <1>2, <1>3, <1>4

LEMMA VerifiedSums ==
  ASSUME NEW checked \in SUBSET DeclItem, NEW amount \in [checked -> Amounts]
  PROVE  VerifiedSum(amount, checked) \in Verifieds
<1>1. VerifiedSum(amount, checked) \in SumsOver(checked)
  BY DEF SumsOver
<1>2. SumsOver(checked) \in {SumsOver(c) : c \in SUBSET DeclItem}
  OBVIOUS
<1>. QED
  BY <1>1, <1>2 DEF Sums, Verifieds

(* A request that ends leaves the others as they are.                      *)
LEMMA AnsweredStep ==
  ASSUME Typed, NEW r \in DeclRequests, Answered(r)
  PROVE  /\ req' \in [DeclRequests -> State]
         /\ \A q \in DeclRequests : q # r => req'[q] = req[q]
         /\ req'[r].step = "done" /\ req'[r].seen = NoRow
         /\ UpdatesUnderWay' = UpdatesUnderWay \ {r}
<1>1. At("done") \in State /\ At("done").step = "done" /\ At("done").seen = NoRow
  BY DEF At, State, Actors
<1>2. req' = [req EXCEPT ![r] = At("done")]
  BY DEF Answered
<1>. HIDE DEF At
<1>3. /\ req' \in [DeclRequests -> State] /\ req'[r] = At("done")
      /\ \A q \in DeclRequests : q # r => req'[q] = req[q]
  BY <1>1, <1>2 DEF Typed
<1>. QED
  BY <1>1, <1>3 DEF UpdatesUnderWay

(* The end of a request disturbs none of the facts about the others that   *)
(* speak of no row.                                                        *)
LEMMA AdmittedKept ==
  ASSUME Typed, Admitted, NEW r \in DeclRequests, Answered(r)
  PROVE  Admitted'
BY AnsweredStep DEF Admitted

LEMMA DeclarationInitHolds == DeclInit => DeclarationIInv
<1>. SUFFICES ASSUME DeclInit
              PROVE  DeclarationIInv
  OBVIOUS
<1>1. At("waiting") \in State /\ At("waiting").step = "waiting" /\ At("waiting").seen = NoRow
  BY DEF At, State, Actors
<1>. HIDE DEF At
<1>. QED
  BY <1>1 DEF DeclInit, DeclarationIInv, Typed, SeenBefore, Admitted, VerifierNamed, Unverified, UpToDate, FrozenKnown,
              DeclaredTotalExplained, UpdatesUnderWay

-----------------------------------------------------------------------------
LEMMA LoadStep ==
  ASSUME DeclarationIInv, NEW r \in DeclRequests, NEW kind \in Kinds, NEW actor \in Actors \cup {Nobody}, Load(r, kind, actor)
  PROVE  DeclarationIInv'
<1> DEFINE new == [req[r] EXCEPT !.step = "loaded", !.kind = kind, !.actor = actor, !.seen = decl]
<1>1. req[r] \in State /\ decl \in Row \cup {NoRow}
  BY DEF DeclarationIInv, Typed
<1>2. new \in State /\ new.step = "loaded" /\ new.kind = kind /\ new.actor = actor /\ new.seen = decl
  BY <1>1 DEF State
<1>3. /\ req[r].step = "waiting" /\ MayLoad(kind, actor)
      /\ req' = [req EXCEPT ![r].step = "loaded", ![r].kind = kind, ![r].actor = actor, ![r].seen = decl]
      /\ UNCHANGED <<decl, items, mixed, late, early, through>>
  BY DEF Load
<1>4. req' = [req EXCEPT ![r] = new]
  BY <1>3 DEF DeclarationIInv, Typed
<1>. HIDE DEF new
<1>5. /\ req' \in [DeclRequests -> State] /\ req'[r] = new
      /\ \A q \in DeclRequests : q # r => req'[q] = req[q]
  BY <1>2, <1>4 DEF DeclarationIInv, Typed
<1>6. Typed' /\ DeclaredTotalExplained'
  BY <1>3, <1>5 DEF DeclarationIInv, Typed, DeclaredTotalExplained
<1>7. SeenBefore'
  BY <1>2, <1>3, <1>5 DEF DeclarationIInv, SeenBefore
<1>8. Admitted'
  <2>1. kind \notin {"update", "portal"} => decl # NoRow
    BY <1>3 DEF MayLoad, Kinds
  <2>2. kind \in {"APPROVE", "REJECT", "CLARIFICATION_REQUIRED"} => actor \in Reviewers
    BY DEF Load, MayLoad, SameUser, Actors
  <2>3. kind = "APPROVE" => decl.status \notin {"VERIFIED", "FROZEN"}
    BY <1>3 DEF MayLoad
  <2>. QED
    BY <1>2, <1>5, <2>1, <2>2, <2>3 DEF DeclarationIInv, Admitted
<1>9. VerifierNamed'
  BY <1>2, <1>3, <1>5 DEF DeclarationIInv, VerifierNamed, Unverified
<1>10. UpdatesUnderWay' = IF kind = "update" THEN UpdatesUnderWay \cup {r} ELSE UpdatesUnderWay
  BY <1>2, <1>3, <1>5 DEF UpdatesUnderWay
<1>11. r \notin UpdatesUnderWay
  BY <1>3 DEF UpdatesUnderWay
<1>12. UpToDate'
  BY <1>2, <1>3, <1>5, <1>10, <1>11 DEF DeclarationIInv, UpToDate, UpdatesUnderWay
<1>13. FrozenKnown'
  BY <1>3, <1>10 DEF DeclarationIInv, FrozenKnown, MayLoad
<1>. QED
  BY <1>6, <1>7, <1>8, <1>9, <1>12, <1>13 DEF DeclarationIInv

LEMMA ListStep ==
  ASSUME DeclarationIInv, NEW r \in DeclRequests, List(r)
  PROVE  DeclarationIInv'
<1> DEFINE new == [req[r] EXCEPT !.step = "listed", !.items = items]
<1>1. req[r] \in State /\ items \subseteq DeclItem
  BY DEF DeclarationIInv, Typed
<1>2. /\ new \in State /\ new.step = "listed" /\ new.kind = req[r].kind /\ new.actor = req[r].actor
      /\ new.seen = req[r].seen /\ new.items = items
  BY <1>1 DEF State
<1>3. /\ req[r].step = "loaded" /\ req' = [req EXCEPT ![r].step = "listed", ![r].items = items]
      /\ UNCHANGED <<decl, items, mixed, late, early, through>>
  BY DEF List
<1>4. req' = [req EXCEPT ![r] = new]
  BY <1>1, <1>3 DEF State, DeclarationIInv, Typed
<1>. HIDE DEF new
<1>5. /\ req' \in [DeclRequests -> State] /\ req'[r] = new
      /\ \A q \in DeclRequests : q # r => req'[q] = req[q]
  BY <1>2, <1>4 DEF DeclarationIInv, Typed
<1>6. UpdatesUnderWay' = UpdatesUnderWay
  BY <1>2, <1>3, <1>5 DEF UpdatesUnderWay
<1>7. Typed' /\ SeenBefore' /\ Admitted' /\ VerifierNamed'
  BY <1>2, <1>3, <1>5 DEF DeclarationIInv, Typed, SeenBefore, Admitted, VerifierNamed, Unverified
<1>8. UpToDate'
  <2>1. \A q \in UpdatesUnderWay \ late :
          /\ req'[q].seen # NoRow => req'[q].seen.declared = decl.declared
          /\ req'[q].step = "listed" => Keys(req'[q].items) = Keys(items)
    BY <1>2, <1>5 DEF DeclarationIInv, UpToDate, UpdatesUnderWay
  <2>. QED
    BY <1>3, <1>6, <2>1 DEF UpToDate, Keys
<1>9. FrozenKnown' /\ DeclaredTotalExplained'
  BY <1>3, <1>6 DEF DeclarationIInv, FrozenKnown, DeclaredTotalExplained
<1>. QED
  BY <1>7, <1>8, <1>9 DEF DeclarationIInv

LEMMA RefuseStep ==
  ASSUME DeclarationIInv, NEW r \in DeclRequests, Refuse(r), items' = items
  PROVE  DeclarationIInv'
<1>1. Answered(r) /\ late' = late \ {r} /\ early' = early \ {r} /\ UNCHANGED <<decl, items, mixed, through>>
  BY DEF Refuse
<1>2. Typed /\ Admitted
  BY DEF DeclarationIInv
<1>3. /\ req' \in [DeclRequests -> State] /\ UpdatesUnderWay' = UpdatesUnderWay \ {r}
      /\ \A q \in DeclRequests : q # r => req'[q] = req[q]
      /\ req'[r].step = "done" /\ req'[r].seen = NoRow
  BY <1>1, <1>2, AnsweredStep
<1>4. Admitted'
  BY <1>1, <1>2, AdmittedKept
<1>5. Typed' /\ SeenBefore' /\ VerifierNamed'
  BY <1>1, <1>3 DEF DeclarationIInv, Typed, SeenBefore, VerifierNamed, Unverified
<1>6. UpToDate' /\ FrozenKnown' /\ DeclaredTotalExplained'
  BY <1>1, <1>3 DEF DeclarationIInv, UpToDate, FrozenKnown, DeclaredTotalExplained, UpdatesUnderWay
<1>. QED
  BY <1>4, <1>5, <1>6 DEF DeclarationIInv

-----------------------------------------------------------------------------
(* What the session of a request writes of the row: of each column the new *)
(* value where it differs from the loaded one.                             *)
LEMMA WrittenRow ==
  ASSUME Typed, decl # NoRow, NEW r \in DeclRequests, NEW new \in Row
  PROVE  LET w == Written(r, new)
             seen == req[r].seen
         IN  /\ w \in Row
             /\ w.status = IF new.status = seen.status THEN decl.status ELSE new.status
             /\ w.declared = IF new.declared = seen.declared THEN decl.declared ELSE new.declared
             /\ w.verifier = IF new.verifier = seen.verifier THEN decl.verifier ELSE new.verifier
<1> DEFINE w == Written(r, new)
<1>1. /\ DOMAIN decl = {"status", "declared", "verified", "verifier"}
      /\ decl \in Row
  BY DEF Typed, Row
<1>2. w = [c \in {"status", "declared", "verified", "verifier"} |->
             IF new[c] = req[r].seen[c] THEN decl[c] ELSE new[c]]
  BY <1>1 DEF Written
<1>. HIDE DEF w
<1>3. /\ w.status = (IF new.status = req[r].seen.status THEN decl.status ELSE new.status)
      /\ w.declared = (IF new.declared = req[r].seen.declared THEN decl.declared ELSE new.declared)
      /\ w.verified = (IF new.verified = req[r].seen.verified THEN decl.verified ELSE new.verified)
      /\ w.verifier = (IF new.verifier = req[r].seen.verifier THEN decl.verifier ELSE new.verifier)
  BY <1>2
<1>4. w = [status |-> w.status, declared |-> w.declared, verified |-> w.verified, verifier |-> w.verifier]
  BY <1>2
<1>5. w \in Row
  BY <1>1, <1>3, <1>4 DEF Row
<1>. QED
  BY <1>3, <1>5 DEF w
LEMMA SumOfDeclared ==
  ASSUME NEW its, NEW others, Declared(its) = Declared(others)
  PROVE  ItemSum(its) = ItemSum(others)
BY DEF ItemSum

(* A commit of anything but an update leaves what is declared alone.       *)
LEMMA CommitsStep ==
  ASSUME DeclarationIInv, NEW r \in DeclRequests, NEW new \in Row, Commits(r, new),
         req[r].kind # "update", req[r].seen # NoRow,
         new.declared = req[r].seen.declared,
         new.status = "VERIFIED" =>
           req[r].kind = "transition" \/ (req[r].kind = "APPROVE" /\ new.verifier \in Reviewers),
         new.status # "VERIFIED" =>
           new.verifier = req[r].seen.verifier /\ (Unverified(req[r].seen) => Unverified(new)),
         items' \subseteq DeclItem, Keys(items') = Keys(items), Declared(items') = Declared(items),
         items = {} => items' = {}
  PROVE  DeclarationIInv' /\ decl'.declared = decl.declared
<1>1. /\ decl' = Written(r, new) /\ UNCHANGED <<mixed, late>> /\ Answered(r)
      /\ early' = IF decl'.status = "FROZEN" /\ decl.status # "FROZEN" THEN UpdatesUnderWay ELSE early
      /\ through' = IF new.status = "VERIFIED" /\ decl'.verifier = new.verifier THEN req[r].kind ELSE through
  BY DEF Commits
<1>2. Typed /\ Admitted /\ decl # NoRow /\ decl \in Row /\ req[r] \in State
  BY DEF DeclarationIInv, SeenBefore, Typed
<1>3. /\ req' \in [DeclRequests -> State] /\ UpdatesUnderWay' = UpdatesUnderWay
      /\ \A q \in DeclRequests : q # r => req'[q] = req[q]
      /\ req'[r].step = "done" /\ req'[r].seen = NoRow
  BY <1>1, <1>2, AnsweredStep DEF UpdatesUnderWay
<1>4. /\ decl' \in Row /\ decl' # NoRow
      /\ decl'.status = IF new.status = req[r].seen.status THEN decl.status ELSE new.status
      /\ decl'.declared = decl.declared
      /\ decl'.verifier = IF new.verifier = req[r].seen.verifier THEN decl.verifier ELSE new.verifier
  BY <1>1, <1>2, WrittenRow, NoRowIsNone
<1>6. Typed'
  BY <1>3, <1>4 DEF Typed
<1>7. SeenBefore'
  BY <1>3, <1>4 DEF DeclarationIInv, SeenBefore
<1>8. Admitted'
  BY <1>1, <1>2, AdmittedKept
<1>9. VerifierNamed'
  <2>1. VerifierNamed /\ new # NoRow
    BY NoRowIsNone DEF DeclarationIInv
  <2>2. CASE new.status = "VERIFIED" /\ decl'.verifier = new.verifier
    BY <1>1, <1>4, <2>2 DEF VerifierNamed
  <2>3. CASE new.status = "VERIFIED" /\ decl'.verifier # new.verifier
    <3>1. through' = through /\ decl'.verifier = decl.verifier /\ req[r].seen.verifier # decl.verifier
      BY <1>1, <1>4, <2>3
    <3>2. through # "none"
      BY <1>2, <2>1, <3>1 DEF VerifierNamed, Unverified
    <3>. QED
      BY <1>4, <2>1, <3>1, <3>2 DEF VerifierNamed
  <2>4. CASE new.status # "VERIFIED"
    <3>1. through' = through /\ decl'.verifier = decl.verifier
      BY <1>1, <1>4, <2>4
    <3>2. through = "none" => Unverified(decl')
      BY <1>2, <1>4, <2>1, <2>4, <3>1 DEF VerifierNamed, Unverified
    <3>3. through = "none" => \A q \in DeclRequests : Unverified(req'[q].seen)
      BY <1>3, <2>1 DEF VerifierNamed, Unverified
    <3>. QED
      BY <1>4, <2>1, <3>1, <3>2, <3>3 DEF VerifierNamed, Unverified
  <2>. QED
    BY <2>2, <2>3, <2>4
<1>10. UpToDate'
  <2>1. \A q \in UpdatesUnderWay : q \in DeclRequests /\ req'[q] = req[q]
    BY <1>3 DEF UpdatesUnderWay
  <2>. QED
    BY <1>1, <1>3, <1>4, <2>1 DEF DeclarationIInv, UpToDate
<1>11. FrozenKnown'
  BY <1>1, <1>2, <1>3, <1>4 DEF DeclarationIInv, FrozenKnown
<1>12. DeclaredTotalExplained'
  <2>1. ItemSum(items') = ItemSum(items)
    BY SumOfDeclared
  <2>. QED
    BY <1>1, <1>2, <1>4, <2>1 DEF DeclarationIInv, DeclaredTotalExplained
<1>. QED
  BY <1>4, <1>6, <1>7, <1>8, <1>9, <1>10, <1>11, <1>12 DEF DeclarationIInv

(* What a step does not do to a frozen declaration unless it is an update  *)
(* that was under way.                                                     *)
Frozen ==
  decl # NoRow /\ decl.status = "FROZEN" /\ (Declared(items)' # Declared(items) \/ decl'.declared # decl.declared)
    => \E r \in early : req'[r].step = "done"

(* The rows requests write, from those they have loaded.                   *)
LEMMA RowUpdates ==
  ASSUME NEW d \in Row
  PROVE  /\ \A s \in Stages : LET n == [d EXCEPT !.status = s] IN
               n \in Row /\ n.status = s /\ n.declared = d.declared /\ n.verifier = d.verifier
         /\ \A t \in Totals : LET n == [d EXCEPT !.declared = t] IN
               n \in Row /\ n.status = d.status /\ n.declared = t /\ n.verifier = d.verifier
         /\ \A s \in Stages, a \in Actors \cup {Nobody}, v \in Verifieds :
               LET n == [d EXCEPT !.status = s, !.verifier = a, !.verified = v] IN
               n \in Row /\ n.status = s /\ n.declared = d.declared /\ n.verifier = a
BY DEF Row

LEMMA TransitionStep ==
  ASSUME DeclarationIInv, NEW r \in DeclRequests, NEW target \in Stages, CommitTransition(r, target)
  PROVE  DeclarationIInv' /\ Frozen
<1> DEFINE new == [req[r].seen EXCEPT !.status = target]
<1>1. /\ req[r].step = "listed" /\ req[r].kind = "transition"
      /\ target \in VALID_TRANSITIONS[req[r].seen.status] \ {"VERIFIED"}
      /\ Commits(r, new) /\ items' = items
  BY DEF CommitTransition
<1>2. req[r].seen \in Row
  BY <1>1 DEF DeclarationIInv, Typed, State, Admitted
<1>3. new \in Row /\ new.status = target /\ new.declared = req[r].seen.declared /\ new.verifier = req[r].seen.verifier
  BY <1>2, RowUpdates
<1>4. req[r].seen # NoRow
  BY <1>2, NoRowIsNone
<1>5. target = "FROZEN" => req[r].seen.status = "VERIFIED"
  BY <1>1, <1>2 DEF VALID_TRANSITIONS, Row, Stages
<1>6. new.status # "VERIFIED" /\ (Unverified(req[r].seen) => Unverified(new))
  BY <1>1, <1>3, <1>4, <1>5 DEF Unverified
<1>. HIDE DEF new
<1>7. DeclarationIInv' /\ decl'.declared = decl.declared
  <2>1. items' \subseteq DeclItem /\ Keys(items') = Keys(items) /\ Declared(items') = Declared(items)
    BY <1>1 DEF DeclarationIInv, Typed
  <2>. QED
    BY <1>1, <1>3, <1>4, <1>6, <2>1, CommitsStep
<1>. QED
  BY <1>1, <1>7 DEF Frozen
LEMMA VerificationStep ==
  ASSUME DeclarationIInv, NEW r \in DeclRequests, CommitVerification(r)
  PROVE  DeclarationIInv' /\ Frozen
<1>1. /\ req[r].step = "listed" /\ req[r].kind = "transition"
      /\ "VERIFIED" \in VALID_TRANSITIONS[req[r].seen.status]
  BY DEF CommitVerification
<1>2. req[r].seen \in Row /\ req[r].seen # NoRow /\ req[r] \in State /\ items \subseteq DeclItem
  BY <1>1, NoRowIsNone DEF DeclarationIInv, Typed, State, Admitted
<1> DEFINE Outcome(checked, amount) ==
        LET accepted(it) == [it EXCEPT !.verified = amount[it], !.accepted = TRUE] IN
        IF \E it \in checked : accepted(it) # it /\ ~\E j \in items : SameRow(it, j)
        THEN UNCHANGED items /\ Refuse(r)
        ELSE /\ items' = {IF \E it \in checked : SameRow(it, j)
                          THEN LET it == CHOOSE it \in checked : SameRow(it, j) IN
                               [j EXCEPT !.verified = IF amount[it] = it.verified THEN j.verified ELSE amount[it],
                                         !.accepted = TRUE]
                          ELSE j : j \in items}
             /\ Commits(r, [req[r].seen EXCEPT !.status = "VERIFIED", !.verifier = req[r].actor,
                              !.verified = IF checked = {} THEN req[r].seen.verified
                                           ELSE VerifiedSum(amount, checked)])
<1>3. PICK checked \in SUBSET req[r].items : \E amount \in [checked -> Amounts] : Outcome(checked, amount)
  BY DEF CommitVerification
<1>9. PICK amount \in [checked -> Amounts] : Outcome(checked, amount)
  BY <1>3
<1>4. CASE UNCHANGED items /\ Refuse(r)
  BY <1>4, RefuseStep DEF Frozen, Refuse
<1>5. ASSUME ~(UNCHANGED items /\ Refuse(r))
      PROVE  DeclarationIInv' /\ Frozen
  <2> DEFINE chosen(j) == CHOOSE it \in checked : SameRow(it, j)
             after(j) == IF \E it \in checked : SameRow(it, j)
                         THEN [j EXCEPT !.verified = IF amount[chosen(j)] = chosen(j).verified THEN j.verified
                                                     ELSE amount[chosen(j)],
                                        !.accepted = TRUE]
                         ELSE j
             sum == IF checked = {} THEN req[r].seen.verified ELSE VerifiedSum(amount, checked)
             new == [req[r].seen EXCEPT !.status = "VERIFIED", !.verifier = req[r].actor, !.verified = sum]
  <2>1. items' = {after(j) : j \in items} /\ Commits(r, new)
    BY <1>9, <1>5
  <2>2. \A j \in items : /\ after(j) \in DeclItem /\ after(j).by = j.by
                          /\ after(j).section = j.section /\ after(j).amount = j.amount
    <3>1. SUFFICES ASSUME NEW j \in items, NEW v \in Amounts \cup {0}
                   PROVE  LET a == [j EXCEPT !.verified = v, !.accepted = TRUE] IN
                          a \in DeclItem /\ a.by = j.by /\ a.section = j.section /\ a.amount = j.amount
      <4>. SUFFICES ASSUME NEW j \in items
                    PROVE  /\ after(j) \in DeclItem /\ after(j).by = j.by
                           /\ after(j).section = j.section /\ after(j).amount = j.amount
        OBVIOUS
      <4>1. j \in DeclItem /\ j.verified \in Amounts \cup {0}
        BY <1>2 DEF DeclItem
      <4>2. ASSUME NEW it \in checked, SameRow(it, j)
            PROVE  amount[chosen(j)] \in Amounts
        BY <4>2
      <4>. HIDE DEF chosen
      <4>. QED
        BY ZenonT(40), <3>1, <4>1, <4>2
    <3>. QED
      BY <1>2 DEF DeclItem
  <2>3. /\ items' \subseteq DeclItem /\ Keys(items') = Keys(items) /\ Declared(items') = Declared(items)
        /\ items = {} => items' = {}
    <3>. HIDE DEF after
    <3>1. items' \subseteq DeclItem /\ (items = {} => items' = {})
      BY <2>1, <2>2
    <3>2. Keys({after(j) : j \in items}) = {<<after(j).by, after(j).section>> : j \in items}
      BY DEF Keys
    <3>3. {<<after(j).by, after(j).section>> : j \in items} = Keys(items)
      BY <2>2 DEF Keys
    <3>4. Declared({after(j) : j \in items})
            = {[by |-> after(j).by, section |-> after(j).section, amount |-> after(j).amount] : j \in items}
      BY DEF Declared
    <3>5. {[by |-> after(j).by, section |-> after(j).section, amount |-> after(j).amount] : j \in items}
            = Declared(items)
      BY <2>2 DEF Declared
    <3>. QED
      BY <2>1, <3>1, <3>2, <3>3, <3>4, <3>5
  <2>4. sum \in Verifieds
    BY <1>2, VerifiedSums DEF Row, State
  <2>. HIDE DEF sum, after
  <2>5. req[r].actor \in Actors \cup {Nobody} /\ "VERIFIED" \in Stages
    BY <1>2 DEF State, Stages
  <2>6. /\ new \in Row /\ new.status = "VERIFIED" /\ new.declared = req[r].seen.declared
        /\ new.verifier = req[r].actor
    BY <1>2, <2>4, <2>5 DEF Row
  <2>. HIDE DEF new
  <2>8. DeclarationIInv' /\ decl'.declared = decl.declared
    BY <1>1, <1>2, <2>1, <2>3, <2>6, CommitsStep
  <2>. QED
    BY <2>3, <2>8 DEF Frozen
<1>. QED
  BY <1>4, <1>5

LEMMA PortalStep ==
  ASSUME DeclarationIInv, NEW r \in DeclRequests, CommitPortal(r)
  PROVE  DeclarationIInv' /\ Frozen
<1>1. req[r].step = "loaded" /\ req[r].kind = "portal" /\ items' = items
  BY DEF CommitPortal
<1>2. Typed /\ req[r] \in State /\ items \subseteq DeclItem /\ "SUBMITTED" \in Stages /\ Admitted
  BY DEF DeclarationIInv, Typed, Stages
<1>3. CASE req[r].seen # NoRow
  <2> DEFINE new == [req[r].seen EXCEPT !.status = "SUBMITTED"]
  <2>1. Commits(r, new) /\ req[r].seen \in Row
    BY <1>2, <1>3 DEF CommitPortal, State
  <2>2. /\ new \in Row /\ new.status = "SUBMITTED" /\ new.declared = req[r].seen.declared
        /\ new.verifier = req[r].seen.verifier
    BY <1>2, <2>1, RowUpdates
  <2>3. new.status # "VERIFIED" /\ (Unverified(req[r].seen) => Unverified(new))
    BY <1>3, <2>2 DEF Unverified
  <2>. HIDE DEF new
  <2>4. items' \subseteq DeclItem /\ Keys(items') = Keys(items) /\ Declared(items') = Declared(items)
    BY <1>1, <1>2
  <2>5. DeclarationIInv' /\ decl'.declared = decl.declared
    BY <1>1, <1>3, <2>1, <2>2, <2>3, <2>4, CommitsStep
  <2>. QED
    BY <2>4, <2>5 DEF Frozen
<1>4. CASE req[r].seen = NoRow /\ decl # NoRow
  <2>1. Refuse(r)
    BY <1>4 DEF CommitPortal
  <2>. QED
    BY <1>1, <2>1, RefuseStep DEF Refuse, Frozen
<1>5. CASE req[r].seen = NoRow /\ decl = NoRow
  <2> DEFINE new == [status |-> "SUBMITTED", declared |-> PortalAmount, verified |-> 0, verifier |-> Nobody]
  <2>1. decl' = new /\ Answered(r) /\ UNCHANGED <<mixed, late, early, through>>
    BY <1>5 DEF CommitPortal
  <2>2. new \in Row /\ new.status = "SUBMITTED" /\ new.declared = PortalAmount /\ new.verifier = Nobody
    BY Zeros DEF Row, Stages
  <2>. HIDE DEF new
  <2>3. /\ req' \in [DeclRequests -> State] /\ UpdatesUnderWay' = UpdatesUnderWay
        /\ \A q \in DeclRequests : q # r => req'[q] = req[q]
        /\ req'[r].step = "done" /\ req'[r].seen = NoRow
    BY <1>1, <1>2, <2>1, AnsweredStep DEF UpdatesUnderWay
  <2>4. /\ items = {} /\ \A q \in DeclRequests : req'[q].seen = NoRow
        /\ decl' \in Row /\ decl' # NoRow
    BY <1>5, <2>1, <2>2, <2>3, NoRowIsNone DEF DeclarationIInv, SeenBefore
  <2>5. Typed' /\ SeenBefore'
    BY <1>1, <2>3, <2>4 DEF Typed, SeenBefore, DeclarationIInv
  <2>6. Admitted'
    BY <1>2, <2>1, AdmittedKept
  <2>7. VerifierNamed'
    BY <1>5, <2>1, <2>2, <2>4 DEF DeclarationIInv, VerifierNamed, Unverified, NoRow
  <2>8. UpToDate'
    <3>1. \A q \in UpdatesUnderWay : q \in DeclRequests /\ req'[q] = req[q]
      BY <1>1, <2>3 DEF UpdatesUnderWay
    <3>. QED
      BY <1>1, <2>1, <2>3, <2>4, <3>1 DEF DeclarationIInv, UpToDate
  <2>9. FrozenKnown' /\ DeclaredTotalExplained'
    BY <1>1, <2>1, <2>2, <2>4 DEF FrozenKnown, DeclaredTotalExplained
  <2>. QED
    BY <1>5, <2>5, <2>6, <2>7, <2>8, <2>9 DEF DeclarationIInv, Frozen
<1>. QED
  BY <1>3, <1>4, <1>5

LEMMA ApprovalStep ==
  ASSUME DeclarationIInv, NEW r \in DeclRequests, NEW amount \in Amounts \cup {0}, CommitApproval(r, amount)
  PROVE  DeclarationIInv' /\ Frozen
<1> DEFINE d == req[r].seen
           given == IF amount = 0 THEN d.declared ELSE amount
           approved == [d EXCEPT !.status = "VERIFIED", !.verifier = req[r].actor, !.verified = given]
           rejected == [d EXCEPT !.status = "REJECTED"]
           sentBack == [d EXCEPT !.status = "UNDER_REVIEW"]
<1>1. /\ req[r].step = "loaded" /\ items' = items
      /\ \/ req[r].kind = "APPROVE" /\ Commits(r, approved)
         \/ req[r].kind = "REJECT" /\ Commits(r, rejected)
         \/ req[r].kind = "CLARIFICATION_REQUIRED" /\ Commits(r, sentBack)
  BY DEF CommitApproval
<1>2. d \in Row /\ d # NoRow /\ req[r] \in State /\ req[r].actor \in Reviewers
  BY <1>1, NoRowIsNone DEF DeclarationIInv, Typed, State, Admitted
<1>3. req[r].actor \in Actors /\ {"VERIFIED", "REJECTED", "UNDER_REVIEW"} \subseteq Stages
  BY <1>2 DEF Actors, Stages
<1>4. items' \subseteq DeclItem /\ Keys(items') = Keys(items) /\ Declared(items') = Declared(items)
  BY <1>1 DEF DeclarationIInv, Typed
<1>5. given \in Verifieds
  BY <1>2, Zeros DEF Row
<1>. HIDE DEF given
<1>6. /\ approved \in Row /\ approved.status = "VERIFIED" /\ approved.declared = d.declared
      /\ approved.verifier = req[r].actor
  BY <1>2, <1>3, <1>5 DEF Row
<1>7. /\ rejected \in Row /\ rejected.status = "REJECTED" /\ rejected.declared = d.declared
      /\ rejected.verifier = d.verifier
  BY <1>2, <1>3 DEF Row
<1>8. /\ sentBack \in Row /\ sentBack.status = "UNDER_REVIEW" /\ sentBack.declared = d.declared
      /\ sentBack.verifier = d.verifier
  BY <1>2, <1>3 DEF Row
<1>9. Unverified(d) => Unverified(rejected) /\ Unverified(sentBack)
  BY <1>2, <1>7, <1>8 DEF Unverified
<1>. HIDE DEF approved, rejected, sentBack
<1>10. DeclarationIInv' /\ decl'.declared = decl.declared
  <2>1. CASE req[r].kind = "APPROVE" /\ Commits(r, approved)
    BY <1>1, <1>2, <1>4, <1>6, <1>9, <2>1, CommitsStep
  <2>2. CASE req[r].kind = "REJECT" /\ Commits(r, rejected)
    BY <1>1, <1>2, <1>4, <1>7, <1>9, <2>2, CommitsStep
  <2>3. CASE req[r].kind = "CLARIFICATION_REQUIRED" /\ Commits(r, sentBack)
    BY <1>1, <1>2, <1>4, <1>8, <1>9, <2>3, CommitsStep
  <2>. QED
    BY <1>1, <2>1, <2>2, <2>3
<1>. QED
  BY <1>4, <1>10 DEF Frozen
(* An update replaces what it listed by what is declared now.              *)
LEMMA UpdateStep ==
  ASSUME DeclarationIInv, NEW r \in DeclRequests, CommitUpdate(r)
  PROVE  DeclarationIInv' /\ Frozen
<1>1. /\ req[r].step = "listed" /\ req[r].kind = "update" /\ r \in UpdatesUnderWay
  BY DEF CommitUpdate, UpdatesUnderWay
<1>2. Typed /\ req[r] \in State /\ items \subseteq DeclItem /\ Admitted
  BY DEF DeclarationIInv, Typed
<1>3. CASE req[r].seen = NoRow /\ decl # NoRow
  <2>1. Refuse(r)
    BY <1>3 DEF CommitUpdate
  <2>. QED
    BY <2>1, RefuseStep DEF Refuse, Frozen
<1>4. CASE ~(req[r].seen = NoRow /\ decl # NoRow)
  <2>1. PICK declared \in UNION {[S -> Amounts] : S \in SUBSET Sections} :
          LET new == {[by |-> r, section |-> s, amount |-> declared[s], verified |-> 0, accepted |-> FALSE] :
                        s \in DOMAIN declared} IN
          /\ items' = (items \ Removes(r)) \cup new
          /\ decl' = IF decl = NoRow
                     THEN [status |-> "DRAFT", declared |-> ItemSum(new), verified |-> 0, verifier |-> Nobody]
                     ELSE Written(r, [req[r].seen EXCEPT !.declared = ItemSum(new)])
          /\ mixed' = (r \in late)
          /\ late' = UpdatesUnderWay \ {r}
          /\ early' = early \ {r}
          /\ Answered(r) /\ UNCHANGED through
    BY <1>4 DEF CommitUpdate
  <2> DEFINE new == {[by |-> r, section |-> s, amount |-> declared[s], verified |-> 0, accepted |-> FALSE] :
                       s \in DOMAIN declared}
             total == ItemSum(new)
             first == [status |-> "DRAFT", declared |-> total, verified |-> 0, verifier |-> Nobody]
             next == [req[r].seen EXCEPT !.declared = total]
  <2>2. /\ items' = (items \ Removes(r)) \cup new /\ mixed' = (r \in late)
        /\ decl' = (IF decl = NoRow THEN first ELSE Written(r, next))
        /\ late' = UpdatesUnderWay \ {r} /\ early' = early \ {r} /\ Answered(r) /\ through' = through
    BY <2>1
  <2>3. new \in SUBSET DeclItem
    <3>1. PICK S \in SUBSET Sections : declared \in [S -> Amounts]
      OBVIOUS
    <3>2. ASSUME NEW s \in S, NEW n \in Amounts
          PROVE  [by |-> r, section |-> s, amount |-> n, verified |-> 0, accepted |-> FALSE] \in DeclItem
      BY DEF DeclItem
    <3>3. DOMAIN declared = S /\ \A s \in S : declared[s] \in Amounts
      BY <3>1
    <3>. QED
      BY <3>2, <3>3
  <2>4. total \in Totals
    BY <2>3, Zeros
  <2>. HIDE DEF new, total
  <2>5. /\ first \in Row /\ first.status = "DRAFT" /\ first.declared = total /\ first.verifier = Nobody
    BY <2>4, Zeros DEF Row, Stages
  <2>6. decl # NoRow =>
          /\ req[r].seen \in Row /\ next \in Row /\ next.status = req[r].seen.status
          /\ next.declared = total /\ next.verifier = req[r].seen.verifier
    <3>1. decl # NoRow => req[r].seen \in Row
      BY <1>2, <1>4 DEF State
    <3>. SUFFICES ASSUME decl # NoRow
                  PROVE  /\ next \in Row /\ next.status = req[r].seen.status
                         /\ next.declared = total /\ next.verifier = req[r].seen.verifier
      BY <3>1
    <3>. QED
      BY <2>4, <3>1 DEF Row
  <2>. HIDE DEF first, next
  <2>7. /\ req' \in [DeclRequests -> State] /\ UpdatesUnderWay' = UpdatesUnderWay \ {r}
        /\ \A q \in DeclRequests : q # r => req'[q] = req[q]
        /\ req'[r].step = "done" /\ req'[r].seen = NoRow
    BY <1>2, <2>2, AnsweredStep
  <2>8. CASE decl = NoRow
    <3>1. decl' = first /\ decl' \in Row /\ decl' # NoRow /\ items = {} /\ items' = new
      BY <2>2, <2>5, <2>8, NoRowIsNone DEF DeclarationIInv, SeenBefore
    <3>2. \A q \in DeclRequests : req'[q].seen = NoRow
      BY <2>7, <2>8 DEF DeclarationIInv, SeenBefore
    <3>3. Typed' /\ SeenBefore'
      BY <2>3, <2>7, <3>1, <3>2 DEF Typed, SeenBefore
    <3>4. Admitted'
      BY <1>2, <2>2, AdmittedKept
    <3>5. VerifierNamed'
      BY <2>2, <2>5, <2>8, <3>1, <3>2 DEF DeclarationIInv, VerifierNamed, Unverified
    <3>6. UpToDate'
      BY <2>2, <2>7 DEF UpToDate
    <3>7. FrozenKnown'
      BY <2>5, <3>1 DEF FrozenKnown
    <3>8. DeclaredTotalExplained'
      BY <2>5, <3>1 DEF DeclaredTotalExplained, total
    <3>. QED
      BY <2>8, <3>3, <3>4, <3>5, <3>6, <3>7, <3>8 DEF DeclarationIInv, Frozen
  <2>9. CASE decl # NoRow
    <3>1. decl \in Row /\ req[r].seen # NoRow
      BY <1>2, <1>4, <2>9 DEF Typed
    <3>2. /\ decl' \in Row /\ decl' # NoRow /\ decl'.status = decl.status /\ decl'.verifier = decl.verifier
          /\ decl'.declared = IF total = req[r].seen.declared THEN decl.declared ELSE total
      BY <1>2, <2>2, <2>6, <2>9, WrittenRow, NoRowIsNone
    <3>3. Typed'
      BY <1>2, <2>2, <2>3, <2>7, <3>2 DEF Typed
    <3>4. SeenBefore'
      BY <2>7, <2>9, <3>2 DEF DeclarationIInv, SeenBefore
    <3>5. Admitted'
      BY <1>2, <2>2, AdmittedKept
    <3>6. VerifierNamed'
      BY <2>2, <2>7, <2>9, <3>2, NoRowIsNone DEF DeclarationIInv, VerifierNamed, Unverified
    <3>7. UpToDate'
      BY <2>2, <2>7 DEF UpToDate
    <3>8. FrozenKnown'
      BY <2>2, <2>7, <2>9, <3>2 DEF DeclarationIInv, FrozenKnown
    <3>9. r \notin late => decl'.declared = total /\ items' = new
      <4>. SUFFICES ASSUME r \notin late
                    PROVE  decl'.declared = total /\ items' = new
        OBVIOUS
      <4>1. req[r].seen.declared = decl.declared /\ Keys(req[r].items) = Keys(items)
        BY <1>1, <3>1 DEF DeclarationIInv, UpToDate
      <4>2. \A i \in items : \E j \in req[r].items : i.by = j.by /\ i.section = j.section
        <5>. SUFFICES ASSUME NEW i \in items
                      PROVE  \E j \in req[r].items : i.by = j.by /\ i.section = j.section
          OBVIOUS
        <5>1. <<i.by, i.section>> \in Keys(req[r].items)
          BY <4>1 DEF Keys
        <5>. QED
          BY <5>1 DEF Keys
      <4>3. Removes(r) = items
        BY <4>2 DEF Removes, SameRow
      <4>. QED
        BY <2>2, <3>2, <4>1, <4>3
    <3>10. DeclaredTotalExplained'
      BY <2>2, <3>9 DEF DeclaredTotalExplained, total
    <3>11. Frozen
      BY <1>1, <2>7 DEF DeclarationIInv, FrozenKnown, Frozen
    <3>. QED
      BY <3>3, <3>4, <3>5, <3>6, <3>7, <3>8, <3>10, <3>11 DEF DeclarationIInv
  <2>. QED
    BY <2>8, <2>9
<1>. QED
  BY <1>3, <1>4

-----------------------------------------------------------------------------
LEMMA DeclarationNextStep == DeclarationIInv /\ [DeclNext]_declarationVars => DeclarationIInv' /\ [Frozen]_declarationVars
<1>. SUFFICES ASSUME DeclarationIInv, [DeclNext]_declarationVars
              PROVE  DeclarationIInv' /\ [Frozen]_declarationVars
  OBVIOUS
<1>1. ASSUME NEW r \in DeclRequests, NEW kind \in Kinds, NEW actor \in Actors \cup {Nobody}, Load(r, kind, actor)
      PROVE  DeclarationIInv' /\ Frozen
  BY <1>1, LoadStep DEF Load, Frozen, Declared
<1>2. ASSUME NEW r \in DeclRequests, List(r)
      PROVE  DeclarationIInv' /\ Frozen
  BY <1>2, ListStep DEF List, Frozen, Declared
<1>3. ASSUME NEW r \in DeclRequests, RefuseTransition(r)
      PROVE  DeclarationIInv' /\ Frozen
  <2>1. Refuse(r)
    BY <1>3 DEF RefuseTransition
  <2>. QED
    BY <2>1, RefuseStep DEF Refuse, Frozen, Declared
<1>4. CASE UNCHANGED declarationVars
  BY <1>4 DEF declarationVars, DeclarationIInv, Typed, SeenBefore, Admitted, VerifierNamed, Unverified, UpToDate, UpdatesUnderWay,
              FrozenKnown, DeclaredTotalExplained
<1>. QED
  BY <1>1, <1>2, <1>3, <1>4, UpdateStep, TransitionStep, VerificationStep, PortalStep, ApprovalStep DEF DeclNext

(* The strengthening the theorems below rest on.                           *)
THEOREM DeclarationInvariantHolds == DeclSpec => []DeclarationIInv
<1>1. DeclarationIInv /\ [DeclNext]_declarationVars => DeclarationIInv'
  BY DeclarationNextStep
<1>. QED
  BY <1>1, DeclarationInitHolds, PTL DEF DeclSpec

(* Whatever requests work on a declaration at once, its total is that of   *)
(* its items unless updates overlapped or the portal created it, and what  *)
(* counts as verified names the reviewer who did it, unless it was verified*)
(* by transition_stage, whose actor may be the owner or none at all.       *)
THEOREM DeclarationAlwaysAccounted == DeclSpec => []DeclarationAccounted
<1>1. DeclarationIInv => DeclarationAccounted
  BY DEF DeclarationIInv, VerifierNamed, Unverified, DeclarationAccounted, VerificationAccounted
<1>. QED
  BY <1>1, DeclarationInvariantHolds, PTL

(* Nothing declared in a frozen declaration changes but by an update that  *)
(* create_or_update_declaration had let in before it was frozen.           *)
THEOREM FrozenContentAlwaysHolds == DeclSpec => FrozenContentHolds
<1>1. DeclarationIInv /\ [DeclNext]_declarationVars => [Frozen]_declarationVars
  BY DeclarationNextStep
<1>2. [][Frozen]_declarationVars => FrozenContentHolds
  BY PTL DEF Frozen, FrozenContentHolds
<1>. QED
  BY <1>1, <1>2, DeclarationInvariantHolds, PTL DEF DeclSpec

-----------------------------------------------------------------------------
(* The check of three officers, a cardinality in the code, is that no two  *)
(* of them are the same.                                                   *)
LEMMA ThreeOfThree ==
  ASSUME NEW a, NEW b, NEW c
  PROVE  Cardinality({a, b, c}) = 3 <=> a # b /\ b # c /\ a # c
<1>1. IsFiniteSet({a}) /\ Cardinality({a}) = 1 BY FS_Singleton
<1>2. {a, b} = {a} \cup {b} OBVIOUS
<1>3. /\ IsFiniteSet({a, b})
      /\ Cardinality({a, b}) = IF b \in {a} THEN 1 ELSE 1 + 1
  BY <1>1, <1>2, FS_AddElement
<1>4. {a, b, c} = {a, b} \cup {c} OBVIOUS
<1>5. Cardinality({a, b, c}) = IF c \in {a, b} THEN Cardinality({a, b}) ELSE Cardinality({a, b}) + 1
  BY <1>3, <1>4, FS_AddElement
<1> QED BY <1>3, <1>5

-----------------------------------------------------------------------------
(* The registry: rows are rules or NoRule, events hold what they record,   *)
(* and every event's key has been seen.                                    *)
Documents == {r.document : r \in REGISTRY} \cup {"new"}
Rule == [id : Ids, domain : {"TAX", "PF", "PT"}, jurisdiction : {"INDIA", "KA", "MH"},
         version : Versions \cup {"1.0"}, status : Statuses, from : Nat, to : Nat, document : Documents,
         supersedes : Ids \cup {"none"}, supersededBy : Ids \cup {"none"}]

Registered ==
  /\ registry \in [Ids -> Rule \cup {NoRule}]
  /\ \A id \in Ids : registry[id] # NoRule => registry[id].id = id
  /\ \A e \in events : e.from \in Nat

(* A rule no supersession introduced is the shipped one, with at most its  *)
(* status and its successor changed, and never back to active.             *)
Unintroduced(id) == registry[id] # NoRule /\ \A e \in events : e.new # id

ShippedUnlessIntroduced ==
  \A id \in Ids :
    Unintroduced(id) =>
      \E r \in REGISTRY : /\ r.id = id /\ r.jurisdiction = registry[id].jurisdiction
                          /\ registry[id].status = "ACTIVE" => r.status = "ACTIVE"

UpdateIInv == Registered /\ UpdateTypeOK /\ DeparturesWitnessed /\ ShippedUnlessIntroduced

-----------------------------------------------------------------------------
LEMMA DatesAreNumbers == Open \in Nat /\ Dates \subseteq Nat /\ Months \subseteq Nat
<1>1. Open \in Nat
  BY DEF Open
<1> QED BY <1>1, UpdateAssumption

(* Every shipped rule is a rule, untouched; an active one has evidence.    *)
LEMMA ShippedRules ==
  \A r \in REGISTRY : /\ r \in Rule /\ r.supersedes = "none" /\ r.status \in {"ACTIVE", "PROPOSED"}
<1> SUFFICES ASSUME NEW r \in REGISTRY
             PROVE  r \in Rule /\ r.supersedes = "none" /\ r.status \in {"ACTIVE", "PROPOSED"}
  OBVIOUS
<1>1. r.id \in Ids BY DEF Ids, SeedIds
<1>2. r.document \in Documents BY DEF Documents
<1>3. /\ r = [id |-> r.id, domain |-> r.domain, jurisdiction |-> r.jurisdiction, version |-> r.version,
              status |-> r.status, from |-> r.from, to |-> r.to, document |-> r.document,
              supersedes |-> r.supersedes, supersededBy |-> r.supersededBy]
      /\ r.domain \in {"TAX", "PF", "PT"} /\ r.jurisdiction \in {"INDIA", "KA", "MH"}
      /\ r.version = "1.0" /\ r.status \in {"ACTIVE", "PROPOSED"} /\ r.from \in Nat /\ r.to \in Nat
      /\ r.supersedes = "none" /\ r.supersededBy = "none"
  BY DEF REGISTRY, Seeded, Open
<1> QED BY <1>1, <1>2, <1>3 DEF Rule, Statuses

LEMMA ActiveShippedEvidenced ==
  ASSUME NEW r \in REGISTRY, r.status = "ACTIVE"
  PROVE  \E a \in AssertionsForRule(r.id), s \in SOURCES :
           /\ is_production_eligible(a) /\ a.jurisdiction = r.jurisdiction
           /\ s.id = a.source /\ can_authorize_production(s)
<1> DEFINE Evidence(a, s) ==
      /\ a \in ASSERTIONS /\ a.rule = r.id /\ a.classification = "VERIFIED_PRIMARY"
      /\ a.jurisdiction = r.jurisdiction
      /\ s \in SOURCES /\ s.id = a.source
<1>1. \A s \in SOURCES : can_authorize_production(s)
  BY DEF SOURCES, Source, can_authorize_production
<1>2. SUFFICES \E a, s : Evidence(a, s)
  BY <1>1 DEF AssertionsForRule, is_production_eligible
<1>3. CASE r.id = "TAX-2026-27-NEW-DEFAULT" /\ r.jurisdiction = "INDIA"
  <2>1. Evidence(Assertion("EA-TAX-2026-001", "TAX-2026-27-NEW-DEFAULT", "SR-FED-TAX-ACT-2025",
                           "income-tax-act-2025", "INDIA"), Source("SR-FED-TAX-ACT-2025", 1, "INDIA"))
    BY <1>3 DEF ASSERTIONS, SOURCES, Assertion, Source
  <2> QED BY <2>1
<1>4. CASE r.id = "TAX-2025-26-NEW" /\ r.jurisdiction = "INDIA"
  <2>1. Evidence(Assertion("EA-TAX-2025-001", "TAX-2025-26-NEW", "SR-FED-TAX-ACT-1961",
                           "finance_act_2024_tax_slabs", "INDIA"), Source("SR-FED-TAX-ACT-1961", 1, "INDIA"))
    BY <1>4 DEF ASSERTIONS, SOURCES, Assertion, Source
  <2> QED BY <2>1
<1>5. CASE r.id = "TAX-OLD-REGIME-STANDARD" /\ r.jurisdiction = "INDIA"
  <2>1. Evidence(Assertion("EA-TAX-OLD-001", "TAX-OLD-REGIME-STANDARD", "SR-FED-TAX-ACT-1961",
                           "finance_act_old_regime_framework", "INDIA"), Source("SR-FED-TAX-ACT-1961", 1, "INDIA"))
    BY <1>5 DEF ASSERTIONS, SOURCES, Assertion, Source
  <2> QED BY <2>1
<1>6. CASE r.id = "PF-2026-27-STATUTORY" /\ r.jurisdiction = "INDIA"
  <2>1. Evidence(Assertion("EA-PF-2026-001", "PF-2026-27-STATUTORY", "SR-EPFO-SCHEME-2026",
                           "epf_eps_edli_framework", "INDIA"), Source("SR-EPFO-SCHEME-2026", 2, "INDIA"))
    BY <1>6 DEF ASSERTIONS, SOURCES, Assertion, Source
  <2> QED BY <2>1
<1>7. CASE r.id = "PT-2026-27-KA-SALARIED" /\ r.jurisdiction = "KA"
  <2>1. Evidence(Assertion("EA-PT-KA-2025-001", "PT-2026-27-KA-SALARIED", "SR-STATE-KA-PT-2025",
                           "professional_tax_states", "KA"), Source("SR-STATE-KA-PT-2025", 1, "KA"))
    BY <1>7 DEF ASSERTIONS, SOURCES, Assertion, Source
  <2> QED BY <2>1
<1>8. CASE r.id = "PT-2026-27-MH-SALARIED" /\ r.jurisdiction = "MH"
  <2>1. Evidence(Assertion("EA-PT-MH-2023-001", "PT-2026-27-MH-SALARIED", "SR-STATE-MH-PT-2023",
                           "maharashtra_pt_schedule_2023", "MH"), Source("SR-STATE-MH-PT-2023", 1, "MH"))
    BY <1>8 DEF ASSERTIONS, SOURCES, Assertion, Source
  <2> QED BY <2>1
<1> QED BY <1>3, <1>4, <1>5, <1>6, <1>7, <1>8 DEF REGISTRY, Seeded

-----------------------------------------------------------------------------
(* What a supersession leaves behind, row by row.                          *)
Retired(o, new, from) ==
  [o EXCEPT !.status = IF TakesEffect(from) THEN "SUPERSEDED" ELSE o.status,
            !.supersededBy = IF TakesEffect(from) THEN new ELSE "none"]
Successor(o, old, new, version, from, to) ==
  [o EXCEPT !.id = new, !.version = version, !.from = from, !.to = to, !.document = "new",
            !.status = IF TakesEffect(from) THEN "ACTIVE" ELSE "FUTURE_OFFICIALLY_NOTIFIED",
            !.supersedes = old, !.supersededBy = "none"]
EventOf(old, new, oldVersion, version, from, by) ==
  [old |-> old, new |-> new, oldVersion |-> oldVersion, newVersion |-> version, from |-> from, by |-> by]

LEMMA RetiredRow ==
  ASSUME NEW o \in Rule, NEW new \in Ids, NEW from
  PROVE  LET u == Retired(o, new, from) IN
         /\ u \in Rule /\ u.id = o.id /\ u.domain = o.domain /\ u.jurisdiction = o.jurisdiction
         /\ u.version = o.version /\ u.from = o.from /\ u.to = o.to /\ u.supersedes = o.supersedes
         /\ u.status = IF TakesEffect(from) THEN "SUPERSEDED" ELSE o.status
BY DEF Retired, Rule, Statuses

LEMMA SuccessorRow ==
  ASSUME NEW o \in Rule, NEW old \in Ids, NEW new \in Ids, NEW version \in Versions,
         NEW from \in Nat, NEW to \in Nat
  PROVE  LET u == Successor(o, old, new, version, from, to) IN
         /\ u \in Rule /\ u.id = new /\ u.domain = o.domain /\ u.jurisdiction = o.jurisdiction
         /\ u.version = version /\ u.from = from /\ u.to = to /\ u.supersedes = old
         /\ u.status = IF TakesEffect(from) THEN "ACTIVE" ELSE "FUTURE_OFFICIALLY_NOTIFIED"
<1> DEFINE status == IF TakesEffect(from) THEN "ACTIVE" ELSE "FUTURE_OFFICIALLY_NOTIFIED"
           moved == [o EXCEPT !.id = new, !.version = version, !.from = from, !.to = to, !.document = "new"]
<1>1. status \in Statuses
  BY DEF Statuses
<1>2. "new" \in Documents
  BY DEF Documents
<1>3. /\ moved \in Rule /\ moved.id = new /\ moved.domain = o.domain /\ moved.jurisdiction = o.jurisdiction
      /\ moved.version = version /\ moved.from = from /\ moved.to = to
  BY <1>2 DEF Rule
<1>4. Successor(o, old, new, version, from, to)
        = [moved EXCEPT !.status = status, !.supersedes = old, !.supersededBy = "none"]
  BY DEF Successor
<1> HIDE DEF moved, status
<1>5. LET u == [moved EXCEPT !.status = status, !.supersedes = old, !.supersededBy = "none"] IN
      /\ u \in Rule /\ u.id = moved.id /\ u.domain = moved.domain /\ u.jurisdiction = moved.jurisdiction
      /\ u.version = moved.version /\ u.from = moved.from /\ u.to = moved.to /\ u.supersedes = old
      /\ u.status = status
  BY <1>1, <1>3 DEF Rule
<1> QED BY <1>3, <1>4, <1>5 DEF status

LEMMA SupersedeStep ==
  ASSUME UpdateTypeOK, Registered,
         NEW old \in Changed \cup NewIds, NEW new \in Changed \cup NewIds, NEW version \in Versions,
         NEW from \in Dates, NEW to \in Dates \cup {Open}, NEW type \in ChangeTypes, NEW by \in Duties,
         Supersede(old, new, version, from, to, type, by)
  PROVE  /\ old \in Ids /\ new \in Ids /\ from \in Nat /\ to \in Nat /\ today \in Nat
         /\ registry[old] \in Rule /\ registry[old] # NoRule
         /\ registry' \in [Ids -> Rule \cup {NoRule}]
         /\ registry'[new] = Successor(registry[old], old, new, version, from, to)
         /\ old # new => registry'[old] = Retired(registry[old], new, from)
         /\ \A id \in Ids : id # old /\ id # new => registry'[id] = registry[id]
         /\ events' = events \cup {EventOf(old, new, registry[old].version, version, from, by)}
         /\ EventOf(old, new, registry[old].version, version, from, by) \notin events
         /\ Distinct(by)
<1>1. old \in Ids /\ new \in Ids
  BY UpdateAssumption DEF Ids
<1>2. from \in Nat /\ to \in Nat /\ today \in Nat
  <2>1. today \in Months
    BY DEF UpdateTypeOK
  <2> QED BY <2>1, DatesAreNumbers
<1>3. registry[old] \in Rule /\ registry[old] # NoRule
  BY <1>1 DEF Registered, Supersede
<1> DEFINE o == registry[old]
           retired == Retired(o, new, from)
           successor == Successor(o, old, new, version, from, to)
           event == EventOf(old, new, o.version, version, from, by)
<1>4. registry' = [registry EXCEPT ![old] = retired, ![new] = successor]
  BY DEF Supersede, Retired, Successor
<1>5. retired \in Rule /\ successor \in Rule
  BY <1>1, <1>2, <1>3, RetiredRow, SuccessorRow
<1>6. events' = events \cup {event} /\ <<old, new, version, from>> \notin seenKeys
  BY DEF Supersede, EventOf
<1>7. event \notin events
  <2>1. event.old = old /\ event.new = new /\ event.newVersion = version /\ event.from = from
    BY DEF EventOf
  <2> QED BY <2>1, <1>6 DEF UpdateTypeOK
<1>8. Distinct(by)
  <2>1. Cardinality({by.detector, by.reviewer, by.approver}) = 3
    BY DEF Supersede, ThreeOfficers
  <2> QED BY <2>1, ThreeOfThree DEF Distinct
<1> HIDE DEF o, retired, successor, event
<1>9. /\ registry' \in [Ids -> Rule \cup {NoRule}]
      /\ registry'[new] = successor
      /\ old # new => registry'[old] = retired
      /\ \A id \in Ids : id # old /\ id # new => registry'[id] = registry[id]
  BY <1>1, <1>4, <1>5 DEF Registered
<1> QED BY <1>1, <1>2, <1>3, <1>6, <1>7, <1>8, <1>9 DEF o, retired, successor, event

-----------------------------------------------------------------------------
LEMMA UpdateInitHolds == UpdateInit => UpdateIInv
<1> SUFFICES ASSUME UpdateInit PROVE UpdateIInv
  OBVIOUS
<1>1. \A id \in SeedIds : registry[id] \in REGISTRY /\ registry[id].id = id
  BY DEF UpdateInit, SeedIds, Ids
<1>2. \A id \in Ids : id \notin SeedIds => registry[id] = NoRule
  BY DEF UpdateInit
<1>3. registry \in [Ids -> Rule \cup {NoRule}]
  <2>1. \A id \in Ids : registry[id] \in Rule \cup {NoRule}
    BY <1>1, <1>2, ShippedRules
  <2> QED BY <2>1 DEF UpdateInit
<1>4. Registered
  <2>1. events = {}
    BY DEF UpdateInit
  <2> QED BY <2>1, <1>1, <1>2, <1>3 DEF Registered
<1>5. UpdateTypeOK
  BY <1>1, <1>2, ShippedRules DEF UpdateTypeOK, UpdateInit, Statuses
<1>6. DeparturesWitnessed
  <2> SUFFICES ASSUME NEW id \in Ids
               PROVE  /\ registry[id].status # "SUPERSEDED"
                      /\ registry[id] # NoRule => registry[id].supersedes = "none"
    BY DEF DeparturesWitnessed
  <2> QED BY <1>1, <1>2, ShippedRules DEF NoRule
<1>7. ShippedUnlessIntroduced
  BY <1>1, <1>2 DEF ShippedUnlessIntroduced, Unintroduced
<1> QED BY <1>4, <1>5, <1>6, <1>7 DEF UpdateIInv

LEMMA SupersedePreserves ==
  ASSUME UpdateIInv,
         NEW old \in Changed \cup NewIds, NEW new \in Changed \cup NewIds, NEW version \in Versions,
         NEW from \in Dates, NEW to \in Dates \cup {Open}, NEW type \in ChangeTypes, NEW by \in Duties,
         Supersede(old, new, version, from, to, type, by)
  PROVE  UpdateIInv'
<1> DEFINE o == registry[old]
           retired == Retired(o, new, from)
           successor == Successor(o, old, new, version, from, to)
           event == EventOf(old, new, o.version, version, from, by)
<1>1. /\ old \in Ids /\ new \in Ids /\ from \in Nat /\ to \in Nat /\ today \in Nat
      /\ o \in Rule /\ o # NoRule
      /\ registry' \in [Ids -> Rule \cup {NoRule}]
      /\ registry'[new] = successor
      /\ old # new => registry'[old] = retired
      /\ \A id \in Ids : id # old /\ id # new => registry'[id] = registry[id]
      /\ events' = events \cup {event}
      /\ Distinct(by)
  BY SupersedeStep DEF UpdateIInv
<1>2. /\ retired \in Rule /\ retired.id = o.id /\ retired.jurisdiction = o.jurisdiction
      /\ retired.version = o.version /\ retired.supersedes = o.supersedes
      /\ retired.status = IF TakesEffect(from) THEN "SUPERSEDED" ELSE o.status
  BY <1>1, RetiredRow
<1>3. /\ successor \in Rule /\ successor.id = new /\ successor.jurisdiction = o.jurisdiction
      /\ successor.version = version /\ successor.supersedes = old
      /\ successor.status = IF TakesEffect(from) THEN "ACTIVE" ELSE "FUTURE_OFFICIALLY_NOTIFIED"
  BY <1>1, SuccessorRow
<1>4. /\ event.old = old /\ event.new = new /\ event.oldVersion = o.version /\ event.newVersion = version
      /\ event.from = from /\ event.by = by
  BY DEF EventOf
<1>5. /\ today' = today
      /\ seenKeys' = seenKeys \cup {<<old, new, version, from>>}
  BY DEF Supersede
<1>6. o.id = old
  BY <1>1 DEF UpdateIInv, Registered
<1> HIDE DEF o, retired, successor, event
<1>7. Registered'
  BY <1>1, <1>2, <1>3, <1>4, <1>6 DEF UpdateIInv, Registered
<1>8. UpdateTypeOK'
  <2>1. \A id \in Ids : registry'[id] = NoRule \/ (registry'[id].id = id /\ registry'[id].status \in Statuses)
    BY <1>7 DEF Registered, Rule
  <2>2. \A e \in events' : e.by \in Duties /\ <<e.old, e.new, e.newVersion, e.from>> \in seenKeys'
    BY <1>1, <1>4, <1>5 DEF UpdateIInv, UpdateTypeOK
  <2> QED BY <2>1, <2>2, <1>5 DEF UpdateIInv, UpdateTypeOK
<1>9. DeparturesWitnessed'
  <2> SUFFICES ASSUME NEW id \in Ids
               PROVE  /\ registry'[id].status = "SUPERSEDED" =>
                           \E e \in events' : /\ e.old = id /\ e.oldVersion = registry'[id].version
                                              /\ e.from <= today /\ Distinct(e.by)
                      /\ registry'[id] # NoRule /\ registry'[id].supersedes # "none" =>
                           \E e \in events' : /\ e.new = id /\ e.old = registry'[id].supersedes
                                              /\ e.newVersion = registry'[id].version /\ Distinct(e.by)
    BY <1>5 DEF DeparturesWitnessed
  <2>1. DeparturesWitnessed
    BY DEF UpdateIInv
  <2>2. event \in events' /\ events \subseteq events'
    BY <1>1
  <2>3. CASE id = new
    BY <2>2, <2>3, <1>1, <1>3, <1>4
  <2>4. CASE id # new /\ id = old
    <3>1. registry'[id] = retired /\ registry[id] = o
      BY <2>4, <1>1 DEF o
    <3>2. ASSUME registry'[id].status = "SUPERSEDED"
          PROVE  \E e \in events' : /\ e.old = id /\ e.oldVersion = registry'[id].version
                                    /\ e.from <= today /\ Distinct(e.by)
      <4>1. CASE TakesEffect(from)
        BY <4>1, <3>1, <2>2, <2>4, <1>1, <1>2, <1>4 DEF TakesEffect
      <4>2. CASE ~TakesEffect(from)
        <5>1. registry[id].status = "SUPERSEDED" /\ registry[id].version = registry'[id].version
          BY <4>2, <3>1, <3>2, <1>2
        <5> QED BY <5>1, <2>1, <2>2 DEF DeparturesWitnessed
      <4> QED BY <4>1, <4>2
    <3>3. ASSUME registry'[id].supersedes # "none"
          PROVE  \E e \in events' : /\ e.new = id /\ e.old = registry'[id].supersedes
                                    /\ e.newVersion = registry'[id].version /\ Distinct(e.by)
      <4>1. registry[id].supersedes = registry'[id].supersedes /\ registry[id].version = registry'[id].version
            /\ registry[id] # NoRule
        BY <3>1, <1>1, <1>2
      <4> QED BY <4>1, <3>3, <2>1, <2>2 DEF DeparturesWitnessed
    <3> QED BY <3>2, <3>3
  <2>5. CASE id # new /\ id # old
    <3>1. registry'[id] = registry[id]
      BY <2>5, <1>1
    <3> QED BY <3>1, <2>1, <2>2 DEF DeparturesWitnessed
  <2> QED BY <2>3, <2>4, <2>5
<1>10. ShippedUnlessIntroduced'
  <2> SUFFICES ASSUME NEW id \in Ids, Unintroduced(id)'
               PROVE  \E r \in REGISTRY : /\ r.id = id /\ r.jurisdiction = registry'[id].jurisdiction
                                          /\ registry'[id].status = "ACTIVE" => r.status = "ACTIVE"
    BY DEF ShippedUnlessIntroduced
  <2>1. id # new /\ \A e \in events : e.new # id
    BY <1>1, <1>4 DEF Unintroduced
  <2>2. ShippedUnlessIntroduced
    BY DEF UpdateIInv
  <2>3. CASE id = old
    <3>1. registry'[id] = retired /\ registry[id] = o
      BY <2>1, <2>3, <1>1 DEF o
    <3>2. Unintroduced(id)
      BY <3>1, <2>1, <1>1 DEF Unintroduced
    <3>3. registry'[id].status = "ACTIVE" => registry[id].status = "ACTIVE"
      BY <3>1, <1>2
    <3> QED BY <3>1, <3>2, <3>3, <2>2, <1>2 DEF ShippedUnlessIntroduced
  <2>4. CASE id # old
    <3>1. registry'[id] = registry[id]
      BY <2>1, <2>4, <1>1
    <3>2. Unintroduced(id)
      BY <3>1, <2>1 DEF Unintroduced
    <3> QED BY <3>1, <3>2, <2>2 DEF ShippedUnlessIntroduced
  <2> QED BY <2>3, <2>4
<1> QED BY <1>7, <1>8, <1>9, <1>10 DEF UpdateIInv

LEMMA UpdateStepPreserves ==
  ASSUME UpdateIInv, [UpdateNext]_updateVars
  PROVE  UpdateIInv'
<1>1. ASSUME NEW old \in Changed \cup NewIds, NEW new \in Changed \cup NewIds, NEW version \in Versions,
             NEW from \in Dates, NEW to \in Dates \cup {Open}, NEW type \in ChangeTypes, NEW by \in Duties,
             Supersede(old, new, version, from, to, type, by)
      PROVE  UpdateIInv'
  BY <1>1, SupersedePreserves
<1>2. ASSUME NEW month \in Months, Tick(month)
      PROVE  UpdateIInv'
  <2>1. today' = month /\ month > today /\ registry' = registry /\ seenKeys' = seenKeys /\ events' = events
    BY <1>2 DEF Tick
  <2>2. today \in Nat /\ today' \in Nat
    <3>1. today \in Months
      BY DEF UpdateIInv, UpdateTypeOK
    <3> QED BY <3>1, <2>1, DatesAreNumbers
  <2>3. UpdateTypeOK' /\ Registered' /\ ShippedUnlessIntroduced'
    BY <2>1 DEF UpdateIInv, UpdateTypeOK, Registered, ShippedUnlessIntroduced, Unintroduced
  <2>4. \A e \in events : e.from <= today => e.from <= today'
    BY <2>1, <2>2 DEF UpdateIInv, Registered
  <2>5. DeparturesWitnessed'
    <3>1. DeparturesWitnessed
      BY DEF UpdateIInv
    <3> QED BY <3>1, <2>1, <2>4 DEF DeparturesWitnessed
  <2> QED BY <2>3, <2>5 DEF UpdateIInv
<1>3. CASE UNCHANGED updateVars
  BY <1>3 DEF updateVars, UpdateIInv, UpdateTypeOK, Registered, ShippedUnlessIntroduced, Unintroduced,
              DeparturesWitnessed
<1> QED BY <1>1, <1>2, <1>3 DEF UpdateNext

-----------------------------------------------------------------------------
(* A rule in the registry is in force on what it says of itself.           *)
LEMMA InvariantGivesEvidence == UpdateIInv => ActiveRulesEvidenced
<1> SUFFICES ASSUME UpdateIInv, NEW id \in Ids, registry[id].status = "ACTIVE", \A e \in events : e.new # id
             PROVE  \E a \in AssertionsForRule(id), s \in SOURCES :
                      /\ is_production_eligible(a) /\ a.jurisdiction = registry[id].jurisdiction
                      /\ s.id = a.source /\ can_authorize_production(s)
  BY DEF ActiveRulesEvidenced
<1>1. registry[id] # NoRule
  BY DEF NoRule
<1>2. PICK r \in REGISTRY : r.id = id /\ r.jurisdiction = registry[id].jurisdiction /\ r.status = "ACTIVE"
  BY <1>1 DEF UpdateIInv, ShippedUnlessIntroduced, Unintroduced
<1> QED BY <1>2, ActiveShippedEvidenced

(* The whole of the invariant, for any rules, officers, months and dates.  *)
THEOREM RegistryInvariantHolds == UpdateSpec => []UpdateIInv
<1>1. UpdateInit => UpdateIInv
  BY UpdateInitHolds
<1>2. UpdateIInv /\ [UpdateNext]_updateVars => UpdateIInv'
  BY UpdateStepPreserves
<1> QED BY <1>1, <1>2, PTL DEF UpdateSpec

(* Every departure from the shipped registry is accounted for by an event  *)
(* of three officers, and every active rule no event introduced by         *)
(* evidence, whatever supersessions execute_supersession let through.      *)
THEOREM ChangesAlwaysWitnessed == UpdateSpec => []ChangesWitnessed
<1>1. UpdateIInv => ChangesWitnessed
  BY InvariantGivesEvidence DEF UpdateIInv, ChangesWitnessed
<1> QED BY <1>1, RegistryInvariantHolds, PTL

-----------------------------------------------------------------------------
(* What one step keeps in force, as a formula of two states.               *)
CoverageKept ==
  \A r \in REGISTRY :
    today' = today /\ RulesInForce(r.domain, r.jurisdiction) # {}
                   /\ RulesInForce(r.domain, r.jurisdiction)' = {} =>
      \E e \in events' \ events : registry'[e.new].to < today \/ registry[e.new] # NoRule

LEMMA StepKeepsCoverage ==
  ASSUME UpdateIInv, [UpdateNext]_updateVars
  PROVE  CoverageKept
<1> SUFFICES ASSUME NEW r \in REGISTRY, today' = today,
                    RulesInForce(r.domain, r.jurisdiction) # {}, RulesInForce(r.domain, r.jurisdiction)' = {}
             PROVE  \E e \in events' \ events : registry'[e.new].to < today \/ registry[e.new] # NoRule
  BY DEF CoverageKept
<1>1. PICK id \in Ids : /\ registry[id].status = "ACTIVE"
                        /\ registry[id].domain = r.domain /\ registry[id].jurisdiction = r.jurisdiction
                        /\ registry[id].from <= today /\ today <= registry[id].to
  BY DEF RulesInForce
<1>2. \A i \in Ids : ~(/\ registry'[i].status = "ACTIVE"
                       /\ registry'[i].domain = r.domain /\ registry'[i].jurisdiction = r.jurisdiction
                       /\ registry'[i].from <= today /\ today <= registry'[i].to)
  BY DEF RulesInForce
<1>3. ASSUME NEW old \in Changed \cup NewIds, NEW new \in Changed \cup NewIds, NEW version \in Versions,
             NEW from \in Dates, NEW to \in Dates \cup {Open}, NEW type \in ChangeTypes, NEW by \in Duties,
             Supersede(old, new, version, from, to, type, by)
      PROVE  \E e \in events' \ events : registry'[e.new].to < today \/ registry[e.new] # NoRule
  <2> DEFINE o == registry[old]
             retired == Retired(o, new, from)
             successor == Successor(o, old, new, version, from, to)
             event == EventOf(old, new, o.version, version, from, by)
  <2>1. /\ old \in Ids /\ new \in Ids /\ from \in Nat /\ to \in Nat /\ today \in Nat
        /\ o \in Rule
        /\ registry'[new] = successor
        /\ old # new => registry'[old] = retired
        /\ \A i \in Ids : i # old /\ i # new => registry'[i] = registry[i]
        /\ event \in events' \ events
    BY <1>3, SupersedeStep DEF UpdateIInv
  <2>2. /\ retired.domain = o.domain /\ retired.jurisdiction = o.jurisdiction
        /\ retired.from = o.from /\ retired.to = o.to
        /\ retired.status = IF TakesEffect(from) THEN "SUPERSEDED" ELSE o.status
    BY <2>1, RetiredRow
  <2>3. /\ successor.domain = o.domain /\ successor.jurisdiction = o.jurisdiction
        /\ successor.from = from /\ successor.to = to
        /\ successor.status = IF TakesEffect(from) THEN "ACTIVE" ELSE "FUTURE_OFFICIALLY_NOTIFIED"
    BY <2>1, SuccessorRow
  <2>4. event.new = new
    BY DEF EventOf
  <2> HIDE DEF retired, successor, event
  <2>5. CASE registry[new] # NoRule
    BY <2>1, <2>4, <2>5
  <2>6. CASE registry[new] = NoRule
    <3>1. id # new
      BY <1>1, <2>6 DEF NoRule
    <3>2. id = old /\ registry'[old] = retired
      BY <3>1, <1>1, <1>2, <2>1
    <3>3. TakesEffect(from)
      BY <3>2, <1>1, <1>2, <2>2
    <3>4. to < today
      BY <3>2, <3>3, <1>1, <1>2, <2>1, <2>3 DEF TakesEffect
    <3> QED BY <3>4, <2>1, <2>3, <2>4
  <2> QED BY <2>5, <2>6
<1>4. ASSUME NEW month \in Months, Tick(month)
      PROVE  FALSE
  <2>1. today \in Nat
    BY DatesAreNumbers DEF UpdateIInv, UpdateTypeOK
  <2> QED BY <1>4, <2>1, DatesAreNumbers DEF Tick
<1>5. CASE UNCHANGED updateVars
  BY <1>1, <1>2, <1>5 DEF updateVars
<1> QED BY <1>3, <1>4, <1>5 DEF UpdateNext

(* A supersession does not leave a domain without a rule in force, unless  *)
(* the new rule has expired or overwrites another: the date comparison in  *)
(* execute_supersession retires the old rule only when the new one is due. *)
THEOREM CoverageAlwaysHolds == UpdateSpec => CoverageHolds
<1>1. UpdateIInv /\ [UpdateNext]_updateVars => [CoverageKept]_updateVars
  BY StepKeepsCoverage
<1>2. UpdateSpec => [][CoverageKept]_updateVars
  BY <1>1, RegistryInvariantHolds, PTL DEF UpdateSpec
<1> QED BY <1>2, PTL DEF CoverageHolds, CoverageKept

-----------------------------------------------------------------------------
(* Candidates.  A first finding that calls for one is an amendment of a    *)
(* calculation rule: what the analyzer makes of the words it is given.     *)
Amends(kind, domain) == kind = "CEILING_AMENDMENT" \/ (kind = "LEGAL_AMENDMENT" /\ domain # "OTHER")

LEMMA CandidatesForAmendments ==
  ASSUME NEW kind \in DocumentKinds, NEW domain \in Domains
  PROVE  RequiresCandidate(DimensionOf(kind), domain) <=> Amends(kind, domain)
BY DEF DocumentKinds, Domains, RequiresCandidate, DimensionOf, Classification, RequiresVerification, Amends

CandidateOf(h, c) == c \in candidates /\ c.hash = h

(* A document has been seen when it has been found and not before, what it *)
(* was found as the first time says whether it has a candidate, and there  *)
(* is never a second one.                                                  *)
SeenIsFound == \A h \in Hashes : h \notin seenDocs => firstKind[h] = <<>>

OneCandidate(h) == \E c \in Candidate : \A d : CandidateOf(h, d) <=> d = c
NoCandidate(h) == \A d : ~CandidateOf(h, d)

CandidateIffAmends ==
  /\ \A h \in seenDocs : IF Amends(firstKind[h][1], firstKind[h][2]) THEN OneCandidate(h) ELSE NoCandidate(h)
  /\ \A h \in Hashes \ seenDocs : NoCandidate(h)

(* A candidate has been verified by an officer other than its detector, a  *)
(* rule returned was carried by three.                                     *)
VerifiedByAnother ==
  \A c \in candidates : c.status = "REGRESSION_PASSED" => c.reviewer \in Staff /\ c.reviewer # c.detector
CarriedByThree ==
  \A a \in approvals : /\ a.by \in [detector : Staff, reviewer : Staff, approver : Staff]
                       /\ a.by.detector # a.by.reviewer /\ a.by.reviewer # a.by.approver
                       /\ a.by.detector # a.by.approver

AmendIInv == AmendTypeOK /\ SeenIsFound /\ CandidateIffAmends /\ VerifiedByAnother /\ CarriedByThree

-----------------------------------------------------------------------------
LEMMA IngestPreserves ==
  ASSUME AmendIInv, NEW hash \in Hashes, NEW kind \in DocumentKinds, NEW domain \in Domains,
         NEW detector \in Staff, Ingest(hash, kind, domain, detector)
  PROVE  AmendIInv'
<1> DEFINE found == <<kind, domain>>
           fresh == [hash |-> hash, n |-> 1, status |-> "DETECTED", detector |-> detector, reviewer |-> NoOfficer]
<1>1. /\ hash \notin seenDocs /\ seenDocs' = seenDocs \cup {hash} /\ approvals' = approvals
      /\ firstKind[hash] = <<>> /\ NoCandidate(hash)
  BY DEF AmendIInv, Ingest, AlreadySeen, SeenIsFound, CandidateIffAmends
<1>2. firstKind' = [firstKind EXCEPT ![hash] = found]
  BY <1>1 DEF Ingest
<1>3. found \in DocumentKinds \X Domains /\ found[1] = kind /\ found[2] = domain
  OBVIOUS
<1>4. candidates' = IF Amends(kind, domain) THEN candidates \cup {fresh} ELSE candidates
  <2>1. ~\E c \in candidates : c.hash = hash
    BY <1>1 DEF NoCandidate, CandidateOf
  <2> QED BY <2>1, CandidatesForAmendments DEF Ingest
<1>5. fresh \in Candidate /\ fresh.hash = hash /\ fresh.status = "DETECTED"
  BY DEF Candidate
<1> HIDE DEF found, fresh
<1>6. /\ firstKind'[hash] = found
      /\ \A h \in Hashes : h # hash => firstKind'[h] = firstKind[h]
      /\ firstKind' \in [Hashes -> (DocumentKinds \X Domains) \cup {<<>>}]
  BY <1>2, <1>3 DEF AmendIInv, AmendTypeOK
<1>7. AmendTypeOK'
  BY <1>1, <1>4, <1>5, <1>6 DEF AmendIInv, AmendTypeOK
<1>8. SeenIsFound'
  BY <1>1, <1>6 DEF AmendIInv, SeenIsFound
<1>9. \A h, d : h # hash => (CandidateOf(h, d)' <=> CandidateOf(h, d))
  BY <1>4, <1>5 DEF CandidateOf
<1>10. IF Amends(kind, domain) THEN OneCandidate(hash)' ELSE NoCandidate(hash)'
  <2>1. CASE Amends(kind, domain)
    <3>1. \A d : CandidateOf(hash, d)' <=> d = fresh
      BY <2>1, <1>1, <1>4, <1>5 DEF NoCandidate, CandidateOf
    <3> QED BY <2>1, <3>1, <1>5 DEF OneCandidate
  <2>2. CASE ~Amends(kind, domain)
    BY <2>2, <1>1, <1>4 DEF NoCandidate, CandidateOf
  <2> QED BY <2>1, <2>2
<1>11. CandidateIffAmends'
  <2>1. ASSUME NEW h \in seenDocs'
        PROVE  IF Amends(firstKind'[h][1], firstKind'[h][2]) THEN OneCandidate(h)' ELSE NoCandidate(h)'
    <3>1. CASE h = hash
      BY <3>1, <1>3, <1>6, <1>10
    <3>2. CASE h # hash
      <4>1. h \in seenDocs /\ h \in Hashes
        BY <3>2, <1>1 DEF AmendIInv, AmendTypeOK
      <4>2. firstKind'[h] = firstKind[h]
        BY <3>2, <4>1, <1>6
      <4>3. (OneCandidate(h)' <=> OneCandidate(h)) /\ (NoCandidate(h)' <=> NoCandidate(h))
        BY <3>2, <1>9 DEF OneCandidate, NoCandidate
      <4> QED BY <4>1, <4>2, <4>3 DEF AmendIInv, CandidateIffAmends
    <3> QED BY <3>1, <3>2
  <2>2. ASSUME NEW h \in Hashes \ seenDocs'
        PROVE  NoCandidate(h)'
    <3>1. h # hash /\ h \in Hashes \ seenDocs
      BY <1>1
    <3> QED BY <3>1, <1>9 DEF AmendIInv, CandidateIffAmends, NoCandidate
  <2> QED BY <2>1, <2>2 DEF CandidateIffAmends
<1>12. VerifiedByAnother'
  BY <1>4, <1>5 DEF AmendIInv, VerifiedByAnother
<1>13. CarriedByThree'
  BY <1>1 DEF AmendIInv, CarriedByThree
<1> QED BY <1>7, <1>8, <1>11, <1>12, <1>13 DEF AmendIInv

LEMMA VerifyPreserves ==
  ASSUME AmendIInv, NEW c \in candidates, NEW reviewer \in Staff, Verify(c, reviewer)
  PROVE  AmendIInv'
<1> DEFINE passed == [c EXCEPT !.status = "REGRESSION_PASSED", !.reviewer = reviewer]
<1>1. /\ candidates' = (candidates \ {c}) \cup {passed} /\ reviewer # c.detector
      /\ seenDocs' = seenDocs /\ approvals' = approvals /\ firstKind' = firstKind
  BY DEF Verify
<1>2. /\ passed \in Candidate /\ passed.hash = c.hash /\ passed.detector = c.detector
      /\ passed.reviewer = reviewer /\ c \in Candidate
  BY DEF AmendIInv, AmendTypeOK, Candidate
<1> HIDE DEF passed
<1>3. AmendTypeOK' /\ SeenIsFound' /\ CarriedByThree'
  BY <1>1, <1>2 DEF AmendIInv, AmendTypeOK, SeenIsFound, CarriedByThree
<1>4. VerifiedByAnother'
  BY <1>1, <1>2 DEF AmendIInv, VerifiedByAnother
<1>5. \A h : OneCandidate(h) => OneCandidate(h)'
  <2> SUFFICES ASSUME NEW h, OneCandidate(h) PROVE OneCandidate(h)'
    OBVIOUS
  <2>1. PICK k \in Candidate : \A d : CandidateOf(h, d) <=> d = k
    BY DEF OneCandidate
  <2>2. CASE c.hash = h
    <3>1. k = c
      BY <2>1, <2>2 DEF CandidateOf
    <3>2. \A d : CandidateOf(h, d)' <=> d = passed
      BY <2>1, <2>2, <3>1, <1>1, <1>2 DEF CandidateOf
    <3> QED BY <3>2, <1>2 DEF OneCandidate
  <2>3. CASE c.hash # h
    <3>1. \A d : CandidateOf(h, d)' <=> d = k
      BY <2>1, <2>3, <1>1, <1>2 DEF CandidateOf
    <3> QED BY <3>1 DEF OneCandidate
  <2> QED BY <2>2, <2>3
<1>6. \A h : NoCandidate(h) => NoCandidate(h)'
  BY <1>1, <1>2 DEF NoCandidate, CandidateOf
<1>7. CandidateIffAmends'
  BY <1>1, <1>5, <1>6 DEF AmendIInv, CandidateIffAmends
<1> QED BY <1>3, <1>4, <1>7 DEF AmendIInv

LEMMA ApprovePreserves ==
  ASSUME AmendIInv, NEW c \in candidates, NEW approver \in Staff, Approve(c, approver)
  PROVE  AmendIInv'
<1> DEFINE by == [detector |-> c.detector, reviewer |-> c.reviewer, approver |-> approver]
<1>1. /\ approver # c.detector /\ approver # c.reviewer /\ c.status = "REGRESSION_PASSED"
      /\ approvals' = approvals \cup {[hash |-> c.hash, by |-> by]}
      /\ seenDocs' = seenDocs /\ candidates' = candidates /\ firstKind' = firstKind
  BY DEF Approve
<1>2. c.detector \in Staff /\ c.reviewer \in Staff /\ c.reviewer # c.detector
  BY <1>1 DEF AmendIInv, AmendTypeOK, Candidate, VerifiedByAnother
<1>3. /\ by \in [detector : Staff, reviewer : Staff, approver : Staff]
      /\ by \in [detector : Staff, reviewer : Staff \cup {NoOfficer}, approver : Staff]
      /\ by.detector # by.reviewer /\ by.reviewer # by.approver /\ by.detector # by.approver
  BY <1>1, <1>2
<1> HIDE DEF by
<1>4. AmendTypeOK'
  BY <1>1, <1>3 DEF AmendIInv, AmendTypeOK
<1>5. CarriedByThree'
  BY <1>1, <1>3 DEF AmendIInv, CarriedByThree
<1>6. SeenIsFound' /\ CandidateIffAmends' /\ VerifiedByAnother'
  BY <1>1 DEF AmendIInv, SeenIsFound, CandidateIffAmends, VerifiedByAnother, OneCandidate, NoCandidate,
              CandidateOf
<1> QED BY <1>4, <1>5, <1>6 DEF AmendIInv

LEMMA InvariantCarriesOnce == AmendIInv => AmendmentsCarriedOnce
<1> SUFFICES ASSUME AmendIInv PROVE AmendmentsCarriedOnce
  OBVIOUS
<1>1. ASSUME NEW h \in seenDocs
      PROVE  Cardinality({c \in candidates : c.hash = h})
               = IF firstKind[h][1] = "CEILING_AMENDMENT"
                    \/ (firstKind[h][1] = "LEGAL_AMENDMENT" /\ firstKind[h][2] # "OTHER") THEN 1 ELSE 0
  <2>1. CASE Amends(firstKind[h][1], firstKind[h][2])
    <3>1. PICK k : \A d : CandidateOf(h, d) <=> d = k
      BY <2>1 DEF AmendIInv, CandidateIffAmends, OneCandidate
    <3>2. {c \in candidates : c.hash = h} = {k}
      BY <3>1 DEF CandidateOf
    <3> QED BY <2>1, <3>2, FS_Singleton DEF Amends
  <2>2. CASE ~Amends(firstKind[h][1], firstKind[h][2])
    <3>1. {c \in candidates : c.hash = h} = {}
      BY <2>2 DEF AmendIInv, CandidateIffAmends, NoCandidate, CandidateOf
    <3> QED BY <2>2, <3>1, FS_EmptySet DEF Amends
  <2> QED BY <2>1, <2>2
<1>2. ASSUME NEW a \in approvals
      PROVE  Cardinality({a.by.detector, a.by.reviewer, a.by.approver}) = 3 /\ NoOfficer # a.by.reviewer
  <2>1. /\ a.by.detector # a.by.reviewer /\ a.by.reviewer # a.by.approver /\ a.by.detector # a.by.approver
        /\ a.by.reviewer \in Staff
    BY DEF AmendIInv, CarriedByThree
  <2>2. Cardinality({a.by.detector, a.by.reviewer, a.by.approver}) = 3
    <3> DEFINE d == a.by.detector
               r == a.by.reviewer
               v == a.by.approver
    <3>1. d # r /\ r # v /\ d # v
      BY <2>1
    <3> HIDE DEF d, r, v
    <3>2. Cardinality({d, r, v}) = 3
      BY <3>1, ThreeOfThree
    <3> QED BY <3>2 DEF d, r, v
  <2>3. NoOfficer # a.by.reviewer
    BY <2>1, OfficerAssumption
  <2> QED BY <2>2, <2>3
<1> QED BY <1>1, <1>2 DEF AmendmentsCarriedOnce

(* However often a document is found, it is carried at most once, and only *)
(* by three officers: for any officers and any documents.                  *)
THEOREM AmendmentsAlwaysCarriedOnce == AmendSpec => []AmendmentsCarriedOnce
<1>1. AmendInit => AmendIInv
  BY DEF AmendInit, AmendIInv, AmendTypeOK, SeenIsFound, CandidateIffAmends, NoCandidate, CandidateOf,
         VerifiedByAnother, CarriedByThree
<1>2. AmendIInv /\ [AmendNext]_amendmentVars => AmendIInv'
  <2> SUFFICES ASSUME AmendIInv, [AmendNext]_amendmentVars PROVE AmendIInv'
    OBVIOUS
  <2>1. CASE UNCHANGED amendmentVars
    BY <2>1 DEF amendmentVars, AmendIInv, AmendTypeOK, SeenIsFound, CandidateIffAmends, OneCandidate,
                NoCandidate, CandidateOf, VerifiedByAnother, CarriedByThree
  <2> QED BY <2>1, IngestPreserves, VerifyPreserves, ApprovePreserves DEF AmendNext
<1>3. AmendSpec => []AmendIInv
  BY <1>1, <1>2, PTL DEF AmendSpec
<1> QED BY <1>3, InvariantCarriesOnce, PTL
=============================================================================
