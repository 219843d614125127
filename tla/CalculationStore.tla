-------------------------- MODULE CalculationStore --------------------------
(***************************************************************************)
(* The stored calculations of one financial year: the calculation endpoint *)
(* (a VERIFIED run that is never superseded), CalculationSaveService (one  *)
(* CURRENT run per employee, earlier ones SUPERSEDED) and the deletion     *)
(* from a user's history, which only marks the run.  The database is       *)
(* PostgreSQL at READ COMMITTED: an UPDATE works on the rows that matched  *)
(* when it started, waits for those another transaction holds and looks at *)
(* the status again once it has them.                                      *)
(*                                                                         *)
(* A run is committed with its snapshot, lines and traces, so the run      *)
(* stands for all of them.  Runs of other years are never touched.         *)
(***************************************************************************)
EXTENDS Naturals, FiniteSets

CONSTANTS
  Calls,      \* calls, each made once, numbered as they begin; a run has the id of its call
  Employees,  \* users with an employee record
  Others,     \* users without one
  NoRun, NoOne

VARIABLES
  runs,    \* runs[c]: the row of calculation_runs call c inserted, or NoRun
  call,    \* call[c]: how far call c has come
  known    \* history: known[c] is the set of runs committed when c began

storeVars == <<runs, call, known>>

-----------------------------------------------------------------------------
Run == [owner : Employees \cup {NoOne}, status : {"VERIFIED", "CURRENT", "SUPERSEDED", "DELETED"}]

(* rows: those the call is about to write and, once step is "holds", the   *)
(* ones it has locked.                                                     *)
Call == [step : {"waiting", "matched", "holds", "loaded", "done"}, user : Employees \cup {NoOne}, rows : SUBSET Calls]

ASSUME StoreAssumption ==
  /\ Calls \subseteq Nat
  /\ Employees \cap Others = {} /\ NoOne \notin Employees \cup Others
  /\ NoRun \notin Run

StoreTypeOK ==
  /\ DOMAIN runs = Calls /\ \A c \in Calls : runs[c] \in Run \cup {NoRun}
  /\ call \in [Calls -> Call]
  /\ known \in [Calls -> SUBSET Calls]

StoreInit ==
  /\ runs = [c \in Calls |-> NoRun]
  /\ call = [c \in Calls |-> [step |-> "waiting", user |-> NoOne, rows |-> {}]]
  /\ known = [c \in Calls |-> {}]

-----------------------------------------------------------------------------
Committed == {c \in Calls : runs[c] # NoRun}
Held == UNION {call[c].rows : c \in {d \in Calls : call[d].step = "holds"}}

Begins(c, step, user, rows) ==
  /\ call[c].step = "waiting" /\ \A d \in Calls : d < c => call[d].step # "waiting"
  /\ call' = [call EXCEPT ![c] = [step |-> step, user |-> user, rows |-> rows]]
  /\ known' = [known EXCEPT ![c] = Committed]

Ends(c) == call' = [call EXCEPT ![c].step = "done", ![c].rows = {}]

(* calculate_salary with persist: a user without an employee record leaves *)
(* a run that belongs to nobody.                                           *)
Calculate(c, user) ==
  LET owner == IF user \in Employees THEN user ELSE NoOne IN
  /\ Begins(c, "done", owner, {})
  /\ runs' = [runs EXCEPT ![c] = [owner |-> owner, status |-> "VERIFIED"]]

(* save_calculation_for_employee.  Its UPDATE starts ...                   *)
SupersedesAll(run, employee) == run # NoRun /\ run.owner = employee
SupersedesVerified(run, employee) == run # NoRun /\ run.owner = employee /\ run.status = "VERIFIED"
Supersedes(run, employee) == run # NoRun /\ run.owner = employee /\ run.status = "CURRENT"

SaveStarts(c, employee) ==
  /\ Begins(c, "matched", employee, {r \in Calls : Supersedes(runs[r], employee)})
  /\ UNCHANGED runs

(* ... has its rows, those that still match ...                            *)
SaveHolds(c) ==
  /\ call[c].step = "matched"
  /\ call[c].rows \cap Held = {}
  /\ call' = [call EXCEPT ![c].step = "holds",
                          ![c].rows = {r \in call[c].rows : Supersedes(runs[r], call[c].user)}]
  /\ UNCHANGED <<runs, known>>

(* ... and is committed with the new run.                                  *)
SaveCommits(c) ==
  /\ call[c].step = "holds"
  /\ runs' = [r \in Calls |-> IF r \in call[c].rows THEN [runs[r] EXCEPT !.status = "SUPERSEDED"]
                              ELSE IF r = c THEN [owner |-> call[c].user, status |-> "CURRENT"]
                              ELSE runs[r]]
  /\ Ends(c)
  /\ UNCHANGED known

(* A save that was given trace events raises when it builds the trace row, *)
(* whose column it misnames; the session rolls back.                       *)
SaveFails(c) ==
  /\ call[c].step = "holds"
  /\ Ends(c)
  /\ UNCHANGED <<runs, known>>

(* delete_calculation_from_history: the user's own run in any status is    *)
(* loaded, then marked by its id; marking a deleted one writes nothing.    *)
DeleteLoads(c, employee, r) ==
  /\ runs[r] # NoRun /\ runs[r].owner = employee /\ runs[r].status # "DELETED"
  /\ Begins(c, "loaded", employee, {r})
  /\ UNCHANGED runs

DeleteCommits(c) ==
  /\ call[c].step = "loaded"
  /\ call[c].rows \cap Held = {}
  /\ runs' = [r \in Calls |-> IF r \in call[c].rows THEN [runs[r] EXCEPT !.status = "DELETED"] ELSE runs[r]]
  /\ Ends(c)
  /\ UNCHANGED known

StoreNext ==
  \E c \in Calls :
    \/ \E user \in Employees \cup Others : Calculate(c, user)
    \/ \E employee \in Employees : SaveStarts(c, employee)
    \/ SaveHolds(c) \/ SaveCommits(c) \/ SaveFails(c)
    \/ \E employee \in Employees, r \in Calls : DeleteLoads(c, employee, r)
    \/ DeleteCommits(c)

StoreSpec == StoreInit /\ [][StoreNext]_storeVars

-----------------------------------------------------------------------------
(* What a user is shown: the history and the detail page leave deleted     *)
(* runs out, the context that pages, summaries and the assistant start     *)
(* from does not, and it lets anyone see a run that belongs to nobody.     *)
Listed(user) == {r \in Committed : runs[r].owner = user /\ runs[r].status # "DELETED"}
Resolvable(user) == {r \in Committed : runs[r].owner \in {user, NoOne}}

-----------------------------------------------------------------------------
(* Two runs of an employee are both CURRENT only if their saves overlapped,*)
(* neither having begun after the other was committed; and a run is        *)
(* superseded only along with the saving of another, so the employee keeps *)
(* a saved run that began after it.                                        *)
CurrentExplained ==
  \A r \in Committed :
    /\ runs[r].status = "CURRENT" =>
         \A q \in Committed \ {r} : runs[q].owner = runs[r].owner /\ runs[q].status = "CURRENT" => r \notin known[q]
    /\ runs[r].status = "SUPERSEDED" =>
         \E q \in Committed : r \in known[q] /\ runs[q].owner = runs[r].owner /\ runs[q].status # "VERIFIED"

(* A run deleted from the history never comes back to it, whatever saves   *)
(* were under way, and stays resolvable where it was linked.               *)
DeletedStaysDeleted ==
  [][\A r \in Committed : runs[r].status = "DELETED" =>
       /\ runs'[r].status = "DELETED"
       /\ \A u \in Employees : r \notin Listed(u)' /\ (r \in Resolvable(u) => r \in Resolvable(u)')]_storeVars
=============================================================================
