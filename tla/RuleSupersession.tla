-------------------------- MODULE RuleSupersession --------------------------
(***************************************************************************)
(* ComplianceRuleRegistry and RuleSupersessionService: an authorized       *)
(* supersession replaces a registered rule at once, or notifies a rule     *)
(* that takes effect later.  Registry, events and keys are class           *)
(* attributes of one process and every call runs to its end; a call that   *)
(* raises changes nothing and is left out.                                 *)
(***************************************************************************)
EXTENDS StatutoryCatalogue, ImpactAnalysis, FiniteSets

CONSTANTS
  Changed,        \* ids of seeded rules that are superseded
  NewIds,         \* ids a new rule may take besides those
  Versions,       \* version strings of new rules
  Officers,       \* detectors, reviewers and approvers
  Months,         \* months in which the process runs
  Dates,          \* effective dates of new rules
  MaxEvents       \* bound: supersessions executed

ASSUME UpdateAssumption ==
  /\ Changed \subseteq SeedIds /\ NewIds \cap SeedIds = {}
  /\ Months \subseteq 0..(Open - 1) /\ Dates \subseteq 0..Open

VARIABLES
  today,        \* date.today(), a month
  registry,     \* registry[id]: the rule registered under id, or NoRule
  seenKeys,     \* RuleSupersessionService._SEEN_KEYS
  events        \* its _EVENTS

updateVars == <<today, registry, seenKeys, events>>

-----------------------------------------------------------------------------
NoRule == [id |-> "none", status |-> "none"]
Ids == SeedIds \cup NewIds
Statuses == {"ACTIVE", "PROPOSED", "SUPERSEDED", "FUTURE_OFFICIALLY_NOTIFIED"}
Duties == [detector : Officers, reviewer : Officers, approver : Officers]

UpdateTypeOK ==
  /\ today \in Months
  /\ \A id \in Ids : registry[id] = NoRule \/ (registry[id].id = id /\ registry[id].status \in Statuses)
  /\ \A e \in events : e.by \in Duties /\ <<e.old, e.new, e.newVersion, e.from>> \in seenKeys

UpdateInit ==
  /\ today \in Months
  /\ registry = [id \in Ids |-> IF id \in SeedIds THEN CHOOSE r \in REGISTRY : r.id = id ELSE NoRule]
  /\ seenKeys = {} /\ events = {}

(* execute_supersession, past its refusals: three different officers, a    *)
(* registered old rule, an analysis that lets it through.  A key seen      *)
(* before changes nothing.                                                 *)
ThreeOfficersTwo(by) == by.approver # by.detector
ThreeOfficers(by) == Cardinality({by.detector, by.reviewer, by.approver}) = 3

TakesEffectAlways(from) == TRUE
TakesEffect(from) == from <= today

Supersede(old, new, version, from, to, type, by) ==
  LET o == registry[old]
      active == TakesEffect(from)
      oldUpdated == [o EXCEPT !.status = IF active THEN "SUPERSEDED" ELSE o.status,
                              !.supersededBy = IF active THEN new ELSE "none"]
      newRule == [o EXCEPT !.id = new, !.version = version, !.from = from, !.to = to, !.document = "new",
                           !.status = IF active THEN "ACTIVE" ELSE "FUTURE_OFFICIALLY_NOTIFIED",
                           !.supersedes = old, !.supersededBy = "none"]
  IN
  /\ ThreeOfficers(by)
  /\ o # NoRule
  /\ ~RequiresVerification(type)
  /\ <<old, new, version, from>> \notin seenKeys
  /\ seenKeys' = seenKeys \cup {<<old, new, version, from>>}
  /\ registry' = [registry EXCEPT ![old] = oldUpdated, ![new] = newRule]
  /\ events' = events \cup {[old |-> old, new |-> new, oldVersion |-> o.version, newVersion |-> version,
                             from |-> from, by |-> by]}
  /\ UNCHANGED today

Tick(month) ==
  /\ month > today
  /\ today' = month
  /\ UNCHANGED <<registry, seenKeys, events>>

UpdateNext ==
  \/ /\ Cardinality(events) < MaxEvents
     /\ \E old \in Changed \cup NewIds, new \in Changed \cup NewIds, version \in Versions, from \in Dates,
           to \in Dates \cup {Open}, type \in ChangeTypes, by \in Duties :
           Supersede(old, new, version, from, to, type, by)
  \/ \E month \in Months : Tick(month)

UpdateSpec == UpdateInit /\ [][UpdateNext]_updateVars

-----------------------------------------------------------------------------
(* Every departure from the shipped rules is on record with three          *)
(* different officers: a superseded rule has an event that retired that    *)
(* version and whose date had come, and a rule that names a predecessor    *)
(* has the event that introduced it.                                       *)
Distinct(by) == by.detector # by.reviewer /\ by.reviewer # by.approver /\ by.detector # by.approver

DeparturesWitnessed ==
  \A id \in Ids :
    /\ registry[id].status = "SUPERSEDED" =>
         \E e \in events : e.old = id /\ e.oldVersion = registry[id].version /\ e.from <= today /\ Distinct(e.by)
    /\ registry[id] # NoRule /\ registry[id].supersedes # "none" =>
         \E e \in events : /\ e.new = id /\ e.old = registry[id].supersedes
                           /\ e.newVersion = registry[id].version /\ Distinct(e.by)

RulesInForce(domain, jurisdiction) ==
  {id \in Ids : /\ registry[id].status = "ACTIVE"
                /\ registry[id].domain = domain /\ registry[id].jurisdiction = jurisdiction
                /\ registry[id].from <= today /\ today <= registry[id].to}

(* A supersession does not leave a domain without a rule in force, unless  *)
(* the new rule has already expired or takes an id another rule is         *)
(* registered under, which it overwrites.                                  *)
CoverageHolds ==
  [][\A r \in REGISTRY :
       today' = today /\ RulesInForce(r.domain, r.jurisdiction) # {}
                      /\ RulesInForce(r.domain, r.jurisdiction)' = {} =>
         \E e \in events' \ events : registry'[e.new].to < today \/ registry[e.new] # NoRule]_updateVars

(* What the compliance tests ask of the shipped rules stays true of those  *)
(* no supersession has introduced: an active one is backed by an eligible  *)
(* assertion of its own jurisdiction from a source that may authorize it.  *)
ActiveRulesEvidenced ==
  \A id \in Ids :
    registry[id].status = "ACTIVE" /\ (\A e \in events : e.new # id) =>
      \E a \in AssertionsForRule(id), s \in SOURCES :
        /\ is_production_eligible(a) /\ a.jurisdiction = registry[id].jurisdiction
        /\ s.id = a.source /\ can_authorize_production(s)

(* The rules in the registry can all be accounted for.                     *)
ChangesWitnessed == DeparturesWitnessed /\ ActiveRulesEvidenced
=============================================================================
