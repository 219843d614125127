--------------------------- MODULE RuleCandidates ---------------------------
(***************************************************************************)
(* RegulatoryUpdatePipelineService: documents found at official sources    *)
(* become rule candidates, which are verified and approved by officers     *)
(* other than their detector.  The approval returns a rule and registers   *)
(* nothing.  Candidates and hashes are class attributes of one process and *)
(* every call runs to its end; a call that raises changes nothing and is   *)
(* left out.  The same content may be found any number of times.           *)
(***************************************************************************)
EXTENDS ImpactAnalysis, Naturals, FiniteSets

CONSTANTS
  Staff,       \* detectors, reviewers and approvers
  Hashes,         \* content hashes of documents, each from an official source
  NoOfficer

ASSUME OfficerAssumption == NoOfficer \notin Staff

VARIABLES
  seenDocs,     \* _SEEN_DOCUMENTS
  candidates,   \* _CANDIDATES
  approvals,    \* history: by whom the rules approve_and_activate returned were carried
  firstKind     \* history: how each document was found the first time

amendmentVars == <<seenDocs, candidates, approvals, firstKind>>

-----------------------------------------------------------------------------
DocumentKinds == {"LEGAL_AMENDMENT", "CEILING_AMENDMENT", "SUPERSESSION", "FORMATTING_ONLY"}

(* n tells candidates of the same document apart, as their ids do.         *)
Candidate == [hash : Hashes, n : 1..2, status : {"DETECTED", "REGRESSION_PASSED"},
              detector : Staff, reviewer : Staff \cup {NoOfficer}]

AmendTypeOK ==
  /\ seenDocs \subseteq Hashes /\ candidates \subseteq Candidate
  /\ \A a \in approvals : a.by \in [detector : Staff, reviewer : Staff \cup {NoOfficer}, approver : Staff]
  /\ firstKind \in [Hashes -> (DocumentKinds \X Domains) \cup {<<>>}]

AmendInit == seenDocs = {} /\ candidates = {} /\ approvals = {} /\ firstKind = [h \in Hashes |-> <<>>]

-----------------------------------------------------------------------------
(* How a document's kind is worded to the analyzer: a legal amendment by   *)
(* its text, everything else as a change of wording.                       *)
DimensionOf(kind) ==
  CASE kind = "LEGAL_AMENDMENT"   -> "RATE_CHANGE"
    [] kind = "CEILING_AMENDMENT" -> "CEILING_CHANGE"
    [] OTHER                      -> "DOCUMENT_CHANGE"

(* ingest_document_change: content seen before makes no second candidate;  *)
(* it is remembered before it is known whether a first one results.        *)
AlreadySeenNever(hash) == FALSE
AlreadySeen(hash) == hash \in seenDocs

Ingest(hash, kind, domain, detector) ==
  /\ ~AlreadySeen(hash)
  /\ seenDocs' = seenDocs \cup {hash}
  /\ firstKind' = [firstKind EXCEPT ![hash] = IF firstKind[hash] = <<>> THEN <<kind, domain>> ELSE @]
  /\ candidates' =
       IF RequiresCandidate(DimensionOf(kind), domain)
       THEN candidates \cup {[hash |-> hash, n |-> IF \E c \in candidates : c.hash = hash THEN 2 ELSE 1,
                              status |-> "DETECTED", detector |-> detector, reviewer |-> NoOfficer]}
       ELSE candidates
  /\ UNCHANGED approvals

(* run_regression_and_verify: may be repeated, by another reviewer too.    *)
Verify(c, reviewer) ==
  /\ reviewer # c.detector
  /\ candidates' = (candidates \ {c}) \cup {[c EXCEPT !.status = "REGRESSION_PASSED", !.reviewer = reviewer]}
  /\ UNCHANGED <<seenDocs, approvals, firstKind>>

Approve(c, approver) ==
  /\ approver \notin {c.detector, c.reviewer}
  /\ c.status = "REGRESSION_PASSED"
  /\ approvals' = approvals \cup {[hash |-> c.hash,
                                   by |-> [detector |-> c.detector, reviewer |-> c.reviewer, approver |-> approver]]}
  /\ UNCHANGED <<seenDocs, candidates, firstKind>>

AmendNext ==
  \/ \E hash \in Hashes, kind \in DocumentKinds, domain \in Domains, detector \in Staff :
       Ingest(hash, kind, domain, detector)
  \/ \E c \in candidates, officer \in Staff : Verify(c, officer) \/ Approve(c, officer)

AmendSpec == AmendInit /\ [][AmendNext]_amendmentVars

-----------------------------------------------------------------------------
(* However often a document is found, it has one candidate if it was an    *)
(* amendment of a calculation rule when first found and none otherwise;    *)
(* and every rule returned was carried by three different officers.        *)
AmendmentsCarriedOnce ==
  /\ \A h \in seenDocs :
       Cardinality({c \in candidates : c.hash = h})
         = IF firstKind[h][1] = "CEILING_AMENDMENT" \/ (firstKind[h][1] = "LEGAL_AMENDMENT" /\ firstKind[h][2] # "OTHER")
           THEN 1 ELSE 0
  /\ \A a \in approvals : Cardinality({a.by.detector, a.by.reviewer, a.by.approver}) = 3
                          /\ NoOfficer # a.by.reviewer
=============================================================================
