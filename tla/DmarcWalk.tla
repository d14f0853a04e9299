------------------------------ MODULE DmarcWalk ------------------------------
(***************************************************************************)
(* discover_dmarc: the bounded DNS tree walk for the DMARC record that     *)
(* applies to a name.  A name under audit and its ancestors are told apart *)
(* by how many labels they have: the audited name has "labels" of them,    *)
(* its registrable domain "base" (org_base), the TLD one.  A lookup may    *)
(* fail, which reads as "no record here" and is charged to the ledger.     *)
(***************************************************************************)
EXTENDS Integers, FiniteSets

CONSTANTS
  MaxLabels,  (* bound of the model: labels of the audited name            *)
  MaxQueries  (* 8 in the code                                             *)

ASSUME WalkAssumption ==
  /\ MaxLabels \in Nat \ {0}
  /\ MaxQueries \in Nat \ {0, 1}

Psd == {"u", "y", "n"}       (* the psd tag, "u" when absent               *)
Contents == Psd \union {"none"}

VARIABLES
  labels, base,
  holds,      (* what _dmarc.<name> really holds                           *)
  failing,    (* names whose TXT lookup fails in this audit                *)
  stage,
  at,         (* labels of the ancestor to read next                       *)
  above,      (* records_above_root                                        *)
  observed,   (* parent_observation, 0 for None                            *)
  queried,    (* history: the names read                                   *)
  result

world == <<labels, base, holds, failing>>
walkVars == <<world, stage, at, above, observed, queried, result>>

NoResult == [relationship |-> "none", source |-> 0]

LowerOf(a, b) == IF a < b THEN a ELSE b

(* org_base gives None for a public suffix.  The pinned list has suffixes  *)
(* of seven labels, so a registrable domain may be longer than the longest *)
(* suffix walked.                                                          *)
WalkInit ==
  /\ labels \in 1 .. MaxLabels
  /\ base \in {0} \union 2 .. labels
  /\ holds \in [1 .. labels -> Contents]
  /\ failing \in SUBSET (1 .. labels)
  /\ stage = "own"
  /\ at = labels
  /\ above = {} /\ observed = 0
  /\ queried = {}
  /\ result = NoResult

Read(n) == IF n \in failing THEN "none" ELSE holds[n]

Return(relationship, source) ==
  /\ stage' = "done"
  /\ result' = [relationship |-> relationship, source |-> source]
  /\ UNCHANGED <<world, at, above, observed>>

WalkFrom == LowerOf(labels - 1, MaxQueries - 1)

OwnRecord ==
  /\ stage = "own"
  /\ queried' = queried \union {labels}
  /\ \/ Read(labels) # "none" /\ Return("self", labels)
     \/ Read(labels) = "none" /\ base = 0 /\ Return("none", 0)
     \/ /\ Read(labels) = "none" /\ base # 0
        /\ stage' = "walk"
        /\ at' = WalkFrom
        /\ UNCHANGED <<world, above, observed, result>>

Walking(n) == stage = "walk" /\ at = n /\ n > 0

Ascend ==
  /\ at' = at - 1
  /\ UNCHANGED <<world, stage, result>>

NoRecord ==
  /\ Walking(at) /\ Read(at) = "none"
  /\ queried' = queried \union {at}
  /\ Ascend
  /\ UNCHANGED <<above, observed>>

(* Mutant: a psd=y record is used without a look at the name below it.     *)
PublicSuffixDomainOwn ==
  /\ Walking(at) /\ Read(at) = "y"
  /\ at < base
  /\ queried' = queried \union {at}
  /\ Return("psd", at)

OrganizationalDomain ==
  /\ Walking(at) /\ Read(at) # "none"
  /\ at >= base
  /\ queried' = queried \union {at}
  /\ Return("organizational", at)

(* psd=y: the name one label below is the organizational domain, and its   *)
(* own record wins when there is one.                                      *)
PublicSuffixDomain ==
  /\ Walking(at) /\ Read(at) = "y"
  /\ at < base
  /\ queried' = queried \union {at}
  /\ Return("psd", IF at + 1 \in above THEN at + 1 ELSE at)

Observed == IF observed = 0 THEN at ELSE observed

ObserveParent ==
  /\ Walking(at) /\ Read(at) = "u"
  /\ at < base
  /\ queried' = queried \union {at}
  /\ above' = above \union {at}
  /\ observed' = Observed
  /\ Ascend

StopAtPsdN ==
  /\ Walking(at) /\ Read(at) = "n"
  /\ at < base
  /\ queried' = queried \union {at}
  /\ Return("parent_observation", Observed)

Exhausted ==
  /\ stage = "walk" /\ at = 0
  /\ IF observed # 0 THEN Return("parent_observation", observed)
                     ELSE Return("none", 0)
  /\ UNCHANGED queried

WalkFinished == stage = "done" /\ UNCHANGED walkVars

Step == NoRecord \/ OrganizationalDomain \/ PublicSuffixDomain \/ ObserveParent \/ StopAtPsdN

WalkNext == OwnRecord \/ Step \/ Exhausted \/ WalkFinished

WalkSpec == WalkInit /\ [][WalkNext]_walkVars
-----------------------------------------------------------------------------
WalkTypeOK ==
  /\ labels \in 1 .. MaxLabels
  /\ base \in {0} \union 2 .. labels
  /\ holds \in [1 .. labels -> Contents]
  /\ failing \in SUBSET (1 .. labels)
  /\ stage \in {"own", "walk", "done"}
  /\ at \in 0 .. labels
  /\ above \in SUBSET (1 .. labels) /\ observed \in 0 .. labels
  /\ queried \in SUBSET (1 .. labels)
  /\ result \in [relationship : {"none", "self", "organizational", "psd",
                                 "parent_observation"},
                 source : 0 .. labels]

(* SPEC.md, RFC 9989 section 4.10: the walk "is capped at eight total      *)
(* queries" and ends at the TLD, however long the audited name is.         *)
QueryCap == Cardinality(queried) <= MaxQueries

(* The names the walk may consult, and what SPEC.md makes of records.      *)
Ancestors == 1 .. WalkFrom

SelfApplies(rec) == rec[labels] # "none"

OrganizationalAt(rec, n) ==
  /\ n \in Ancestors /\ n >= base /\ rec[n] # "none"
  /\ \A m \in Ancestors : m > n => rec[m] = "none"

NoneBelowRoot(rec) == \A n \in Ancestors : n >= base => rec[n] = "none"

(* The nearest ancestor above the boundary whose record decides: psd=y or  *)
(* psd=n, whichever comes first.                                           *)
DecidedAt(rec, n, psd) ==
  /\ n \in Ancestors /\ n < base /\ rec[n] = psd
  /\ \A m \in Ancestors : m > n /\ m < base => rec[m] \notin {"y", "n"}

(* The policy that applies to the audited name when DNS holds rec.         *)
Applies(rec, res) ==
  IF SelfApplies(rec)
  THEN res = [relationship |-> "self", source |-> labels]
  ELSE IF base = 0 THEN res = NoResult
  ELSE IF ~NoneBelowRoot(rec)
  THEN res.relationship = "organizational" /\ OrganizationalAt(rec, res.source)
  ELSE IF \E n \in Ancestors : DecidedAt(rec, n, "y")
  THEN \E n \in Ancestors :
         /\ DecidedAt(rec, n, "y")
         /\ res = [relationship |-> "psd",
                   source |-> IF /\ n + 1 \in Ancestors /\ n + 1 < base
                                 /\ rec[n + 1] # "none"
                              THEN n + 1 ELSE n]
  ELSE /\ res.relationship \in {"none", "parent_observation"}
       /\ res.relationship = "none" <=>
            \A n \in Ancestors : rec[n] = "none"

Answered == [n \in 1 .. labels |-> Read(n)]

(* The policy found is the one that SPEC.md's rule, RFC 9989's walk        *)
(* bounded by the PSL, derives from the answers.                           *)
FollowsRfc == stage = "done" => Applies(Answered, result)

(* A failed lookup of the walk is charged to the ledger.  A mutant charges *)
(* only the one of the audited name.                                       *)
ChargedOwn == queried \intersect failing \intersect {labels}
Charged == queried \intersect failing

(* With no failure charged, the verdict is the one of the records really   *)
(* published, also of those the walk did not read.                         *)
ConclusiveIsTrue == stage = "done" /\ Charged = {} => Applies(holds, result)

(* A record above the registrable domain governs only by psd=y, its own or *)
(* the one a label above it.                                               *)
NoPolicyAcrossRoot ==
  stage = "done" /\ result.relationship \in {"organizational", "psd"} =>
    \/ result.source >= base
    \/ holds[result.source] = "y"
    \/ result.source > 1 /\ holds[result.source - 1] = "y"
=============================================================================
