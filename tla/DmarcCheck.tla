----------------------------- MODULE DmarcCheck -----------------------------
(***************************************************************************)
(* check_dmarc: what discover_dmarc found becomes a policy context, its    *)
(* tags become findings, and the ledger says which of them are conclusive. *)
(* The walk is DmarcWalk's contract: without a lost lookup it finds what   *)
(* applies, with one it may find any other relationship.  The branch for a *)
(* public suffix's policy is DmarcPolicy, whose variables these extend.    *)
(***************************************************************************)
EXTENDS DmarcPolicy

Inherited == {"organizational", "psd", "parent_observation", "none"}
Relationships == Inherited \union {"self"}

(* What else the own record says; pct "odd" is no number.  A destination   *)
(* of reports is at the same registrable domain, or has authorized them,   *)
(* or has not.                                                             *)
OwnRecords ==
  [several : BOOLEAN, rua : BOOLEAN, legacy : BOOLEAN,
   pct : {"absent", "partial", "full", "odd"}]
Destinations == {"same", "authorized", "unauthorized"}
NoRecordYet == [several |-> FALSE, rua |-> FALSE, legacy |-> FALSE, pct |-> "absent"]

VARIABLES
  applies,       (* the relationship the published records establish       *)
  relationship,  (* the one discover_dmarc returns                         *)
  record, dests,
  lost,          (* the lookups charged to scope "dmarc"                   *)
  F

found == <<applies, relationship, record, dests>>
checkVars == <<vars, found, lost, F>>

CheckInit ==
  /\ Init
  /\ applies \in Relationships
  /\ relationship = "unread"
  /\ record = NoRecordYet /\ dests = {}
  /\ lost = {} /\ F = {}

(* The ancestors are read when the own lookup has no record.               *)
MayLose(applied, losses) ==
  "ancestor" \in losses => applied # "self" \/ "own" \in losses
MayFind(applied, losses) ==
  IF "ancestor" \in losses \/ ("own" \in losses /\ applied = "self")
  THEN Inherited ELSE {applied}

Discover(losses) ==
  /\ relationship = "unread"
  /\ MayLose(applies, losses)
  /\ lost' = losses
  /\ relationship' \in MayFind(applies, losses)
  /\ UNCHANGED <<vars, applies, record, dests, F>>

Report(findings) ==
  /\ F = {} /\ F' = findings
  /\ UNCHANGED <<applies, relationship>>

(* _append_no_dmarc, alone or with the parent's record as an observation.  *)
NoPolicy ==
  /\ relationship \in {"none", "parent_observation"}
  /\ Report({"dmarc.missing"} \union
            IF relationship = "none" THEN {} ELSE {"dmarc.parent_observed"})
  /\ UNCHANGED <<vars, record, dests, lost>>

Organizational ==
  /\ relationship = "organizational"
  /\ Report({RuleFor(Preferred("sp").value)})
  /\ UNCHANGED <<vars, record, dests, lost>>

(* Mutant: the existence lookup is charged to no scope.                    *)
ExistenceQuiet(status, exhausted) ==
  /\ relationship = "psd"
  /\ Exists(status, exhausted)
  /\ UNCHANGED <<found, lost, F>>

Existence(status, exhausted) ==
  /\ relationship = "psd"
  /\ Exists(status, exhausted)
  /\ lost' = IF NormalizedMeta(status, exhausted).error
             THEN lost \union {"existence"} ELSE lost
  /\ UNCHANGED <<found, F>>

PublicSuffix ==
  /\ relationship = "psd"
  /\ Resolve
  /\ Report({rule'})
  /\ UNCHANGED <<record, dests, lost>>

(* The rules of an own record with these tags, under a condition each.     *)
Enforcing == tags.p \in {"quarantine", "reject"}

_DMARC_OWN_RULES ==
  {"dmarc.enforced", "dmarc.invalid_policy", "dmarc.monitor_only",
   "dmarc.multiple_records", "dmarc.no_rua", "dmarc.partial_pct", "dmarc.removed_tags",
   "dmarc.subdomain_not_enforced", "dmarc.unauthorized_report_destination"}

OwnRules(rec, unauth) ==
  {r \in _DMARC_OWN_RULES :
     CASE r = "dmarc.multiple_records" -> rec.several
       [] r = "dmarc.invalid_policy" -> tags.p \notin Policies
       [] r = "dmarc.monitor_only" -> tags.p = "none"
       [] r = "dmarc.enforced" -> Enforcing
       [] r = "dmarc.subdomain_not_enforced" -> Enforcing /\ tags.sp = "none"
       [] r = "dmarc.partial_pct" -> rec.pct = "partial"
       [] r = "dmarc.removed_tags" -> rec.legacy \/ rec.pct # "absent"
       [] r = "dmarc.no_rua" -> ~rec.rua
       [] OTHER -> rec.rua /\ unauth # {}}

(* A destination whose authorization lookup fails reads as unauthorized.   *)
Unauthorized(to, failed) ==
  IF failed THEN to \ {"same"} ELSE to \intersect {"unauthorized"}

OwnPolicy(rec, to, failed) ==
  /\ relationship = "self"
  /\ failed => rec.rua /\ to \ {"same"} # {}
  /\ record' = rec /\ dests' = to
  /\ lost' = IF failed THEN lost \union {"report"} ELSE lost
  /\ Report(OwnRules(rec, Unauthorized(to, failed)))
  /\ UNCHANGED vars

CheckDone == F # {} /\ UNCHANGED checkVars

CheckNext ==
  \/ \E losses \in SUBSET {"own", "ancestor"} : Discover(losses)
  \/ NoPolicy \/ Organizational \/ PublicSuffix
  \/ \E status \in Statuses, exhausted \in BOOLEAN : Existence(status, exhausted)
  \/ \E rec \in OwnRecords, to \in SUBSET Destinations, failed \in BOOLEAN :
       OwnPolicy(rec, to, failed)
  \/ CheckDone

CheckSpec == CheckInit /\ [][CheckNext]_checkVars
-----------------------------------------------------------------------------
FarRules ==
  {"dmarc.missing", "dmarc.parent_observed", "dmarc.inherited_enforced",
   "dmarc.inherited_not_enforced"}

(* Mutant: the inherited rules look at the own lookup only.                *)
InputsOwn(rule_id) ==
  IF rule_id = "dmarc.unauthorized_report_destination" THEN {"own", "report"} ELSE {"own"}

(* The lookups of the scope that _rule_evaluation holds against a rule.    *)
Inputs(rule_id) ==
  CASE rule_id = "dmarc.unauthorized_report_destination" -> {"own", "report"}
    [] rule_id \in FarRules -> {"own", "ancestor", "existence"}
    [] OTHER -> {"own"}

Conclusive(rule_id) == lost \intersect Inputs(rule_id) = {}

(* mark_unconfirmed_findings: of the DMARC rules only the absence, and     *)
(* only for the lookup of the own record.                                  *)
Unconfirmed == IF "own" \in lost THEN F \intersect {"dmarc.missing"} ELSE {}

(* The rules the published records make true.                              *)
Truth ==
  CASE applies = "self" -> OwnRules(record, dests \intersect {"unauthorized"})
    [] applies = "none" -> {"dmarc.missing"}
    [] applies = "parent_observation" -> {"dmarc.missing", "dmarc.parent_observed"}
    [] applies = "organizational" -> {RuleFor(Preferred("sp").value)}
    [] OTHER -> {RuleFor(Governing.value)}

(* README.md: each ledger entry is conclusive or names the failure that    *)
(* kept the rule from being evaluated.  A conclusive DMARC rule is found   *)
(* exactly when it is true of the published records, also when another     *)
(* record was reported in their place, and none is marked unconfirmed.     *)
LedgerIsTrue ==
  F # {} =>
    /\ \A rule_id \in _DMARC_OWN_RULES \union FarRules :
         Conclusive(rule_id) => (rule_id \in F <=> rule_id \in Truth)
    /\ \A rule_id \in Unconfirmed : ~Conclusive(rule_id)
=============================================================================
