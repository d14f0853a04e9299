----------------------------- MODULE DmarcPolicy -----------------------------
(***************************************************************************)
(* The policy a PSD-controlled DMARC record gives a name: dmarc_domain_-   *)
(* exists asks DNS whether the name exists, _dmarc_policy_for_existence    *)
(* picks the tag that governs, and check_dmarc reports it.  The existence  *)
(* lookup ends with any response code, after retries that may fail.        *)
(***************************************************************************)
EXTENDS DnsAnswer, Integers

Policies == {"none", "quarantine", "reject"}
Absent == ""
Values == Policies \union {"other", Absent}   (* "other": not a DMARC policy *)

VARIABLES
  tags,       (* the record's p, sp and np tags                            *)
  really,     (* whether the audited name exists                           *)
  phase,
  existence,  (* domain_exists: "yes", "no" or "unknown" (None)            *)
  effective, tag,
  rule

vars == <<tags, really, phase, existence, effective, tag, rule>>

Init ==
  /\ tags \in [p : Values, sp : Values, np : Values]
  /\ really \in BOOLEAN
  /\ phase = "lookup"
  /\ existence = "unknown"
  /\ effective = Absent /\ tag = "p"
  /\ rule = "none"

(* An authoritative response code tells the truth about the name.          *)
Truthful(status) ==
  /\ status = "NOERROR" => really
  /\ status = "NXDOMAIN" => ~really

(* Mutants of dmarc_domain_exists: without a positive answer the name does *)
(* not exist; the response code itself is the answer.                      *)
ExistsOrNot(meta) == IF meta.status = "NOERROR" THEN "yes" ELSE "no"
ExistsCode(meta) == meta.status

dmarc_domain_exists(meta) ==
  CASE meta.error -> "unknown"
    [] ~meta.error /\ meta.status = "NXDOMAIN" -> "no"
    [] ~meta.error /\ meta.status = "NOERROR" -> "yes"
    [] OTHER -> "unknown"

Exists(status, exhausted) ==
  /\ phase = "lookup"
  /\ Truthful(status)
  /\ existence' = dmarc_domain_exists(NormalizedMeta(status, exhausted))
  /\ phase' = "policy"
  /\ UNCHANGED <<tags, really, effective, tag, rule>>

(* policy(preferred): p stands in for an absent tag.                       *)
Preferred(t) ==
  IF tags[t] # Absent THEN [value |-> tags[t], tag |-> t]
                      ELSE [value |-> tags.p, tag |-> "p"]

Strength(value) ==
  CASE value = "none" -> 1
    [] value = "quarantine" -> 2
    [] value = "reject" -> 3
    [] OTHER -> 0

Weaker(a, b) == IF Strength(b.value) < Strength(a.value) THEN b ELSE a

(* Mutant: sp and np are swapped.                                          *)
PolicySwapped ==
  CASE existence = "yes" -> Preferred("np")
    [] existence = "no" -> Preferred("sp")
    [] OTHER -> Weaker(Preferred("sp"), Preferred("np"))

_dmarc_policy_for_existence ==
  CASE existence = "yes" -> Preferred("sp")
    [] existence = "no" -> Preferred("np")
    [] OTHER -> Weaker(Preferred("sp"), Preferred("np"))

(* check_dmarc's rule for the "psd" relationship.                          *)
RuleFor(value) ==
  IF value \in {"quarantine", "reject"} THEN "dmarc.inherited_enforced"
                                        ELSE "dmarc.inherited_not_enforced"

Resolve ==
  /\ phase = "policy"
  /\ effective' = _dmarc_policy_for_existence.value
  /\ tag' = _dmarc_policy_for_existence.tag
  /\ rule' = RuleFor(_dmarc_policy_for_existence.value)
  /\ phase' = "done"
  /\ UNCHANGED <<tags, really, existence>>

Finished == phase = "done" /\ UNCHANGED vars

Next ==
  \/ \E status \in Statuses, exhausted \in BOOLEAN : Exists(status, exhausted)
  \/ Resolve
  \/ Finished

Spec == Init /\ [][Next]_vars
-----------------------------------------------------------------------------
TypeOK ==
  /\ tags \in [p : Values, sp : Values, np : Values]
  /\ really \in BOOLEAN
  /\ phase \in {"lookup", "policy", "done"}
  /\ existence \in {"yes", "no", "unknown"}
  /\ effective \in Values /\ tag \in {"p", "sp", "np"}
  /\ rule \in {"none", "dmarc.inherited_enforced", "dmarc.inherited_not_enforced"}

(* The policy a receiver that knows whether the name exists would apply.   *)
Governing == IF really THEN Preferred("sp") ELSE Preferred("np")

(* SPEC.md: "a failed lookup never becomes nonexistence", and one selects  *)
(* the weaker outcome: the audit never overstates the protection in force. *)
NeverOverstated ==
  phase = "done" =>
    /\ Strength(effective) <= Strength(Governing.value)
    /\ rule = "dmarc.inherited_enforced" => Strength(Governing.value) >= 2

(* An authoritative lookup decides: the policy is the governing one, under *)
(* the tag it came from, and stays so whatever the other tag says.         *)
KnownIsExact ==
  phase = "done" /\ existence # "unknown" =>
    effective = Governing.value /\ tag = Governing.tag
=============================================================================
