---------------------------- MODULE PublicSuffix ----------------------------
(***************************************************************************)
(* The registrable domain of a name under a list of public suffix rules:   *)
(* org_base of audit.py, the lookup run_vectors.py holds the official      *)
(* vectors against, the fallback adoption_canary.py brings back, and the   *)
(* algorithm of publicsuffix.org they are compared with.  A name is the    *)
(* sequence of its labels, an A-label and its Unicode form being one.      *)
(***************************************************************************)
EXTENDS Integers, Sequences, FiniteSets, FiniteSetsExt

CONSTANTS
  Labels,
  Strange,  (* with a space, an alternate dot, or invalid punycode         *)
  Overlong  (* more than 63 octets                                         *)

ASSUME LabelAssumption == Strange \union Overlong \subseteq Labels

None == <<>>

(* A rule of the list and the mark it begins with.  A malformed one has a  *)
(* "*" where none may be.                                                  *)
Rules == [kind : {"exact", "wildcard", "exception", "malformed"},
          labels : Seq(Labels) \ {<<>>}]

(* The last "length" labels.                                               *)
Tailing(name, length) == SubSeq(name, Len(name) - length + 1, Len(name))
Contains(name, odd) == \E i \in DOMAIN name : name[i] \in odd

(* The three sets a lookup keeps, of a set of rules.                       *)
load(rules) ==
  [exact |-> {r.labels : r \in {q \in rules : q.kind = "exact"}},
   wildcards |-> {r.labels : r \in {q \in rules : q.kind = "wildcard"}},
   exceptions |-> {r.labels : r \in {q \in rules : q.kind = "exception"}}]

exception_length(psl, labels) ==
  Max({0} \union {l \in 1 .. Len(labels) : Tailing(labels, l) \in psl.exceptions})

match_length(psl, labels) ==
  Max({1} \union {l \in 1 .. Len(labels) : Tailing(labels, l) \in psl.exact}
          \union {l \in 2 .. Len(labels) : Tailing(labels, l - 1) \in psl.wildcards})

suffix_length(psl, labels) ==
  IF exception_length(psl, labels) > 0 THEN exception_length(psl, labels) - 1
                                       ELSE match_length(psl, labels)

WithOneMore(psl, labels) ==
  LET length == suffix_length(psl, labels)
  IN  IF Len(labels) <= length THEN None ELSE Tailing(labels, length + 1)

(* _domain_labels returns None for what is not a DNS name.                 *)
Refused(name) == name = <<>> \/ Contains(name, Strange \union Overlong)

org_base(psl, name) == IF Refused(name) THEN None ELSE WithOneMore(psl, name)

(* Its encoder refuses an overlong label only.                             *)
ReferenceLookup(psl, name) ==
  IF name = <<>> \/ Contains(name, Overlong) THEN None ELSE WithOneMore(psl, name)

last_two_labels(name) == IF Len(name) > 1 THEN Tailing(name, 2) ELSE None
-----------------------------------------------------------------------------
(* publicsuffix.org: a rule matches a name label by label from the right,  *)
(* a "*" any label; an exception prevails and loses its leftmost label,    *)
(* else the longest match; without a match the rule is "*".                *)
Matches(rule, name) ==
  LET wild == IF rule.kind = "wildcard" THEN 1 ELSE 0
      n == Len(rule.labels)
  IN  /\ n + wild <= Len(name)
      /\ \A i \in 1 .. n : rule.labels[n + 1 - i] = name[Len(name) + 1 - i]

LengthOf(rule) ==
  CASE rule.kind = "wildcard" -> Len(rule.labels) + 1
    [] rule.kind = "exception" -> Len(rule.labels) - 1
    [] OTHER -> Len(rule.labels)

Registrable(rules, name) ==
  LET matching == {r \in rules : Matches(r, name)}
      exceptions == {r \in matching : r.kind = "exception"}
      prevailing == IF exceptions # {} THEN exceptions ELSE matching
      suffix == IF prevailing = {} THEN 1 ELSE Max({LengthOf(r) : r \in prevailing})
  IN  IF name = <<>> \/ Contains(name, Strange \union Overlong) \/ Len(name) <= suffix
      THEN None ELSE SubSeq(name, Len(name) - suffix, Len(name))
=============================================================================
