------------------------------ MODULE RuleLedger ------------------------------
(***************************************************************************)
(* One check of the audit and what is published about it: the check reads  *)
(* its inputs in order, an input may be lost, the findings follow from     *)
(* what was seen, the evidence ledger (_rule_evaluation) says which rules  *)
(* were evaluated, and absence findings are marked "unconfirmed".  SPF,    *)
(* DKIM and DMARC, whose inputs are chosen by the answers, have modules of *)
(* their own; the rules here are the other 28 of the ledger.               *)
(***************************************************************************)
EXTENDS Integers, Sequences, Functions

CONSTANTS
  Hosts,      (* the hosts of MX rows of one and of two providers, as labels *)
  PolicyFile  (* the MTA-STS policies that may be served, by a name for each *)

(* "none" is the absence of a document, "unread" one not fetched yet.      *)
ASSUME FilesAssumption == {"none", "unread"} \cap DOMAIN PolicyFile = {}

(* The evaluation scopes and the inputs each reads, in order.  mx_a and    *)
(* mx_aaaa are the addresses of the primary MX, policy_* of the MTA-STS    *)
(* policy host, rdap_* of rdap.org, a and aaaa of the domain.              *)
InputsOf ==
  [tls_rpt    |-> <<"mx", "smtp_tls">>,
   bimi       |-> <<"bimi">>,
   mta_sts    |-> <<"mx", "mta_sts", "policy_a", "policy_aaaa", "policy_doc">>,
   transport  |-> <<"mx", "mx_a", "mx_aaaa", "tlsa">>,
   mx         |-> <<"mx">>,
   rdns       |-> <<"mx", "mx_a", "ptr", "ptr_a">>,
   dnssec     |-> <<"dnskey", "probe">>,
   caa        |-> <<"caa">>,
   reputation |-> <<"rdap_a", "rdap_aaaa", "rdap_doc">>,
   aibots     |-> <<"a", "aaaa", "robots_doc">>]

Scopes == DOMAIN InputsOf
Mine(s) == Range(InputsOf[s])
Inputs == UNION {Mine(s) : s \in Scopes}
Addresses == {"mx_a", "mx_aaaa", "policy_a", "policy_aaaa", "rdap_a",
              "rdap_aaaa", "a", "aaaa"}
Documents == {"policy_doc", "rdap_doc", "robots_doc"}

MxHosts(mx) == IF mx \in {"real", "mixed"} THEN Hosts[mx] ELSE {}

(* What an input may hold, as far as the rules tell apart.  "none" is an   *)
(* authoritative absence: no record, a 404, a document of no interest.     *)
Contents(k) ==
  CASE k = "mx" -> {"none", "null", "real", "mixed"}
    [] k \in Addresses -> {"none", "public", "private"}
    [] k = "smtp_tls" -> {"none", "bare", "rua"}
    [] k = "bimi" -> {"none", "bare", "vmc"}
    [] k = "mta_sts" -> {"none", "sts"}
    [] k = "policy_doc" -> {"none"} \union DOMAIN PolicyFile
    [] k = "tlsa" -> {"none", "bad", "unauthenticated", "good"}
    [] k = "ptr" -> {"none", "name"}
    [] k = "ptr_a" -> {"none", "other", "same"}
    [] k = "dnskey" -> {"none", "signed"}
    [] k = "probe" -> {"none", "servfail"}
    [] k = "caa" -> {"none", "issue"}
    [] k = "rdap_doc" -> {"none", "new", "expiring"}
    [] k = "robots_doc" -> {"none", "blocks"}

(* How a read ends.  A name made from DNS data or longer than the domain   *)
(* may be refused by the name guard, which leaves no metadata; a server    *)
(* may answer 429 or 5xx ("busy").                                         *)
Derived == {"smtp_tls", "bimi", "mta_sts", "policy_a", "policy_aaaa", "tlsa",
            "mx_a", "mx_aaaa", "ptr_a"}

Outcomes(k) == {"answered", "failed"}
               \union (IF k \in Derived THEN {"refused"} ELSE {})
               \union (IF k \in Documents THEN {"busy"} ELSE {})

RuleOf ==
  [tls_rpt    |-> {"tls_rpt.missing", "tls_rpt.no_rua", "tls_rpt.present"},
   bimi       |-> {"bimi.missing", "bimi.no_vmc", "bimi.present"},
   mta_sts    |-> {"mta_sts.not_applicable", "mta_sts.unconfirmed",
                   "mta_sts.missing", "mta_sts.policy_unreachable",
                   "mta_sts.malformed", "mta_sts.present",
                   "mta_sts.mx_not_covered"},
   transport  |-> {"transport.no_mx", "transport.null_mx",
                   "transport.dane_missing", "transport.dane_misconfigured",
                   "transport.dane_unvalidated", "transport.dane_present"},
   mx         |-> {"mx.mixed_providers"},
   rdns       |-> {"transport.ptr_missing", "transport.ptr_not_fcrdns"},
   dnssec     |-> {"dnssec.enabled", "dnssec.missing",
                   "dnssec.validation_failing"},
   caa        |-> {"caa.missing"},
   reputation |-> {"reputation.new_domain", "reputation.expiring"},
   aibots     |-> {"ai_visibility.robots_blocks"}]

Rules == UNION {RuleOf[s] : s \in Scopes}

VARIABLES
  scope,         (* the check this behavior follows                        *)
  world,         (* what the inputs really hold                            *)
  outcome,       (* how a read of each input ends in this run              *)
  capable,       (* the backend has a DNSSEC probe                         *)
  seen,          (* what the check saw, "unread" before                    *)
  dns_failures,  (* inputs with a row in _dns_failures                     *)
  http_failures, (* documents with a row in _http_failures                 *)
  probe_failure,
  stage,
  reported,      (* the rules reported                                     *)
  observation,   (* the observations map's entry, of a check that has one  *)
  ledger, unconfirmed

inputs == <<scope, world, outcome, capable>>
trace == <<dns_failures, http_failures, probe_failure>>
published == <<reported, observation, ledger, unconfirmed>>
ledgerVars == <<inputs, seen, trace, stage, published>>

Worlds(s) ==
  {w \in [Mine(s) -> UNION {Contents(k) : k \in Mine(s)}] :
     \A k \in Mine(s) : w[k] \in Contents(k)}

(* Both address lookups of a host are refused, or neither.                 *)
SameHost(o, k, l) ==
  {k, l} \subseteq DOMAIN o => (o[k] = "refused") = (o[l] = "refused")

EndingsOf(s) ==
  {o \in [Mine(s) -> UNION {Outcomes(k) : k \in Mine(s)}] :
     /\ \A k \in Mine(s) : o[k] \in Outcomes(k)
     /\ SameHost(o, "mx_a", "mx_aaaa")
     /\ SameHost(o, "policy_a", "policy_aaaa")}

LedgerInit ==
  /\ scope \in Scopes
  /\ world \in Worlds(scope)
  /\ outcome \in EndingsOf(scope)
  /\ capable \in IF scope = "dnssec" THEN BOOLEAN ELSE {TRUE}
  /\ seen = [k \in Mine(scope) |-> "unread"]
  /\ dns_failures = {} /\ http_failures = {} /\ probe_failure = FALSE
  /\ stage = "reading"
  /\ reported = {} /\ observation = "not_applicable"
  /\ ledger = [r \in RuleOf[scope] |-> "conclusive"]
  /\ unconfirmed = {}
-----------------------------------------------------------------------------
(* host_public_ips_with_state: addresses of a host by family; one address  *)
(* that is not public refuses the host.                                    *)
Answers(v, host) ==
  {v[host[1]], v[host[2]]} \ {"none", "unread"}

Public(v, host) == Answers(v, host) = {"public"}

PolicyHost == <<"policy_a", "policy_aaaa">>
RdapHost == <<"rdap_a", "rdap_aaaa">>
Domain == <<"a", "aaaa">>

Real(mx) == mx \in {"real", "mixed"}

(* The code's conditions for reading an input, from what was seen before.  *)
Wanted(k) ==
  CASE k \in {"smtp_tls", "mta_sts"} -> seen["mx"] # "null"
    [] k \in Range(PolicyHost) -> seen["mta_sts"] = "sts"
    [] k = "policy_doc" -> Public(seen, PolicyHost)
    [] k \in {"mx_a", "mx_aaaa", "tlsa"} -> Real(seen["mx"])
    [] k = "ptr" -> seen["mx_a"] \notin {"none", "unread"}
    [] k = "ptr_a" -> seen["ptr"] = "name"
    [] k = "probe" -> outcome["dnskey"] = "failed"
    [] k = "rdap_doc" -> Public(seen, RdapHost)
    [] k = "robots_doc" -> Public(seen, Domain)
    [] OTHER -> TRUE

IsDue(i) ==
  /\ seen[InputsOf[scope][i]] = "unread"
  /\ Wanted(InputsOf[scope][i])

(* The next read of the check: the first that is due.                      *)
Reads(k) ==
  \E i \in DOMAIN InputsOf[scope] :
    /\ InputsOf[scope][i] = k
    /\ IsDue(i)
    /\ \A j \in 1..(i - 1) : ~IsDue(j)

(* A lost read looks like an empty answer.                                 *)
See(k) ==
  seen' = [seen EXCEPT ![k] = IF outcome[k] = "answered" THEN world[k] ELSE "none"]

(* dig(): an error or missing metadata is charged to the scope.            *)
Dig(k) ==
  /\ stage = "reading"
  /\ k \notin Documents \union {"probe"}
  /\ Reads(k)
  /\ See(k)
  /\ dns_failures' = IF outcome[k] = "answered" THEN dns_failures
                                                ELSE dns_failures \union {k}
  /\ UNCHANGED <<inputs, http_failures, probe_failure, stage, published>>

(* Mutant: a document that cannot be had is just not there.                *)
FetchQuietly(k) ==
  /\ stage = "reading"
  /\ k \in Documents
  /\ Reads(k)
  /\ See(k)
  /\ http_failures' = IF outcome[k] = "busy" THEN http_failures \union {k}
                                             ELSE http_failures
  /\ UNCHANGED <<inputs, dns_failures, probe_failure, stage, published>>

(* _http_get and _fetch_mta_sts_policy, once the host is known public.     *)
Fetch(k) ==
  /\ stage = "reading"
  /\ k \in Documents
  /\ Reads(k)
  /\ See(k)
  /\ http_failures' = IF outcome[k] = "answered" THEN http_failures
                                                 ELSE http_failures \union {k}
  /\ UNCHANGED <<inputs, dns_failures, probe_failure, stage, published>>

(* dnssec_probe: a missing capability and incomplete evidence are failures.*)
Probe ==
  /\ stage = "reading"
  /\ Reads("probe")
  /\ seen' = [seen EXCEPT !["probe"] =
                IF capable /\ outcome["probe"] = "answered" THEN world["probe"]
                                                            ELSE "none"]
  /\ probe_failure' = (~capable \/ outcome["probe"] # "answered")
  /\ UNCHANGED <<inputs, dns_failures, http_failures, stage, published>>
-----------------------------------------------------------------------------
(* A wildcard stands for exactly one leftmost label.                       *)
_mx_pattern_matches(pattern, host) ==
  \/ pattern = host
  \/ Head(pattern) = "*" /\ Tail(pattern) = Tail(host)

mta_sts_policy_problems(policy) ==
  \/ policy.version # "STSv1"
  \/ policy.mode \notin {"enforce", "testing", "none"}
  \/ policy.max_age <= 0 \/ policy.max_age > 31557600
  \/ policy.mode # "none" /\ policy.mx = {}

Covered(policy, mx) ==
  policy.mx # {} =>
    \A host \in MxHosts(mx) :
      \E pattern \in policy.mx : _mx_pattern_matches(pattern, host)

MtaStsPolicy(v) ==
  CASE ~Public(v, PolicyHost) -> {"mta_sts.policy_unreachable"}
    [] OTHER ->
       CASE v["policy_doc"] = "none" -> {"mta_sts.policy_unreachable"}
         [] v["policy_doc"] # "none" /\ mta_sts_policy_problems(PolicyFile[v["policy_doc"]]) ->
              {"mta_sts.malformed"}
         [] OTHER ->
              {"mta_sts.present"} \union
              (IF Covered(PolicyFile[v["policy_doc"]], v["mx"]) THEN {}
                                                       ELSE {"mta_sts.mx_not_covered"})

(* The rules each check reports, from the inputs v; "lost" holds those     *)
(* whose metadata carries the error bit.                                   *)
MtaSts(v, lost) ==
  CASE v["mx"] = "null" -> {"mta_sts.not_applicable"}
    [] v["mx"] # "null" /\ "mta_sts" \in lost -> {"mta_sts.unconfirmed"}
    [] v["mx"] # "null" /\ "mta_sts" \notin lost /\ v["mta_sts"] = "none" ->
         {"mta_sts.missing"}
    [] OTHER -> MtaStsPolicy(v)

TlsRpt(v) ==
  CASE v["mx"] = "null" -> {}
    [] v["mx"] # "null" /\ v["smtp_tls"] = "bare" -> {"tls_rpt.no_rua"}
    [] v["mx"] # "null" /\ v["smtp_tls"] = "rua" -> {"tls_rpt.present"}
    [] OTHER -> {"tls_rpt.missing"}

Bimi(v) ==
  CASE v["bimi"] = "bare" -> {"bimi.no_vmc"}
    [] v["bimi"] = "vmc" -> {"bimi.present"}
    [] OTHER -> {"bimi.missing"}

Transport(v) ==
  CASE v["mx"] = "none" -> {"transport.no_mx"}
    [] v["mx"] = "null" -> {"transport.null_mx"}
    [] OTHER ->
       CASE v["tlsa"] = "none" -> {"transport.dane_missing"}
         [] v["tlsa"] = "bad" -> {"transport.dane_misconfigured"}
         [] v["tlsa"] = "unauthenticated" -> {"transport.dane_unvalidated"}
         [] OTHER -> {"transport.dane_present"}

MxHygiene(v) == IF v["mx"] = "mixed" THEN {"mx.mixed_providers"} ELSE {}

ReverseDns(v) ==
  CASE ~Real(v["mx"]) \/ v["mx_a"] = "none" -> {}
    [] OTHER ->
       CASE v["ptr"] = "none" -> {"transport.ptr_missing"}
         [] v["ptr"] # "none" /\ v["ptr_a"] # "same" -> {"transport.ptr_not_fcrdns"}
         [] OTHER -> {}

Dnssec(v, lost) ==
  CASE v["dnskey"] = "signed" -> {"dnssec.enabled"}
    [] v["dnskey"] # "signed" /\ "dnskey" \in lost /\ v["probe"] = "servfail" ->
         {"dnssec.validation_failing"}
    [] OTHER -> {"dnssec.missing"}

Caa(v) == IF v["caa"] = "none" THEN {"caa.missing"} ELSE {}

DomainAge(v) ==
  CASE ~Public(v, RdapHost) -> {}
    [] OTHER ->
       CASE v["rdap_doc"] = "new" -> {"reputation.new_domain"}
         [] v["rdap_doc"] = "expiring" -> {"reputation.expiring"}
         [] OTHER -> {}

AiBots(v) ==
  IF Public(v, Domain) /\ v["robots_doc"] = "blocks"
  THEN {"ai_visibility.robots_blocks"} ELSE {}

FindingsOf(s, v, lost) ==
  CASE s = "mta_sts" -> MtaSts(v, lost)
    [] s = "tls_rpt" -> TlsRpt(v)
    [] s = "bimi" -> Bimi(v)
    [] s = "transport" -> Transport(v)
    [] s = "mx" -> MxHygiene(v)
    [] s = "rdns" -> ReverseDns(v)
    [] s = "dnssec" -> Dnssec(v, lost)
    [] s = "caa" -> Caa(v)
    [] s = "reputation" -> DomainAge(v)
    [] OTHER -> AiBots(v)

Lost == {k \in Mine(scope) : outcome[k] = "failed"}

DocumentOf ==
  [mta_sts |-> "policy_doc", reputation |-> "rdap_doc", aibots |-> "robots_doc"]

(* The observations map of the checks that fetch a document.               *)
Observation ==
  CASE scope \notin DOMAIN DocumentOf -> "not_applicable"
    [] scope = "mta_sts" /\ (seen["mx"] = "null" \/
          (seen["mta_sts"] = "none" /\ outcome["mta_sts"] # "failed")) ->
         "not_applicable"
    [] scope = "aibots" /\ Answers(seen, Domain) = {} /\ {"a", "aaaa"} \cap Lost = {} ->
         "not_applicable"
    [] OTHER -> IF /\ seen[DocumentOf[scope]] # "unread"
                   /\ outcome[DocumentOf[scope]] # "failed"
                THEN "checked" ELSE "unavailable"

(* The check returns its findings.                                         *)
Report ==
  /\ stage = "reading"
  /\ \A i \in DOMAIN InputsOf[scope] : ~IsDue(i)
  /\ reported' = FindingsOf(scope, seen, Lost)
  /\ observation' = Observation
  /\ stage' = "reported"
  /\ UNCHANGED <<inputs, seen, trace, ledger, unconfirmed>>
-----------------------------------------------------------------------------
(* The rows of its scopes that _rule_evaluation counts against a rule.  A  *)
(* row of ptr_a carries the scope rdns_forward.                            *)
Source(r, k) ==
  CASE r = "tls_rpt.present" -> k = "smtp_tls"
    [] r = "mta_sts.not_applicable" -> k = "mx"
    [] r \in {"mta_sts.missing", "mta_sts.unconfirmed"} -> k \in {"mx", "mta_sts"}
    [] r \in {"transport.no_mx", "transport.null_mx"} -> k = "mx"
    [] r \in RuleOf["transport"] \ {"transport.no_mx", "transport.null_mx"} ->
         k \in {"mx", "tlsa"}
    [] r \in RuleOf["reputation"] -> FALSE
    [] r = "transport.ptr_missing" -> k # "ptr_a"
    [] OTHER -> TRUE

UsesHttp ==
  RuleOf["reputation"] \union RuleOf["aibots"] \union
    {"mta_sts.policy_unreachable", "mta_sts.malformed", "mta_sts.present",
     "mta_sts.mx_not_covered"}

(* Mutant: a document that was not fetched is a failed one.                *)
EvaluationByObservation(r) ==
  IF \/ \E k \in dns_failures : Source(r, k)
     \/ r \in UsesHttp /\ observation = "unavailable"
     \/ r \in RuleOf["dnssec"] /\ (probe_failure \/ ~capable)
  THEN "failed" ELSE "conclusive"

_rule_evaluation(r) ==
  IF \/ \E k \in dns_failures : Source(r, k)
     \/ r \in UsesHttp /\ http_failures # {}
     \/ r \in RuleOf["dnssec"] /\ (probe_failure \/ ~capable)
  THEN "failed" ELSE "conclusive"

(* The lookups whose failure marks an absence finding "unconfirmed".       *)
Dependencies ==
  [r \in Rules |->
     CASE r \in {"transport.no_mx", "mta_sts.missing"} -> {"mx"}
       [] r = "tls_rpt.missing" -> {"mx", "smtp_tls"}
       [] r = "bimi.missing" -> {"bimi"}
       [] r = "dnssec.missing" -> {"dnskey"}
       [] r = "caa.missing" -> {"caa"}
       [] OTHER -> {}]

(* Mutant: applicability is not looked at when marking.                    *)
MarkOwnOnly ==
  {r \in reported : (Dependencies[r] \ {"mx"}) \cap Lost # {}}

mark_unconfirmed_findings == {r \in reported : Dependencies[r] \cap Lost # {}}

PublishLedger ==
  /\ stage = "reported"
  /\ ledger' = [r \in RuleOf[scope] |-> _rule_evaluation(r)]
  /\ unconfirmed' = mark_unconfirmed_findings
  /\ stage' = "published"
  /\ UNCHANGED <<inputs, seen, trace, reported, observation>>

LedgerFinished == stage = "published" /\ UNCHANGED ledgerVars

LedgerNext ==
  \/ \E k \in Inputs : Dig(k) \/ Fetch(k)
  \/ Probe
  \/ Report
  \/ PublishLedger
  \/ LedgerFinished

LedgerSpec == LedgerInit /\ [][LedgerNext]_ledgerVars
-----------------------------------------------------------------------------
(* What the check would report if no read were lost.                       *)
Truth == FindingsOf(scope, world, {})

(* Two exceptions: rows of the reputation scope are never counted, so a    *)
(* host that could not be resolved leaves its rules conclusive; and the    *)
(* MX, which tls_rpt.present depends on through the null MX, is not        *)
(* counted against it.                                                     *)
Evaluated == Rules \ (RuleOf["reputation"] \union {"tls_rpt.present"})

(* README.md: an entry is conclusive or names the failure that prevented   *)
(* the rule from being evaluated.  So a conclusive rule is reported        *)
(* exactly when the published records and documents make it true, whatever *)
(* else was lost on the way.                                               *)
ConclusiveIsTrue ==
  stage = "published" =>
    \A r \in RuleOf[scope] \cap Evaluated :
      ledger[r] = "conclusive" => (r \in reported <=> r \in Truth)

(* The two disclosures agree about an absence: a marked finding is never   *)
(* conclusive, and one that is not conclusive is marked, unless a name was *)
(* refused or no probe exists, which leave no error bit to mark by.        *)
DisclosuresAgree ==
  stage = "published" =>
    \A r \in reported :
      /\ r \in unconfirmed => ledger[r] = "failed"
      /\ /\ Dependencies[r] # {} /\ ledger[r] = "failed"
         /\ capable /\ \A k \in Mine(scope) : outcome[k] # "refused"
         => r \in unconfirmed

(* SPEC.md: absence, 404 and refusals of the address guard are usable      *)
(* evidence: a run in which every read was answered is conclusive.         *)
EvidenceIsConclusive ==
  stage = "published" /\ capable /\ (\A k \in Mine(scope) : outcome[k] = "answered")
    => \A r \in RuleOf[scope] : ledger[r] = "conclusive"
=============================================================================
