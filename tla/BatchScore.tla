----------------------------- MODULE BatchScore -----------------------------
(***************************************************************************)
(* batch_score.py: one row of the batch.  Three existence probes decide    *)
(* whether the domain is scored at all; score() fills nine buckets from    *)
(* lookups that may be lost; the row prints a cell per bucket, a count of  *)
(* N cells per lane and the reason of the first critical loss.  verify.py  *)
(* derives the buckets a second time, independently.                       *)
(***************************************************************************)
EXTENDS Integers, Sequences, FiniteSets

CONSTANTS
  Selectors,       (* DKIM selectors the scorer may probe                  *)
  Common,          (* those it probes for every domain; the others belong  *)
                   (* to a provider                                        *)
  Worlds,          (* what a domain that exists may publish                *)
  MaxLost          (* bound of the model: lookups lost in one row          *)

BUCKET_LANES ==
  [SPF |-> "outbound", DKIM |-> "outbound", DMARC |-> "outbound",
   DMARC_enforced |-> "outbound", DMARC_rua |-> "outbound",
   MTA_STS |-> "inbound", TLS_RPT |-> "inbound", DANE |-> "inbound",
   BIMI |-> "brand"]
OUT_ORDER == DOMAIN BUCKET_LANES
Lanes == {"outbound", "inbound", "brand"}

(* The lookups behind the buckets; "include" stands for those of the names *)
(* the SPF record leans on, "ancestor" for those of the DMARC walk above   *)
(* the name, "existence" for the one that picks a PSD's sp or np.          *)
Critical == <<"apex", "dmarc", "mx">>
Named ==
  {"apex", "include", "dmarc", "ancestor", "existence", "mx", "sts", "rpt", "tlsa",
   "bimi"}
Lookups == Named \union Selectors

(* The record the walk above the name ends with, as far as the scorer      *)
(* credits it: a PSD's, with the policies of its two tags.                 *)
Strengths == {"monitor", "enforced"}
Unpublished == [psd |-> FALSE, sp |-> "monitor", np |-> "monitor", rua |-> FALSE]
Ancestors ==
  {Unpublished} \union [psd : {TRUE}, sp : Strengths, np : Strengths, rua : BOOLEAN]

(* apex: the SPF record has an `all` of its own, or that of its redirect;  *)
(*   "none" is every record that passes nobody.                            *)
(* all: -all, -ALL ("shouted") or +ALL -all ("drowned").                   *)
(* cost: over the ten lookups or the two voids by the names it includes;   *)
(*   "semi" is over the ten behind a redirect that ends in a semicolon.    *)
(* dmarc: how the record spells its policy, p=reject, P=reject ("shouted") *)
(*   or P=none; sp=reject ("shadowed").                                    *)
(* hint: where the provider's fingerprint stands, if anywhere.             *)
Contents ==
  [apex : {"none", "own", "redirected"}, all : {"low", "shouted", "drowned"},
   cost : {"within", "heavy", "voids", "semi"},
   dmarc : {"none", "monitor", "enforced", "shouted", "shadowed"}, rua : BOOLEAN,
   above : Ancestors, existence : {"exists", "absent"},
   mx : {"none", "null", "real", "both"}, hint : {"nowhere", "mx", "apex"},
   sts : {"none", "there"}, rpt : {"none", "there"}, tlsa : {"none", "there"},
   bimi : {"none", "there"}, keys : [Selectors -> {"none", "good", "weak", "invalid"}]]

(* A name without rows at the existence probes may publish records below.  *)
Consistent(w) ==
  /\ w.hint = "mx" => w.mx \in {"real", "both"}
  /\ w.rua => w.dmarc # "none"

ASSUME ScoreAssumption ==
  /\ Selectors \intersect Named = {} /\ Common \subseteq Selectors
  /\ Worlds \subseteq Contents
  /\ \A w \in Worlds : Consistent(w) /\ w.existence = "exists"
  /\ MaxLost \in Nat

(* What a domain that does not exist has, under the ancestor `above`.      *)
Nowhere(above) ==
  [apex |-> "none", all |-> "low", cost |-> "within", dmarc |-> "none", rua |-> FALSE,
   above |-> above, existence |-> "absent", mx |-> "none", hint |-> "nowhere",
   sts |-> "none", rpt |-> "none", tlsa |-> "none", bimi |-> "none",
   keys |-> [s \in Selectors |-> "none"]]

(* What the SPF record has from the names it leans on.                     *)
Targets(w) ==
  {t \in {"terminator", "cost"} :
     (t = "terminator" /\ w.apex = "redirected") \/ (t = "cost" /\ w.cost # "within")}

VARIABLES
  exists,         (* whether the domain does                               *)
  world, lost,    (* what it publishes, and the lookups that fail; chosen  *)
                  (* when scoring starts                                   *)
  targets,        (* what of Targets is seen, and the record the walk      *)
  walked,         (* above ends with: world's, unless one of theirs is lost*)
  phase,
  probes,         (* how the NS, SOA and A probes ended so far             *)
  r,              (* the buckets                                           *)
  gaps, reason    (* the published lane counts and Unconfirmed column      *)

scored == <<world, lost, targets, walked>>
vars == <<exists, scored, phase, probes, r, gaps, reason>>

NoBuckets == [b \in OUT_ORDER |-> "unscored"]
NoGaps == [l \in Lanes |-> 0]
NotApplicable == -1      (* a lane's dash; NR is a row without buckets     *)

Init ==
  /\ exists \in BOOLEAN
  /\ world = Nowhere(Unpublished) /\ lost = {}
  /\ targets = {} /\ walked = Unpublished
  /\ phase = "probe" /\ probes = <<>>
  /\ r = NoBuckets /\ gaps = NoGaps /\ reason = "none"

ProbeEndings == IF exists THEN {"rows", "empty", "failed"} ELSE {"nxdomain", "failed"}

(* Mutant of Resolves: a domain without a row at any probe does not resolve.*)
ResolvesByRows == "rows" \in {probes[i] : i \in DOMAIN probes}

(* resolves: NR needs NXDOMAIN three times.                                *)
Resolves == {probes[i] : i \in DOMAIN probes} # {"nxdomain"}

Probe ==
  /\ phase = "probe" /\ Len(probes) < 3
  /\ "rows" \notin {probes[i] : i \in DOMAIN probes}
  /\ \E how \in ProbeEndings : probes' = Append(probes, how)
  /\ UNCHANGED <<exists, scored, phase, r, gaps, reason>>

(* The existence lookup asks again what the third probe asked, if that one *)
(* was made: the answer is the memoized one.                               *)
Lost(ending) ==
  {S \in SUBSET Lookups :
     /\ Cardinality(S) <= MaxLost
     /\ ending # "unasked" => ("existence" \in S <=> ending = "failed")}

Scored ==
  /\ Resolves
  /\ phase' = "score"
  /\ world' \in IF exists THEN Worlds ELSE {Nowhere(above) : above \in Ancestors}
  /\ lost' \in Lost(IF Len(probes) = 3 THEN probes[3] ELSE "unasked")
  /\ targets' \in IF "include" \in lost' THEN SUBSET Targets(world') ELSE {Targets(world')}
  /\ walked' \in IF "ancestor" \in lost' THEN Ancestors ELSE {world'.above}

NotResolved == ~Resolves /\ phase' = "NR" /\ UNCHANGED scored

Decide ==
  /\ phase = "probe"
  /\ Len(probes) = 3 \/ "rows" \in {probes[i] : i \in DOMAIN probes}
  /\ Scored \/ NotResolved
  /\ probes' = <<>>
  /\ UNCHANGED <<exists, r, gaps, reason>>
-----------------------------------------------------------------------------
(* A lost lookup reads as an empty answer; only mta_sts_txt_lookup and     *)
(* dmarc_domain_exists ask whether theirs failed.                          *)
Seen(S, some, record) ==
  LET Kept(k, blank) == IF k \in S THEN blank ELSE world[k]
  IN  [all |-> IF \/ Kept("apex", "none") = "none"
                  \/ world.apex = "redirected" /\ "terminator" \notin some
               THEN "none" ELSE world.all,
       cost |-> IF "apex" \notin S /\ "cost" \in some THEN world.cost ELSE "within",
       dmarc |-> Kept("dmarc", "none"), rua |-> world.rua, above |-> record,
       existence |-> Kept("existence", "unknown"), mx |-> Kept("mx", "none"),
       hinted |-> world.hint # "nowhere" /\ world.hint \notin S,
       sts |-> Kept("sts", "lost"), rpt |-> Kept("rpt", "none"),
       tlsa |-> Kept("tlsa", "none"), bimi |-> Kept("bimi", "none"),
       keys |-> [s \in Selectors |-> IF s \in S THEN "none" ELSE world.keys[s]]]

View == Seen(lost, targets, walked)
Published == Seen({}, Targets(world), world.above)

Is(condition) == IF condition THEN "yes" ELSE "no"

SpfPasses(v) == v.all \in {"low", "shouted"} /\ v.cost = "within"

(* discover_dmarc reads the ancestors only where the name has no record.   *)
Psd(v) == v.dmarc = "none" /\ v.above.psd

(* Without an answer about its existence a name gets the weaker policy.    *)
Effective(v) ==
  CASE v.existence = "exists" -> v.above.sp
    [] v.existence = "absent" -> v.above.np
    [] v.existence = "unknown" ->
         IF v.above.sp = "enforced" THEN v.above.np ELSE v.above.sp

(* A name's own record goes through p=\s*(\w+), which minds the case.      *)
Enforced(v) ==
  IF Psd(v) THEN Effective(v) = "enforced" ELSE v.dmarc \in {"enforced", "shadowed"}

Reported(v) == IF Psd(v) THEN v.above.rua ELSE v.dmarc # "none" /\ v.rua

null_mx(v) == v.mx = "null"
Real(v) == v.mx \in {"real", "both"}

(* The provider's selectors are probed where its fingerprint was read.     *)
dkim_candidates(v) == IF v.hinted THEN Selectors ELSE Common

dkim_lookup(v) ==
  LET found == {v.keys[s] : s \in dkim_candidates(v)}
  IN  IF "good" \in found THEN "good"
      ELSE IF "weak" \in found THEN "weak"
      ELSE IF "invalid" \in found THEN "invalid" ELSE "unknown"

(* Mutant: a record that cannot be read is a missing one.                  *)
StsGuessed(v) == Is(v.sts = "there")
mta_sts_txt_lookup(v) == IF v.sts = "lost" THEN "na" ELSE Is(v.sts = "there")

(* Mutant: any null row makes the MX answer a null one.                    *)
ScoreAnyNull(v) ==
  [SPF |-> Is(SpfPasses(v)), DKIM |-> dkim_lookup(v),
   DMARC |-> Is(v.dmarc # "none" \/ Psd(v)),
   DMARC_enforced |-> Is(Enforced(v)),
   DMARC_rua |-> Is(Reported(v)),
   MTA_STS |-> IF v.mx \in {"null", "both"} THEN "na" ELSE mta_sts_txt_lookup(v),
   TLS_RPT |-> IF v.mx \in {"null", "both"} THEN "na" ELSE Is(v.rpt = "there"),
   DANE |-> IF v.mx \in {"null", "both"} THEN "na"
            ELSE Is(Real(v) /\ v.tlsa = "there"),
   BIMI |-> Is(v.bimi = "there")]

score(v) ==
  [SPF |-> Is(SpfPasses(v)), DKIM |-> dkim_lookup(v),
   DMARC |-> Is(v.dmarc # "none" \/ Psd(v)),
   DMARC_enforced |-> Is(Enforced(v)),
   DMARC_rua |-> Is(Reported(v)),
   MTA_STS |-> IF null_mx(v) THEN "na" ELSE mta_sts_txt_lookup(v),
   TLS_RPT |-> IF null_mx(v) THEN "na" ELSE Is(v.rpt = "there"),
   DANE |-> IF null_mx(v) THEN "na" ELSE Is(Real(v) /\ v.tlsa = "there"),
   BIMI |-> Is(v.bimi = "there")]

Score ==
  /\ phase = "score"
  /\ r' = score(View)
  /\ phase' = "print"
  /\ UNCHANGED <<exists, scored, probes, gaps, reason>>
-----------------------------------------------------------------------------
disp(value) ==
  CASE value \in {"yes", "good"} -> "Y"
    [] value \in {"no", "weak", "invalid"} -> "N"
    [] OTHER -> "dash"

Lane(l) == {b \in OUT_ORDER : BUCKET_LANES[b] = l}
N_cells(buckets, l) == {b \in Lane(l) : disp(buckets[b]) = "N"}

lane_gaps(buckets) ==
  [l \in Lanes |-> IF \A b \in Lane(l) : disp(buckets[b]) = "dash" THEN NotApplicable
                   ELSE Cardinality(N_cells(buckets, l))]

(* Mutant: only a failed lookup at the apex is a reason.                   *)
ReasonApexOnly == IF "apex" \in lost THEN "apex" ELSE "none"

inconclusive_state ==
  LET failed == {i \in DOMAIN Critical : Critical[i] \in lost}
  IN  IF failed = {} THEN "none"
      ELSE Critical[CHOOSE i \in failed : \A j \in failed : i <= j]

PrintRow ==
  /\ phase = "print"
  /\ gaps' = lane_gaps(r)
  /\ reason' = inconclusive_state
  /\ phase' = "done"
  /\ UNCHANGED <<exists, scored, probes, r>>

Finished == phase \in {"NR", "done"} /\ UNCHANGED vars

Next == Probe \/ Decide \/ Score \/ PrintRow \/ Finished

Spec == Init /\ [][Next]_vars
-----------------------------------------------------------------------------
(* It takes the selectors from the scanner's own dkim_candidates.          *)
dkim_state_indep(v) ==
  LET Found(key) == \E s \in dkim_candidates(v) : v.keys[s] = key
  IN  CASE Found("good") -> "good"
        [] ~Found("good") /\ Found("weak") -> "weak"
        [] ~Found("good") /\ ~Found("weak") /\ Found("invalid") -> "invalid"
        [] OTHER -> "unknown"

(* verify.py, over the same answers: `all` and its qualifier in lower case *)
(* only; the count, without the record behind a redirect that ends in a    *)
(* semicolon, and no voids; the domain's own DMARC record only, the letter *)
(* p in either case; and a lost answer is an empty one.                    *)
independent(v) ==
  [SPF |-> Is(v.all \in {"low", "drowned"} /\ v.cost # "heavy"),
   DKIM |-> dkim_state_indep(v),
   DMARC |-> Is(v.dmarc # "none"),
   DMARC_enforced |-> Is(v.dmarc \in {"enforced", "shouted"}),
   DMARC_rua |-> Is(v.dmarc # "none" /\ v.rua),
   MTA_STS |-> IF v.mx = "null" THEN "na" ELSE Is(v.sts = "there"),
   TLS_RPT |-> IF v.mx = "null" THEN "na" ELSE Is(v.rpt = "there"),
   DANE |-> IF v.mx = "null" THEN "na"
            ELSE Is(v.mx \in {"real", "both"} /\ v.tlsa = "there"),
   BIMI |-> Is(v.bimi = "there")]

(* batch_score.py: "Authoritative NXDOMAINs are reported as NR": a lost    *)
(* probe never takes a domain that exists out of the scoring path.         *)
NrMeansNonexistent == phase = "NR" => ~exists

(* The lookups on which a bucket's N rests: a DKIM key's N on every other  *)
(* selector, one of which may hold a good key, and on the records that     *)
(* name the provider; MTA-STS has a cell of its own for a lost record.     *)
Behind(b) ==
  CASE b = "SPF" -> {"apex", "include"}
    [] b = "DKIM" -> {"apex", "mx"} \union Selectors
    [] b \in {"DMARC", "DMARC_rua"} -> {"dmarc", "ancestor"}
    [] b = "DMARC_enforced" -> {"dmarc", "ancestor", "existence"}
    [] b = "MTA_STS" -> {"mx"}
    [] b = "TLS_RPT" -> {"mx", "rpt"}
    [] b = "DANE" -> {"mx", "tlsa"}
    [] b = "BIMI" -> {"bimi"}

(* The cells of a row in which nothing was lost.                           *)
Truth(b) == disp(score(Published)[b])

(* "Count only confirmed N cells": a gap is what the scorer finds without  *)
(* losses when the lookups behind its bucket were answered, whatever else  *)
(* was lost.                                                               *)
ConfirmedGap ==
  phase = "done" =>
    \A b \in OUT_ORDER :
      disp(r[b]) = "N" /\ Behind(b) \intersect lost = {} => Truth(b) = "N"

(* "Resolver failures [...] are disclosed in the Unconfirmed column": a    *)
(* gap that is none comes with a reason, when critical lookups alone are   *)
(* to blame for it.  A reason is always that of a lookup that failed.      *)
FalseGapDisclosed ==
  phase = "done" =>
    /\ \A b \in OUT_ORDER :
         /\ disp(r[b]) = "N" /\ Truth(b) # "N"
         /\ Behind(b) \intersect lost \subseteq {"apex", "dmarc", "mx"}
         => reason # "none"
    /\ reason # "none" => reason \in lost

(* "A true null-MX domain prints an inbound dash": only such a domain, and *)
(* one whose MX answer was lost or mixed is counted instead.               *)
DashIsNullMx ==
  phase = "done" =>
    /\ gaps["inbound"] = NotApplicable <=> world.mx = "null" /\ "mx" \notin lost
    /\ gaps["outbound"] # NotApplicable /\ gaps["brand"] # NotApplicable

(* verify.py flags a DIFF between scanner and resolvers that see the same  *)
(* answers only for a PSD's policy, a lost MTA-STS record, and records its *)
(* expressions read otherwise: capitals in `all` or before `=`, a p= found *)
(* in sp=, voids, and a redirect with a semicolon.                         *)
VerifierAgrees ==
  phase = "done" =>
    \A b \in OUT_ORDER :
      r[b] # independent(View)[b] =>
        \/ b \in {"DMARC", "DMARC_enforced", "DMARC_rua"} /\ Psd(View)
        \/ b = "DMARC_enforced" /\ View.dmarc \in {"shouted", "shadowed"}
        \/ b = "SPF" /\ (View.all \in {"shouted", "drowned"} \/ View.cost \in {"voids", "semi"})
        \/ b = "MTA_STS" /\ "sts" \in lost
=============================================================================
