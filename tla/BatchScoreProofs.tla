-------------------------- MODULE BatchScoreProofs --------------------------
(***************************************************************************)
(* Theorems of BatchScore, for any selectors, any worlds and any number of *)
(* lookups lost: TLC's instance has two selectors and loses two lookups.   *)
(***************************************************************************)
EXTENDS BatchScore, FiniteSetTheorems, SequenceTheorems, TLAPS

Endings == {"rows", "empty", "nxdomain", "failed"}

(* No probe of a domain that exists ends in NXDOMAIN; a part of the answer *)
(* is missing only where one of its lookups was lost; and the buckets, the *)
(* counts and the reason of a row are those of the one world and the one   *)
(* set of losses scoring started with.                                     *)
BatchInv ==
  /\ phase \in {"probe", "NR", "score", "print", "done"}
  /\ probes \in Seq(Endings)
  /\ exists => \A i \in DOMAIN probes : probes[i] # "nxdomain"
  /\ phase = "NR" => ~exists
  /\ lost \subseteq Lookups
  /\ world \in Contents
  /\ "include" \notin lost => targets = Targets(world)
  /\ "ancestor" \notin lost => walked = world.above
  /\ phase \in {"print", "done"} => r = score(View)
  /\ phase = "done" => gaps = lane_gaps(r) /\ reason = inconclusive_state

LEMMA NowhereIsOne ==
  ASSUME NEW above \in Ancestors
  PROVE  /\ Nowhere(above) \in Contents /\ Nowhere(above).above = above
         /\ Targets(Nowhere(above)) = {}
BY DEF Nowhere, Contents, Targets

LEMMA BatchStart == Init => BatchInv
<1>. SUFFICES ASSUME Init
              PROVE  BatchInv
  OBVIOUS
<1>1. probes \in Seq(Endings) /\ DOMAIN probes = {}
  BY EmptySeq DEF Init
<1>2. /\ world \in Contents /\ world.above = Unpublished /\ Targets(world) = {}
  BY NowhereIsOne DEF Init, Ancestors
<1>. QED
  BY <1>1, <1>2 DEF Init, BatchInv

LEMMA BatchStep == BatchInv /\ [Next]_vars => BatchInv'
<1>. SUFFICES ASSUME BatchInv, [Next]_vars
              PROVE  BatchInv'
  OBVIOUS
<1>1. CASE Probe
  <2>1. PICK how \in ProbeEndings : probes' = Append(probes, how)
    BY <1>1 DEF Probe
  <2>2. how \in Endings /\ (exists => how # "nxdomain")
    BY <2>1 DEF ProbeEndings, Endings
  <2>3. /\ probes' \in Seq(Endings) /\ DOMAIN probes' = 1 .. Len(probes) + 1
        /\ \A i \in 1 .. Len(probes) + 1 :
             probes'[i] = IF i <= Len(probes) THEN probes[i] ELSE how
    BY <2>1, <2>2, AppendProperties DEF BatchInv
  <2>4. DOMAIN probes = 1 .. Len(probes) /\ Len(probes) \in Nat
    BY LenProperties DEF BatchInv
  <2>5. exists' => \A i \in DOMAIN probes' : probes'[i] # "nxdomain"
    BY <1>1, <2>2, <2>3, <2>4 DEF Probe, BatchInv
  <2>6. Targets(world)' = Targets(world) /\ scored' = scored
    BY <1>1 DEF Probe, scored, Targets
  <2>. QED
    BY <1>1, <2>3, <2>5, <2>6 DEF Probe, scored, BatchInv
<1>2. CASE Decide
  <2>1. probes' = <<>> /\ exists' = exists
    BY <1>2 DEF Decide
  <2>2. probes' \in Seq(Endings) /\ DOMAIN probes' = {}
    BY <2>1, EmptySeq
  <2>3. CASE Scored
    <3>1. phase' = "score" /\ lost' \subseteq Lookups
      BY <2>3 DEF Scored, Lost
    <3>2. world' \in Contents
      <4>1. CASE exists
        BY <2>3, <4>1, ScoreAssumption DEF Scored
      <4>2. CASE ~exists
        BY <2>3, <4>2, NowhereIsOne DEF Scored
      <4>. QED
        BY <4>1, <4>2
    <3>3. /\ "include" \notin lost' => targets' = Targets(world')
          /\ "ancestor" \notin lost' => walked' = world'.above
      BY <2>3 DEF Scored
    <3>. QED
      BY <2>1, <2>2, <3>1, <3>2, <3>3 DEF BatchInv, Targets
  <2>4. CASE NotResolved
    <3>1. phase' = "NR" /\ ~exists
      BY <2>4 DEF NotResolved, Resolves, BatchInv
    <3>2. /\ world' = world /\ lost' = lost /\ targets' = targets /\ walked' = walked
          /\ Targets(world)' = Targets(world)
      BY <2>4 DEF NotResolved, scored, Targets
    <3>. QED
      BY <2>1, <2>2, <3>1, <3>2 DEF BatchInv
  <2>. QED
    BY <1>2, <2>3, <2>4 DEF Decide
<1>3. CASE Score
  <2>1. View' = View /\ score(View)' = score(View) /\ Targets(world)' = Targets(world)
    BY <1>3 DEF Score, scored, View, Seen, score, Targets
  <2>. QED
    BY <1>3, <2>1 DEF Score, scored, BatchInv
<1>4. CASE PrintRow
  <2>1. /\ View' = View /\ score(View)' = score(View) /\ Targets(world)' = Targets(world)
        /\ lane_gaps(r)' = lane_gaps(r) /\ inconclusive_state' = inconclusive_state
    BY <1>4 DEF PrintRow, scored, View, Seen, score, Targets, lane_gaps, inconclusive_state
  <2>. QED
    BY <1>4, <2>1 DEF PrintRow, scored, BatchInv
<1>5. CASE UNCHANGED vars
  <2>1. /\ View' = View /\ score(View)' = score(View) /\ Targets(world)' = Targets(world)
        /\ lane_gaps(r)' = lane_gaps(r) /\ inconclusive_state' = inconclusive_state
    BY <1>5 DEF vars, scored, View, Seen, score, Targets, lane_gaps, inconclusive_state
  <2>. QED
    BY <1>5, <2>1 DEF vars, scored, BatchInv
<1>. QED
  BY <1>1, <1>2, <1>3, <1>4, <1>5 DEF Next, Finished

LEMMA BatchInvariant == Spec => []BatchInv
BY BatchStart, BatchStep, PTL DEF Spec

-----------------------------------------------------------------------------
LEMMA Buckets ==
  OUT_ORDER = {"SPF", "DKIM", "DMARC", "DMARC_enforced", "DMARC_rua", "MTA_STS",
               "TLS_RPT", "DANE", "BIMI"}
BY DEF OUT_ORDER, BUCKET_LANES

(* A lookup that was not lost is seen as it is.                            *)
LEMMA SeenAsItIs ==
  ASSUME BatchInv
  PROVE  /\ {"apex", "include"} \intersect lost = {} =>
              View.all = Published.all /\ View.cost = Published.cost
         /\ "dmarc" \notin lost => View.dmarc = Published.dmarc
         /\ View.rua = Published.rua
         /\ "ancestor" \notin lost => View.above = Published.above
         /\ "existence" \notin lost => View.existence = Published.existence
         /\ View.mx = (IF "mx" \in lost THEN "none" ELSE world.mx)
         /\ "mx" \notin lost => View.mx = Published.mx
         /\ {"apex", "mx"} \intersect lost = {} => View.hinted = Published.hinted
         /\ View.sts = (IF "sts" \in lost THEN "lost" ELSE Published.sts)
         /\ Published.sts # "lost"
         /\ "rpt" \notin lost => View.rpt = Published.rpt
         /\ "tlsa" \notin lost => View.tlsa = Published.tlsa
         /\ "bimi" \notin lost => View.bimi = Published.bimi
         /\ Selectors \intersect lost = {} => View.keys = Published.keys
<1>1. /\ world.hint \in {"nowhere", "mx", "apex"} /\ world.sts \in {"none", "there"}
      /\ "include" \notin lost => targets = Targets(world)
      /\ "ancestor" \notin lost => walked = world.above
  BY DEF BatchInv, Contents
<1>2. /\ View.rua = Published.rua
      /\ "dmarc" \notin lost => View.dmarc = Published.dmarc
      /\ "existence" \notin lost => View.existence = Published.existence
      /\ View.mx = (IF "mx" \in lost THEN "none" ELSE world.mx)
      /\ "mx" \notin lost => View.mx = Published.mx
  BY DEF View, Published, Seen
<1>3. /\ View.sts = (IF "sts" \in lost THEN "lost" ELSE Published.sts)
      /\ Published.sts # "lost"
      /\ "rpt" \notin lost => View.rpt = Published.rpt
      /\ "tlsa" \notin lost => View.tlsa = Published.tlsa
      /\ "bimi" \notin lost => View.bimi = Published.bimi
  BY <1>1 DEF View, Published, Seen
<1>4. "ancestor" \notin lost => View.above = Published.above
  BY <1>1 DEF View, Published, Seen
<1>5. ASSUME {"apex", "include"} \intersect lost = {}
      PROVE  View.all = Published.all /\ View.cost = Published.cost
  BY <1>1, <1>5 DEF View, Published, Seen
<1>6. ASSUME {"apex", "mx"} \intersect lost = {}
      PROVE  View.hinted = Published.hinted
  BY <1>1, <1>6 DEF View, Published, Seen
<1>7. ASSUME Selectors \intersect lost = {}
      PROVE  View.keys = Published.keys
  BY <1>7 DEF View, Published, Seen
<1>. QED
  BY <1>2, <1>3, <1>4, <1>5, <1>6, <1>7

(* A domain that exists is never reported NR.                              *)
THEOREM ExistingIsScored == Spec => []NrMeansNonexistent
<1>1. BatchInv => NrMeansNonexistent
  BY DEF BatchInv, NrMeansNonexistent
<1>. QED
  BY <1>1, BatchInvariant, PTL

(* A counted gap whose lookups were answered is a gap of the domain.       *)
LEMMA GapIsConfirmed ==
  ASSUME BatchInv, NEW b \in OUT_ORDER, disp(score(View)[b]) = "N",
         Behind(b) \intersect lost = {}
  PROVE  Truth(b) = "N"
<1>. DEFINE v == View
            p == Published
<1>k. /\ {"apex", "include"} \intersect lost = {} => v.all = p.all /\ v.cost = p.cost
      /\ "dmarc" \notin lost => v.dmarc = p.dmarc
      /\ v.rua = p.rua
      /\ "ancestor" \notin lost => v.above = p.above
      /\ "existence" \notin lost => v.existence = p.existence
      /\ "mx" \notin lost => v.mx = p.mx
      /\ {"apex", "mx"} \intersect lost = {} => v.hinted = p.hinted
      /\ v.sts = (IF "sts" \in lost THEN "lost" ELSE p.sts)
      /\ p.sts # "lost"
      /\ "rpt" \notin lost => v.rpt = p.rpt
      /\ "tlsa" \notin lost => v.tlsa = p.tlsa
      /\ "bimi" \notin lost => v.bimi = p.bimi
      /\ Selectors \intersect lost = {} => v.keys = p.keys
  BY SeenAsItIs
<1>n. disp(score(v)[b]) = "N" /\ Truth(b) = disp(score(p)[b])
  BY DEF Truth
<1>. HIDE DEF v, p
<1>1. CASE b = "SPF"
  <2>1. v.all = p.all /\ v.cost = p.cost
    BY <1>k, <1>1 DEF Behind
  <2>. QED
    BY <1>n, <1>1, <2>1 DEF score, SpfPasses
<1>2. CASE b = "DKIM"
  <2>1. v.keys = p.keys /\ v.hinted = p.hinted
    BY <1>k, <1>2 DEF Behind
  <2>2. dkim_lookup(v) = dkim_lookup(p)
    BY <2>1 DEF dkim_lookup, dkim_candidates
  <2>. QED
    BY <1>n, <1>2, <2>2 DEF score
<1>3. CASE b \in {"DMARC", "DMARC_rua"}
  <2>1. v.dmarc = p.dmarc /\ v.above = p.above
    BY <1>k, <1>3 DEF Behind
  <2>. QED
    BY <1>k, <1>n, <1>3, <2>1 DEF score, Psd, Reported
<1>4. CASE b = "DMARC_enforced"
  <2>1. v.dmarc = p.dmarc /\ v.above = p.above /\ v.existence = p.existence
    BY <1>k, <1>4 DEF Behind
  <2>2. Effective(v) = Effective(p)
    BY <2>1 DEF Effective
  <2>3. Enforced(v) = Enforced(p)
    BY <2>1, <2>2 DEF Psd, Enforced
  <2>4. score(v)[b] = Is(Enforced(v)) /\ score(p)[b] = Is(Enforced(p))
    BY <1>4 DEF score
  <2>. QED
    BY <1>n, <2>3, <2>4
<1>5. CASE b = "MTA_STS"
  <2>1. v.mx = p.mx
    BY <1>k, <1>5 DEF Behind
  <2>. QED
    BY <1>k, <1>n, <1>5, <2>1 DEF score, null_mx, mta_sts_txt_lookup, disp, Is
<1>6. CASE b = "TLS_RPT"
  <2>1. v.mx = p.mx /\ v.rpt = p.rpt
    BY <1>k, <1>6 DEF Behind
  <2>. QED
    BY <1>n, <1>6, <2>1 DEF score, null_mx
<1>7. CASE b = "DANE"
  <2>1. v.mx = p.mx /\ v.tlsa = p.tlsa
    BY <1>k, <1>7 DEF Behind
  <2>. QED
    BY <1>n, <1>7, <2>1 DEF score, null_mx, Real
<1>8. CASE b = "BIMI"
  <2>1. v.bimi = p.bimi
    BY <1>k, <1>8 DEF Behind
  <2>. QED
    BY <1>n, <1>8, <2>1 DEF score
<1>. QED
  BY <1>1, <1>2, <1>3, <1>4, <1>5, <1>6, <1>7, <1>8, Buckets

(* Whatever else was lost, a gap counted from answers is the domain's own. *)
THEOREM GapsAreConfirmed == Spec => []ConfirmedGap
<1>1. BatchInv => ConfirmedGap
  BY GapIsConfirmed DEF BatchInv, ConfirmedGap
<1>. QED
  BY <1>1, BatchInvariant, PTL

(* The reason is the first critical lookup lost, if one was.               *)
LEMMA FirstReason ==
  /\ inconclusive_state # "none" => inconclusive_state \in lost
  /\ lost \cap {"apex", "dmarc", "mx"} # {} => inconclusive_state # "none"
<1>. DEFINE failed == {i \in DOMAIN Critical : Critical[i] \in lost}
            first == CHOOSE i \in failed : \A j \in failed : i <= j
<1>1. /\ DOMAIN Critical = 1 .. 3
      /\ Critical[1] = "apex" /\ Critical[2] = "dmarc" /\ Critical[3] = "mx"
  BY DEF Critical
<1>2. failed \subseteq {1, 2, 3}
  BY <1>1
<1>3. ASSUME failed # {}
      PROVE  \E i \in failed : \A j \in failed : i <= j
  <2>1. CASE 1 \in failed
    BY <1>2, <2>1
  <2>2. CASE 1 \notin failed /\ 2 \in failed
    BY <1>2, <2>2
  <2>3. CASE failed = {3}
    BY <2>3
  <2>. QED
    BY <1>2, <1>3, <2>1, <2>2, <2>3
<1>4. failed # {} => first \in failed
  BY <1>3
<1>5. failed # {} => Critical[first] \in lost /\ Critical[first] # "none"
  BY <1>1, <1>2, <1>4
<1>6. lost \cap {"apex", "dmarc", "mx"} # {} => failed # {}
  BY <1>1
<1>. HIDE DEF first
<1>7. inconclusive_state = IF failed = {} THEN "none" ELSE Critical[first]
  BY DEF inconclusive_state, first
<1>. QED
  BY <1>5, <1>6, <1>7

(* A row that counts a gap the domain does not have, because of a critical *)
(* lookup, carries a reason, and a reason is never made up.                *)
THEOREM FalseGapsAreDisclosed == Spec => []FalseGapDisclosed
<1>1. ASSUME BatchInv, phase = "done"
      PROVE  /\ \A b \in OUT_ORDER :
                  /\ disp(r[b]) = "N" /\ Truth(b) # "N"
                  /\ Behind(b) \intersect lost \subseteq {"apex", "dmarc", "mx"}
                  => reason # "none"
             /\ reason # "none" => reason \in lost
  <2>1. reason = inconclusive_state /\ r = score(View)
    BY <1>1 DEF BatchInv
  <2>2. ASSUME NEW b \in OUT_ORDER, disp(r[b]) = "N", Truth(b) # "N",
               Behind(b) \intersect lost \subseteq {"apex", "dmarc", "mx"}
        PROVE  reason # "none"
    <3>1. Behind(b) \intersect lost # {}
      BY <1>1, <2>1, <2>2, GapIsConfirmed
    <3>. QED
      BY <2>1, <2>2, <3>1, FirstReason
  <2>. QED
    BY <2>1, <2>2, FirstReason
<1>2. BatchInv => FalseGapDisclosed
  BY <1>1 DEF FalseGapDisclosed
<1>. QED
  BY <1>2, BatchInvariant, PTL

-----------------------------------------------------------------------------
LEMMA CellsCounted ==
  ASSUME NEW buckets, NEW l \in Lanes
  PROVE  lane_gaps(buckets)[l] = NotApplicable <=>
           \A b \in Lane(l) : disp(buckets[b]) = "dash"
<1>1. IsFiniteSet(OUT_ORDER)
  <2>1. \A S, x : IsFiniteSet(S) => IsFiniteSet(S \union {x})
    BY FS_AddElement
  <2>. DEFINE few == (({} \union {"SPF"}) \union {"DKIM"}) \union {"DMARC"}
              more == ((few \union {"DMARC_enforced"}) \union {"DMARC_rua"}) \union {"MTA_STS"}
              all == ((more \union {"TLS_RPT"}) \union {"DANE"}) \union {"BIMI"}
  <2>2. IsFiniteSet(few)
    BY <2>1, FS_EmptySet
  <2>3. IsFiniteSet(more)
    <3>. HIDE DEF few
    <3>. QED
      BY <2>1, <2>2
  <2>4. IsFiniteSet(all)
    <3>. HIDE DEF more
    <3>. QED
      BY <2>1, <2>3
  <2>5. OUT_ORDER = all
    BY Buckets
  <2>. QED
    BY <2>4, <2>5
<1>2. N_cells(buckets, l) \subseteq OUT_ORDER
  BY DEF N_cells, Lane
<1>3. Cardinality(N_cells(buckets, l)) \in Nat
  BY <1>1, <1>2, FS_Subset, FS_CardinalityType
<1>. HIDE DEF N_cells
<1>. QED
  BY <1>3 DEF lane_gaps, NotApplicable

LEMMA LaneBuckets ==
  /\ "SPF" \in Lane("outbound") /\ "BIMI" \in Lane("brand")
  /\ Lane("inbound") = {"MTA_STS", "TLS_RPT", "DANE"}
BY Buckets DEF Lane, BUCKET_LANES

LEMMA NeverDashed ==
  ASSUME NEW condition
  PROVE  disp(Is(condition)) # "dash"
BY DEF disp, Is

(* Only a domain whose MX answer was read and is a null one gets the dash  *)
(* of the inbound lane; the other lanes are always counted.                *)
THEOREM InboundDashIsNullMx == Spec => []DashIsNullMx
<1>1. ASSUME BatchInv, phase = "done"
      PROVE  /\ gaps["inbound"] = NotApplicable <=> world.mx = "null" /\ "mx" \notin lost
             /\ gaps["outbound"] # NotApplicable /\ gaps["brand"] # NotApplicable
  <2>1. gaps = lane_gaps(r) /\ r = score(View)
    BY <1>1 DEF BatchInv
  <2>2. View.mx = IF "mx" \in lost THEN "none" ELSE world.mx
    BY <1>1, SeenAsItIs
  <2>3. /\ r["SPF"] = Is(SpfPasses(View)) /\ r["BIMI"] = Is(View.bimi = "there")
        /\ r["MTA_STS"] = IF null_mx(View) THEN "na" ELSE mta_sts_txt_lookup(View)
        /\ r["TLS_RPT"] = IF null_mx(View) THEN "na" ELSE Is(View.rpt = "there")
        /\ r["DANE"] = IF null_mx(View) THEN "na"
                       ELSE Is(Real(View) /\ View.tlsa = "there")
    BY <2>1 DEF score
  <2>4. disp(r["SPF"]) # "dash" /\ disp(r["BIMI"]) # "dash"
    BY <2>3, NeverDashed
  <2>5. disp("na") = "dash"
    BY DEF disp
  <2>6. (\A b \in Lane("inbound") : disp(r[b]) = "dash") <=> null_mx(View)
    <3>1. CASE null_mx(View)
      BY <2>3, <2>5, <3>1, LaneBuckets
    <3>2. CASE ~null_mx(View)
      BY <2>3, <3>2, LaneBuckets, NeverDashed
    <3>. QED
      BY <3>1, <3>2
  <2>7. null_mx(View) <=> world.mx = "null" /\ "mx" \notin lost
    BY <2>2 DEF null_mx
  <2>. QED
    BY <2>1, <2>4, <2>6, <2>7, CellsCounted, LaneBuckets DEF Lanes
<1>2. BatchInv => DashIsNullMx
  BY <1>1 DEF DashIsNullMx
<1>. QED
  BY <1>2, BatchInvariant, PTL

(* Both readings of the probed keys take the best one.                     *)
LEMMA SameKeys ==
  ASSUME NEW v
  PROVE  dkim_lookup(v) = dkim_state_indep(v)
<1>. DEFINE found == {v.keys[s] : s \in dkim_candidates(v)}
<1>1. \A key : key \in found <=> \E s \in dkim_candidates(v) : v.keys[s] = key
  OBVIOUS
<1>2. dkim_lookup(v) = IF "good" \in found THEN "good"
                       ELSE IF "weak" \in found THEN "weak"
                       ELSE IF "invalid" \in found THEN "invalid" ELSE "unknown"
  BY DEF dkim_lookup
<1>. HIDE DEF found
<1>. QED
  BY <1>1, <1>2 DEF dkim_state_indep

(* The second derivation of verify.py disagrees on the same answers only   *)
(* for a public suffix's policy, a lost MTA-STS record, and the spellings  *)
(* and limits its own expressions read otherwise.                          *)
THEOREM VerifierMostlyAgrees == Spec => []VerifierAgrees
<1>1. ASSUME BatchInv, phase = "done", NEW b \in OUT_ORDER,
             r[b] # independent(View)[b]
      PROVE  \/ b \in {"DMARC", "DMARC_enforced", "DMARC_rua"} /\ Psd(View)
             \/ b = "DMARC_enforced" /\ View.dmarc \in {"shouted", "shadowed"}
             \/ /\ b = "SPF"
                /\ View.all \in {"shouted", "drowned"} \/ View.cost \in {"voids", "semi"}
             \/ b = "MTA_STS" /\ "sts" \in lost
  <2>1. r = score(View)
    BY <1>1 DEF BatchInv
  <2>2. /\ View.cost \in {"within", "heavy", "voids", "semi"}
        /\ View.sts = "lost" <=> "sts" \in lost
    <3>1. world.cost \in {"within", "heavy", "voids", "semi"}
      BY <1>1 DEF BatchInv, Contents
    <3>2. View.cost \in {world.cost, "within"}
      BY DEF View, Seen
    <3>. QED
      BY <1>1, <3>1, <3>2, SeenAsItIs
  <2>. HIDE DEF View
  <2>3. CASE b \in {"DMARC", "DMARC_enforced", "DMARC_rua"}
    BY <1>1, <2>1, <2>3 DEF score, independent, Psd, Enforced, Reported
  <2>4. CASE b = "SPF"
    BY <1>1, <2>1, <2>2, <2>4 DEF score, independent, SpfPasses
  <2>5. CASE b = "MTA_STS"
    BY <1>1, <2>1, <2>2, <2>5 DEF score, independent, mta_sts_txt_lookup, null_mx
  <2>6. CASE b = "DKIM"
    BY <1>1, <2>1, <2>6, SameKeys DEF score, independent
  <2>7. CASE b \in {"TLS_RPT", "DANE", "BIMI"}
    BY <1>1, <2>1, <2>7 DEF score, independent, null_mx, Real
  <2>. QED
    BY <2>3, <2>4, <2>5, <2>6, <2>7, Buckets
<1>2. BatchInv => VerifierAgrees
  BY <1>1 DEF VerifierAgrees
<1>. QED
  BY <1>2, BatchInvariant, PTL
=============================================================================
