------------------------------ MODULE DkimSweep ------------------------------
(***************************************************************************)
(* dkim_lookup: DKIM has no discovery mechanism, so candidate selectors    *)
(* are probed in priority order, Batch at a time by a thread pool, with an *)
(* early exit on the first good key; check_dkim turns the result into      *)
(* findings.  The probes of a batch end in any order, and any lookup may   *)
(* fail, which reads as "no key here" and is charged to scope "dkim".      *)
(***************************************************************************)
EXTENDS Integers, Sequences, FiniteSets

CONSTANTS
  Selectors,
  Guided,     (* candidates when the MX/SPF rows name a provider           *)
  Unguided,   (* candidates when they name none or could not be read       *)
  Batch,      (* 6 in the code                                             *)
  NoSelector

Kinds == {"none", "good", "weak", "invalid"}
Records == {r \in [kind : Kinds, testing : BOOLEAN] : r.kind = "none" => ~r.testing}

Distinct(list) == \A i, j \in 1 .. Len(list) : list[i] = list[j] => i = j

ASSUME SweepAssumption ==
  /\ Guided \in Seq(Selectors) /\ Distinct(Guided)
  /\ Unguided \in Seq(Selectors) /\ Distinct(Unguided)
  /\ Batch \in Nat \ {0}
  /\ NoSelector \notin Selectors

VARIABLES
  record,       (* what DNS really holds under each selector               *)
  failing,      (* selectors whose lookup fails in this audit              *)
  cands,        (* dkim_candidates(domain)                                 *)
  ledger,       (* selectors whose failed lookup is charged to "dkim", in  *)
                (* the order the probes ended                              *)
  phase,        (* "probe", "scan" or "done"                               *)
  base,         (* candidates before the current batch                     *)
  answered,     (* positions of the batch whose probe has ended            *)
  pos,          (* candidates scanned                                      *)
  weak, invalid, weakTesting,
  result,
  findings

world == <<record, failing, cands>>
best == <<weak, invalid, weakTesting>>
vars == <<world, ledger, phase, base, answered, pos, best, result, findings>>

NoResult == [state |-> "none", selector |-> NoSelector, testing |-> FALSE]

Init ==
  /\ record \in [Selectors -> Records]
  /\ failing \in SUBSET Selectors
  /\ cands \in {Guided, Unguided}
  /\ ledger = <<>>
  /\ phase = "probe"
  /\ base = 0 /\ answered = {} /\ pos = 0
  /\ weak = NoSelector /\ invalid = NoSelector /\ weakTesting = FALSE
  /\ result = NoResult
  /\ findings = {}

LowerOf(a, b) == IF a < b THEN a ELSE b
BatchEnd == LowerOf(base + Batch, Len(cands))
Window == base + 1 .. BatchEnd

(* What a probe reads: no key for an empty answer and for a failed lookup. *)
Seen == [s \in Selectors |-> IF s \in failing THEN "none" ELSE record[s].kind]
Testing(s) == record[s].testing

(* Mutant of Probe: the scope is the caller's, which the pool's threads do *)
(* not have, so a failed lookup is charged to nobody.                      *)
ProbeUnscoped(i) ==
  /\ phase = "probe"
  /\ i \in Window \ answered
  /\ answered' = answered \union {i}
  /\ UNCHANGED <<world, ledger, phase, base, pos, best, result, findings>>

(* One probe of the batch ends.  It sets its own scope: the pool's threads *)
(* do not inherit the one of the check that called dkim_lookup.            *)
Probe(i) ==
  /\ phase = "probe"
  /\ i \in Window \ answered
  /\ answered' = answered \union {i}
  /\ ledger' = IF cands[i] \in failing THEN Append(ledger, cands[i]) ELSE ledger
  /\ UNCHANGED <<world, phase, base, pos, best, result, findings>>

(* Mutant of Gather: the results are used as soon as one has come.         *)
GatherFirst ==
  /\ phase = "probe"
  /\ answered # {} \/ Window = {}
  /\ phase' = "scan"
  /\ UNCHANGED <<world, ledger, base, answered, pos, best, result, findings>>

(* list(ex.map(...)) returns when every probe of the batch has ended.      *)
Gather ==
  /\ phase = "probe"
  /\ answered = Window
  /\ phase' = "scan"
  /\ UNCHANGED <<world, ledger, base, answered, pos, best, result, findings>>

Scanning == phase = "scan" /\ pos < BatchEnd
Current == cands[pos + 1]

ScanMiss ==
  /\ Scanning
  /\ Seen[Current] = "none"
  /\ pos' = pos + 1
  /\ UNCHANGED <<world, ledger, phase, base, answered, best, result, findings>>

ScanInvalid ==
  /\ Scanning
  /\ Seen[Current] = "invalid"
  /\ invalid' = IF invalid = NoSelector THEN Current ELSE invalid
  /\ pos' = pos + 1
  /\ UNCHANGED <<world, ledger, phase, base, answered, weak, weakTesting,
                 result, findings>>

ScanWeak ==
  /\ Scanning
  /\ Seen[Current] = "weak"
  /\ weak' = IF weak = NoSelector THEN Current ELSE weak
  /\ weakTesting' = (weakTesting \/ Testing(Current))
  /\ pos' = pos + 1
  /\ UNCHANGED <<world, ledger, phase, base, answered, invalid, result, findings>>

(* The rule check_dkim reports for a state, and the testing-mode rule for  *)
(* the same selector.                                                      *)
Rule == [good |-> "dkim.present", weak |-> "dkim.weak_rsa1024",
         invalid |-> "dkim.invalid_key", unknown |-> "dkim.not_found"]

Rules == {Rule[state] : state \in DOMAIN Rule} \union {"dkim.testing_mode"}

check_dkim(res) ==
  {[rule |-> Rule[res.state], selector |-> res.selector]}
    \union IF res.testing
           THEN {[rule |-> "dkim.testing_mode", selector |-> res.selector]}
           ELSE {}

Return(res) ==
  /\ result' = res
  /\ findings' = check_dkim(res)
  /\ phase' = "done"
  /\ UNCHANGED <<world, ledger, base, answered, pos, best>>

(* Mutant of ScanGood: a good key is noted like a weak one and the sweep   *)
(* goes on.                                                                *)
ScanGoodNoted ==
  /\ Scanning
  /\ Seen[Current] = "good"
  /\ pos' = pos + 1
  /\ weak' = IF weak = NoSelector THEN Current ELSE weak
  /\ UNCHANGED <<world, ledger, phase, base, answered, invalid, weakTesting,
                 result, findings>>

ScanGood ==
  /\ Scanning
  /\ Seen[Current] = "good"
  /\ Return([state |-> "good", selector |-> Current, testing |-> Testing(Current)])

NextBatch ==
  /\ phase = "scan" /\ pos = BatchEnd
  /\ base + Batch < Len(cands)
  /\ base' = base + Batch
  /\ answered' = {}
  /\ phase' = "probe"
  /\ UNCHANGED <<world, ledger, pos, best, result, findings>>

(* Mutant of Settled: an unusable key hides a weak one.                    *)
SettledInvalidFirst ==
  IF invalid # NoSelector
  THEN [state |-> "invalid", selector |-> invalid, testing |-> FALSE]
  ELSE IF weak # NoSelector
  THEN [state |-> "weak", selector |-> weak, testing |-> weakTesting]
  ELSE [state |-> "unknown", selector |-> NoSelector, testing |-> FALSE]

(* No good key at any candidate.                                           *)
Settled ==
  IF weak # NoSelector
  THEN [state |-> "weak", selector |-> weak, testing |-> weakTesting]
  ELSE IF invalid # NoSelector
  THEN [state |-> "invalid", selector |-> invalid, testing |-> FALSE]
  ELSE [state |-> "unknown", selector |-> NoSelector, testing |-> FALSE]

Settle ==
  /\ phase = "scan" /\ pos = BatchEnd
  /\ base + Batch >= Len(cands)
  /\ Return(Settled)

Finished == phase = "done" /\ UNCHANGED vars

Scan == ScanMiss \/ ScanInvalid \/ ScanWeak \/ ScanGood

Next == (\E i \in Window : Probe(i)) \/ Gather \/ Scan \/ NextBatch \/ Settle \/ Finished

Spec == Init /\ [][Next]_vars
-----------------------------------------------------------------------------
TypeOK ==
  /\ record \in [Selectors -> Records] /\ failing \in SUBSET Selectors
  /\ cands \in {Guided, Unguided}
  /\ ledger \in Seq(Selectors)
  /\ phase \in {"probe", "scan", "done"}
  /\ base \in Nat /\ answered \in SUBSET Window
  /\ pos \in base .. BatchEnd
  /\ weak \in Selectors \union {NoSelector}
  /\ invalid \in Selectors \union {NoSelector}
  /\ weakTesting \in BOOLEAN
  /\ result \in [state : {"none", "good", "weak", "invalid", "unknown"},
                 selector : Selectors \union {NoSelector}, testing : BOOLEAN]
  /\ findings \in SUBSET [rule : Rules, selector : Selectors \union {NoSelector}]

(* Among the first n candidates, s is the first that kindOf gives kind k,  *)
(* or NoSelector when there is none.                                       *)
IsFirst(s, k, n, kindOf) ==
  IF s = NoSelector
  THEN \A i \in 1 .. n : kindOf[cands[i]] # k
  ELSE \E i \in 1 .. n :
         /\ s = cands[i] /\ kindOf[s] = k
         /\ \A j \in 1 .. i - 1 : kindOf[cands[j]] # k

Absent(k, n, kindOf) == IsFirst(NoSelector, k, n, kindOf)

(* What a sequential scan of all candidates, in priority order, returns.   *)
IsSequential(res, kindOf) ==
  LET n == Len(cands)
  IN  \/ /\ res.state = "good" /\ res.selector # NoSelector
         /\ IsFirst(res.selector, "good", n, kindOf)
      \/ /\ res.state = "weak" /\ res.selector # NoSelector
         /\ Absent("good", n, kindOf)
         /\ IsFirst(res.selector, "weak", n, kindOf)
      \/ /\ res.state = "invalid" /\ res.selector # NoSelector
         /\ Absent("good", n, kindOf) /\ Absent("weak", n, kindOf)
         /\ IsFirst(res.selector, "invalid", n, kindOf)
      \/ /\ res.state = "unknown" /\ res.selector = NoSelector
         /\ \A k \in Kinds \ {"none"} : Absent(k, n, kindOf)

(* audit.py:462: "Result is identical to the old sequential early-exit     *)
(* (first good key in priority order wins)", in whatever order the probes  *)
(* of a batch end.                                                         *)
SameAsSequential == phase = "done" => IsSequential(result, Seen)

(* The uncertainty ledger calls dkim.* conclusive only when no charged     *)
(* lookup failed; the state is then the one of the keys really published.  *)
Published == [s \in Selectors |-> record[s].kind]
ConclusiveIsExact ==
  phase = "done" /\ ledger = <<>> => IsSequential(result, Published)

(* finding_lookup_failures asks dns_meta of each candidate; one that was   *)
(* not probed has no metadata and does not count.                          *)
Probed == 1 .. base \union answered
Marked == \E i \in Probed : cands[i] \in failing

(* "DKIM not found" carries an unconfirmed marker exactly when the ledger  *)
(* disclosed a failed selector lookup: the two channels, one filled by the *)
(* pool's threads and one read back from the cache, cannot disagree.       *)
UncertaintyAgrees == phase = "done" => (Marked <=> ledger # <<>>)

(* audit.py:458: "small concurrent BATCHES with early-exit".  No probe is  *)
(* sent a whole batch or more past a candidate that holds a good key.      *)
NoBurst ==
  \A i \in Probed, g \in 1 .. Len(cands) :
    Seen[cands[g]] = "good" => i < g + Batch
=============================================================================
