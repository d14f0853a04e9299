-------------------------- MODULE DkimSweepProofs ---------------------------
(***************************************************************************)
(* Theorems of DkimSweep, for any candidates, keys, failures and batch     *)
(* size.  The invariant says what the scanned prefix established: it has   *)
(* no good key, and weak and invalid are its first keys of their kind; the *)
(* prefix is the probed part, or lags it by the batch being scanned.       *)
(***************************************************************************)
EXTENDS DkimSweep, TLAPS

Prefix(kindOf) ==
  /\ Absent("good", pos, kindOf)
  /\ IsFirst(weak, "weak", pos, kindOf)
  /\ IsFirst(invalid, "invalid", pos, kindOf)

Progress ==
  /\ phase = "probe" => pos = base
  /\ phase = "scan" => answered = Window
  /\ phase \in {"probe", "scan"} => Prefix(Seen)
  /\ Absent("good", base, Seen)

SweepInv == TypeOK /\ Progress /\ SameAsSequential

LEMMA WorldFacts ==
  ASSUME TypeOK
  PROVE  /\ cands \in Seq(Selectors) /\ Len(cands) \in Nat
         /\ \A i \in 1 .. Len(cands) : cands[i] \in Selectors /\ cands[i] # NoSelector
         /\ \A s \in Selectors : Seen[s] \in Kinds
         /\ BatchEnd \in Nat /\ BatchEnd <= Len(cands)
         /\ base + Batch >= Len(cands) => BatchEnd = Len(cands)
BY SweepAssumption DEF TypeOK, Seen, Kinds, Records, BatchEnd, LowerOf

LEMMA WorldStep ==
  ASSUME [Next]_vars
  PROVE  Seen' = Seen /\ Published' = Published /\ cands' = cands
<1>1. UNCHANGED world
  BY DEF Next, Probe, Gather, Scan, ScanMiss, ScanInvalid, ScanWeak, ScanGood,
         NextBatch, Settle, Finished, Return, vars
<1>. QED
  BY <1>1 DEF world, Seen, Published

LEMMA FindingsType ==
  ASSUME NEW res \in [state : {"good", "weak", "invalid", "unknown"},
                      selector : Selectors \union {NoSelector},
                      testing : BOOLEAN]
  PROVE  check_dkim(res) \in SUBSET [rule : Rules, selector : Selectors \union {NoSelector}]
<1>1. DOMAIN Rule = {"good", "weak", "invalid", "unknown"}
  BY DEF Rule
<1>2. Rule[res.state] \in Rules /\ "dkim.testing_mode" \in Rules
  BY <1>1 DEF Rules
<1>. QED
  BY <1>2 DEF check_dkim

LEMMA TypingStep == TypeOK /\ [Next]_vars => TypeOK'
<1>. SUFFICES ASSUME TypeOK, [Next]_vars
              PROVE  TypeOK'
  OBVIOUS
<1>w. /\ cands \in Seq(Selectors) /\ Len(cands) \in Nat
      /\ \A i \in 1 .. Len(cands) : cands[i] \in Selectors
      /\ base \in Nat /\ pos \in Nat /\ Batch \in Nat \ {0}
  BY WorldFacts, SweepAssumption DEF TypeOK
<1>. USE DEF TypeOK, world, best, BatchEnd, LowerOf, Window
<1>1. ASSUME NEW i \in Window, Probe(i)
      PROVE  TypeOK'
  BY <1>1, <1>w DEF Probe
<1>2. CASE Gather
  BY <1>2 DEF Gather
<1>3. CASE ScanMiss \/ ScanInvalid \/ ScanWeak
  <2>1. Current \in Selectors /\ Testing(Current) \in BOOLEAN
    BY <1>3, <1>w DEF ScanMiss, ScanInvalid, ScanWeak, Scanning, Current,
                      Testing, Records
  <2>2. pos' \in base' .. BatchEnd' /\ base' = base /\ cands' = cands
    BY <1>3, <1>w DEF ScanMiss, ScanInvalid, ScanWeak, Scanning
  <2>. QED
    BY <1>3, <2>1, <2>2 DEF ScanMiss, ScanInvalid, ScanWeak
<1>4. ASSUME NEW res \in [state : {"good", "weak", "invalid", "unknown"},
                          selector : Selectors \union {NoSelector},
                          testing : BOOLEAN],
             Return(res)
      PROVE  TypeOK'
  BY <1>4, FindingsType DEF Return
<1>5. CASE ScanGood
  <2>1. Current \in Selectors /\ Testing(Current) \in BOOLEAN
    BY <1>5, <1>w DEF ScanGood, Scanning, Current, Testing, Records
  <2>. QED
    BY <1>4, <1>5, <2>1 DEF ScanGood
<1>6. CASE Settle
  <2>1. Settled \in [state : {"good", "weak", "invalid", "unknown"},
                     selector : Selectors \union {NoSelector},
                     testing : BOOLEAN]
    BY DEF Settled
  <2>. QED
    BY <1>4, <1>6, <2>1 DEF Settle
<1>7. CASE NextBatch
  BY <1>7, <1>w DEF NextBatch
<1>8. CASE Finished \/ UNCHANGED vars
  BY <1>8 DEF Finished, vars
<1>. QED
  BY <1>1, <1>2, <1>3, <1>5, <1>6, <1>7, <1>8 DEF Next, Scan

LEMMA TypingInit == Init => TypeOK
<1>. SUFFICES ASSUME Init PROVE TypeOK
  OBVIOUS
<1>1. cands \in Seq(Selectors) /\ Len(cands) \in Nat
  BY SweepAssumption DEF Init
<1>2. BatchEnd \in Nat
  BY <1>1, SweepAssumption DEF Init, BatchEnd, LowerOf
<1>3. ledger \in Seq(Selectors) /\ answered \in SUBSET Window /\ pos \in base .. BatchEnd
  BY <1>2 DEF Init
<1>. QED
  BY <1>3 DEF Init, TypeOK, NoResult

(* Types hold for any candidates and batch size; among them, a batch's     *)
(* probes and the scan stay within the batch.                              *)
THEOREM Typing == Spec => []TypeOK
BY TypingInit, TypingStep, PTL DEF Spec

-----------------------------------------------------------------------------
(* One more candidate: the first of a kind is the one known, or that       *)
(* candidate.                                                              *)
LEMMA Extend ==
  ASSUME TypeOK, pos < Len(cands), NEW kindOf, NEW k,
         NEW s \in Selectors \union {NoSelector},
         IsFirst(s, k, pos, kindOf)
  PROVE  /\ s # NoSelector \/ kindOf[Current] # k => IsFirst(s, k, pos + 1, kindOf)
         /\ s = NoSelector /\ kindOf[Current] = k
              => IsFirst(Current, k, pos + 1, kindOf)
<1>1. /\ pos \in Nat /\ pos + 1 \in 1 .. Len(cands)
      /\ Current = cands[pos + 1] /\ Current # NoSelector
  BY WorldFacts DEF TypeOK, Current
<1>2. \A i \in 1 .. pos + 1 : i \in 1 .. pos \/ i = pos + 1
  BY <1>1
<1>3. CASE s # NoSelector
  BY <1>1, <1>3 DEF IsFirst
<1>4. CASE s = NoSelector /\ kindOf[Current] # k
  BY <1>1, <1>2, <1>4 DEF IsFirst
<1>5. CASE s = NoSelector /\ kindOf[Current] = k
  <2>1. \A j \in 1 .. (pos + 1) - 1 : kindOf[cands[j]] # k
    BY <1>1, <1>5 DEF IsFirst
  <2>2. pos + 1 \in 1 .. pos + 1
    BY <1>1
  <2>. QED
    BY <1>1, <1>5, <2>1, <2>2 DEF IsFirst
<1>. QED
  BY <1>3, <1>4, <1>5

LEMMA SweepStep == SweepInv /\ [Next]_vars => SweepInv'
<1>. SUFFICES ASSUME SweepInv, [Next]_vars
              PROVE  SweepInv'
  OBVIOUS
<1>t. TypeOK /\ TypeOK' /\ Progress /\ SameAsSequential
  BY TypingStep DEF SweepInv
<1>w. /\ Len(cands) \in Nat /\ base \in Nat /\ pos \in Nat
      /\ BatchEnd \in Nat /\ pos <= BatchEnd /\ BatchEnd <= Len(cands)
      /\ \A s \in Selectors : Seen[s] \in Kinds
      /\ Seen' = Seen /\ cands' = cands
  BY <1>t, WorldFacts, WorldStep DEF TypeOK
<1>1. CASE Gather \/ \E i \in Window : Probe(i)
  <2>1. Seen' = Seen /\ UNCHANGED <<cands, base, pos, best, result>> /\ Window' = Window
    BY <1>1, <1>w DEF Gather, Probe, Window, BatchEnd
  <2>2. phase = "probe" /\ phase' \in {"probe", "scan"}
    BY <1>1 DEF Gather, Probe
  <2>3. phase' = "scan" => answered' = Window'
    BY <1>1, <2>1, <2>2 DEF Gather, Probe
  <2>. QED
    BY <1>t, <2>1, <2>2, <2>3
       DEF SweepInv, Progress, SameAsSequential, Prefix, Absent, IsFirst, best
<1>2. CASE ScanMiss \/ ScanInvalid \/ ScanWeak
  <2>1. /\ Seen' = Seen /\ UNCHANGED <<cands, base, answered, phase>>
        /\ Window' = Window /\ pos' = pos + 1 /\ phase = "scan" /\ pos < Len(cands)
    BY <1>2, <1>w
       DEF ScanMiss, ScanInvalid, ScanWeak, Scanning, Window, BatchEnd
  <2>2. Seen[Current] # "good"
    BY <1>2 DEF ScanMiss, ScanInvalid, ScanWeak
  <2>3. Prefix(Seen)
    BY <1>t, <2>1 DEF Progress
  <2>4. Absent("good", pos + 1, Seen)
    BY <1>t, <2>1, <2>2, <2>3, Extend DEF Prefix, Absent
  <2>5. IsFirst(weak', "weak", pos + 1, Seen)
    <3>1. weak \in Selectors \union {NoSelector} /\ IsFirst(weak, "weak", pos, Seen)
      BY <1>t, <2>3 DEF TypeOK, Prefix
    <3>2. CASE weak' = weak /\ (weak # NoSelector \/ Seen[Current] # "weak")
      BY <1>t, <2>1, <3>1, <3>2, Extend
    <3>3. CASE weak' = Current /\ weak = NoSelector /\ Seen[Current] = "weak"
      BY <1>t, <2>1, <3>1, <3>3, Extend
    <3>. QED
      BY <1>2, <3>2, <3>3 DEF ScanMiss, ScanInvalid, ScanWeak, best
  <2>6. IsFirst(invalid', "invalid", pos + 1, Seen)
    <3>1. /\ invalid \in Selectors \union {NoSelector}
          /\ IsFirst(invalid, "invalid", pos, Seen)
      BY <1>t, <2>3 DEF TypeOK, Prefix
    <3>2. CASE invalid' = invalid /\ (invalid # NoSelector \/ Seen[Current] # "invalid")
      BY <1>t, <2>1, <3>1, <3>2, Extend
    <3>3. CASE invalid' = Current /\ invalid = NoSelector /\ Seen[Current] = "invalid"
      BY <1>t, <2>1, <3>1, <3>3, Extend
    <3>. QED
      BY <1>2, <3>2, <3>3 DEF ScanMiss, ScanInvalid, ScanWeak, best
  <2>7. Prefix(Seen)'
    BY <2>1, <2>4, <2>5, <2>6 DEF Prefix, Absent, IsFirst
  <2>. QED
    BY <1>t, <2>1, <2>7 DEF SweepInv, Progress, SameAsSequential, Absent, IsFirst
<1>3. CASE ScanGood
  <2>1. /\ Seen' = Seen /\ UNCHANGED <<cands, base>> /\ phase' = "done"
        /\ phase = "scan" /\ pos < Len(cands) /\ Seen[Current] = "good"
        /\ result'.state = "good" /\ result'.selector = Current
    BY <1>3, <1>w DEF ScanGood, Return, Scanning
  <2>2. Absent("good", pos, Seen)
    BY <1>t, <2>1 DEF Progress, Prefix
  <2>3. IsFirst(Current, "good", pos + 1, Seen) /\ Current # NoSelector
    BY <1>t, <1>w, <2>1, <2>2, Extend, WorldFacts DEF Absent, Current
  <2>4. IsFirst(Current, "good", Len(cands), Seen)
    BY <1>w, <2>1, <2>3 DEF IsFirst
  <2>5. IsSequential(result, Seen)'
    BY <2>1, <2>3, <2>4 DEF IsSequential, IsFirst
  <2>. QED
    BY <1>t, <2>1, <2>5 DEF SweepInv, Progress, SameAsSequential, Absent, IsFirst
<1>4. CASE NextBatch
  <2>1. /\ Seen' = Seen /\ UNCHANGED <<cands, best, pos>> /\ phase' = "probe"
        /\ phase = "scan" /\ base' = base + Batch /\ pos = BatchEnd
        /\ base + Batch < Len(cands)
    BY <1>4, <1>w DEF NextBatch
  <2>2. pos = base'
    BY <2>1, <1>w, SweepAssumption DEF BatchEnd, LowerOf
  <2>3. Prefix(Seen)
    BY <1>t, <2>1 DEF Progress
  <2>. QED
    BY <1>t, <2>1, <2>2, <2>3
       DEF SweepInv, Progress, SameAsSequential, Prefix, Absent, IsFirst, best
<1>5. CASE Settle
  <2>1. /\ Seen' = Seen /\ UNCHANGED <<cands, base>> /\ phase' = "done"
        /\ phase = "scan" /\ result' = Settled /\ pos = Len(cands)
    BY <1>5, <1>w, <1>t, WorldFacts DEF Settle, Return
  <2>2. Prefix(Seen)
    BY <1>t, <2>1 DEF Progress
  <2>3. \A n \in Nat : \A k : IsFirst(NoSelector, k, n, Seen) <=> Absent(k, n, Seen)
    BY DEF Absent
  <2>4. IsSequential(Settled, Seen)
    BY <2>1, <2>2, <2>3, <1>w DEF Prefix, Settled, IsSequential, Kinds
  <2>5. IsSequential(result, Seen)'
    BY <2>1, <2>4 DEF IsSequential, Absent, IsFirst
  <2>. QED
    BY <1>t, <2>1, <2>5 DEF SweepInv, Progress, SameAsSequential, Absent, IsFirst
<1>6. CASE Finished \/ UNCHANGED vars
  <2>1. UNCHANGED vars /\ Seen' = Seen
    BY <1>6, <1>w DEF Finished
  <2>. QED
    BY <1>t, <2>1 DEF vars, world, best, SweepInv, Progress, SameAsSequential, Window,
       BatchEnd, Prefix, IsSequential, Absent, IsFirst
<1>. QED
  BY <1>1, <1>2, <1>3, <1>4, <1>5, <1>6 DEF Next, Scan

LEMMA SweepInit == Init => SweepInv
<1>. SUFFICES ASSUME Init PROVE SweepInv
  OBVIOUS
<1>1. TypeOK
  BY TypingInit
<1>. QED
  BY <1>1 DEF Init, SweepInv, Progress, Prefix, Absent, IsFirst, SameAsSequential

LEMMA SweepInvariant == Spec => []SweepInv
BY SweepInit, SweepStep, PTL DEF Spec

(* The sweep returns what a sequential scan of the candidates would, for   *)
(* every order in which the probes of its batches end.                     *)
THEOREM BatchesAreSequential == Spec => []SameAsSequential
<1>1. SweepInv => SameAsSequential
  BY DEF SweepInv
<1>. QED
  BY <1>1, SweepInvariant, PTL

(* No probe is sent a whole batch or more past a candidate with a good     *)
(* key, for any batch size.                                                *)
THEOREM EarlyExit == Spec => []NoBurst
<1>1. SweepInv => NoBurst
  <2>. SUFFICES ASSUME SweepInv, NEW i \in Probed, NEW g \in 1 .. Len(cands),
                       Seen[cands[g]] = "good"
                PROVE  i < g + Batch
    BY DEF NoBurst
  <2>1. TypeOK /\ base \in Nat /\ Absent("good", base, Seen) /\ Batch \in Nat
    BY SweepAssumption DEF SweepInv, TypeOK, Progress
  <2>2. base < g
    BY <2>1 DEF Absent, IsFirst
  <2>3. i \in Nat /\ i <= base + Batch
    BY <2>1, WorldFacts DEF TypeOK, Probed, Window, BatchEnd, LowerOf
  <2>. QED
    BY <2>1, <2>2, <2>3
<1>. QED
  BY <1>1, SweepInvariant, PTL

-----------------------------------------------------------------------------
(* The uncertainty channels, and how much of the world a result rests on.  *)
Charged == ledger = <<>> <=> \A i \in Probed : cands[i] \notin failing

Grounded ==
  phase = "done" =>
    /\ answered = Window
    /\ IF result.state = "good"
       THEN /\ result.selector # NoSelector
            /\ IsFirst(result.selector, "good", BatchEnd, Seen)
       ELSE BatchEnd = Len(cands)

LEMMA ChargedStep == SweepInv /\ Charged /\ [Next]_vars => Charged'
<1>. SUFFICES ASSUME SweepInv, Charged, [Next]_vars
              PROVE  Charged'
  OBVIOUS
<1>t. TypeOK /\ Progress /\ base \in Nat /\ Batch \in Nat \ {0}
  BY SweepAssumption DEF SweepInv, TypeOK
<1>1. ASSUME NEW i \in Window, Probe(i)
      PROVE  Charged'
  <2>1. UNCHANGED <<cands, failing, base>> /\ answered' = answered \union {i}
    BY <1>1 DEF Probe, world
  <2>2. Probed' = Probed \union {i}
    BY <2>1 DEF Probed
  <2>3. CASE cands[i] \in failing
    <3>1. ledger' # <<>>
      BY <1>1, <1>t, <2>3 DEF Probe, TypeOK
    <3>. QED
      BY <2>1, <2>2, <2>3, <3>1 DEF Charged
  <2>4. CASE cands[i] \notin failing
    <3>1. ledger' = ledger
      BY <1>1, <2>4 DEF Probe
    <3>. QED
      BY <2>1, <2>2, <2>4, <3>1 DEF Charged
  <2>. QED
    BY <2>3, <2>4
<1>2. CASE NextBatch
  <2>1. /\ UNCHANGED <<cands, failing, ledger>> /\ answered = Window
        /\ base' = base + Batch /\ answered' = {} /\ BatchEnd = base + Batch
    BY <1>2, <1>t, WorldFacts
       DEF NextBatch, world, Progress, BatchEnd, LowerOf
  <2>2. Probed' = Probed
    BY <1>t, <2>1 DEF Probed, Window
  <2>. QED
    BY <2>1, <2>2 DEF Charged
<1>3. CASE Gather \/ Scan \/ Settle \/ Finished \/ UNCHANGED vars
  BY <1>3 DEF Gather, Scan, ScanMiss, ScanInvalid, ScanWeak, ScanGood, Settle, Return,
     Finished, vars, world, Charged, Probed
<1>. QED
  BY <1>1, <1>2, <1>3 DEF Next

LEMMA GroundedStep == SweepInv /\ Grounded /\ [Next]_vars => Grounded'
<1>. SUFFICES ASSUME SweepInv, Grounded, [Next]_vars
              PROVE  Grounded'
  OBVIOUS
<1>t. TypeOK /\ Progress /\ pos \in Nat /\ BatchEnd \in Nat /\ Seen' = Seen
  BY WorldFacts, WorldStep DEF SweepInv, TypeOK
<1>1. CASE Gather \/ (\E i \in Window : Probe(i)) \/ NextBatch
           \/ ScanMiss \/ ScanInvalid \/ ScanWeak
  <2>1. phase' # "done"
    BY <1>1 DEF Gather, Probe, NextBatch, ScanMiss, ScanInvalid, ScanWeak, Scanning
  <2>. QED
    BY <2>1 DEF Grounded
<1>2. CASE ScanGood
  <2>1. /\ UNCHANGED <<cands, base, answered>> /\ phase = "scan" /\ pos < BatchEnd
        /\ Seen[Current] = "good" /\ result'.state = "good" /\ result'.selector = Current
    BY <1>2, WorldStep DEF ScanGood, Return, Scanning
  <2>2. BatchEnd' = BatchEnd /\ Window' = Window /\ answered = Window
    BY <1>t, <2>1 DEF BatchEnd, Window, Progress
  <2>3. pos < Len(cands) /\ Absent("good", pos, Seen)
    BY <1>t, <2>1, WorldFacts DEF Progress, Prefix
  <2>4. IsFirst(Current, "good", pos + 1, Seen) /\ Current # NoSelector
    BY <1>t, <2>1, <2>3, Extend, WorldFacts DEF Absent, Current
  <2>5. IsFirst(Current, "good", BatchEnd, Seen)
    BY <1>t, <2>1, <2>4 DEF IsFirst
  <2>. QED
    BY <1>t, <2>1, <2>2, <2>4, <2>5 DEF Grounded, IsFirst
<1>3. CASE Settle
  <2>1. UNCHANGED <<cands, base, answered>> /\ phase = "scan" /\ result' = Settled
    BY <1>3, WorldStep DEF Settle, Return
  <2>2. BatchEnd' = BatchEnd /\ Window' = Window /\ answered = Window
    BY <1>t, <2>1 DEF BatchEnd, Window, Progress
  <2>3. BatchEnd = Len(cands) /\ Settled.state # "good"
    BY <1>3, <1>t, WorldFacts DEF Settle, Settled
  <2>. QED
    BY <2>1, <2>2, <2>3 DEF Grounded
<1>4. CASE Finished \/ UNCHANGED vars
  BY <1>4, <1>t DEF Finished, vars, world, Grounded, Window, BatchEnd, IsFirst
<1>. QED
  BY <1>1, <1>2, <1>3, <1>4 DEF Next, Scan

LEMMA EvidenceInvariant == Spec => [](SweepInv /\ Charged /\ Grounded)
<1>1. Init => Charged /\ Grounded
  BY DEF Init, Charged, Grounded, Probed
<1>. QED
  BY <1>1, SweepInit, SweepStep, ChargedStep, GroundedStep, PTL DEF Spec

(* The unconfirmed marker and the ledger disclose the same failures.       *)
THEOREM ChannelsAgree == Spec => []UncertaintyAgrees
<1>1. Charged => UncertaintyAgrees
  BY DEF Charged, UncertaintyAgrees, Marked
<1>. QED
  BY <1>1, EvidenceInvariant, PTL

(* When the ledger charged no failure, the state is the one of the keys    *)
(* that are really published, also of candidates that were not probed.     *)
THEOREM NoisyOrExact == Spec => []ConclusiveIsExact
<1>1. SweepInv /\ Charged /\ Grounded => ConclusiveIsExact
  <2>. SUFFICES ASSUME SweepInv, Charged, Grounded, phase = "done", ledger = <<>>
                PROVE  IsSequential(result, Published)
    BY DEF ConclusiveIsExact
  <2>1. /\ TypeOK /\ IsSequential(result, Seen) /\ answered = Window
        /\ BatchEnd \in Nat /\ BatchEnd <= Len(cands) /\ Len(cands) \in Nat
        /\ base \in Nat
    BY WorldFacts DEF SweepInv, SameAsSequential, Grounded, TypeOK
  <2>2. \A i \in 1 .. BatchEnd : i \in Probed /\ cands[i] \in Selectors
    BY <2>1, WorldFacts DEF Probed, Window
  <2>3. \A i \in 1 .. BatchEnd : Seen[cands[i]] = Published[cands[i]]
    BY <2>2 DEF Charged, Seen, Published
  <2>4. CASE result.state = "good"
    <3>1. result.selector # NoSelector /\ IsFirst(result.selector, "good", BatchEnd, Seen)
      BY <2>4 DEF Grounded
    <3>2. IsFirst(result.selector, "good", BatchEnd, Published)
      BY <2>1, <2>3, <3>1 DEF IsFirst
    <3>3. IsFirst(result.selector, "good", Len(cands), Published)
      BY <2>1, <3>1, <3>2 DEF IsFirst
    <3>. QED
      BY <2>4, <3>1, <3>3 DEF IsSequential
  <2>5. CASE result.state # "good"
    <3>1. BatchEnd = Len(cands)
      BY <2>5 DEF Grounded
    <3>2. ASSUME NEW s, NEW k
          PROVE  IsFirst(s, k, Len(cands), Seen) => IsFirst(s, k, Len(cands), Published)
      BY <2>1, <2>3, <3>1 DEF IsFirst
    <3>. QED
      BY <2>1, <2>5, <3>2 DEF IsSequential, Absent
  <2>. QED
    BY <2>4, <2>5
<1>. QED
  BY <1>1, EvidenceInvariant, PTL
=============================================================================
