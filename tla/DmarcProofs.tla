---------------------------- MODULE DmarcProofs -----------------------------
(***************************************************************************)
(* Theorems of the DMARC part.  DmarcWalk: for names of any length, any    *)
(* registrable domain and any cap.  The invariant says what the ancestors  *)
(* already read hold; a finished walk is determined by what it read: every *)
(* publication that agrees with the answers gives the same verdict.        *)
(* DmarcPolicy and DmarcCheck: for any response codes a resolver may give. *)
(* The contract between the two: a finished walk found and lost what       *)
(* DmarcCheck says discover_dmarc may find and lose.                       *)
(***************************************************************************)
EXTENDS DmarcCheck, DmarcWalk, FiniteSetTheorems, TLAPS

WalkInv ==
  /\ queried \subseteq {labels} \union Ancestors
  /\ stage = "own" => queried = {} /\ above = {} /\ observed = 0
  /\ stage = "walk" =>
       /\ base # 0 /\ Read(labels) = "none" /\ labels \in queried
       /\ at \in 0 .. WalkFrom
       /\ \A n \in Ancestors : n > at =>
            /\ n \in queried
            /\ n >= base => Read(n) = "none"
            /\ n < base => Read(n) \in {"none", "u"}
       /\ above = {n \in Ancestors : n > at /\ n < base /\ Read(n) # "none"}
       /\ IF observed = 0 THEN above = {} ELSE observed \in above

(* Every publication that agrees with the answers read.                    *)
Agrees(rec) == \A n \in queried : rec[n] = Read(n)

Determined ==
  stage = "done" =>
    \A rec \in [1 .. labels -> Contents] : Agrees(rec) => Applies(rec, result)

LEMMA WorldFacts ==
  ASSUME WalkTypeOK
  PROVE  /\ labels \in Nat /\ labels >= 1 /\ base \in Nat
         /\ WalkFrom \in 0 .. labels - 1 /\ WalkFrom <= MaxQueries - 1
         /\ Ancestors \subseteq 1 .. labels /\ labels \notin Ancestors
         /\ at \in Nat
         /\ \A n \in 1 .. labels : Read(n) \in Contents
BY WalkAssumption DEF WalkTypeOK, WalkFrom, LowerOf, Ancestors, Read, Contents, Psd

LEMMA WorldStep ==
  ASSUME [WalkNext]_walkVars
  PROVE  /\ UNCHANGED <<labels, base, holds, failing>>
         /\ Ancestors' = Ancestors /\ WalkFrom' = WalkFrom
         /\ \A n : Read(n)' = Read(n)
<1>1. UNCHANGED <<labels, base, holds, failing>>
  BY DEF WalkNext, OwnRecord, Step, NoRecord, OrganizationalDomain, PublicSuffixDomain,
         ObserveParent, StopAtPsdN, Exhausted, WalkFinished, Return, Ascend, world, walkVars
<1>. QED
  BY <1>1 DEF Ancestors, WalkFrom, Read

LEMMA ReturnType ==
  ASSUME WalkTypeOK, queried' \subseteq 1 .. labels,
         NEW r \in Relationships, NEW n \in 0 .. labels, Return(r, n)
  PROVE  WalkTypeOK'
BY DEF WalkTypeOK, Return, world, Relationships, Inherited

LEMMA WalkTypingStep == WalkTypeOK /\ [WalkNext]_walkVars => WalkTypeOK'
<1>. SUFFICES ASSUME WalkTypeOK, [WalkNext]_walkVars
              PROVE  WalkTypeOK'
  OBVIOUS
<1>. USE DEF WalkTypeOK, world
<1>w. /\ labels \in Nat /\ labels >= 1 /\ WalkFrom \in 0 .. labels - 1
      /\ UNCHANGED <<labels, base, holds, failing>>
  BY WorldFacts, WorldStep
<1>1. CASE OwnRecord
  <2>1. queried' \subseteq 1 .. labels /\ labels \in 0 .. labels
    BY <1>1, <1>w DEF OwnRecord
  <2>2. CASE Return("self", labels) \/ Return("none", 0)
    BY <2>1, <2>2, <1>w, ReturnType DEF Relationships, Inherited
  <2>3. CASE UNCHANGED <<world, above, observed, result>>
             /\ stage' = "walk" /\ at' = WalkFrom
    BY <2>1, <2>3, <1>w
  <2>. QED
    BY <1>1, <2>2, <2>3 DEF OwnRecord
<1>2. CASE NoRecord
  BY <1>2, <1>w DEF NoRecord, Walking, Ascend
<1>3. CASE OrganizationalDomain
  BY <1>3, <1>w DEF OrganizationalDomain, Walking, Return
<1>4. CASE PublicSuffixDomain
  <2>1. at \in 1 .. labels /\ (at + 1 \in above => at + 1 \in 1 .. labels)
    BY <1>4 DEF PublicSuffixDomain, Walking
  <2>. QED
    BY <1>4, <1>w, <2>1 DEF PublicSuffixDomain, Walking, Return
<1>5. CASE ObserveParent
  BY <1>5, <1>w DEF ObserveParent, Walking, Ascend, Observed
<1>6. CASE StopAtPsdN
  BY <1>6, <1>w DEF StopAtPsdN, Walking, Return, Observed
<1>7. CASE Exhausted
  <2>1. queried' \subseteq 1 .. labels
    BY <1>7, <1>w DEF Exhausted
  <2>. QED
    BY <1>7, <2>1, <1>w, ReturnType DEF Exhausted, Relationships, Inherited
<1>8. CASE WalkFinished \/ UNCHANGED walkVars
  BY <1>8 DEF WalkFinished, walkVars
<1>. QED
  BY <1>1, <1>2, <1>3, <1>4, <1>5, <1>6, <1>7, <1>8 DEF WalkNext, Step

(* Types hold for names of any length; among them, the walk never leaves   *)
(* the name's own ancestors.                                               *)
THEOREM WalkTyping == WalkSpec => []WalkTypeOK
<1>1. WalkInit => WalkTypeOK
  BY WalkAssumption DEF WalkInit, WalkTypeOK, NoResult
<1>. QED
  BY <1>1, WalkTypingStep, PTL DEF WalkSpec

-----------------------------------------------------------------------------
LEMMA WalkStart == WalkInit => WalkInv /\ Determined
BY DEF WalkInit, WalkInv, Determined

LEMMA WalkStep == WalkTypeOK /\ WalkInv /\ [WalkNext]_walkVars => WalkInv'
<1>. SUFFICES ASSUME WalkTypeOK, WalkInv, [WalkNext]_walkVars
              PROVE  WalkInv'
  OBVIOUS
<1>w. /\ Ancestors' = Ancestors /\ WalkFrom' = WalkFrom
      /\ labels' = labels /\ base' = base
      /\ \A n : Read(n)' = Read(n)
      /\ labels \notin Ancestors /\ WalkFrom \in Nat /\ at \in Nat
      /\ labels \in Nat /\ base \in Nat
      /\ \A n \in Ancestors : n \in 1 .. WalkFrom /\ Read(n) \in Contents
      /\ \A n \in 1 .. WalkFrom : n \in Ancestors
  BY WorldFacts, WorldStep DEF Ancestors
<1>. USE DEF Contents, Psd
<1>1. CASE OwnRecord
  <2>1. queried' = {labels}
    BY <1>1 DEF OwnRecord, WalkInv
  <2>2. CASE stage' = "done"
    BY <1>w, <2>1, <2>2 DEF WalkInv
  <2>3. CASE stage' = "walk"
    <3>1. /\ base # 0 /\ Read(labels) = "none" /\ at' = WalkFrom
          /\ above' = {} /\ observed' = 0
      BY <1>1, <2>3 DEF OwnRecord, WalkInv, Return
    <3>2. \A n \in Ancestors : ~(n > at')
      BY <1>w, <3>1
    <3>. QED
      BY <1>w, <2>1, <2>3, <3>1, <3>2 DEF WalkInv
  <2>. QED
    BY <1>1, <2>2, <2>3 DEF OwnRecord, Return
<1>2. CASE OrganizationalDomain \/ PublicSuffixDomain \/ StopAtPsdN \/ Exhausted
  <2>1. stage' = "done"
    BY <1>2 DEF OrganizationalDomain, PublicSuffixDomain, StopAtPsdN, Exhausted, Return
  <2>2. queried' \subseteq {labels} \union Ancestors
    <3>1. CASE Exhausted
      BY <3>1 DEF Exhausted, WalkInv
    <3>2. CASE OrganizationalDomain \/ PublicSuffixDomain \/ StopAtPsdN
      <4>1. /\ stage = "walk" /\ at \in 1 .. WalkFrom
            /\ queried' = queried \union {at}
        BY <3>2, <1>w DEF OrganizationalDomain, PublicSuffixDomain, StopAtPsdN, Walking, WalkInv
      <4>. QED
        BY <1>w, <4>1 DEF WalkInv
    <3>. QED
      BY <1>2, <3>1, <3>2
  <2>. QED
    BY <1>w, <2>1, <2>2 DEF WalkInv
<1>3. CASE NoRecord \/ ObserveParent
  <2>1. /\ stage = "walk" /\ stage' = "walk" /\ at \in Ancestors /\ at' = at - 1
        /\ queried' = queried \union {at}
    BY <1>3, <1>w DEF NoRecord, ObserveParent, Walking, Ascend, WalkInv
  <2>2. \A n \in Ancestors : n > at' <=> n > at \/ n = at
    BY <1>w, <2>1
  <2>3. /\ at >= base => Read(at) = "none"
        /\ at < base => Read(at) \in {"none", "u"}
    BY <1>3, <1>w, <2>1 DEF NoRecord, ObserveParent
  <2>4. /\ above' = {n \in Ancestors : n > at' /\ n < base /\ Read(n) # "none"}
        /\ IF observed' = 0 THEN above' = {} ELSE observed' \in above'
    <3>1. CASE NoRecord
      BY <1>w, <2>1, <2>2, <3>1 DEF NoRecord, WalkInv
    <3>2. CASE ObserveParent
      <4>1. at < base /\ Read(at) = "u" /\ above' = above \union {at}
        BY <3>2 DEF ObserveParent
      <4>2. IF observed' = 0 THEN above' = {} ELSE observed' \in above'
        BY <1>w, <2>1, <3>2, <4>1 DEF ObserveParent, Observed, WalkInv
      <4>. QED
        BY <1>w, <2>1, <2>2, <4>1, <4>2 DEF WalkInv
    <3>. QED
      BY <1>3, <3>1, <3>2
  <2>. QED
    BY <1>w, <2>1, <2>2, <2>3, <2>4 DEF WalkInv
<1>4. CASE WalkFinished \/ UNCHANGED walkVars
  BY <1>4, <1>w DEF WalkFinished, walkVars, world, WalkInv
<1>. QED
  BY <1>1, <1>2, <1>3, <1>4 DEF WalkNext, Step

(* The walk reads at most MaxQueries names, the audited one included.      *)
THEOREM EightQueries == WalkSpec => []QueryCap
<1>1. WalkTypeOK /\ WalkInv => QueryCap
  <2>. SUFFICES ASSUME WalkTypeOK, WalkInv PROVE QueryCap
    OBVIOUS
  <2>1. WalkFrom \in Nat /\ WalkFrom <= MaxQueries - 1 /\ MaxQueries \in Nat
    BY WorldFacts, WalkAssumption
  <2>2. IsFiniteSet(Ancestors) /\ Cardinality(Ancestors) = WalkFrom
    BY <2>1, FS_Interval DEF Ancestors
  <2>3. /\ IsFiniteSet(Ancestors \union {labels})
        /\ Cardinality(Ancestors \union {labels}) = WalkFrom + 1
    BY <2>2, WorldFacts, FS_AddElement
  <2>4. queried \subseteq Ancestors \union {labels}
    BY DEF WalkInv
  <2>5. /\ Cardinality(queried) \in Nat
        /\ Cardinality(queried) <= Cardinality(Ancestors \union {labels})
    BY <2>3, <2>4, FS_Subset, FS_CardinalityType
  <2>. QED
    BY <2>1, <2>3, <2>5 DEF QueryCap
<1>. QED
  BY <1>1, WalkStart, WalkStep, WalkTyping, PTL DEF WalkSpec

-----------------------------------------------------------------------------
(* A step that ends the walk: the names read agree with rec, the others do *)
(* not matter.                                                             *)
LEMMA DeterminedStep == WalkTypeOK /\ WalkInv /\ Determined /\ [WalkNext]_walkVars => Determined'
<1>. SUFFICES ASSUME WalkTypeOK, WalkInv, Determined, [WalkNext]_walkVars,
                     stage' = "done",
                     NEW rec \in [1 .. labels -> Contents],
                     \A n \in queried' : rec[n] = Read(n)
              PROVE  Applies(rec, result)'
  BY WorldStep DEF Determined, Agrees
<1>w. /\ Ancestors' = Ancestors /\ labels' = labels /\ base' = base
      /\ labels \in Nat /\ base \in Nat /\ WalkFrom \in Nat /\ at \in Nat
      /\ \A n \in Ancestors : n \in 1 .. WalkFrom
      /\ \A n \in 1 .. WalkFrom : n \in Ancestors
      /\ \A n \in Ancestors : rec[n] \in Contents
  BY WorldFacts, WorldStep DEF Ancestors
<1>a. Applies(rec, result') => Applies(rec, result)'
  BY <1>w DEF Applies, SelfApplies, NoneBelowRoot, OrganizationalAt, DecidedAt, NoResult
<1>. USE DEF Contents, Psd
<1>1. CASE OwnRecord
  <2>1. rec[labels] = Read(labels)
    BY <1>1 DEF OwnRecord
  <2>. QED
    BY <1>1, <1>a, <2>1 DEF OwnRecord, Return, Applies, SelfApplies, NoResult
<1>2. CASE OrganizationalDomain \/ PublicSuffixDomain \/ StopAtPsdN
  <2>1. /\ stage = "walk" /\ at \in Ancestors /\ at \in queried'
        /\ queried' = queried \union {at}
    BY <1>2, <1>w DEF OrganizationalDomain, PublicSuffixDomain, StopAtPsdN, Walking, WalkInv
  <2>2. /\ ~SelfApplies(rec) /\ base # 0 /\ rec[at] = Read(at)
        /\ \A n \in Ancestors : n > at =>
             /\ rec[n] = Read(n)
             /\ n >= base => rec[n] = "none"
             /\ n < base => rec[n] \in {"none", "u"}
    BY <2>1 DEF WalkInv, SelfApplies
  <2>3. CASE OrganizationalDomain
    <3>1. result' = [relationship |-> "organizational", source |-> at]
          /\ at >= base /\ rec[at] # "none"
      BY <2>2, <2>3 DEF OrganizationalDomain, Return
    <3>2. OrganizationalAt(rec, at) /\ ~NoneBelowRoot(rec)
      BY <1>w, <2>1, <2>2, <3>1 DEF OrganizationalAt, NoneBelowRoot
    <3>. QED
      BY <1>a, <2>2, <3>1, <3>2 DEF Applies
  <2>4. CASE PublicSuffixDomain
    <3>1. /\ result' = [relationship |-> "psd",
                        source |-> IF at + 1 \in above THEN at + 1 ELSE at]
          /\ at < base /\ rec[at] = "y"
      BY <2>2, <2>4 DEF PublicSuffixDomain, Return
    <3>2. NoneBelowRoot(rec) /\ DecidedAt(rec, at, "y")
      BY <1>w, <2>1, <2>2, <3>1 DEF NoneBelowRoot, DecidedAt
    <3>3. at + 1 \in above <=>
            at + 1 \in Ancestors /\ at + 1 < base /\ rec[at + 1] # "none"
      BY <1>w, <2>1, <2>2 DEF WalkInv
    <3>. QED
      BY <1>a, <2>1, <2>2, <3>1, <3>2, <3>3 DEF Applies
  <2>5. CASE StopAtPsdN
    <3>1. /\ result' = [relationship |-> "parent_observation", source |-> Observed]
          /\ at < base /\ rec[at] = "n"
      BY <2>2, <2>5 DEF StopAtPsdN, Return
    <3>2. NoneBelowRoot(rec)
      BY <1>w, <2>1, <2>2, <3>1 DEF NoneBelowRoot
    <3>3. ~\E n \in Ancestors : DecidedAt(rec, n, "y")
      BY <1>w, <2>1, <2>2, <3>1 DEF DecidedAt
    <3>. QED
      BY <1>a, <2>1, <2>2, <3>1, <3>2, <3>3 DEF Applies
  <2>. QED
    BY <1>2, <2>3, <2>4, <2>5
<1>3. CASE Exhausted
  <2>1. stage = "walk" /\ at = 0 /\ queried' = queried
    BY <1>3 DEF Exhausted
  <2>2. /\ ~SelfApplies(rec) /\ base # 0
        /\ \A n \in Ancestors :
             /\ rec[n] = Read(n)
             /\ n >= base => rec[n] = "none"
             /\ n < base => rec[n] \in {"none", "u"}
    BY <1>w, <2>1 DEF WalkInv, SelfApplies
  <2>3. NoneBelowRoot(rec) /\ ~\E n \in Ancestors : DecidedAt(rec, n, "y")
    BY <2>2 DEF NoneBelowRoot, DecidedAt
  <2>4. observed = 0 <=> \A n \in Ancestors : rec[n] = "none"
    BY <1>w, <2>1, <2>2 DEF WalkInv
  <2>5. result'.relationship = IF observed = 0 THEN "none" ELSE "parent_observation"
    BY <1>3 DEF Exhausted, Return
  <2>. QED
    BY <1>a, <2>2, <2>3, <2>4, <2>5 DEF Applies
<1>4. CASE NoRecord \/ ObserveParent
  BY <1>4 DEF NoRecord, ObserveParent, Walking, Ascend
<1>5. CASE WalkFinished \/ UNCHANGED walkVars
  <2>1. stage = "done" /\ result' = result /\ queried' = queried
    BY <1>5 DEF WalkFinished, walkVars
  <2>. QED
    BY <1>a, <2>1 DEF Determined, Agrees
<1>. QED
  BY <1>1, <1>2, <1>3, <1>4, <1>5 DEF WalkNext, Step

LEMMA WalkInvariant == WalkSpec => [](WalkTypeOK /\ WalkInv /\ Determined)
BY WalkStart, WalkStep, DeterminedStep, WalkTyping, PTL DEF WalkSpec

(* The policy found is the one that SPEC.md's rule, RFC 9989's walk        *)
(* bounded by the PSL, derives from the answers.                           *)
THEOREM WalkFollowsRfc == WalkSpec => []FollowsRfc
<1>1. WalkTypeOK /\ WalkInv /\ Determined => FollowsRfc
  <2>. SUFFICES ASSUME WalkTypeOK, WalkInv, Determined, stage = "done"
                PROVE  Applies(Answered, result)
    BY DEF FollowsRfc
  <2>1. Answered \in [1 .. labels -> Contents]
    BY WorldFacts DEF Answered
  <2>2. \A n \in queried : n \in 1 .. labels
    BY DEF WalkTypeOK
  <2>3. Agrees(Answered)
    BY <2>2 DEF Agrees, Answered
  <2>. QED
    BY <2>1, <2>3 DEF Determined
<1>. QED
  BY <1>1, WalkInvariant, PTL

(* With a clean ledger the verdict is the one of the records published,    *)
(* whatever the names that were not read hold.                             *)
THEOREM CleanLedgerIsTrue == WalkSpec => []ConclusiveIsTrue
<1>1. WalkTypeOK /\ Determined => ConclusiveIsTrue
  <2>. SUFFICES ASSUME WalkTypeOK, Determined, stage = "done", Charged = {}
                PROVE  Applies(holds, result)
    BY DEF ConclusiveIsTrue
  <2>1. Agrees(holds)
    BY DEF Agrees, Charged, Read
  <2>. QED
    BY <2>1 DEF Determined, WalkTypeOK
<1>. QED
  BY <1>1, WalkInvariant, PTL

(* No record above the registrable domain governs without psd=y.           *)
THEOREM RootIsRespected == WalkSpec => []NoPolicyAcrossRoot
<1>1. WalkTypeOK /\ FollowsRfc => NoPolicyAcrossRoot
  <2>. SUFFICES ASSUME WalkTypeOK, FollowsRfc, stage = "done",
                       result.relationship \in {"organizational", "psd"}
                PROVE  \/ result.source >= base
                       \/ holds[result.source] = "y"
                       \/ result.source > 1 /\ holds[result.source - 1] = "y"
    BY DEF NoPolicyAcrossRoot
  <2>1. CASE result.relationship = "organizational"
    BY <2>1 DEF FollowsRfc, Applies, OrganizationalAt, NoResult
  <2>2. CASE result.relationship = "psd"
    <3>1. PICK n \in Ancestors : DecidedAt(Answered, n, "y")
                                 /\ result.source \in {n, n + 1}
      BY <2>2 DEF FollowsRfc, Applies, NoResult
    <3>2. n \in 1 .. labels /\ n \in Nat
      BY <3>1, WorldFacts
    <3>3. holds[n] = "y"
      BY <3>1, <3>2 DEF DecidedAt, Answered, Read
    <3>. QED
      BY <3>1, <3>2, <3>3
  <2>. QED
    BY <2>1, <2>2
<1>. QED
  BY <1>1, WalkTyping, WalkFollowsRfc, PTL

-----------------------------------------------------------------------------
(* The relationship the records rec establish.                             *)
Establishes(rec) ==
  IF SelfApplies(rec) THEN "self"
  ELSE IF base = 0 THEN "none"
  ELSE IF ~NoneBelowRoot(rec) THEN "organizational"
  ELSE IF \E n \in Ancestors : DecidedAt(rec, n, "y") THEN "psd"
  ELSE IF \A n \in Ancestors : rec[n] = "none" THEN "none"
  ELSE "parent_observation"

(* The losses check_dmarc's ledger tells apart.                            *)
Losses ==
  (IF labels \in Charged THEN {"own"} ELSE {})
    \union (IF Charged \subseteq {labels} THEN {} ELSE {"ancestor"})

(* The own name is read first, and the ancestors only without a record.    *)
OwnFirst ==
  /\ stage = "own" => queried = {}
  /\ stage # "own" => labels \in queried
  /\ queried \subseteq {labels} \/ Read(labels) = "none"

(* What DmarcCheck's Discover assumes of the walk.                         *)
WalkContract ==
  stage = "done" =>
    /\ MayLose(Establishes(holds), Losses)
    /\ result.relationship \in MayFind(Establishes(holds), Losses)

LEMMA AppliesEstablishes ==
  ASSUME NEW rec, NEW res, Applies(rec, res)
  PROVE  res.relationship = Establishes(rec)
BY DEF Applies, Establishes, NoResult

LEMMA OwnFirstStep == WalkInv /\ OwnFirst /\ [WalkNext]_walkVars => OwnFirst'
<1>. SUFFICES ASSUME WalkInv, OwnFirst, [WalkNext]_walkVars
              PROVE  OwnFirst'
  OBVIOUS
<1>w. labels' = labels /\ Read(labels)' = Read(labels)
  BY WorldStep
<1>1. CASE OwnRecord
  BY <1>1, <1>w DEF OwnFirst, OwnRecord, Return
<1>2. CASE Step \/ Exhausted
  <2>1. stage = "walk" /\ stage' # "own" /\ queried \subseteq queried'
    BY <1>2 DEF Step, NoRecord, OrganizationalDomain, PublicSuffixDomain, ObserveParent,
                StopAtPsdN, Exhausted, Walking, Return, Ascend
  <2>. QED
    BY <2>1, <1>w DEF WalkInv, OwnFirst
<1>3. CASE WalkFinished \/ UNCHANGED walkVars
  BY <1>3, <1>w DEF WalkFinished, walkVars, OwnFirst
<1>. QED
  BY <1>1, <1>2, <1>3 DEF WalkNext

(* discover_dmarc keeps the contract check_dmarc's model assumes: what it  *)
(* finds is what the published records establish, unless a lookup it lost  *)
(* explains the difference; and an ancestor's lookup is lost only where    *)
(* the own name showed no record.                                          *)
THEOREM WalkKeepsContract == WalkSpec => []WalkContract
<1>1. ASSUME WalkTypeOK, Determined, OwnFirst, FollowsRfc, stage = "done"
      PROVE  /\ MayLose(Establishes(holds), Losses)
             /\ result.relationship \in MayFind(Establishes(holds), Losses)
  <2>. USE <1>1
  <2>1. labels \in queried /\ (Establishes(holds) = "self" <=> holds[labels] # "none")
    BY DEF OwnFirst, Establishes, SelfApplies
  <2>2. result.relationship = Establishes(Answered) /\ Answered[labels] = Read(labels)
    BY WorldFacts, AppliesEstablishes DEF FollowsRfc, Answered
  <2>3. CASE "ancestor" \in Losses
    <3>1. Read(labels) = "none"
      BY <2>3 DEF Losses, Charged, OwnFirst
    <3>2. holds[labels] = "none" \/ "own" \in Losses
      BY <2>1, <3>1 DEF Read, Losses, Charged
    <3>3. result.relationship \in Inherited
      BY <2>2, <3>1 DEF Establishes, SelfApplies, Inherited
    <3>. QED
      BY <2>1, <2>3, <3>2, <3>3 DEF MayLose, MayFind
  <2>4. CASE "ancestor" \notin Losses
    <3>1. \A n \in queried : n # labels => n \notin failing
      BY <2>4 DEF Losses, Charged
    <3>2. CASE "own" \in Losses /\ Establishes(holds) = "self"
      <4>1. Read(labels) = "none"
        BY <3>2 DEF Losses, Charged, Read
      <4>2. result.relationship \in Inherited
        BY <2>2, <4>1 DEF Establishes, SelfApplies, Inherited
      <4>. QED
        BY <2>4, <3>2, <4>2 DEF MayLose, MayFind
    <3>3. CASE ~("own" \in Losses /\ Establishes(holds) = "self")
      <4>1. holds[labels] = Read(labels)
        BY <2>1, <3>3 DEF Losses, Charged, Read
      <4>2. Agrees(holds)
        BY <3>1, <4>1 DEF Agrees, Read
      <4>3. result.relationship = Establishes(holds)
        BY <4>2, AppliesEstablishes DEF Determined, WalkTypeOK
      <4>. QED
        BY <2>4, <3>3, <4>3 DEF MayLose, MayFind
    <3>. QED
      BY <3>2, <3>3
  <2>. QED
    BY <2>3, <2>4
<1>2. WalkInit => OwnFirst
  BY DEF WalkInit, OwnFirst
<1>3. WalkSpec => [](WalkInv /\ OwnFirst)
  BY <1>2, OwnFirstStep, WalkInvariant, PTL DEF WalkSpec
<1>. QED
  BY <1>1, <1>3, WalkInvariant, WalkFollowsRfc, PTL DEF WalkContract

-----------------------------------------------------------------------------
(* What the existence lookup concluded is the truth, and a finished        *)
(* resolution is the governing policy or the weaker of the two.            *)
PolicyInv ==
  /\ TypeOK
  /\ existence = "yes" => really
  /\ existence = "no" => ~really
  /\ phase = "done" =>
       LET policy == _dmarc_policy_for_existence
       IN  effective = policy.value /\ tag = policy.tag /\ rule = RuleFor(policy.value)

LEMMA PreferredType ==
  ASSUME TypeOK, NEW t \in {"sp", "np"}
  PROVE  Preferred(t) \in [value : Values, tag : {"p", "sp", "np"}]
BY DEF TypeOK, Preferred

LEMMA PolicyType ==
  ASSUME TypeOK
  PROVE  _dmarc_policy_for_existence \in [value : Values, tag : {"p", "sp", "np"}]
<1>1. \A a, b : Weaker(a, b) \in {a, b}
  BY DEF Weaker
<1>. QED
  BY <1>1, PreferredType DEF _dmarc_policy_for_existence

LEMMA WeakerBelow ==
  ASSUME NEW a, NEW b
  PROVE  /\ Strength(Weaker(a, b).value) <= Strength(a.value)
         /\ Strength(Weaker(a, b).value) <= Strength(b.value)
<1>1. Strength(a.value) \in 0 .. 3 /\ Strength(b.value) \in 0 .. 3
  BY DEF Strength
<1>. QED
  BY <1>1 DEF Weaker

LEMMA PolicyInit == Init => PolicyInv
BY DEF Init, PolicyInv, TypeOK, Values

LEMMA PolicyStep == PolicyInv /\ [Next]_vars => PolicyInv'
<1>. SUFFICES ASSUME PolicyInv, [Next]_vars
              PROVE  PolicyInv'
  OBVIOUS
<1>1. ASSUME NEW status \in Statuses, NEW exhausted \in BOOLEAN,
             Exists(status, exhausted)
      PROVE  PolicyInv'
  <2>. DEFINE answer == dmarc_domain_exists(NormalizedMeta(status, exhausted))
  <2>1. /\ answer \in {"yes", "no", "unknown"}
        /\ answer = "yes" => status = "NOERROR"
        /\ answer = "no" => status = "NXDOMAIN"
    BY DEF dmarc_domain_exists, NormalizedMeta
  <2>. HIDE DEF answer
  <2>2. existence' = answer /\ phase' = "policy"
        /\ UNCHANGED <<tags, really, effective, tag, rule>> /\ Truthful(status)
    BY <1>1 DEF Exists, answer
  <2>. QED
    BY <2>1, <2>2 DEF PolicyInv, TypeOK, Truthful
<1>2. CASE Resolve
  <2>1. PolicyInv /\ UNCHANGED <<tags, really, existence>> /\ phase' = "done"
    BY <1>2 DEF Resolve
  <2>2. _dmarc_policy_for_existence' = _dmarc_policy_for_existence
    BY <2>1 DEF _dmarc_policy_for_existence, Preferred, Weaker
  <2>3. /\ effective' = _dmarc_policy_for_existence.value
        /\ tag' = _dmarc_policy_for_existence.tag
        /\ rule' = RuleFor(_dmarc_policy_for_existence.value)
    BY <1>2 DEF Resolve
  <2>4. TypeOK'
    <3>1. rule' \in {"dmarc.inherited_enforced", "dmarc.inherited_not_enforced"}
      BY <2>3 DEF RuleFor
    <3>. QED
      BY <2>1, <2>3, <3>1, PolicyType DEF PolicyInv, TypeOK
  <2>. QED
    BY <2>1, <2>2, <2>3, <2>4 DEF PolicyInv
<1>3. CASE Finished \/ UNCHANGED vars
  BY <1>3 DEF Finished, vars, PolicyInv, TypeOK, _dmarc_policy_for_existence,
              Preferred, Weaker
<1>. QED
  BY <1>1, <1>2, <1>3 DEF Next

LEMMA PolicyInvariant == Spec => []PolicyInv
BY PolicyInit, PolicyStep, PTL DEF Spec

(* A failed existence lookup never makes the audit report more protection  *)
(* than a receiver that knows the name would apply.                        *)
THEOREM FailureNeverOverstates == Spec => []NeverOverstated
<1>1. PolicyInv => NeverOverstated
  <2>. SUFFICES ASSUME PolicyInv, phase = "done"
                PROVE  /\ Strength(effective) <= Strength(Governing.value)
                       /\ rule = "dmarc.inherited_enforced"
                            => Strength(Governing.value) >= 2
    BY DEF NeverOverstated
  <2>1. Strength(effective) \in 0 .. 3 /\ Strength(Governing.value) \in 0 .. 3
    BY DEF Strength
  <2>2. Strength(effective) <= Strength(Governing.value)
    <3>1. CASE existence \in {"yes", "no"}
      <4>1. effective = Governing.value
        BY <3>1 DEF PolicyInv, _dmarc_policy_for_existence, Governing
      <4>. QED
        BY <2>1, <4>1
    <3>2. CASE existence = "unknown"
      BY <3>2, WeakerBelow DEF PolicyInv, _dmarc_policy_for_existence, Governing
    <3>. QED
      BY <3>1, <3>2 DEF PolicyInv, TypeOK
  <2>3. rule = "dmarc.inherited_enforced" => Strength(effective) >= 2
    BY DEF PolicyInv, RuleFor, Strength
  <2>. QED
    BY <2>1, <2>2, <2>3
<1>. QED
  BY <1>1, PolicyInvariant, PTL

(* An authoritative existence lookup gives the governing policy and its    *)
(* tag, whatever the other tags say.                                       *)
THEOREM AuthorityDecides == Spec => []KnownIsExact
<1>1. PolicyInv => KnownIsExact
  BY DEF PolicyInv, TypeOK, KnownIsExact, _dmarc_policy_for_existence, Governing
<1>. QED
  BY <1>1, PolicyInvariant, PTL

-----------------------------------------------------------------------------
(* check_dmarc resolves the policy the way DmarcPolicy does: its steps are *)
(* steps of DmarcPolicy or leave its variables alone.                      *)
THEOREM CheckRefinesPolicy == CheckSpec => Spec
<1>1. CheckInit => Init
  BY DEF CheckInit
<1>2. [CheckNext]_checkVars => [Next]_vars
  <2>. SUFFICES ASSUME [CheckNext]_checkVars
                PROVE  [Next]_vars
    OBVIOUS
  <2>1. ASSUME NEW status \in Statuses, NEW exhausted \in BOOLEAN,
               Existence(status, exhausted)
        PROVE  Next
    BY <2>1 DEF Existence, Next
  <2>2. CASE PublicSuffix
    BY <2>2 DEF PublicSuffix, Next
  <2>3. CASE UNCHANGED vars
    BY <2>3
  <2>4. [CheckNext]_checkVars =>
          \/ \E status \in Statuses, exhausted \in BOOLEAN : Existence(status, exhausted)
          \/ PublicSuffix
          \/ UNCHANGED vars
    BY DEF CheckNext, checkVars, CheckDone, Discover, NoPolicy, Organizational, OwnPolicy
  <2>. QED
    BY <2>1, <2>2, <2>3, <2>4
<1>. QED
  BY <1>1, <1>2, PTL DEF CheckSpec, Spec

(* So a check never overstates the protection either.                      *)
THEOREM CheckNeverOverstates == CheckSpec => [](NeverOverstated /\ KnownIsExact)
BY CheckRefinesPolicy, FailureNeverOverstates, AuthorityDecides, PTL

-----------------------------------------------------------------------------
(* What the walk found differs from what is published only by a lookup     *)
(* that was lost, and what is reported follows from what was found.        *)
Found ==
  /\ applies \in Relationships
  /\ relationship \in Relationships \union {"unread"}
  /\ relationship # "unread" /\ lost \intersect {"own", "ancestor"} = {} =>
       relationship = applies
  /\ relationship # "unread" /\ "own" \notin lost =>
       (relationship = "self" <=> applies = "self")
  /\ relationship = "self" => lost \intersect {"own", "ancestor"} = {}

Asked ==
  /\ relationship # "psd" => phase = "lookup"
  /\ phase # "lookup" /\ "existence" \notin lost => existence # "unknown"
  /\ F # {} /\ relationship = "psd" => phase = "done" /\ F = {rule}

Told ==
  /\ relationship = "unread" => F = {}
  /\ F # {} /\ relationship = "none" => F = {"dmarc.missing"}
  /\ F # {} /\ relationship = "parent_observation" =>
       F = {"dmarc.missing", "dmarc.parent_observed"}
  /\ F # {} /\ relationship = "organizational" => F = {RuleFor(Preferred("sp").value)}
  /\ F # {} /\ relationship = "self" =>
       \E unauth :
         /\ F = OwnRules(record, unauth)
         /\ "report" \notin lost => unauth = dests \intersect {"unauthorized"}

CheckInv == PolicyInv /\ Found /\ Asked /\ Told

LEMMA CheckStart == CheckInit => CheckInv
<1>. SUFFICES ASSUME CheckInit
              PROVE  CheckInv
  OBVIOUS
<1>1. PolicyInv
  BY PolicyInit DEF CheckInit
<1>2. Found /\ Asked /\ Told
  BY DEF CheckInit, Init, Found, Asked, Told, Relationships
<1>. QED
  BY <1>1, <1>2 DEF CheckInv

LEMMA CheckStep == CheckInv /\ [CheckNext]_checkVars /\ PolicyInv' => CheckInv'
<1>. SUFFICES ASSUME CheckInv, [CheckNext]_checkVars, PolicyInv'
              PROVE  Found' /\ Asked' /\ Told'
  BY DEF CheckInv
<1>1. ASSUME NEW losses \in SUBSET {"own", "ancestor"}, Discover(losses)
      PROVE  Found' /\ Asked' /\ Told'
  <2>1. Found'
    BY <1>1 DEF CheckInv, Found, Discover, MayLose, MayFind, Relationships, Inherited
  <2>2. Asked' /\ Told'
    BY <1>1 DEF CheckInv, Asked, Told, Discover, vars
  <2>. QED
    BY <2>1, <2>2
<1>2. CASE NoPolicy
  BY <1>2 DEF CheckInv, Found, Asked, Told, NoPolicy, Report, vars
<1>3. CASE Organizational
  BY <1>3 DEF CheckInv, Found, Asked, Told, Organizational, Report, vars, Preferred
<1>4. ASSUME NEW status \in Statuses, NEW exhausted \in BOOLEAN,
             Existence(status, exhausted)
      PROVE  Found' /\ Asked' /\ Told'
  <2>1. "existence" \notin lost' => existence' # "unknown"
    BY <1>4 DEF Existence, Exists, dmarc_domain_exists, NormalizedMeta, Authoritative
  <2>2. /\ relationship = "psd" /\ phase = "lookup" /\ UNCHANGED <<found, F>>
        /\ lost' \in {lost, lost \union {"existence"}}
    BY <1>4 DEF Existence, Exists
  <2>. QED
    BY <2>1, <2>2 DEF CheckInv, Found, Asked, Told, found
<1>5. CASE PublicSuffix
  <2>1. /\ relationship = "psd" /\ phase = "policy" /\ phase' = "done"
        /\ F' = {rule'} /\ UNCHANGED <<applies, relationship, record, dests, lost, existence>>
    BY <1>5 DEF PublicSuffix, Resolve, Report
  <2>. QED
    BY <2>1 DEF CheckInv, Found, Asked, Told
<1>6. ASSUME NEW rec \in OwnRecords, NEW to \in SUBSET Destinations, NEW failed \in BOOLEAN,
             OwnPolicy(rec, to, failed)
      PROVE  Found' /\ Asked' /\ Told'
  <2>1. /\ relationship = "self" /\ record' = rec /\ dests' = to /\ UNCHANGED vars
        /\ lost' = IF failed THEN lost \union {"report"} ELSE lost
        /\ F' = OwnRules(rec, Unauthorized(to, failed))
        /\ UNCHANGED <<applies, relationship>>
    BY <1>6 DEF OwnPolicy, Report
  <2>2. OwnRules(rec, Unauthorized(to, failed))' = OwnRules(rec, Unauthorized(to, failed))
    BY <2>1 DEF OwnRules, Enforcing, vars, Unauthorized
  <2>3. "report" \notin lost' => Unauthorized(to, failed) = to \intersect {"unauthorized"}
    BY <2>1 DEF Unauthorized
  <2>4. Found' /\ Asked'
    BY <2>1 DEF CheckInv, Found, Asked, vars
  <2>5. Told'
    BY <2>1, <2>2, <2>3 DEF Told
  <2>. QED
    BY <2>4, <2>5
<1>7. CASE UNCHANGED checkVars
  BY <1>7 DEF CheckInv, Found, Asked, Told, checkVars, found, vars, Preferred, OwnRules,
              Enforcing
<1>. QED
  BY <1>1, <1>2, <1>3, <1>4, <1>5, <1>6, <1>7 DEF CheckNext, CheckDone

LEMMA CheckInvariant == CheckSpec => []CheckInv
<1>1. CheckInv /\ [CheckNext]_checkVars /\ PolicyInv' => CheckInv'
  BY CheckStep
<1>2. CheckSpec => []PolicyInv
  BY CheckRefinesPolicy, PolicyInvariant, PTL
<1>. QED
  BY <1>1, <1>2, CheckStart, PTL DEF CheckSpec

(* A DMARC rule that is conclusive is reported exactly when the published  *)
(* records make it true, and no marked finding is conclusive.              *)
THEOREM LedgerTellsTheTruth == CheckSpec => []LedgerIsTrue
<1>1. ASSUME CheckInv, KnownIsExact, F # {}, NEW rule_id, Conclusive(rule_id),
             rule_id \in _DMARC_OWN_RULES \union FarRules
      PROVE  rule_id \in F <=> rule_id \in Truth
  <2>. USE <1>1 DEF CheckInv
  <2>1. "own" \notin lost
    BY DEF Conclusive, Inputs, FarRules, _DMARC_OWN_RULES
  <2>2. CASE rule_id \in FarRules
    <3>1. "ancestor" \notin lost /\ "existence" \notin lost /\ relationship = applies
      BY <2>1, <2>2 DEF Conclusive, Inputs, FarRules, Found, Told
    <3>2. CASE applies = "self"
      BY <2>2, <3>1, <3>2 DEF Told, Truth, OwnRules, FarRules, _DMARC_OWN_RULES
    <3>3. CASE applies = "psd"
      BY <3>1, <3>3 DEF Asked, Truth, KnownIsExact, PolicyInv
    <3>4. CASE applies \in {"none", "parent_observation", "organizational"}
      BY <3>1, <3>4 DEF Told, Truth
    <3>. QED
      BY <3>2, <3>3, <3>4 DEF Found, Relationships, Inherited
  <2>3. CASE rule_id \in _DMARC_OWN_RULES
    <3>1. CASE relationship = "self"
      <4>1. applies = "self"
        BY <2>1, <3>1 DEF Found
      <4>2. PICK unauth :
              /\ F = OwnRules(record, unauth)
              /\ "report" \notin lost => unauth = dests \intersect {"unauthorized"}
        BY <3>1 DEF Told
      <4>3. CASE rule_id = "dmarc.unauthorized_report_destination"
        <5>1. "report" \notin lost
          <6>1. Inputs(rule_id) = {"own", "report"}
            BY <4>3 DEF Inputs, FarRules
          <6>. QED
            BY <6>1 DEF Conclusive
        <5>2. Truth = OwnRules(record, dests \intersect {"unauthorized"})
          BY <4>1 DEF Truth
        <5>. QED
          BY <4>2, <5>1, <5>2
      <4>4. CASE rule_id # "dmarc.unauthorized_report_destination"
        BY <2>3, <4>1, <4>2, <4>4 DEF OwnRules, Truth, _DMARC_OWN_RULES
      <4>. QED
        BY <4>3, <4>4
    <3>2. CASE relationship # "self"
      <4>1. applies # "self" /\ relationship \in Inherited
        BY <2>1, <3>2 DEF Found, Told, Relationships
      <4>2. \A value : RuleFor(value) \in FarRules
        BY DEF RuleFor, FarRules
      <4>3. F \subseteq FarRules
        BY <4>1, <4>2 DEF Told, Asked, PolicyInv, Inherited, FarRules
      <4>4. Truth \subseteq FarRules
        BY <4>1, <4>2 DEF Found, Truth, Relationships, Inherited, FarRules
      <4>. QED
        BY <2>3, <4>3, <4>4 DEF FarRules, _DMARC_OWN_RULES
    <3>. QED
      BY <3>1, <3>2
  <2>. QED
    BY <2>2, <2>3
<1>2. ASSUME NEW rule_id \in Unconfirmed
      PROVE  ~Conclusive(rule_id)
  BY DEF Unconfirmed, Conclusive, Inputs, FarRules
<1>3. CheckInv /\ KnownIsExact => LedgerIsTrue
  BY <1>1, <1>2 DEF LedgerIsTrue
<1>. QED
  BY <1>3, CheckInvariant, CheckNeverOverstates, PTL
=============================================================================
