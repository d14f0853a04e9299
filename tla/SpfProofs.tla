------------------------------ MODULE SpfProofs ------------------------------
(***************************************************************************)
(* Theorems of SpfCheck and SpfReceiver, for any names, include graphs,    *)
(* limits and losses.                                                      *)
(***************************************************************************)
EXTENDS SpfReceiver, SequenceTheorems, FiniteSetTheorems, WellFoundedInduction, TLAPS

(* The order of the numbers, as the library's relation.                    *)
LEMMA Below == OpToRel(<, Nat) = {ss \in Nat \X Nat : ss[1] < ss[2]}
BY Zenon DEF OpToRel

(* A nonempty set of positions has a first one.                            *)
LEMMA FirstIn ==
  ASSUME NEW S \in SUBSET Nat, S # {}
  PROVE  FirstOf(S) \in S
<1>1. \E m \in S : \A y \in S : <<y, m>> \notin OpToRel(<, Nat)
  BY NatLessThanWellFounded, WFMin
<1>2. PICK m \in S : \A y \in S : <<y, m>> \notin {ss \in Nat \X Nat : ss[1] < ss[2]}
  BY <1>1, Below, Zenon
<1>3. \A y \in S : ~(<<y, m>>[1] < <<y, m>>[2])
  BY <1>2, Zenon
<1>4. \A y \in S : m <= y
  BY <1>3
<1>. QED
  BY <1>4 DEF FirstOf

LEMMA QualifierType ==
  ASSUME NEW rec \in Seq(Terms)
  PROVE  spf_qualifier(rec) \in Qualifiers \union {None}
<1>. DEFINE hits == IndexOf(rec, LooksLikeAll)
<1>1. hits \subseteq DOMAIN rec /\ DOMAIN rec \subseteq Nat
  BY DEF IndexOf
<1>2. CASE hits = {}
  BY <1>2 DEF spf_qualifier
<1>3. CASE hits # {}
  <2>1. FirstOf(hits) \in DOMAIN rec
    BY <1>1, <1>3, FirstIn
  <2>. HIDE DEF hits
  <2>2. rec[FirstOf(hits)] \in Terms
    BY <2>1
  <2>3. rec[FirstOf(hits)].kind = "all" => rec[FirstOf(hits)].q \in Qualifiers
    BY <2>2 DEF Terms
  <2>. QED
    BY <1>3, <2>3 DEF spf_qualifier, hits, Qualifiers
<1>. QED
  BY <1>2, <1>3

LEMMA RedirectType ==
  ASSUME NEW rec \in Seq(Terms), Redirects(rec) # {}
  PROVE  rec[FirstOf(Redirects(rec))].to \in Names
<1>1. Redirects(rec) = {i \in DOMAIN rec : rec[i].kind = "redirect" /\ ~rec[i].loud}
  BY DEF Redirects, IndexOf, IsRedirect
<1>2. DOMAIN rec \subseteq Nat
  OBVIOUS
<1>3. FirstOf(Redirects(rec)) \in Redirects(rec)
  BY <1>1, <1>2, FirstIn
<1>4. /\ rec[FirstOf(Redirects(rec))] \in Terms
      /\ rec[FirstOf(Redirects(rec))].kind = "redirect"
  BY <1>1, <1>3
<1>. QED
  BY <1>4 DEF Terms

LEMMA RecordType ==
  ASSUME published \in [Names -> Rows], NEW name \in Names, HasSpf(name)
  PROVE  first_txt(name) \in Seq(Terms)
<1>1. published[name] \in Rows /\ published[name] # <<>> /\ SpfRows(name) = published[name]
  BY DEF HasSpf, SpfRows
<1>2. published[name][1] \in Records
  BY <1>1 DEF Rows
<1>. QED
  BY <1>1, <1>2, SpfAssumption DEF first_txt

-----------------------------------------------------------------------------
(* The frames on the walk's stack are of names with a record, each on the  *)
(* stack once, seen, and the stack is no deeper than the cap.              *)
Enumerable == phase \in {"terminator", "count"} => HasSpf(Apex)

PathInv == TypeOK /\ Enumerable /\ PathIsSimple

LEMMA PathInit == Init => PathInv
<1>. SUFFICES ASSUME Init
              PROVE  PathInv
  OBVIOUS
<1>1. PICK s \in [Names -> UNION {Situations(name) : name \in Names}] :
        /\ \A name \in Names : s[name] \in Situations(name)
        /\ published = [name \in Names |-> s[name].rows]
        /\ alive = [name \in Names |-> s[name].alive]
        /\ ends = [name \in Names |-> s[name].ends]
  BY DEF Init
<1>2. \A name \in Names : s[name] \in [rows : Rows, alive : Alive, ends : Ends]
  BY <1>1 DEF Situations
<1>3. /\ published \in [Names -> Rows] /\ alive \in [Names -> Alive]
      /\ ends \in [Names -> Ends]
  BY <1>1, <1>2
<1>4. /\ phase = "record" /\ stack = <<>> /\ seen = {} /\ dead = {} /\ read = {}
      /\ at = Apex /\ hops = 0 /\ passed = {} /\ terminator = None /\ n = 0 /\ voids = 0
  BY DEF Init
<1>5. TypeOK
  BY <1>3, <1>4, SpfAssumption DEF TypeOK
<1>6. Enumerable
  BY <1>4 DEF Enumerable
<1>7. PathIsSimple
  BY <1>4, SpfAssumption DEF PathIsSimple
<1>. QED
  BY <1>5, <1>6, <1>7 DEF PathInv

LEMMA TopFacts ==
  ASSUME PathInv, AtTerm
  PROVE  /\ Len(stack) \in Nat \ {0} /\ Top \in [name : Names, next : Nat \ {0}]
         /\ HasSpf(Top.name) /\ Term \in Terms
<1>s. stack \in Seq([name : Names, next : Nat \ {0}]) /\ stack # <<>>
  BY DEF PathInv, TypeOK, AtTerm, Counting
<1>0. Len(stack) \in Nat \ {0}
  BY <1>s, EmptySeq
<1>a. Len(stack) \in 1 .. Len(stack)
  BY <1>0
<1>1. Len(stack) \in Nat \ {0} /\ Top \in [name : Names, next : Nat \ {0}]
  <2>1. stack[Len(stack)] \in [name : Names, next : Nat \ {0}]
    BY <1>s, <1>a, ElementOfSeq
  <2>. QED
    BY <1>0, <2>1 DEF Top
<1>2. HasSpf(Top.name)
  BY <1>1 DEF PathInv, PathIsSimple, TypeOK, Top
<1>3. first_txt(Top.name) \in Seq(Terms)
  BY <1>1, <1>2, RecordType DEF PathInv, TypeOK
<1>. QED
  BY <1>1, <1>2, <1>3 DEF AtTerm, Term

(* Advancing a frame changes no name on the path.                          *)
LEMMA AdvancedPath ==
  ASSUME PathInv, AtTerm
  PROVE  /\ Advanced \in Seq([name : Names, next : Nat \ {0}])
         /\ Len(Advanced) = Len(stack)
         /\ \A i \in 1 .. Len(stack) : Advanced[i].name = stack[i].name
<1>1. stack \in Seq([name : Names, next : Nat \ {0}]) /\ Len(stack) \in Nat \ {0}
  BY TopFacts DEF PathInv, TypeOK
<1>. DEFINE frame == [name |-> Top.name, next |-> Top.next + 1]
<1>2. Top = stack[Len(stack)] /\ frame \in [name : Names, next : Nat \ {0}]
  BY TopFacts DEF Top
<1>3. Advanced = [stack EXCEPT ![Len(stack)] = frame] /\ frame.name = Top.name
  BY DEF Advanced
<1>. HIDE DEF frame
<1>4. Len(stack) \in 1 .. Len(stack)
  BY <1>1
<1>5. /\ Advanced \in Seq([name : Names, next : Nat \ {0}]) /\ Len(Advanced) = Len(stack)
      /\ \A i \in 1 .. Len(stack) : Advanced[i] = IF i = Len(stack) THEN frame ELSE stack[i]
  BY <1>1, <1>2, <1>3, <1>4, ExceptSeq
<1>. QED
  BY <1>2, <1>3, <1>5

LEMMA PathStep == PathInv /\ [Next]_vars => PathInv'
<1>. SUFFICES ASSUME PathInv, [Next]_vars
              PROVE  PathInv'
  OBVIOUS
<1>w. UNCHANGED world => \A name : HasSpf(name)' = HasSpf(name)
  BY DEF HasSpf, SpfRows, Answered, world
<1>1. CASE Record
  <2>1. UNCHANGED <<world, hop, count>> /\ read' = read \union {<<Apex, "TXT">>}
    BY <1>1 DEF Record
  <2>2. phase' \in {"terminator", "done"} /\ (phase' = "terminator" => HasSpf(Apex))
    BY <1>1 DEF Record
  <2>3. TypeOK'
    BY <2>1, <2>2, SpfAssumption DEF PathInv, TypeOK, world, hop, count
  <2>4. Enumerable'
    BY <1>w, <2>1, <2>2 DEF Enumerable
  <2>5. PathIsSimple'
    BY <1>w, <2>1 DEF PathInv, PathIsSimple, count
  <2>. QED
    BY <2>3, <2>4, <2>5 DEF PathInv
<1>2. CASE Hop
  <2>1. /\ UNCHANGED <<world, count, F>> /\ phase = "terminator"
        /\ passed' = passed \union {at}
        /\ read' \in {read, read \union {<<at, "TXT">>}}
    BY <1>2 DEF Hop
  <2>2. at' \in Names /\ hops' \in Nat /\ terminator' \in Qualifiers \union {None}
        /\ phase' \in {"terminator", "count"}
    <3>1. CASE Terminate(None)
      BY <2>1, <3>1 DEF PathInv, TypeOK, Terminate
    <3>2. CASE ~ChainEnds
      <4>. DEFINE rec == first_txt(at)
      <4>1. rec \in Seq(Terms)
        BY <3>2, RecordType DEF ChainEnds, PathInv, TypeOK
      <4>2. CASE Terminate(spf_qualifier(rec))
        BY <2>1, <4>1, <4>2, QualifierType DEF PathInv, TypeOK, Terminate
      <4>3. CASE Redirects(rec) # {} /\ FollowRedirect(rec)
        BY <2>1, <4>1, <4>3, RedirectType DEF PathInv, TypeOK, FollowRedirect
      <4>. QED
        BY <1>2, <3>2, <4>2, <4>3 DEF Hop
    <3>. QED
      BY <1>2, <3>1, <3>2 DEF Hop
  <2>3. TypeOK'
    BY <2>1, <2>2 DEF PathInv, TypeOK, world, count
  <2>4. Enumerable'
    BY <1>w, <2>1 DEF PathInv, Enumerable
  <2>5. PathIsSimple'
    BY <1>w, <2>1 DEF PathInv, PathIsSimple, count
  <2>. QED
    BY <2>3, <2>4, <2>5 DEF PathInv
<1>3. CASE Begin
  <2>1. /\ UNCHANGED <<world, phase, hop, n, voids, dead, read, F>> /\ phase = "count"
        /\ seen' = {Apex} /\ stack' = <<Frame(Apex)>>
    BY <1>3 DEF Begin
  <2>2. Frame(Apex) \in [name : Names, next : Nat \ {0}] /\ Frame(Apex).name = Apex
    BY SpfAssumption DEF Frame
  <2>3. TypeOK'
    BY <2>1, <2>2, SpfAssumption DEF PathInv, TypeOK, world, hop
  <2>4. Enumerable' /\ HasSpf(Apex)'
    BY <1>w, <2>1 DEF PathInv, Enumerable
  <2>5. PathIsSimple'
    BY <2>1, <2>2, <2>4, SpfAssumption DEF PathIsSimple
  <2>. QED
    BY <2>3, <2>4, <2>5 DEF PathInv
<1>4. CASE Plain
  <2>1. /\ AtTerm /\ stack' = Advanced /\ n' \in {n, n + 1}
        /\ UNCHANGED <<world, phase, hop, seen, voids, dead, read, F>>
    BY <1>4 DEF Plain
  <2>2. TypeOK'
    BY <2>1, AdvancedPath DEF PathInv, TypeOK, world, hop
  <2>3. Enumerable'
    BY <1>w, <2>1 DEF PathInv, Enumerable
  <2>4. PathIsSimple'
    <3>1. stack \in Seq([name : Names, next : Nat \ {0}]) /\ Len(stack) \in Nat
      BY DEF PathInv, TypeOK
    <3>2. /\ DOMAIN stack' = DOMAIN stack /\ Len(stack') = Len(stack) /\ seen \subseteq seen'
          /\ \A i \in DOMAIN stack : stack'[i].name = stack[i].name
      BY <2>1, <3>1, AdvancedPath
    <3>. QED
      BY <1>w, <2>1, <3>2 DEF PathInv, PathIsSimple
  <2>. QED
    BY <2>2, <2>3, <2>4 DEF PathInv
<1>5. CASE Follow
  <2>1. /\ AtTerm /\ Term.kind \in {"include", "redirect"} /\ n' = n + 1
        /\ voids' \in {voids, voids + 1} /\ dead' \in {dead, dead \union {Term.to}}
        /\ read' = read \union ReadsOf(Term.to)
        /\ seen' = IF Enters(Term.to) THEN seen \union {Term.to} ELSE seen
        /\ stack' = IF Enters(Term.to) /\ HasSpf(Term.to)
                    THEN Append(Advanced, Frame(Term.to)) ELSE Advanced
        /\ UNCHANGED <<world, phase, hop, F>>
    BY <1>5 DEF Follow
  <2>. DEFINE to == Term.to
  <2>2. to \in Names
    BY <2>1, TopFacts DEF Terms
  <2>. HIDE DEF to
  <2>3. Frame(to) \in [name : Names, next : Nat \ {0}] /\ Frame(to).name = to
    BY <2>2 DEF Frame
  <2>4. TypeOK'
    <3>1. stack' \in Seq([name : Names, next : Nat \ {0}])
      <4>1. stack' \in {Advanced, Append(Advanced, Frame(to))}
        BY <2>1 DEF to
      <4>2. Append(Advanced, Frame(to)) \in Seq([name : Names, next : Nat \ {0}])
        BY <2>1, <2>3, AdvancedPath, AppendProperties
      <4>. QED
        BY <2>1, <4>1, <4>2, AdvancedPath
    <3>2. seen' \in SUBSET Names /\ dead' \in SUBSET Names /\ n' \in Nat /\ voids' \in Nat
      BY <2>1, <2>2 DEF to, PathInv, TypeOK
    <3>3. read' \in SUBSET (Names \X {"TXT", "A"})
      BY <2>1, <2>2 DEF to, PathInv, TypeOK, ReadsOf
    <3>. QED
      BY <2>1, <3>1, <3>2, <3>3 DEF PathInv, TypeOK, world, hop
  <2>5. Enumerable'
    BY <1>w, <2>1 DEF PathInv, Enumerable
  <2>6. PathIsSimple'
    <3>1. CASE stack' = Advanced
      <4>1. stack \in Seq([name : Names, next : Nat \ {0}]) /\ Len(stack) \in Nat
        BY DEF PathInv, TypeOK
      <4>2. /\ DOMAIN stack' = DOMAIN stack /\ Len(stack') = Len(stack) /\ seen \subseteq seen'
            /\ \A i \in DOMAIN stack : stack'[i].name = stack[i].name
        BY <2>1, <3>1, <4>1, AdvancedPath
      <4>. QED
        BY <1>w, <2>1, <4>2 DEF PathInv, PathIsSimple
    <3>2. CASE Enters(to) /\ HasSpf(to)
      <4>1. /\ stack' = Append(Advanced, Frame(to)) /\ to \notin seen
            /\ seen' = seen \union {to} /\ Len(stack) <= MaxDepth
        BY <2>1, <3>2 DEF Enters, to
      <4>2. /\ Len(stack') = Len(stack) + 1 /\ DOMAIN stack' = 1 .. Len(stack) + 1
            /\ stack'[Len(stack) + 1].name = to
            /\ \A i \in 1 .. Len(stack) : stack'[i].name = stack[i].name
        BY <2>1, <2>3, <4>1, AdvancedPath, TopFacts
      <4>3. \A i \in 1 .. Len(stack) :
              stack[i].name \in seen /\ stack[i].name # to /\ HasSpf(stack[i].name)
        BY <4>1 DEF PathInv, TypeOK, PathIsSimple
      <4>4. \A i \in DOMAIN stack' : stack'[i].name \in seen' /\ HasSpf(stack'[i].name)
        BY <3>2, <4>1, <4>2, <4>3
      <4>5. \A i, j \in DOMAIN stack' : stack'[i].name = stack'[j].name => i = j
        <5>. SUFFICES ASSUME NEW i \in 1 .. Len(stack) + 1, NEW j \in 1 .. Len(stack) + 1,
                             stack'[i].name = stack'[j].name
                      PROVE  i = j
          BY <4>2
        <5>1. CASE i \in 1 .. Len(stack) /\ j \in 1 .. Len(stack)
          BY <4>2, <5>1 DEF PathInv, TypeOK, PathIsSimple
        <5>. QED
          BY <4>2, <4>3, <5>1, TopFacts, <2>1
      <4>6. Len(stack') <= MaxDepth + 1
        BY <4>1, <4>2, <2>1, TopFacts, SpfAssumption
      <4>. QED
        BY <1>w, <2>1, <4>4, <4>5, <4>6 DEF PathIsSimple
    <3>. QED
      BY <2>1, <3>1, <3>2 DEF to
  <2>. QED
    BY <2>4, <2>5, <2>6 DEF PathInv
<1>6. CASE Return
  <2>1. /\ Counting /\ stack' = SubSeq(stack, 1, Len(stack) - 1)
        /\ UNCHANGED <<world, phase, hop, seen, n, voids, dead, read, F>>
    BY <1>6 DEF Return
  <2>2. stack \in Seq([name : Names, next : Nat \ {0}]) /\ Len(stack) \in Nat \ {0}
    BY <2>1 DEF Counting, PathInv, TypeOK
  <2>3. /\ stack' \in Seq([name : Names, next : Nat \ {0}])
        /\ Len(stack') = Len(stack) - 1
        /\ \A i \in 1 .. Len(stack) - 1 : stack'[i] = stack[i]
    <3>. DEFINE k == Len(stack) - 1
                Frames == [name : Names, next : Nat \ {0}]
    <3>1. \A i \in 1 .. Len(stack) : stack[i] \in Frames
      BY <2>2, ElementOfSeq
    <3>2. 1 \in Int /\ k \in Int /\ k >= 0 /\ \A i \in 1 .. k : stack[i] \in Frames
      BY <2>2, <3>1
    <3>3. stack' = SubSeq(stack, 1, k)
      BY <2>1
    <3>. HIDE DEF k, Frames
    <3>4. /\ SubSeq(stack, 1, k) \in Seq(Frames)
          /\ Len(SubSeq(stack, 1, k)) = IF 1 <= k THEN k - 1 + 1 ELSE 0
          /\ \A i \in 1 .. k - 1 + 1 : SubSeq(stack, 1, k)[i] = stack[1 + i - 1]
      BY <3>2, SubSeqProperties
    <3>5. Len(stack') = k /\ \A i \in 1 .. k : stack'[i] = stack[i]
      BY <3>2, <3>3, <3>4
    <3>. QED
      BY <3>3, <3>4, <3>5 DEF k, Frames
  <2>4. TypeOK'
    BY <2>1, <2>3 DEF PathInv, TypeOK, world, hop
  <2>5. Enumerable'
    BY <1>w, <2>1 DEF PathInv, Enumerable
  <2>6. PathIsSimple'
    BY <1>w, <2>1, <2>2, <2>3, SpfAssumption DEF PathInv, TypeOK, PathIsSimple
  <2>. QED
    BY <2>4, <2>5, <2>6 DEF PathInv
<1>7. CASE Report
  <2>1. UNCHANGED <<world, hop, count, read>> /\ phase' = "done"
    BY <1>7 DEF Report
  <2>2. TypeOK' /\ Enumerable'
    BY <2>1 DEF PathInv, TypeOK, Enumerable, world, hop, count
  <2>3. PathIsSimple'
    BY <1>w, <2>1 DEF PathInv, PathIsSimple, count
  <2>. QED
    BY <2>2, <2>3 DEF PathInv
<1>8. CASE Finished \/ UNCHANGED vars
  <2>1. UNCHANGED vars
    BY <1>8 DEF Finished
  <2>2. TypeOK'
    BY <2>1 DEF vars, world, hop, count, PathInv, TypeOK
  <2>3. Enumerable' /\ PathIsSimple'
    BY <1>w, <2>1 DEF vars, world, count, PathInv, Enumerable, PathIsSimple
  <2>. QED
    BY <2>2, <2>3 DEF PathInv
<1>. QED
  BY <1>1, <1>2, <1>3, <1>4, <1>5, <1>6, <1>7, <1>8 DEF Next, Step

LEMMA PathInvariant == Spec => []PathInv
BY PathInit, PathStep, PTL DEF Spec

(* The walk keeps its types, for include graphs of any size and shape.     *)
THEOREM Typing == Spec => []TypeOK
<1>1. PathInv => TypeOK
  BY DEF PathInv
<1>. QED
  BY <1>1, PathInvariant, PTL

(* No cycle and no shared record is expanded twice on one path, and the    *)
(* walk is never deeper than its cap.                                      *)
THEOREM WalkIsAcyclic == Spec => []PathIsSimple
<1>1. PathInv => PathIsSimple
  BY DEF PathInv
<1>. QED
  BY <1>1, PathInvariant, PTL

-----------------------------------------------------------------------------
(* A name counted as void looked void, and its TXT record was read.        *)
Judged == \A name \in dead : is_void(name) /\ <<name, "TXT">> \in read

LEMMA JudgedInvariant == Spec => []Judged
<1>1. Init => Judged
  BY DEF Init, Judged
<1>2. Judged /\ [Next]_vars => Judged'
  <2>. SUFFICES ASSUME Judged, [Next]_vars
                PROVE  Judged'
    OBVIOUS
  <2>1. UNCHANGED world => \A name : is_void(name)' = is_void(name)
    BY DEF is_void, world
  <2>2. CASE Follow
    <3>1. /\ dead' \subseteq dead \union {Term.to}
          /\ Term.to \in dead' => Term.to \in dead \/ is_void(Term.to)
          /\ read' = read \union ReadsOf(Term.to) /\ UNCHANGED world
      BY <2>2 DEF Follow
    <3>2. <<Term.to, "TXT">> \in ReadsOf(Term.to)
      BY DEF ReadsOf
    <3>. QED
      BY <2>1, <3>1, <3>2 DEF Judged
  <2>3. CASE UNCHANGED <<world, dead>> /\ read \subseteq read'
    BY <2>1, <2>3 DEF Judged
  <2>4. CASE Record
    BY <2>3, <2>4 DEF Record, count
  <2>5. CASE Hop
    BY <2>3, <2>5 DEF Hop, count
  <2>6. CASE Begin \/ Plain \/ Return
    BY <2>3, <2>6 DEF Begin, Plain, Return
  <2>7. CASE Report \/ Finished \/ UNCHANGED vars
    BY <2>3, <2>7 DEF Report, Finished, vars, count
  <2>. QED
    BY <2>2, <2>4, <2>5, <2>6, <2>7 DEF Next, Step
<1>. QED
  BY <1>1, <1>2, PTL DEF Spec

(* A target counted as void is one, unless the name guard refused it, and  *)
(* then its lookup is in the ledger.                                       *)
THEOREM NoFailureIsVoid == Spec => []VoidsAreReal
<1>1. Judged => VoidsAreReal
  <2>. SUFFICES ASSUME Judged, NEW name \in dead
                PROVE  IF ends[name] = "refused" THEN <<name, "TXT">> \in Charged
                       ELSE published[name] = <<>> /\ alive[name] = "nothing"
    BY DEF VoidsAreReal
  <2>1. is_void(name) /\ <<name, "TXT">> \in read
    BY DEF Judged
  <2>2. CASE ends[name] = "refused"
    BY <2>1, <2>2 DEF Charged
  <2>3. CASE ends[name] # "refused"
    BY <2>1, <2>3 DEF is_void
  <2>. QED
    BY <2>2, <2>3
<1>. QED
  BY <1>1, JudgedInvariant, PTL

(* Induction over the numbers: a set that holds zero and each successor of *)
(* its members holds them all.                                             *)
LEMMA Induction ==
  ASSUME NEW P, 0 \in P, \A k \in Nat : k \in P => k + 1 \in P
  PROVE  Nat \subseteq P
<1>1. SUFFICES ASSUME Nat \ P # {} PROVE FALSE
  OBVIOUS
<1>2. \E m \in Nat \ P : \A y \in Nat \ P : <<y, m>> \notin OpToRel(<, Nat)
  BY <1>1, NatLessThanWellFounded, WFMin
<1>3. PICK m \in Nat \ P :
        \A y \in Nat \ P : <<y, m>> \notin {ss \in Nat \X Nat : ss[1] < ss[2]}
  BY <1>2, Below, Zenon
<1>4. \A y \in Nat \ P : ~(<<y, m>>[1] < <<y, m>>[2])
  BY <1>3, Zenon
<1>5. m # 0 /\ m - 1 \in Nat /\ (m - 1) + 1 = m
  OBVIOUS
<1>. QED
  BY <1>4, <1>5

(* A function on the numbers below a bound, or on all, that each step      *)
(* takes from the value before it exists.                                  *)
Iterates(S, e, g, k, f) ==
  /\ f \in [0 .. k -> S]
  /\ f[0] = e
  /\ \A i \in 1 .. k : f[i] = g[<<f[i - 1], i>>]

LEMMA IterationTo ==
  ASSUME NEW S, NEW e \in S, NEW g \in [S \X Nat -> S], NEW k \in Nat
  PROVE  \E f : Iterates(S, e, g, k, f)
<1>. DEFINE P == {j \in Nat : \E f : Iterates(S, e, g, j, f)}
<1>1. 0 \in P
  <2>1. Iterates(S, e, g, 0, [i \in 0 .. 0 |-> e])
    BY DEF Iterates
  <2>. QED
    BY <2>1
<1>2. ASSUME NEW j \in Nat, j \in P
      PROVE  j + 1 \in P
  <2>1. PICK f : Iterates(S, e, g, j, f)
    BY <1>2
  <2>. DEFINE h == [i \in 0 .. j + 1 |-> IF i = j + 1 THEN g[<<f[j], j + 1>>] ELSE f[i]]
  <2>2. f \in [0 .. j -> S] /\ f[0] = e /\ \A i \in 1 .. j : f[i] = g[<<f[i - 1], i>>]
    BY <2>1 DEF Iterates
  <2>3. \A i \in 0 .. j : i \in 0 .. j + 1 /\ i # j + 1
    OBVIOUS
  <2>4. (\A i \in 0 .. j : h[i] = f[i]) /\ h[j + 1] = g[<<f[j], j + 1>>]
    BY <2>3
  <2>5. <<f[j], j + 1>> \in S \X Nat
    BY <2>2
  <2>6. h \in [0 .. j + 1 -> S]
    BY <2>2, <2>5
  <2>. HIDE DEF h
  <2>7. \A i \in 1 .. j + 1 : h[i] = g[<<h[i - 1], i>>]
    <3>. SUFFICES ASSUME NEW i \in 1 .. j + 1
                  PROVE  h[i] = g[<<h[i - 1], i>>]
      OBVIOUS
    <3>1. CASE i = j + 1
      <4>1. i - 1 = j /\ j \in 0 .. j
        BY <3>1
      <4>. QED
        BY <2>4, <3>1, <4>1
    <3>2. CASE i # j + 1
      <4>1. i \in 1 .. j /\ i \in 0 .. j /\ i - 1 \in 0 .. j
        BY <3>2
      <4>. QED
        BY <2>2, <2>4, <4>1
    <3>. QED
      BY <3>1, <3>2
  <2>8. Iterates(S, e, g, j + 1, h)
    BY <2>2, <2>4, <2>6, <2>7 DEF Iterates
  <2>. QED
    BY <2>8
<1>. HIDE DEF P
<1>3. Nat \subseteq P
  BY <1>1, <1>2, Induction
<1>. QED
  BY <1>3 DEF P

StepOn(S, g) == g \in [S \X Nat -> S]
Orbit(S, e, g, f) ==
  f \in [Nat -> S] /\ f[0] = e /\ \A i \in Nat : f[i + 1] = g[<<f[i], i + 1>>]

LEMMA Iteration ==
  ASSUME NEW S, NEW e \in S, NEW g, StepOn(S, g)
  PROVE  \E f : Orbit(S, e, g, f)
<1>0. g \in [S \X Nat -> S]
  BY DEF StepOn
<1>. DEFINE run(k) == CHOOSE f : Iterates(S, e, g, k, f)
            F0 == [k \in Nat |-> run(k)[k]]
<1>1. \A k \in Nat : Iterates(S, e, g, k, run(k))
  BY <1>0, IterationTo
<1>2. ASSUME NEW j \in Nat, NEW k \in Nat, j <= k, NEW f, NEW h,
             Iterates(S, e, g, j, f), Iterates(S, e, g, k, h)
      PROVE  f[j] = h[j]
  <2>. DEFINE P == {i \in Nat : i <= j => f[i] = h[i]}
  <2>1. 0 \in P
    BY <1>2 DEF Iterates
  <2>2. ASSUME NEW i \in Nat, i \in P
        PROVE  i + 1 \in P
    <3>1. CASE i + 1 <= j
      <4>0. i <= j => f[i] = h[i]
        BY <2>2
      <4>. HIDE DEF P
      <4>1. i + 1 \in 1 .. j /\ i + 1 \in 1 .. k /\ (i + 1) - 1 = i /\ f[i] = h[i]
        BY <1>2, <2>2, <3>1, <4>0
      <4>2. f[i + 1] = g[<<f[i], i + 1>>] /\ h[i + 1] = g[<<h[i], i + 1>>]
        BY <1>2, <4>1 DEF Iterates
      <4>3. f[i + 1] = h[i + 1]
        BY <4>1, <4>2
      <4>. QED
        BY <4>3 DEF P
    <3>. QED
      BY <3>1
  <2>. HIDE DEF P
  <2>3. j \in P
    BY <2>1, <2>2, Induction
  <2>. QED
    BY <2>3 DEF P
<1>. HIDE DEF run
<1>3. \A k \in Nat : run(k)[k] \in S
  BY <1>1 DEF Iterates
<1>4. F0 \in [Nat -> S]
  BY <1>3
<1>5. F0[0] = e
  BY <1>1 DEF Iterates
<1>6. ASSUME NEW i \in Nat
      PROVE  F0[i + 1] = g[<<F0[i], i + 1>>]
  <2>1. i + 1 \in Nat /\ i <= i + 1 /\ i + 1 \in 1 .. i + 1 /\ (i + 1) - 1 = i
    OBVIOUS
  <2>2. run(i)[i] = run(i + 1)[i]
    BY <1>1, <1>2, <2>1
  <2>3. run(i + 1)[i + 1] = g[<<run(i + 1)[i], i + 1>>]
    BY <1>1, <2>1 DEF Iterates
  <2>. QED
    BY <2>1, <2>2, <2>3
<1>7. Orbit(S, e, g, F0)
  BY <1>4, <1>5, <1>6 DEF Orbit
<1>. QED
  BY <1>7, Zenon

LEMMA TargetType ==
  ASSUME NEW t \in Terms, t.kind \in Targeted
  PROVE  t.to \in Names
BY DEF Terms, Targeted

LEMMA Record1Type ==
  ASSUME published \in [Names -> Rows], NEW name \in Names, Publishes(name)
  PROVE  /\ Record1(name) \in Seq(Terms) /\ Len(Record1(name)) \in Nat
         /\ DOMAIN Record1(name) = 1 .. Len(Record1(name))
         /\ \A i \in 1 .. Len(Record1(name)) : Record1(name)[i] \in Terms
<1>1. published[name] \in Rows /\ published[name] # <<>>
  BY DEF Publishes
<1>2. published[name][1] \in Records
  BY <1>1 DEF Rows
<1>3. Record1(name) \in Seq(Terms)
  BY <1>2, SpfAssumption DEF Record1
<1>. HIDE DEF Record1
<1>. QED
  BY <1>3

LEMMA PriceType ==
  ASSUME NEW rec, NEW t \in Terms, NEW below \in [Names -> Nat]
  PROVE  Price(rec, t, below) \in Nat
BY TargetType DEF Price

-----------------------------------------------------------------------------
(* What the recursive functions of the receiver are.                       *)
IsCostAlong(rec, below, f) ==
  f = [i \in 0 .. Len(rec) |-> IF i = 0 THEN 0 ELSE f[i - 1] + Price(rec, rec[i], below)]

LEMMA CostAlongIs ==
  ASSUME NEW rec \in Seq(Terms), NEW below \in [Names -> Nat]
  PROVE  /\ CostAlong(rec, below) \in [0 .. Len(rec) -> Nat]
         /\ CostAlong(rec, below)[0] = 0
         /\ \A i \in 1 .. Len(rec) : CostAlong(rec, below)[i] =
              CostAlong(rec, below)[i - 1] + Price(rec, rec[i], below)
<1>0. Len(rec) \in Nat /\ \A i \in 1 .. Len(rec) : rec[i] \in Terms
  OBVIOUS
<1>. DEFINE g == [p \in Nat \X Nat |->
                    IF p[2] \in 1 .. Len(rec) THEN p[1] + Price(rec, rec[p[2]], below) ELSE p[1]]
<1>z. 0 \in Nat
  OBVIOUS
<1>1. \A i \in 1 .. Len(rec) : Price(rec, rec[i], below) \in Nat
  BY <1>0, PriceType
<1>2. g \in [Nat \X Nat -> Nat]
  BY <1>1
<1>3. \A c \in Nat, i \in 1 .. Len(rec) : g[<<c, i>>] = c + Price(rec, rec[i], below)
  BY <1>0
<1>. HIDE DEF g
<1>p. StepOn(Nat, g)
  BY <1>2, Zenon DEF StepOn
<1>q. PICK f : Orbit(Nat, 0, g, f)
  BY <1>p, <1>z, Iteration, Zenon
<1>4. f \in [Nat -> Nat] /\ f[0] = 0 /\ \A i \in Nat : f[i + 1] = g[<<f[i], i + 1>>]
  BY <1>q DEF Orbit
<1>. DEFINE h == [i \in 0 .. Len(rec) |-> f[i]]
<1>5. \A i \in 0 .. Len(rec) : h[i] =
        IF i = 0 THEN 0 ELSE h[i - 1] + Price(rec, rec[i], below)
  <2>. SUFFICES ASSUME NEW i \in 0 .. Len(rec), i # 0
                PROVE  f[i] = f[i - 1] + Price(rec, rec[i], below)
    BY <1>0, <1>4
  <2>1. i - 1 \in Nat /\ (i - 1) + 1 = i /\ i \in 1 .. Len(rec)
    BY <1>0
  <2>. QED
    BY <1>3, <1>4, <2>1
<1>6. h = [i \in 0 .. Len(rec) |-> h[i]] /\ h \in [0 .. Len(rec) -> Nat]
  BY <1>0, <1>4
<1>. HIDE DEF h
<1>7. IsCostAlong(rec, below, h)
  BY <1>5, <1>6 DEF IsCostAlong
<1>8. IsCostAlong(rec, below, CostAlong(rec, below))
  <2>1. CostAlong(rec, below) = CHOOSE c : IsCostAlong(rec, below, c)
    BY Zenon DEF CostAlong, IsCostAlong
  <2>. QED
    BY <1>7, <2>1, Zenon
<1>. DEFINE c == CostAlong(rec, below)
<1>9. c = [i \in 0 .. Len(rec) |-> IF i = 0 THEN 0 ELSE c[i - 1] + Price(rec, rec[i], below)]
  BY <1>8, Zenon DEF IsCostAlong
<1>. HIDE DEF c
<1>10. /\ DOMAIN c = 0 .. Len(rec) /\ c[0] = 0
       /\ \A i \in 1 .. Len(rec) : c[i] = c[i - 1] + Price(rec, rec[i], below)
  <2>1. \A i \in 0 .. Len(rec) : c[i] = IF i = 0 THEN 0 ELSE c[i - 1] + Price(rec, rec[i], below)
    BY <1>9, Zenon
  <2>2. DOMAIN c = 0 .. Len(rec)
    BY <1>9, Zenon
  <2>3. 0 \in 0 .. Len(rec) /\ \A i \in 1 .. Len(rec) : i \in 0 .. Len(rec) /\ i # 0
    BY <1>0
  <2>. QED
    BY <2>1, <2>2, <2>3
<1>11. \A i \in 0 .. Len(rec) : c[i] \in Nat
  <2>. DEFINE P == {i \in Nat : i <= Len(rec) => c[i] \in Nat}
  <2>1. 0 \in P
    BY <1>10
  <2>2. ASSUME NEW i \in Nat, i \in P
        PROVE  i + 1 \in P
    <3>1. CASE i + 1 <= Len(rec)
      <4>1. i + 1 \in 1 .. Len(rec) /\ (i + 1) - 1 = i /\ i <= Len(rec)
        BY <1>0, <3>1
      <4>2. c[i] \in Nat
        BY <2>2, <4>1
      <4>. HIDE DEF P
      <4>3. c[i + 1] = c[i] + Price(rec, rec[i + 1], below)
        BY <1>10, <4>1
      <4>p. Price(rec, rec[i + 1], below) \in Nat
        BY <1>1, <4>1
      <4>4. c[i + 1] \in Nat
        BY <4>p, <4>2, <4>3
      <4>. QED
        BY <4>4 DEF P
    <3>. QED
      BY <3>1
  <2>. HIDE DEF P
  <2>3. Nat \subseteq P
    BY <2>1, <2>2, Induction
  <2>. QED
    BY <1>0, <2>3 DEF P
<1>12. c \in [0 .. Len(rec) -> Nat]
  BY <1>9, <1>10, <1>11
<1>. QED
  BY <1>10, <1>12 DEF c

(* What is left of a record is no less than nothing.                       *)
LEMMA CostAlongGrows ==
  ASSUME NEW rec \in Seq(Terms), NEW below \in [Names -> Nat], NEW i \in 0 .. Len(rec)
  PROVE  CostAlong(rec, below)[i] <= CostAlong(rec, below)[Len(rec)]
<1>. DEFINE c == CostAlong(rec, below)
            P == {j \in Nat : i + j <= Len(rec) => c[i] <= c[i + j]}
<1>0. Len(rec) \in Nat /\ \A j \in 1 .. Len(rec) : rec[j] \in Terms
  OBVIOUS
<1>1. /\ c \in [0 .. Len(rec) -> Nat]
      /\ \A j \in 1 .. Len(rec) : c[j] = c[j - 1] + Price(rec, rec[j], below)
  BY CostAlongIs
<1>2. \A j \in 1 .. Len(rec) : Price(rec, rec[j], below) \in Nat
  BY <1>0, PriceType
<1>. HIDE DEF c
<1>3. 0 \in P
  BY <1>0, <1>1
<1>4. ASSUME NEW j \in Nat, j \in P
      PROVE  j + 1 \in P
  <2>1. CASE i + (j + 1) <= Len(rec)
    <3>1. i + j \in 0 .. Len(rec) /\ i + j + 1 \in 1 .. Len(rec) /\ (i + j + 1) - 1 = i + j
          /\ i + (j + 1) = i + j + 1 /\ i + j <= Len(rec)
      BY <1>0, <2>1
    <3>2. c[i] <= c[i + j]
      BY <1>4, <3>1
    <3>. HIDE DEF P
    <3>3. c[i + j + 1] = c[i + j] + Price(rec, rec[i + j + 1], below)
      BY <1>1, <3>1
    <3>4. c[i] \in Nat /\ c[i + j] \in Nat /\ Price(rec, rec[i + j + 1], below) \in Nat
      BY <1>0, <1>1, <1>2, <3>1
    <3>5. c[i] <= c[i + (j + 1)]
      BY <3>1, <3>2, <3>3, <3>4
    <3>. QED
      BY <3>5 DEF P
  <2>. QED
    BY <2>1
<1>. HIDE DEF P
<1>5. Nat \subseteq P
  BY <1>3, <1>4, Induction
<1>6. Len(rec) - i \in Nat /\ i + (Len(rec) - i) = Len(rec)
  BY <1>0
<1>. QED
  BY <1>5, <1>6 DEF P, c

LEMMA Stays ==
  ASSUME NEW S, NEW c, c[0] \in S, \A i \in Nat : c[i] \in S => c[i + 1] \in S
  PROVE  \A i \in Nat : c[i] \in S
<1>. DEFINE P == {i \in Nat : c[i] \in S}
<1>1. 0 \in P /\ \A i \in Nat : i \in P => i + 1 \in P
  OBVIOUS
<1>. HIDE DEF P
<1>2. Nat \subseteq P
  BY <1>1, Induction
<1>. QED
  BY <1>2 DEF P

LevelCost(name, below) ==
  IF ~Publishes(name) THEN 0 ELSE CostAlong(Record1(name), below)[Len(Record1(name))]

LEMMA LevelCostType ==
  ASSUME published \in [Names -> Rows], NEW name \in Names, NEW below \in [Names -> Nat]
  PROVE  LevelCost(name, below) \in Nat
<1>1. CASE Publishes(name)
  <2>1. Record1(name) \in Seq(Terms) /\ Len(Record1(name)) \in 0 .. Len(Record1(name))
    BY <1>1, Record1Type
  <2>2. CostAlong(Record1(name), below) \in [0 .. Len(Record1(name)) -> Nat]
    BY <2>1, CostAlongIs
  <2>. QED
    BY <1>1, <2>1, <2>2 DEF LevelCost
<1>2. CASE ~Publishes(name)
  BY <1>2 DEF LevelCost
<1>. QED
  BY <1>1, <1>2

IsCost(f) ==
  f = [fuel \in Nat |->
        [name \in Names |->
           IF fuel = 0 \/ ~Publishes(name) THEN 0
           ELSE CostAlong(Record1(name), f[fuel - 1])[Len(Record1(name))]]]

LEMMA CostIs ==
  ASSUME published \in [Names -> Rows]
  PROVE  /\ Cost \in [Nat -> [Names -> Nat]]
         /\ \A name \in Names : Cost[0][name] = 0
         /\ \A fuel \in Nat, name \in Names :
              Cost[fuel + 1][name] = LevelCost(name, Cost[fuel])
<1>. DEFINE S == [Names -> Nat]
            e == [name \in Names |-> 0]
            g == [p \in S \X Nat |-> [name \in Names |-> LevelCost(name, p[1])]]
<1>1. e \in S
  OBVIOUS
<1>2. g \in [S \X Nat -> S]
  BY LevelCostType
<1>3. \A c \in S, i \in Nat : g[<<c, i>>] = [name \in Names |-> LevelCost(name, c)]
  OBVIOUS
<1>4. e = [name \in Names |-> 0]
  OBVIOUS
<1>. HIDE DEF g, e
<1>5. PICK f : Orbit(S, e, g, f)
  <2>1. StepOn(S, g)
    BY <1>2, Zenon DEF StepOn
  <2>. HIDE DEF S
  <2>. QED
    BY <1>1, <2>1, Iteration, Zenon
<1>6. f \in [Nat -> S] /\ f[0] = e /\ \A i \in Nat : f[i + 1] = g[<<f[i], i + 1>>]
  BY <1>5, Zenon DEF Orbit
<1>. DEFINE level(h, fuel) ==
              [name \in Names |->
                 IF fuel = 0 \/ ~Publishes(name) THEN 0
                 ELSE CostAlong(Record1(name), h[fuel - 1])[Len(Record1(name))]]
<1>7. \A h : level(h, 0) = e
  BY <1>4
<1>8. \A h : \A i \in Nat : level(h, i + 1) = [name \in Names |-> LevelCost(name, h[i])]
  <2>1. \A i \in Nat : i + 1 # 0 /\ (i + 1) - 1 = i
    OBVIOUS
  <2>. QED
    BY <2>1 DEF LevelCost
<1>9. \A fuel \in Nat : f[fuel] = level(f, fuel)
  <2>. HIDE DEF level, S
  <2>1. \A i \in Nat : f[i] \in S
    BY <1>6
  <2>2. ASSUME NEW i \in Nat
        PROVE  f[i + 1] = level(f, i + 1)
    <3>1. f[i + 1] = g[<<f[i], i + 1>>] /\ f[i] \in S /\ i + 1 \in Nat
      BY <1>6, <2>1
    <3>2. g[<<f[i], i + 1>>] = [name \in Names |-> LevelCost(name, f[i])]
      BY <1>3, <3>1, Zenon
    <3>3. level(f, i + 1) = [name \in Names |-> LevelCost(name, f[i])]
      BY <1>8, Zenon
    <3>. QED
      BY <3>1, <3>2, <3>3, Zenon
  <2>3. f[0] = level(f, 0)
    BY <1>6, <1>7
  <2>4. \A i \in Nat : i = 0 \/ (i - 1 \in Nat /\ i = (i - 1) + 1)
    OBVIOUS
  <2>. QED
    BY <2>2, <2>3, <2>4
<1>10. IsCost(f)
  <2>1. f = [fuel \in Nat |-> f[fuel]]
    BY <1>6
  <2>2. f = [fuel \in Nat |-> level(f, fuel)]
    BY <1>9, <2>1
  <2>. QED
    BY <2>2, Zenon DEF IsCost
<1>11. IsCost(Cost)
  <2>1. Cost = CHOOSE c : IsCost(c)
    BY Zenon DEF Cost, IsCost
  <2>. QED
    BY <1>10, <2>1, Zenon
<1>. DEFINE c == Cost
<1>12. c = [fuel \in Nat |-> level(c, fuel)]
  BY <1>11, Zenon DEF IsCost
<1>. HIDE DEF c, level
<1>13. /\ DOMAIN c = Nat /\ c[0] = e
       /\ \A i \in Nat : c[i + 1] = [name \in Names |-> LevelCost(name, c[i])]
  <2>1. \A i \in Nat : c[i] = level(c, i)
    BY <1>12, Zenon
  <2>2. DOMAIN c = Nat
    BY <1>12, Zenon
  <2>3. 0 \in Nat /\ \A i \in Nat : i + 1 \in Nat
    OBVIOUS
  <2>. QED
    BY <1>7, <1>8, <2>1, <2>2, <2>3
<1>14. \A i \in Nat : c[i] \in S
  <2>1. c[0] \in S
    BY <1>1, <1>13
  <2>2. \A i \in Nat : c[i] \in S => c[i + 1] \in S
    BY <1>13, LevelCostType
  <2>. HIDE DEF S
  <2>. QED
    BY <2>1, <2>2, Stays
<1>15. c = [i \in Nat |-> c[i]]
  BY <1>12, Zenon
<1>16. c \in [Nat -> S]
  BY <1>14, <1>15
<1>17. \A name \in Names : e[name] = 0
  BY <1>4
<1>. QED
  BY <1>13, <1>16, <1>17 DEF c

-----------------------------------------------------------------------------
LEMMA TargetStays ==
  ASSUME published \in [Names -> Rows], NEW name \in Names
  PROVE  Target(name) \in Names
BY Record1Type, RedirectType DEF Target

IsChain(f) == f = [k \in Nat |-> IF k = 0 THEN Apex ELSE Target(f[k - 1])]

LEMMA ChainIs ==
  ASSUME published \in [Names -> Rows]
  PROVE  /\ Chain \in [Nat -> Names] /\ Chain[0] = Apex
         /\ \A k \in Nat : Chain[k + 1] = Target(Chain[k])
<1>. DEFINE g == [p \in Names \X Nat |-> Target(p[1])]
<1>0. Apex \in Names
  BY SpfAssumption
<1>1. StepOn(Names, g)
  BY TargetStays DEF StepOn
<1>2. \A m \in Names, i \in Nat : g[<<m, i>>] = Target(m)
  OBVIOUS
<1>. HIDE DEF g
<1>3. PICK f : Orbit(Names, Apex, g, f)
  BY <1>0, <1>1, Iteration, Zenon
<1>4. /\ f \in [Nat -> Names] /\ f[0] = Apex
      /\ \A i \in Nat : f[i + 1] = Target(f[i])
  <2>1. f \in [Nat -> Names] /\ f[0] = Apex /\ \A i \in Nat : f[i + 1] = g[<<f[i], i + 1>>]
    BY <1>3, Zenon DEF Orbit
  <2>2. \A i \in Nat : f[i] \in Names /\ i + 1 \in Nat
    BY <2>1
  <2>. QED
    BY <1>2, <2>1, <2>2
<1>5. IsChain(f)
  <2>1. \A i \in Nat : i = 0 \/ (i - 1 \in Nat /\ i = (i - 1) + 1)
    OBVIOUS
  <2>2. \A i \in Nat : f[i] = IF i = 0 THEN Apex ELSE Target(f[i - 1])
    BY <1>4, <2>1
  <2>3. f = [k \in Nat |-> f[k]]
    BY <1>4
  <2>. QED
    BY <2>2, <2>3 DEF IsChain
<1>6. IsChain(Chain)
  <2>1. Chain = CHOOSE c : IsChain(c)
    BY Zenon DEF Chain, IsChain
  <2>. QED
    BY <1>5, <2>1, Zenon
<1>. DEFINE c == Chain
<1>7. c = [k \in Nat |-> IF k = 0 THEN Apex ELSE Target(c[k - 1])]
  BY <1>6, Zenon DEF IsChain
<1>. HIDE DEF c
<1>8. c[0] = Apex /\ \A k \in Nat : c[k + 1] = Target(c[k])
  <2>1. \A k \in Nat : c[k] = IF k = 0 THEN Apex ELSE Target(c[k - 1])
    BY <1>7, Zenon
  <2>2. 0 \in Nat /\ \A k \in Nat : k + 1 \in Nat /\ k + 1 # 0 /\ (k + 1) - 1 = k
    OBVIOUS
  <2>. QED
    BY <2>1, <2>2
<1>9. \A k \in Nat : c[k] \in Names
  <2>1. c[0] \in Names /\ \A k \in Nat : c[k] \in Names => c[k + 1] \in Names
    BY <1>0, <1>8, TargetStays
  <2>. QED
    BY <2>1, Stays
<1>10. c = [k \in Nat |-> c[k]]
  BY <1>7, Zenon
<1>11. c \in [Nat -> Names]
  BY <1>9, <1>10
<1>. QED
  BY <1>8, <1>11 DEF c

LEMMA LookupsOfType ==
  ASSUME NEW t \in Terms, NEW acc \in Accs, NEW below \in [Names -> [Accs -> Accs]]
  PROVE  LookupsOf(t, acc, below) \in Accs
<1>. DEFINE one == [acc EXCEPT !.n = @ + 1]
<1>1. one \in Accs
  BY DEF Accs
<1>. HIDE DEF one
<1>2. t.kind \in {"include", "redirect"} => below[t.to][one] \in Accs
  BY <1>1, TargetType DEF Targeted
<1>3. t.kind = "include" \/ (t.kind = "redirect" /\ ~t.semi) => t.kind \in {"include", "redirect"}
  OBVIOUS
<1>. QED
  BY <1>1, <1>2, <1>3 DEF LookupsOf, one

IsLookupsAlong(rec, acc, below, f) ==
  f = [i \in 0 .. Len(rec) |-> IF i = 0 THEN acc ELSE LookupsOf(rec[i], f[i - 1], below)]

LEMMA LookupsAlongIs ==
  ASSUME NEW rec \in Seq(Terms), NEW acc \in Accs, NEW below \in [Names -> [Accs -> Accs]]
  PROVE  /\ LookupsAlong(rec, acc, below) \in [0 .. Len(rec) -> Accs]
         /\ LookupsAlong(rec, acc, below)[0] = acc
         /\ \A i \in 1 .. Len(rec) : LookupsAlong(rec, acc, below)[i] =
              LookupsOf(rec[i], LookupsAlong(rec, acc, below)[i - 1], below)
<1>0. Len(rec) \in Nat /\ \A i \in 1 .. Len(rec) : rec[i] \in Terms
  OBVIOUS
<1>. DEFINE g == [p \in Accs \X Nat |->
                    IF p[2] \in 1 .. Len(rec) THEN LookupsOf(rec[p[2]], p[1], below) ELSE p[1]]
<1>1. \A a \in Accs, i \in 1 .. Len(rec) : LookupsOf(rec[i], a, below) \in Accs
  BY <1>0, LookupsOfType
<1>2. StepOn(Accs, g)
  BY <1>1 DEF StepOn
<1>3. \A a \in Accs, i \in 1 .. Len(rec) : g[<<a, i>>] = LookupsOf(rec[i], a, below)
  BY <1>0
<1>. HIDE DEF g
<1>4. PICK f : Orbit(Accs, acc, g, f)
  BY <1>2, Iteration, Zenon
<1>5. f \in [Nat -> Accs] /\ f[0] = acc /\ \A i \in Nat : f[i + 1] = g[<<f[i], i + 1>>]
  BY <1>4, Zenon DEF Orbit
<1>. DEFINE h == [i \in 0 .. Len(rec) |-> f[i]]
<1>6. \A i \in 0 .. Len(rec) : h[i] =
        IF i = 0 THEN acc ELSE LookupsOf(rec[i], h[i - 1], below)
  <2>. SUFFICES ASSUME NEW i \in 0 .. Len(rec), i # 0
                PROVE  f[i] = LookupsOf(rec[i], f[i - 1], below)
    BY <1>0, <1>5
  <2>1. i - 1 \in Nat /\ (i - 1) + 1 = i /\ i \in 1 .. Len(rec) /\ f[i - 1] \in Accs
    BY <1>0, <1>5
  <2>. QED
    BY <1>3, <1>5, <2>1
<1>7. h = [i \in 0 .. Len(rec) |-> h[i]]
  OBVIOUS
<1>. HIDE DEF h
<1>8. IsLookupsAlong(rec, acc, below, h)
  BY <1>6, <1>7 DEF IsLookupsAlong
<1>9. IsLookupsAlong(rec, acc, below, LookupsAlong(rec, acc, below))
  <2>1. LookupsAlong(rec, acc, below) = CHOOSE c : IsLookupsAlong(rec, acc, below, c)
    BY Zenon DEF LookupsAlong, IsLookupsAlong
  <2>. QED
    BY <1>8, <2>1, Zenon
<1>. DEFINE c == LookupsAlong(rec, acc, below)
<1>10. c = [i \in 0 .. Len(rec) |-> IF i = 0 THEN acc ELSE LookupsOf(rec[i], c[i - 1], below)]
  BY <1>9, Zenon DEF IsLookupsAlong
<1>. HIDE DEF c
<1>11. /\ DOMAIN c = 0 .. Len(rec) /\ c[0] = acc
       /\ \A i \in 1 .. Len(rec) : c[i] = LookupsOf(rec[i], c[i - 1], below)
  <2>1. \A i \in 0 .. Len(rec) : c[i] = IF i = 0 THEN acc ELSE LookupsOf(rec[i], c[i - 1], below)
    BY <1>10, Zenon
  <2>2. DOMAIN c = 0 .. Len(rec)
    BY <1>10, Zenon
  <2>3. 0 \in 0 .. Len(rec) /\ \A i \in 1 .. Len(rec) : i \in 0 .. Len(rec) /\ i # 0
    BY <1>0
  <2>. QED
    BY <2>1, <2>2, <2>3
<1>12. \A i \in 0 .. Len(rec) : c[i] \in Accs
  <2>. DEFINE d == [i \in Nat |-> IF i <= Len(rec) THEN c[i] ELSE acc]
  <2>1. d[0] \in Accs
    BY <1>0, <1>11
  <2>2. ASSUME NEW i \in Nat, d[i] \in Accs
        PROVE  d[i + 1] \in Accs
    <3>1. CASE i + 1 <= Len(rec)
      <4>1. i + 1 \in 1 .. Len(rec) /\ (i + 1) - 1 = i /\ i <= Len(rec)
        BY <1>0, <3>1
      <4>2. c[i + 1] = LookupsOf(rec[i + 1], c[i], below) /\ c[i] \in Accs
        BY <1>11, <2>2, <4>1
      <4>. QED
        BY <1>1, <4>1, <4>2
    <3>. QED
      BY <3>1
  <2>3. \A i \in 0 .. Len(rec) : d[i] = c[i] /\ i \in Nat
    BY <1>0
  <2>. HIDE DEF d
  <2>4. \A i \in Nat : d[i] \in Accs
    BY <2>1, <2>2, Stays
  <2>. QED
    BY <2>3, <2>4
<1>13. c = [i \in 0 .. Len(rec) |-> c[i]]
  BY <1>10, Zenon
<1>14. c \in [0 .. Len(rec) -> Accs]
  BY <1>12, <1>13
<1>. QED
  BY <1>11, <1>14 DEF c

Entered(acc, name) == [acc EXCEPT !.seen = @ \union {name}]

LevelCount(name, acc, below) ==
  IF name \in acc.seen THEN acc
  ELSE IF ~Publishes(name) THEN Entered(acc, name)
  ELSE LookupsAlong(Record1(name), Entered(acc, name), below)[Len(Record1(name))]

LEMMA LevelCountType ==
  ASSUME published \in [Names -> Rows], NEW name \in Names, NEW acc \in Accs,
         NEW below \in [Names -> [Accs -> Accs]]
  PROVE  LevelCount(name, acc, below) \in Accs
<1>1. Entered(acc, name) \in Accs
  BY DEF Entered, Accs
<1>2. CASE Publishes(name)
  <2>1. Record1(name) \in Seq(Terms) /\ Len(Record1(name)) \in 0 .. Len(Record1(name))
    BY <1>2, Record1Type
  <2>2. LookupsAlong(Record1(name), Entered(acc, name), below)
          \in [0 .. Len(Record1(name)) -> Accs]
    BY <1>1, <2>1, LookupsAlongIs
  <2>. QED
    BY <1>2, <2>1, <2>2 DEF LevelCount
<1>3. CASE ~Publishes(name)
  BY <1>1, <1>3 DEF LevelCount
<1>. QED
  BY <1>2, <1>3

IsCount(f) ==
  f = [left \in Nat |->
        [name \in Names |-> [acc \in Accs |->
           IF left = 0 \/ name \in acc.seen THEN acc
           ELSE LET entered == [acc EXCEPT !.seen = @ \union {name}]
                    rec == Record1(name)
                IN  IF ~Publishes(name) THEN entered
                    ELSE LookupsAlong(rec, entered, f[left - 1])[Len(rec)]]]]

LEMMA CountIs ==
  ASSUME published \in [Names -> Rows]
  PROVE  /\ count_lookups \in [Nat -> [Names -> [Accs -> Accs]]]
         /\ \A name \in Names, acc \in Accs : count_lookups[0][name][acc] = acc
         /\ \A left \in Nat, name \in Names, acc \in Accs :
              count_lookups[left + 1][name][acc] = LevelCount(name, acc, count_lookups[left])
<1>. DEFINE S == [Names -> [Accs -> Accs]]
            e == [name \in Names |-> [acc \in Accs |-> acc]]
            next(c) == [name \in Names |-> [acc \in Accs |-> LevelCount(name, acc, c)]]
            g == [p \in S \X Nat |-> next(p[1])]
<1>1. e \in S
  OBVIOUS
<1>2. \A c \in S : next(c) \in S
  BY LevelCountType
<1>. HIDE DEF next
<1>3. g \in [S \X Nat -> S]
  BY <1>2
<1>4. \A c \in S, i \in Nat : g[<<c, i>>] = next(c)
  OBVIOUS
<1>. HIDE DEF g
<1>5. PICK f : Orbit(S, e, g, f)
  <2>1. StepOn(S, g)
    BY <1>3, Zenon DEF StepOn
  <2>. HIDE DEF S, e
  <2>. QED
    BY <1>1, <2>1, Iteration, Zenon
<1>6. f \in [Nat -> S] /\ f[0] = e /\ \A i \in Nat : f[i + 1] = g[<<f[i], i + 1>>]
  BY <1>5, Zenon DEF Orbit
<1>. DEFINE level(h, left) ==
              [name \in Names |-> [acc \in Accs |->
                 IF left = 0 \/ name \in acc.seen THEN acc
                 ELSE LET entered == [acc EXCEPT !.seen = @ \union {name}]
                          rec == Record1(name)
                      IN  IF ~Publishes(name) THEN entered
                          ELSE LookupsAlong(rec, entered, h[left - 1])[Len(rec)]]]
<1>7. \A h : level(h, 0) = e
  OBVIOUS
<1>8. \A h : \A i \in Nat : level(h, i + 1) = next(h[i])
  <2>1. \A i \in Nat : i + 1 # 0 /\ (i + 1) - 1 = i
    OBVIOUS
  <2>. QED
    BY <2>1 DEF LevelCount, Entered, next
<1>. HIDE DEF level, S, e
<1>9. \A left \in Nat : f[left] = level(f, left)
  <2>1. \A i \in Nat : f[i] \in S
    BY <1>6
  <2>2. ASSUME NEW i \in Nat
        PROVE  f[i + 1] = level(f, i + 1)
    <3>1. f[i + 1] = g[<<f[i], i + 1>>] /\ f[i] \in S /\ i + 1 \in Nat
      BY <1>6, <2>1
    <3>2. g[<<f[i], i + 1>>] = next(f[i])
      BY <1>4, <3>1, Zenon
    <3>3. level(f, i + 1) = next(f[i])
      BY <1>8, Zenon
    <3>. QED
      BY <3>1, <3>2, <3>3, Zenon
  <2>3. f[0] = level(f, 0)
    BY <1>6, <1>7
  <2>4. \A i \in Nat : i = 0 \/ (i - 1 \in Nat /\ i = (i - 1) + 1)
    OBVIOUS
  <2>. QED
    BY <2>2, <2>3, <2>4
<1>10. IsCount(f)
  <2>1. f = [left \in Nat |-> f[left]]
    BY <1>6
  <2>2. f = [left \in Nat |-> level(f, left)]
    BY <1>9, <2>1
  <2>. QED
    BY <2>2, Zenon DEF IsCount, level
<1>11. IsCount(count_lookups)
  <2>1. count_lookups = CHOOSE c : IsCount(c)
    BY Zenon DEF count_lookups, IsCount
  <2>. QED
    BY <1>10, <2>1, Zenon
<1>. DEFINE c == count_lookups
<1>12. c = [left \in Nat |-> level(c, left)]
  BY <1>11, Zenon DEF IsCount, level
<1>. HIDE DEF c
<1>13. /\ DOMAIN c = Nat /\ c[0] = e /\ \A i \in Nat : c[i + 1] = next(c[i])
  <2>1. \A i \in Nat : c[i] = level(c, i)
    BY <1>12, Zenon
  <2>2. DOMAIN c = Nat
    BY <1>12, Zenon
  <2>3. 0 \in Nat /\ \A i \in Nat : i + 1 \in Nat
    OBVIOUS
  <2>. QED
    BY <1>7, <1>8, <2>1, <2>2, <2>3
<1>14. \A i \in Nat : c[i] \in S
  <2>1. c[0] \in S
    BY <1>1, <1>13
  <2>2. \A i \in Nat : c[i] \in S => c[i + 1] \in S
    BY <1>2, <1>13
  <2>. QED
    BY <2>1, <2>2, Stays
<1>15. c = [i \in Nat |-> c[i]]
  BY <1>12, Zenon
<1>16. c \in [Nat -> S]
  BY <1>14, <1>15
<1>17. \A name \in Names, acc \in Accs : e[name][acc] = acc
  BY DEF e
<1>18. \A h : \A name \in Names, acc \in Accs : next(h)[name][acc] = LevelCount(name, acc, h)
  BY DEF next
<1>. QED
  BY <1>13, <1>16, <1>17, <1>18 DEF c, S

Frames == [name : Names, next : Nat \ {0}]

(* What the steps of the walk do to its frames.                            *)
LEMMA SpfIsPublished ==
  ASSUME NEW name, HasSpf(name)
  PROVE  Publishes(name) /\ first_txt(name) = Record1(name) /\ Answered(name)
BY DEF HasSpf, SpfRows, Publishes, first_txt, Record1

LEMMA Stack ==
  ASSUME PathInv
  PROVE  /\ stack \in Seq(Frames) /\ Len(stack) \in Nat /\ DOMAIN stack = 1 .. Len(stack)
         /\ \A i \in 1 .. Len(stack) :
              /\ stack[i] \in Frames /\ stack[i].name \in Names
              /\ stack[i].next \in Nat \ {0}
              /\ HasSpf(stack[i].name) /\ stack[i].name \in seen
         /\ stack # <<>> => Len(stack) \in Nat \ {0} /\ Len(stack) \in 1 .. Len(stack)
<1>1. stack \in Seq(Frames) /\ PathIsSimple
  BY DEF PathInv, TypeOK, Frames
<1>2. Len(stack) \in Nat /\ DOMAIN stack = 1 .. Len(stack)
  BY <1>1
<1>3. \A i \in 1 .. Len(stack) : stack[i] \in Frames
  BY <1>1, ElementOfSeq
<1>4. stack # <<>> => Len(stack) # 0
  BY <1>1, EmptySeq
<1>. QED
  BY <1>1, <1>2, <1>3, <1>4 DEF PathIsSimple, Frames

LEMMA AtTop ==
  ASSUME PathInv, AtTerm
  PROVE  /\ Len(stack) \in Nat \ {0} /\ Len(stack) \in 1 .. Len(stack)
         /\ Top = stack[Len(stack)] /\ Top.name \in Names /\ Top.next \in Nat \ {0}
         /\ HasSpf(Top.name) /\ Publishes(Top.name) /\ first_txt(Top.name) = Record1(Top.name)
         /\ Record1(Top.name) \in Seq(Terms) /\ Top.next \in 1 .. Len(Record1(Top.name))
         /\ Term = Record1(Top.name)[Top.next] /\ Term \in Terms
         /\ Term.kind \in Targeted => Term.to \in Names
         /\ stack # <<>> /\ phase = "count"
<1>1. stack # <<>> /\ phase = "count" /\ Top.next <= Len(first_txt(Top.name))
  BY DEF AtTerm, Counting
<1>2. Len(stack) \in Nat \ {0} /\ Len(stack) \in 1 .. Len(stack) /\ Top = stack[Len(stack)]
  BY <1>1, Stack DEF Top
<1>3. Top.name \in Names /\ Top.next \in Nat \ {0} /\ HasSpf(Top.name)
  BY <1>2, Stack
<1>4. Publishes(Top.name) /\ first_txt(Top.name) = Record1(Top.name)
  BY <1>3, SpfIsPublished
<1>5. published \in [Names -> Rows]
  BY DEF PathInv, TypeOK
<1>6. /\ Record1(Top.name) \in Seq(Terms) /\ Len(Record1(Top.name)) \in Nat
      /\ \A i \in 1 .. Len(Record1(Top.name)) : Record1(Top.name)[i] \in Terms
  BY <1>3, <1>4, <1>5, Record1Type
<1>7. Top.next \in 1 .. Len(Record1(Top.name)) /\ Term = Record1(Top.name)[Top.next]
  BY <1>1, <1>3, <1>4, <1>6 DEF Term
<1>8. Term \in Terms
  BY <1>6, <1>7
<1>. QED
  BY <1>1, <1>2, <1>3, <1>4, <1>6, <1>7, <1>8, TargetType

LEMMA AdvancedFrames ==
  ASSUME PathInv, AtTerm
  PROVE  /\ Advanced \in Seq(Frames) /\ Len(Advanced) = Len(stack)
         /\ \A i \in 1 .. Len(stack) :
              /\ Advanced[i].name = stack[i].name
              /\ Advanced[i].next = IF i = Len(stack) THEN Top.next + 1 ELSE stack[i].next
<1>1. stack \in Seq(Frames) /\ Len(stack) \in Nat
  BY Stack
<1>. DEFINE frame == [name |-> Top.name, next |-> Top.next + 1]
<1>2. Top = stack[Len(stack)] /\ frame \in Frames /\ Len(stack) \in 1 .. Len(stack)
  BY AtTop DEF Frames
<1>3. /\ Advanced = [stack EXCEPT ![Len(stack)] = frame]
      /\ frame.name = Top.name /\ frame.next = Top.next + 1
  BY DEF Advanced
<1>. HIDE DEF frame
<1>4. /\ Advanced \in Seq(Frames) /\ Len(Advanced) = Len(stack)
      /\ \A i \in 1 .. Len(stack) : Advanced[i] = IF i = Len(stack) THEN frame ELSE stack[i]
  BY <1>1, <1>2, <1>3, ExceptSeq
<1>5. ASSUME NEW i \in 1 .. Len(stack)
      PROVE  /\ Advanced[i].name = stack[i].name
             /\ Advanced[i].next = IF i = Len(stack) THEN Top.next + 1 ELSE stack[i].next
  <2>1. CASE i = Len(stack)
    BY <1>2, <1>3, <1>4, <2>1
  <2>2. CASE i # Len(stack)
    BY <1>4, <2>2
  <2>. QED
    BY <2>1, <2>2
<1>. QED
  BY <1>4, <1>5

Entering == AtTerm /\ Term.kind \in {"include", "redirect"} /\ Enters(Term.to) /\ HasSpf(Term.to)

(* A frame is pushed only on entering a record; otherwise the top moves on. *)
LEMMA EnteredFrames ==
  ASSUME PathInv, Follow, Entering
  PROVE  /\ Len(stack') = Len(stack) + 1 /\ seen' = seen \union {Term.to}
         /\ Term.to \notin seen /\ Term.to \in Names /\ Len(stack) <= MaxDepth
         /\ stack'[Len(stack) + 1].name = Term.to /\ stack'[Len(stack) + 1].next = 1
         /\ \A i \in 1 .. Len(stack) :
              /\ stack'[i].name = stack[i].name
              /\ stack'[i].next = IF i = Len(stack) THEN Top.next + 1 ELSE stack[i].next
<1>1. /\ stack' = Append(Advanced, Frame(Term.to)) /\ seen' = seen \union {Term.to}
      /\ Term.to \notin seen /\ Len(stack) <= MaxDepth
  BY DEF Follow, Entering, Enters
<1>2. Term.to \in Names
  BY AtTop DEF Entering, Targeted
<1>3. Frame(Term.to) \in Frames /\ Frame(Term.to).name = Term.to /\ Frame(Term.to).next = 1
  BY <1>2 DEF Frame, Frames
<1>4. Advanced \in Seq(Frames) /\ Len(Advanced) = Len(stack) /\ Len(stack) \in Nat \ {0}
  BY AdvancedFrames, AtTop DEF Entering
<1>5. /\ Len(stack') = Len(stack) + 1 /\ stack'[Len(stack) + 1] = Frame(Term.to)
      /\ \A i \in 1 .. Len(stack) : stack'[i] = Advanced[i]
  BY <1>1, <1>3, <1>4, AppendProperties
<1>. QED
  BY <1>1, <1>2, <1>3, <1>5, AdvancedFrames DEF Entering

Moving == Plain \/ (Follow /\ ~Entering)

LEMMA MovedFrames ==
  ASSUME PathInv, Moving
  PROVE  /\ AtTerm /\ Len(stack') = Len(stack)
         /\ \A i \in 1 .. Len(stack) :
              /\ stack'[i].name = stack[i].name
              /\ stack'[i].next = IF i = Len(stack) THEN Top.next + 1 ELSE stack[i].next
<1>1. AtTerm /\ stack' = Advanced
  BY DEF Moving, Plain, Follow, Entering
<1>. QED
  BY <1>1, AdvancedFrames

LEMMA ReturnedFrames ==
  ASSUME PathInv, Return
  PROVE  /\ Len(stack) \in Nat \ {0} /\ Len(stack) \in 1 .. Len(stack)
         /\ Len(stack') = Len(stack) - 1
         /\ \A i \in 1 .. Len(stack) - 1 : stack'[i] = stack[i]
         /\ Top = stack[Len(stack)] /\ Top.next > Len(Record1(Top.name))
<1>1. Counting /\ ~AtTerm /\ stack' = SubSeq(stack, 1, Len(stack) - 1)
  BY DEF Return
<1>2. /\ stack \in Seq(Frames) /\ Len(stack) \in Nat \ {0} /\ Len(stack) \in 1 .. Len(stack)
      /\ Top = stack[Len(stack)] /\ HasSpf(Top.name) /\ Top.next \in Nat /\ Top.name \in Names
  BY <1>1, Stack DEF Counting, Top
<1>3. \A i \in 1 .. Len(stack) : stack[i] \in Frames
  BY <1>2, ElementOfSeq
<1>. DEFINE k == Len(stack) - 1
<1>4. 1 \in Int /\ k \in Int /\ k >= 0 /\ \A i \in 1 .. k : stack[i] \in Frames
  BY <1>2, <1>3
<1>5. stack' = SubSeq(stack, 1, k)
  BY <1>1
<1>. HIDE DEF k, Frames
<1>6. /\ Len(SubSeq(stack, 1, k)) = IF 1 <= k THEN k - 1 + 1 ELSE 0
      /\ \A i \in 1 .. k - 1 + 1 : SubSeq(stack, 1, k)[i] = stack[1 + i - 1]
  BY <1>4, SubSeqProperties
<1>7. Len(stack') = k /\ \A i \in 1 .. k : stack'[i] = stack[i]
  BY <1>4, <1>5, <1>6
<1>8. first_txt(Top.name) = Record1(Top.name) /\ Publishes(Top.name)
  BY <1>2, SpfIsPublished
<1>9. Len(Record1(Top.name)) \in Nat
  BY <1>2, <1>8, Record1Type DEF PathInv, TypeOK
<1>10. Top.next > Len(Record1(Top.name))
  BY <1>1, <1>2, <1>8, <1>9 DEF AtTerm
<1>. QED
  BY <1>2, <1>7, <1>10 DEF k

Several == IF Len(SpfRows(Apex)) > 1 THEN {"spf.multiple_records"} ELSE {}

(* Nothing is counted before the walk; each frame has cost a lookup, each  *)
(* name seen has been read; the findings are the verdicts on the counts.   *)
WalkInv ==
  /\ seen = {} => stack = <<>> /\ n = 0 /\ voids = 0
  /\ phase \in {"record", "terminator"} => seen = {}
  /\ seen # {} => Apex \in seen
  /\ phase # "record" => <<Apex, "TXT">> \in read
  /\ \A name \in seen : <<name, "TXT">> \in read
  /\ \A i \in 1 .. Len(stack) : stack[i].next <= Len(Record1(stack[i].name)) + 1
  /\ Len(stack) <= n + 1
  /\ phase \in {"terminator", "count"} => F = Several
  /\ phase = "done" =>
       \/ ~HasSpf(Apex) /\ seen = {} /\ F = {"spf.missing"}
       \/ /\ HasSpf(Apex) /\ seen # {} /\ stack = <<>>
          /\ F = Several \union Verdicts(Record1(Apex), terminator, n, voids)

LEMMA WorldStays ==
  ASSUME [Next]_vars
  PROVE  UNCHANGED world /\ read \subseteq read'
<1>1. CASE Record \/ Hop \/ Begin \/ Plain
  BY <1>1 DEF Record, Hop, Begin, Plain
<1>2. CASE Follow \/ Return \/ Report
  BY <1>2 DEF Follow, Return, Report
<1>3. CASE Finished \/ UNCHANGED vars
  BY <1>3 DEF Finished, vars
<1>. QED
  BY <1>1, <1>2, <1>3 DEF Next, Step

LEMMA WorldIsFixed ==
  ASSUME UNCHANGED world
  PROVE  /\ \A name : HasSpf(name)' = HasSpf(name) /\ Publishes(name)' = Publishes(name)
         /\ \A name : Record1(name)' = Record1(name) /\ first_txt(name)' = first_txt(name)
         /\ \A name : is_void(name)' = is_void(name) /\ SpfRows(name)' = SpfRows(name)
         /\ Several' = Several
BY DEF world, HasSpf, SpfRows, Answered, Publishes, Record1, first_txt, is_void, Several

LEMMA WalkInit == Init => WalkInv
<1>. SUFFICES ASSUME Init
              PROVE  WalkInv
  OBVIOUS
<1>1. phase = "record" /\ stack = <<>> /\ seen = {} /\ n = 0 /\ voids = 0
  BY DEF Init
<1>. QED
  BY <1>1 DEF WalkInv

LEMMA WalkStep == PathInv /\ WalkInv /\ [Next]_vars => WalkInv'
<1>. SUFFICES ASSUME PathInv, WalkInv, [Next]_vars
              PROVE  WalkInv'
  OBVIOUS
<1>w. UNCHANGED world /\ read \subseteq read'
  BY WorldStays
<1>f. /\ \A name : HasSpf(name)' = HasSpf(name) /\ Record1(name)' = Record1(name)
      /\ \A name : first_txt(name)' = first_txt(name)
      /\ Several' = Several
  BY <1>w, WorldIsFixed
<1>t. n \in Nat /\ voids \in Nat /\ Len(stack) \in Nat
  BY Stack DEF PathInv, TypeOK
<1>1. CASE Record
  <2>1. UNCHANGED <<stack, seen, n, voids>> /\ phase = "record" /\ <<Apex, "TXT">> \in read'
    BY <1>1 DEF Record, count
  <2>2. \/ HasSpf(Apex) /\ phase' = "terminator" /\ F' = Several
        \/ ~HasSpf(Apex) /\ phase' = "done" /\ F' = {"spf.missing"}
    BY <1>1 DEF Record, Several
  <2>. QED
    BY <1>f, <1>w, <2>1, <2>2 DEF WalkInv
<1>2. CASE Hop
  <2>1. /\ UNCHANGED <<stack, seen, n, voids, F>> /\ phase = "terminator"
        /\ phase' \in {"terminator", "count"}
    BY <1>2 DEF Hop, count, Terminate, FollowRedirect
  <2>. QED
    BY <1>f, <1>w, <2>1 DEF WalkInv
<1>3. CASE Begin
  <2>1. /\ UNCHANGED <<phase, n, voids, F>> /\ phase = "count" /\ seen = {}
        /\ seen' = {Apex} /\ stack' = <<Frame(Apex)>>
    BY <1>3 DEF Begin
  <2>2. /\ Len(stack') = 1 /\ stack'[1].name = Apex /\ stack'[1].next = 1
    BY <2>1 DEF Frame
  <2>3. Len(Record1(Apex)) \in Nat
    BY <2>1, SpfIsPublished, Record1Type, SpfAssumption DEF PathInv, Enumerable, TypeOK
  <2>4. \A i \in 1 .. Len(stack') : stack'[i].next <= Len(Record1(stack'[i].name)) + 1
    BY <2>2, <2>3
  <2>. QED
    BY <1>f, <1>w, <1>t, <2>1, <2>2, <2>4 DEF WalkInv
<1>4. CASE Moving
  <2>1. /\ AtTerm /\ Len(stack') = Len(stack)
        /\ \A i \in 1 .. Len(stack) :
             /\ stack'[i].name = stack[i].name
             /\ stack'[i].next = IF i = Len(stack) THEN Top.next + 1 ELSE stack[i].next
    BY <1>4, MovedFrames
  <2>2. /\ phase = "count" /\ stack # <<>> /\ Len(stack) \in Nat \ {0}
        /\ Top.next <= Len(Record1(Top.name)) /\ Top = stack[Len(stack)]
        /\ Len(Record1(Top.name)) \in Nat /\ Top.next \in Nat
    BY <2>1, AtTop
  <2>3. UNCHANGED <<phase, F>> /\ n' \in {n, n + 1} /\ seen \subseteq seen'
    BY <1>4 DEF Moving, Plain, Follow
  <2>4. \A name \in seen' : name \in seen \/ <<name, "TXT">> \in read'
    <3>1. CASE Plain
      BY <3>1 DEF Plain
    <3>2. CASE Follow
      BY <3>2 DEF Follow, ReadsOf
    <3>. QED
      BY <1>4, <3>1, <3>2 DEF Moving
  <2>5. \A i \in 1 .. Len(stack') : stack'[i].next <= Len(Record1(stack'[i].name)) + 1
    BY <2>1, <2>2 DEF WalkInv
  <2>. QED
    BY <1>f, <1>w, <1>t, <2>1, <2>2, <2>3, <2>4, <2>5 DEF WalkInv
<1>5. CASE Follow /\ Entering
  <2>1. /\ Len(stack') = Len(stack) + 1 /\ seen' = seen \union {Term.to}
        /\ Term.to \in Names
        /\ stack'[Len(stack) + 1].name = Term.to /\ stack'[Len(stack) + 1].next = 1
        /\ \A i \in 1 .. Len(stack) :
             /\ stack'[i].name = stack[i].name
             /\ stack'[i].next = IF i = Len(stack) THEN Top.next + 1 ELSE stack[i].next
    BY <1>5, EnteredFrames
  <2>2. /\ phase = "count" /\ stack # <<>> /\ Len(stack) \in Nat \ {0}
        /\ Top.next <= Len(Record1(Top.name)) /\ Top = stack[Len(stack)]
        /\ Len(Record1(Top.name)) \in Nat /\ Top.next \in Nat
    BY <1>5, AtTop DEF Entering
  <2>3. UNCHANGED <<phase, F>> /\ n' = n + 1 /\ <<Term.to, "TXT">> \in read'
    BY <1>5 DEF Follow, ReadsOf
  <2>4. Len(Record1(Term.to)) \in Nat
    BY <1>5, <2>1, SpfIsPublished, Record1Type DEF Entering, PathInv, TypeOK
  <2>5. \A i \in 1 .. Len(stack') : stack'[i].next <= Len(Record1(stack'[i].name)) + 1
    <3>. SUFFICES ASSUME NEW i \in 1 .. Len(stack')
                  PROVE  stack'[i].next <= Len(Record1(stack'[i].name)) + 1
      OBVIOUS
    <3>1. CASE i = Len(stack) + 1
      BY <2>1, <2>4, <3>1
    <3>2. CASE i # Len(stack) + 1
      <4>1. i \in 1 .. Len(stack)
        BY <2>1, <2>2, <3>2
      <4>. QED
        BY <2>1, <2>2, <4>1 DEF WalkInv
    <3>. QED
      BY <3>1, <3>2
  <2>6. Len(stack') <= n' + 1
    BY <1>t, <2>1, <2>3 DEF WalkInv
  <2>7. \A name \in seen' : <<name, "TXT">> \in read'
    BY <1>w, <2>1, <2>3 DEF WalkInv
  <2>8. seen # {} /\ phase = "count"
    BY <1>5, <2>2, Stack DEF Entering
  <2>. QED
    BY <1>f, <1>w, <2>1, <2>3, <2>5, <2>6, <2>7, <2>8 DEF WalkInv
<1>6. CASE Return
  <2>1. /\ Len(stack') = Len(stack) - 1 /\ \A i \in 1 .. Len(stack) - 1 : stack'[i] = stack[i]
    BY <1>6, ReturnedFrames
  <2>2. UNCHANGED <<phase, seen, n, voids, F>> /\ phase = "count" /\ stack # <<>>
    BY <1>6 DEF Return, Counting
  <2>3. \A i \in 1 .. Len(stack') : stack'[i].next <= Len(Record1(stack'[i].name)) + 1
    <3>. SUFFICES ASSUME NEW i \in 1 .. Len(stack) - 1
                  PROVE  stack'[i].next <= Len(Record1(stack'[i].name)) + 1
      BY <2>1
    <3>1. i \in 1 .. Len(stack) /\ stack'[i] = stack[i]
      BY <1>t, <2>1
    <3>. QED
      BY <3>1 DEF WalkInv
  <2>. QED
    BY <1>f, <1>w, <1>t, <2>1, <2>2, <2>3 DEF WalkInv
<1>7. CASE Report
  <2>1. /\ UNCHANGED <<stack, seen, n, voids, terminator>> /\ phase = "count" /\ phase' = "done"
        /\ seen # {} /\ stack = <<>>
        /\ F' = F \union Verdicts(first_txt(Apex), terminator, n, voids)
    BY <1>7 DEF Report, hop, count
  <2>2. HasSpf(Apex) /\ first_txt(Apex) = Record1(Apex)
    BY <2>1, SpfIsPublished DEF PathInv, Enumerable
  <2>3. F' = Several \union Verdicts(Record1(Apex), terminator, n, voids)
    BY <2>1, <2>2 DEF WalkInv
  <2>4. Verdicts(Record1(Apex), terminator, n, voids)'
         = Verdicts(Record1(Apex), terminator, n, voids)
    BY <1>f, <2>1 DEF Verdicts, Duplicated
  <2>. QED
    BY <1>f, <1>w, <2>1, <2>2, <2>3, <2>4 DEF WalkInv
<1>8. CASE Finished \/ UNCHANGED vars
  <2>1. UNCHANGED <<phase, stack, seen, n, voids, terminator, F, read>>
    BY <1>8 DEF Finished, vars, hop, count
  <2>2. Verdicts(Record1(Apex), terminator, n, voids)'
         = Verdicts(Record1(Apex), terminator, n, voids)
    BY <1>f, <2>1 DEF Verdicts, Duplicated
  <2>. QED
    BY <1>f, <1>w, <2>1, <2>2 DEF WalkInv
<1>. QED
  BY <1>1, <1>2, <1>3, <1>4, <1>5, <1>6, <1>7, <1>8 DEF Next, Step, Moving

LEMMA WalkInvariant == Spec => [](PathInv /\ WalkInv)
BY PathInit, PathStep, WalkInit, WalkStep, PTL DEF Spec

LEMMA InPlaces ==
  ASSUME NEW names, NEW e
  PROVE  e \in PlacesIn(names) <=>
           /\ e = <<e[1], e[2]>> /\ e[1] \in names /\ Publishes(e[1])
           /\ e[2] \in DOMAIN Record1(e[1])
<1>1. ASSUME e \in PlacesIn(names)
      PROVE  /\ e = <<e[1], e[2]>> /\ e[1] \in names /\ Publishes(e[1])
             /\ e[2] \in DOMAIN Record1(e[1])
  <2>1. PICK name \in {m \in names : Publishes(m)} : e \in {name} \X DOMAIN Record1(name)
    BY <1>1 DEF PlacesIn
  <2>. QED
    BY <2>1
<1>2. ASSUME e = <<e[1], e[2]>>, e[1] \in names, Publishes(e[1]), e[2] \in DOMAIN Record1(e[1])
      PROVE  e \in PlacesIn(names)
  <2>1. e[1] \in {m \in names : Publishes(m)} /\ e \in {e[1]} \X DOMAIN Record1(e[1])
    BY <1>2
  <2>. QED
    BY <2>1 DEF PlacesIn
<1>. QED
  BY <1>1, <1>2

(* The places of terms the walk has passed, and the one it is at.          *)
Enterable == {name \in seen : HasSpf(name)}

Behind(e) == \A i \in 1 .. Len(stack) : stack[i].name = e[1] => e[2] < stack[i].next

Walked == {e \in PlacesIn(Enterable) : Behind(e)}

Here == <<Top.name, Top.next>>

(* Membership in places, in terms of what the world fixes.                 *)
Place(e) == e = <<e[1], e[2]>> /\ Publishes(e[1]) /\ e[2] \in DOMAIN Record1(e[1])

LEMMA InWalked ==
  \A e : e \in Walked <=> Place(e) /\ e[1] \in seen /\ HasSpf(e[1]) /\ Behind(e)
BY InPlaces DEF Walked, Enterable, Place

LEMMA InWalkedNext ==
  ASSUME UNCHANGED world
  PROVE  /\ \A e : e \in Walked' <=> Place(e) /\ e[1] \in seen' /\ HasSpf(e[1]) /\ Behind(e)'
         /\ \A e : TermAt(e)' = TermAt(e)
<1>1. (\A e : e \in Walked <=> Place(e) /\ e[1] \in seen /\ HasSpf(e[1]) /\ Behind(e))'
  BY InWalked, PTL
<1>2. \A e : Place(e)' = Place(e) /\ HasSpf(e[1])' = HasSpf(e[1]) /\ TermAt(e)' = TermAt(e)
  BY WorldIsFixed DEF Place, TermAt
<1>. QED
  BY <1>1, <1>2

LEMMA HereIsNew ==
  ASSUME PathInv, AtTerm
  PROVE  /\ Place(Here) /\ Here[1] = Top.name /\ Here[2] = Top.next
         /\ Here \notin Walked /\ TermAt(Here) = Term
         /\ Top.name \in seen /\ HasSpf(Top.name)
<1>1. /\ Len(stack) \in 1 .. Len(stack) /\ Top = stack[Len(stack)] /\ Publishes(Top.name)
      /\ HasSpf(Top.name) /\ Record1(Top.name) \in Seq(Terms)
      /\ Top.next \in 1 .. Len(Record1(Top.name)) /\ Term = Record1(Top.name)[Top.next]
  BY AtTop
<1>2. Here[1] = Top.name /\ Here[2] = Top.next /\ Here = <<Here[1], Here[2]>>
  BY DEF Here
<1>3. Place(Here) /\ TermAt(Here) = Term
  BY <1>1, <1>2 DEF Place, TermAt
<1>4. ~Behind(Here)
  BY <1>1, <1>2 DEF Behind
<1>5. Top.name \in seen
  BY <1>1, Stack
<1>. QED
  BY <1>1, <1>2, <1>3, <1>4, <1>5, InWalked

(* Plain and Follow pass the place the walk is at; no other step passes    *)
(* one, and none is forgotten.                                             *)
LEMMA WalkedAdvance ==
  ASSUME PathInv, [Next]_vars, Plain \/ Follow
  PROVE  Walked' = Walked \union {Here}
<1>0. AtTerm /\ UNCHANGED world
  BY WorldStays DEF Plain, Follow
<1>1. /\ Len(stack) \in Nat \ {0} /\ Top = stack[Len(stack)] /\ Top.next \in Nat \ {0}
      /\ \A i \in 1 .. Len(stack) : stack[i].name \in seen
  BY <1>0, AtTop, Stack
<1>2. \A i, j \in 1 .. Len(stack) : stack[i].name = stack[j].name => i = j
  BY Stack DEF PathInv, PathIsSimple
<1>3. /\ Place(Here) /\ Here[1] = Top.name /\ Here[2] = Top.next
      /\ Top.name \in seen /\ HasSpf(Top.name)
  BY <1>0, HereIsNew
<1>s. seen \subseteq Names /\ published \in [Names -> Rows]
  BY DEF PathInv, TypeOK
<1>p. \A e : Place(e) /\ e[1] \in Names => e[2] \in Nat \ {0} /\ e = <<e[1], e[2]>>
  <2>. SUFFICES ASSUME NEW e, Place(e), e[1] \in Names
                PROVE  e[2] \in Nat \ {0} /\ e = <<e[1], e[2]>>
    OBVIOUS
  <2>1. Publishes(e[1]) /\ e[2] \in DOMAIN Record1(e[1]) /\ e = <<e[1], e[2]>>
    BY DEF Place
  <2>. QED
    BY <1>s, <2>1, Record1Type
<1>q. \A i \in 1 .. Len(stack) :
        /\ stack'[i].name = stack[i].name
        /\ stack'[i].next = IF i = Len(stack) THEN Top.next + 1 ELSE stack[i].next
  BY MovedFrames, EnteredFrames DEF Moving
<1>4. ASSUME NEW e, Place(e), e[1] \in seen
      PROVE  (\A i \in 1 .. Len(stack) : stack'[i].name = e[1] => e[2] < stack'[i].next)
               <=> Behind(e) \/ e = Here
  <2>1. CASE e[1] = Top.name
    <3>1. Behind(e) <=> e[2] < Top.next
      BY <1>1, <1>2, <2>1 DEF Behind
    <3>2. (\A i \in 1 .. Len(stack) : stack'[i].name = e[1] => e[2] < stack'[i].next)
            <=> e[2] < Top.next + 1
      BY <1>1, <1>2, <1>q, <2>1
    <3>3. e = Here <=> e[2] = Top.next
      BY <1>4, <1>p, <1>s, <2>1 DEF Here
    <3>. QED
      BY <1>1, <1>4, <1>p, <1>s, <3>1, <3>2, <3>3
  <2>2. CASE e[1] # Top.name
    <3>1. \A i \in 1 .. Len(stack) : stack[i].name = e[1] => i # Len(stack)
      BY <1>1, <2>2
    <3>2. e # Here
      BY <1>3, <2>2
    <3>. QED
      BY <1>q, <3>1, <3>2 DEF Behind
  <2>. QED
    BY <2>1, <2>2
<1>5. CASE Moving
  <2>1. Len(stack') = Len(stack)
    BY <1>5, MovedFrames
  <2>2. \A name : name \in seen' /\ HasSpf(name) <=> name \in seen /\ HasSpf(name)
    BY <1>5 DEF Moving, Plain, Follow, Entering
  <2>3. \A e : Place(e) /\ e[1] \in seen => (Behind(e)' <=> Behind(e) \/ e = Here)
    BY <1>4, <2>1 DEF Behind
  <2>4. \A e : e \in Walked' <=> e \in Walked \/ e = Here
    BY <1>0, <1>3, <2>2, <2>3, InWalked, InWalkedNext
  <2>. QED
    BY <2>4
<1>6. CASE Follow /\ Entering
  <2>1. /\ Len(stack') = Len(stack) + 1 /\ seen' = seen \union {Term.to} /\ Term.to \notin seen
        /\ stack'[Len(stack) + 1].name = Term.to /\ stack'[Len(stack) + 1].next = 1
    BY <1>6, EnteredFrames
  <2>2. 1 .. Len(stack') = 1 .. Len(stack) \union {Len(stack) + 1}
    BY <1>1, <2>1
  <2>3. \A e : Place(e) /\ e[1] \in seen => (Behind(e)' <=> Behind(e) \/ e = Here)
    BY <1>4, <2>1, <2>2 DEF Behind
  <2>4. \A e : Place(e) /\ e[1] = Term.to => ~Behind(e)'
    <3>. SUFFICES ASSUME NEW e, Place(e), e[1] = Term.to, Behind(e)'
                  PROVE  FALSE
      OBVIOUS
    <3>1. e[2] < 1
      BY <2>1, <2>2 DEF Behind
    <3>2. e[1] \in Names
      BY <1>6, EnteredFrames
    <3>. QED
      BY <1>p, <3>1, <3>2
  <2>5. \A e : e \in Walked' <=> e \in Walked \/ e = Here
    BY <1>0, <1>3, <2>1, <2>3, <2>4, InWalked, InWalkedNext
  <2>. QED
    BY <2>5
<1>. QED
  BY <1>5, <1>6 DEF Moving

LEMMA WalkedRests ==
  ASSUME PathInv, WalkInv, [Next]_vars, ~Plain, ~Follow
  PROVE  Walked' = Walked
<1>0. UNCHANGED world
  BY WorldStays
<1>1. CASE Begin
  <2>1. seen = {} /\ seen' = {Apex} /\ stack' = <<Frame(Apex)>>
    BY <1>1 DEF Begin
  <2>2. Len(stack') = 1 /\ stack'[1].name = Apex /\ stack'[1].next = 1
    BY <2>1 DEF Frame
  <2>3. \A e : e[1] = Apex /\ Place(e) => ~Behind(e)'
    <3>. SUFFICES ASSUME NEW e, e[1] = Apex, Place(e), Behind(e)'
                  PROVE  FALSE
      OBVIOUS
    <3>1. e[2] < 1
      BY <2>2 DEF Behind
    <3>2. published[Apex] # <<>> /\ e[2] \in DOMAIN Record1(Apex)
      BY DEF Place, Publishes
    <3>3. Record1(Apex) \in Seq(Terms)
      BY <3>2, Record1Type, SpfAssumption DEF PathInv, TypeOK, Publishes
    <3>. QED
      BY <3>1, <3>2, <3>3
  <2>4. \A e : e \notin Walked' /\ e \notin Walked
    BY <1>0, <2>1, <2>3, InWalked, InWalkedNext
  <2>. QED
    BY <2>4
<1>2. CASE Return
  <2>1. /\ Len(stack) \in Nat \ {0} /\ Len(stack') = Len(stack) - 1
        /\ \A i \in 1 .. Len(stack) - 1 : stack'[i] = stack[i]
        /\ Top = stack[Len(stack)] /\ Top.next > Len(Record1(Top.name)) /\ seen' = seen
    BY <1>2, ReturnedFrames DEF Return
  <2>2. \A e : Place(e) /\ e[1] \in seen => (Behind(e)' <=> Behind(e))
    <3>. SUFFICES ASSUME NEW e, Place(e), e[1] \in seen
                  PROVE  Behind(e)' <=> Behind(e)
      OBVIOUS
    <3>1. Top.name = e[1] => e[2] < Top.next
      <4>. SUFFICES ASSUME Top.name = e[1]
                    PROVE  e[2] < Top.next
        OBVIOUS
      <4>1. Publishes(Top.name) /\ e[2] \in DOMAIN Record1(Top.name)
        BY DEF Place
      <4>2. Top.name \in Names /\ Top.next \in Nat
        BY <2>1, Stack
      <4>3. Record1(Top.name) \in Seq(Terms)
        BY <4>1, <4>2, Record1Type DEF PathInv, TypeOK
      <4>. QED
        BY <2>1, <4>1, <4>2, <4>3
    <3>2. 1 .. Len(stack) = 1 .. Len(stack') \union {Len(stack)}
      BY <2>1
    <3>3. \A i \in 1 .. Len(stack') : stack'[i] = stack[i]
      BY <2>1
    <3>. QED
      BY <2>1, <3>1, <3>2, <3>3 DEF Behind
  <2>3. \A e : e \in Walked' <=> e \in Walked
    BY <1>0, <2>1, <2>2, InWalked, InWalkedNext
  <2>. QED
    BY <2>3
<1>3. CASE UNCHANGED <<stack, seen>>
  <2>1. \A e : Behind(e)' <=> Behind(e)
    BY <1>3 DEF Behind
  <2>2. \A e : e \in Walked' <=> e \in Walked
    BY <1>0, <1>3, <2>1, InWalked, InWalkedNext
  <2>. QED
    BY <2>2
<1>4. Record \/ Hop \/ Report \/ Finished \/ UNCHANGED vars => UNCHANGED <<stack, seen>>
  BY DEF Record, Hop, Report, Finished, vars, count
<1>. QED
  BY <1>1, <1>2, <1>3, <1>4 DEF Next, Step

Voided(t) == Followed(t) /\ is_void(t.to)
CostlyWalked == {e \in Walked : Costly(TermAt(e))}
VoidedWalked == {e \in Walked : Voided(TermAt(e))}

(* The counters are the numbers of places passed; a target passed was read *)
(* and seen, unless the depth cap cut it; a name seen is such a target.    *)
LedgerInv ==
  /\ IsFiniteSet(Walked)
  /\ n = Cardinality(CostlyWalked)
  /\ voids = Cardinality(VoidedWalked)
  /\ \A e \in Walked : Followed(TermAt(e)) =>
       ReadsOf(TermAt(e).to) \subseteq read /\ (TermAt(e).to \in seen \/ n > MaxDepth)
  /\ \A name \in seen \ {Apex} : \E e \in Walked : Followed(TermAt(e)) /\ TermAt(e).to = name

LEMMA LedgerInit == Init => LedgerInv
<1>. SUFFICES ASSUME Init
              PROVE  LedgerInv
  OBVIOUS
<1>1. seen = {} /\ n = 0 /\ voids = 0
  BY DEF Init
<1>2. Walked = {}
  BY <1>1, InWalked
<1>3. CostlyWalked = {} /\ VoidedWalked = {}
  BY <1>2 DEF CostlyWalked, VoidedWalked
<1>. QED
  BY <1>1, <1>2, <1>3, FS_EmptySet DEF LedgerInv

LEMMA OneMore ==
  ASSUME NEW S, NEW T, NEW x, IsFiniteSet(S), NEW p \in BOOLEAN, x \notin S,
         T = IF p THEN S \union {x} ELSE S
  PROVE  IsFiniteSet(T) /\ Cardinality(S) \in Nat
         /\ Cardinality(T) = IF p THEN Cardinality(S) + 1 ELSE Cardinality(S)
BY FS_AddElement, FS_CardinalityType

LEMMA LedgerStep == PathInv /\ WalkInv /\ LedgerInv /\ [Next]_vars => LedgerInv'
<1>. SUFFICES ASSUME PathInv, WalkInv, LedgerInv, [Next]_vars
              PROVE  LedgerInv'
  OBVIOUS
<1>w. UNCHANGED world /\ read \subseteq read'
  BY WorldStays
<1>t. /\ \A e : TermAt(e)' = TermAt(e)
      /\ \A e : Voided(TermAt(e))' = Voided(TermAt(e))
      /\ \A name : ReadsOf(name)' = ReadsOf(name)
  <2>1. \A e : TermAt(e)' = TermAt(e)
    BY <1>w, InWalkedNext
  <2>2. \A name : is_void(name)' = is_void(name)
    BY <1>w, WorldIsFixed
  <2>3. \A name : ReadsOf(name)' = ReadsOf(name)
    BY <1>w DEF ReadsOf, HasSpf, SpfRows, Answered, world
  <2>. QED
    BY <2>1, <2>2, <2>3 DEF Voided, Followed
<1>n. n \in Nat /\ MaxDepth \in Nat
  BY SpfAssumption DEF PathInv, TypeOK
<1>s. CostlyWalked' = {e \in Walked' : Costly(TermAt(e))}
      /\ VoidedWalked' = {e \in Walked' : Voided(TermAt(e))}
  BY <1>t DEF CostlyWalked, VoidedWalked, Costly
<1>f. IsFiniteSet(CostlyWalked) /\ IsFiniteSet(VoidedWalked)
  <2>1. CostlyWalked \in SUBSET Walked /\ VoidedWalked \in SUBSET Walked /\ IsFiniteSet(Walked)
    BY DEF CostlyWalked, VoidedWalked, LedgerInv
  <2>. QED
    BY <2>1, FS_Subset
<1>1. CASE Plain \/ Follow
  <2>0. AtTerm
    BY <1>1 DEF Plain, Follow
  <2>1. Walked' = Walked \union {Here}
    BY <1>1, WalkedAdvance
  <2>2. Here \notin Walked /\ TermAt(Here) = Term /\ Term \in Terms
    BY <2>0, HereIsNew, AtTop
  <2>. DEFINE costs == Costly(Term)
              dangles == Voided(Term)
  <2>3. IsFiniteSet(Walked')
    BY <2>1, FS_AddElement DEF LedgerInv
  <2>4. /\ n' = IF costs THEN n + 1 ELSE n
        /\ voids' = IF dangles THEN voids + 1 ELSE voids
    <3>1. CASE Plain
      <4>1. Term.kind \in {"mech", "adorned", "qualified", "all"}
        BY <2>2, <3>1 DEF Plain, Terms
      <4>. QED
        BY <3>1, <4>1 DEF Plain, Costly, Voided, Followed
    <3>2. CASE Follow
      BY <3>2 DEF Follow, Costly, Voided, Followed
    <3>. QED
      BY <1>1, <3>1, <3>2
  <2>5. n' = Cardinality(CostlyWalked')
    <3>1. CostlyWalked' = IF costs THEN CostlyWalked \union {Here} ELSE CostlyWalked
      BY <1>s, <2>1, <2>2 DEF CostlyWalked
    <3>2. Here \notin CostlyWalked /\ costs \in BOOLEAN
      BY <2>2 DEF CostlyWalked, Costly
    <3>. HIDE DEF costs
    <3>3. Cardinality(CostlyWalked') = IF costs THEN Cardinality(CostlyWalked) + 1
                                       ELSE Cardinality(CostlyWalked)
      BY <1>f, <3>1, <3>2, OneMore
    <3>. QED
      BY <2>4, <3>3 DEF LedgerInv
  <2>6. voids' = Cardinality(VoidedWalked')
    <3>1. VoidedWalked' = IF dangles THEN VoidedWalked \union {Here} ELSE VoidedWalked
      BY <1>s, <2>1, <2>2 DEF VoidedWalked
    <3>2. Here \notin VoidedWalked /\ dangles \in BOOLEAN
      BY <2>2 DEF VoidedWalked, Voided, Followed
    <3>. HIDE DEF dangles
    <3>3. Cardinality(VoidedWalked') = IF dangles THEN Cardinality(VoidedWalked) + 1
                                       ELSE Cardinality(VoidedWalked)
      BY <1>f, <3>1, <3>2, OneMore
    <3>. QED
      BY <2>4, <3>3 DEF LedgerInv
  <2>n. n' >= n /\ seen \subseteq seen'
    BY <1>1, <1>n, <2>4 DEF Plain, Follow
  <2>7. Followed(Term) =>
          ReadsOf(Term.to) \subseteq read' /\ (Term.to \in seen' \/ n' > MaxDepth)
    <3>. SUFFICES ASSUME Followed(Term)
                  PROVE  ReadsOf(Term.to) \subseteq read' /\ (Term.to \in seen' \/ n' > MaxDepth)
      OBVIOUS
    <3>1. Follow
      BY <1>1 DEF Plain, Followed
    <3>2. ReadsOf(Term.to) \subseteq read' /\ n' = n + 1
      BY <3>1 DEF Follow
    <3>3. CASE Len(stack) <= MaxDepth
      BY <3>1, <3>2, <3>3 DEF Follow, Enters
    <3>4. CASE ~(Len(stack) <= MaxDepth)
      <4>1. Len(stack) <= n + 1 /\ Len(stack) \in Nat
        BY Stack DEF WalkInv
      <4>. QED
        BY <1>n, <3>2, <3>4, <4>1
    <3>. QED
      BY <3>3, <3>4
  <2>8. ASSUME NEW e \in Walked', Followed(TermAt(e))
        PROVE  /\ ReadsOf(TermAt(e).to) \subseteq read'
               /\ TermAt(e).to \in seen' \/ n' > MaxDepth
    <3>1. CASE e = Here
      BY <2>2, <2>7, <2>8, <3>1
    <3>2. CASE e \in Walked
      <4>1. ReadsOf(TermAt(e).to) \subseteq read /\ (TermAt(e).to \in seen \/ n > MaxDepth)
        BY <2>8, <3>2 DEF LedgerInv
      <4>2. n > MaxDepth => n' > MaxDepth
        BY <1>n, <2>4
      <4>. QED
        BY <1>w, <2>n, <4>1, <4>2
    <3>. QED
      BY <2>1, <3>1, <3>2
  <2>9. ASSUME NEW name \in seen' \ {Apex}
        PROVE  \E e \in Walked' : Followed(TermAt(e)) /\ TermAt(e).to = name
    <3>1. CASE name \in seen
      BY <2>1, <2>9, <3>1 DEF LedgerInv
    <3>2. CASE name \notin seen
      <4>1. Follow /\ name = Term.to
        BY <1>1, <2>9, <3>2 DEF Plain, Follow
      <4>2. Followed(TermAt(Here)) /\ TermAt(Here).to = name
        BY <2>2, <4>1 DEF Follow, Followed
      <4>. QED
        BY <2>1, <4>2
    <3>. QED
      BY <3>1, <3>2
  <2>. QED
    BY <1>t, <2>3, <2>5, <2>6, <2>8, <2>9 DEF LedgerInv, Followed
<1>2. CASE ~Plain /\ ~Follow
  <2>1. Walked' = Walked
    BY <1>2, WalkedRests
  <2>2. n' = n /\ voids' = voids
    BY <1>2 DEF Next, Step, Record, Hop, Begin, Return, Report, Finished, vars, count
  <2>3. CostlyWalked' = CostlyWalked /\ VoidedWalked' = VoidedWalked
    BY <1>s, <2>1 DEF CostlyWalked, VoidedWalked
  <2>4. seen' = seen \/ (seen = {} /\ seen' = {Apex})
    BY <1>2 DEF Next, Step, Record, Hop, Begin, Return, Report, Finished, vars, count
  <2>. QED
    BY <1>w, <1>t, <2>1, <2>2, <2>3, <2>4 DEF LedgerInv, Followed
<1>. QED
  BY <1>1, <1>2

LEMMA LedgerInvariant == Spec => [](PathInv /\ WalkInv /\ LedgerInv)
BY PathInit, PathStep, WalkInit, WalkStep, LedgerInit, LedgerStep, PTL DEF Spec

LEMMA ChainIsFixed ==
  ASSUME UNCHANGED world
  PROVE  Chain' = Chain
<1>1. published' = published
  BY DEF world
<1>. QED
  BY <1>1 DEF Chain, Target, Publishes, Record1, Redirects, IndexOf, IsRedirect, FirstOf

Returns(k) == \E j \in 0 .. k - 1 : Chain[j] = Chain[k]

(* A record of the chain that has neither a qualifier nor an end.          *)
Undecided(k) ==
  /\ k <= MaxHops /\ ~Returns(k) /\ HasSpf(Chain[k])
  /\ spf_qualifier(Record1(Chain[k])) = None /\ Redirects(Record1(Chain[k])) # {}

Decided ==
  \/ /\ terminator = None
     /\ hops > MaxHops \/ Returns(hops) \/ (~HasSpf(at) /\ <<at, "TXT">> \in read)
  \/ /\ hops <= MaxHops /\ ~Returns(hops) /\ HasSpf(at)
     /\ terminator = spf_qualifier(Record1(at))
     /\ terminator # None \/ Redirects(Record1(at)) = {}

(* effective_terminator is so many redirects down the chain, over records  *)
(* that decide nothing.                                                    *)
ChainInv ==
  /\ at = Chain[hops]
  /\ \A k \in 0 .. hops - 1 : Undecided(k)
  /\ phase = "record" => hops = 0
  /\ phase \in {"record", "terminator"} => passed = {Chain[k] : k \in 0 .. hops - 1}
  /\ phase = "count" \/ (phase = "done" /\ HasSpf(Apex)) => Decided

LEMMA ChainInit == Init => ChainInv
<1>. SUFFICES ASSUME Init
              PROVE  ChainInv
  OBVIOUS
<1>1. phase = "record" /\ at = Apex /\ hops = 0 /\ passed = {}
  BY DEF Init
<1>2. published \in [Names -> Rows]
  BY PathInit DEF PathInv, TypeOK
<1>3. Chain[0] = Apex
  BY <1>2, ChainIs
<1>4. 0 .. hops - 1 = {}
  BY <1>1
<1>. QED
  BY <1>1, <1>3, <1>4 DEF ChainInv

LEMMA ChainStep == PathInv /\ ChainInv /\ [Next]_vars => ChainInv'
<1>. SUFFICES ASSUME PathInv, ChainInv, [Next]_vars
              PROVE  ChainInv'
  OBVIOUS
<1>w. UNCHANGED world /\ read \subseteq read'
  BY WorldStays
<1>f. /\ Chain' = Chain
      /\ \A name : HasSpf(name)' = HasSpf(name) /\ Record1(name)' = Record1(name)
  BY <1>w, ChainIsFixed, WorldIsFixed
<1>u. \A k : Undecided(k)' = Undecided(k) /\ Returns(k)' = Returns(k)
  BY <1>f DEF Undecided, Returns
<1>t. hops \in Nat /\ published \in [Names -> Rows] /\ MaxHops \in Nat /\ at \in Names
  BY SpfAssumption DEF PathInv, TypeOK
<1>1. CASE Record
  <2>1. UNCHANGED <<at, hops, passed>> /\ phase = "record" /\ phase' \in {"terminator", "done"}
        /\ (phase' = "done" => ~HasSpf(Apex))
    BY <1>1 DEF Record, hop
  <2>. QED
    BY <1>f, <1>u, <2>1 DEF ChainInv
<1>2. CASE Hop
  <2>1. /\ phase = "terminator" /\ passed' = passed \union {at}
        /\ read' = read \union (IF hops > MaxHops \/ at \in passed THEN {} ELSE {<<at, "TXT">>})
        /\ passed = {Chain[k] : k \in 0 .. hops - 1} /\ at = Chain[hops]
    BY <1>2 DEF Hop, ChainInv
  <2>2. at \in passed <=> Returns(hops)
    BY <2>1 DEF Returns
  <2>3. CASE ChainEnds /\ Terminate(None)
    <3>1. UNCHANGED <<at, hops>> /\ terminator' = None /\ phase' = "count"
      BY <2>3 DEF Terminate
    <3>2. hops > MaxHops \/ Returns(hops) \/ (~HasSpf(at) /\ <<at, "TXT">> \in read')
      BY <2>1, <2>2, <2>3 DEF ChainEnds
    <3>3. Decided'
      BY <1>f, <1>u, <3>1, <3>2 DEF Decided
    <3>. QED
      BY <1>f, <1>u, <3>1, <3>3 DEF ChainInv
  <2>4. CASE ~ChainEnds
    <3>1. /\ hops <= MaxHops /\ ~Returns(hops) /\ HasSpf(at) /\ Publishes(at)
          /\ first_txt(at) = Record1(at)
      BY <1>t, <2>2, <2>4, SpfIsPublished DEF ChainEnds
    <3>2. CASE /\ spf_qualifier(Record1(at)) # None \/ Redirects(Record1(at)) = {}
               /\ Terminate(spf_qualifier(Record1(at)))
      <4>1. UNCHANGED <<at, hops>> /\ terminator' = spf_qualifier(Record1(at)) /\ phase' = "count"
        BY <3>2 DEF Terminate
      <4>2. Decided'
        BY <1>f, <1>u, <3>1, <3>2, <4>1 DEF Decided
      <4>. QED
        BY <1>f, <1>u, <4>1, <4>2 DEF ChainInv
    <3>3. CASE /\ spf_qualifier(Record1(at)) = None /\ Redirects(Record1(at)) # {}
               /\ FollowRedirect(Record1(at))
      <4>1. /\ at' = Record1(at)[FirstOf(Redirects(Record1(at)))].to /\ hops' = hops + 1
            /\ phase' = "terminator"
        BY <2>1, <3>3 DEF FollowRedirect
      <4>2. at' = Chain[hops + 1]
        <5>1. Chain[hops + 1] = Target(Chain[hops])
          BY <1>t, ChainIs
        <5>. QED
          BY <2>1, <3>1, <3>3, <4>1, <5>1 DEF Target
      <4>3. Undecided(hops)
        BY <2>1, <3>1, <3>3 DEF Undecided
      <4>4. 0 .. hops' - 1 = (0 .. hops - 1) \union {hops}
        BY <1>t, <4>1
      <4>5. \A k \in 0 .. hops' - 1 : Undecided(k)
        BY <4>3, <4>4 DEF ChainInv
      <4>6. passed' = {Chain[k] : k \in 0 .. hops' - 1}
        BY <2>1, <4>4
      <4>. QED
        BY <1>f, <1>u, <4>1, <4>2, <4>5, <4>6 DEF ChainInv
    <3>. QED
      BY <1>2, <2>4, <3>1, <3>2, <3>3 DEF Hop
  <2>. QED
    BY <1>2, <2>3, <2>4 DEF Hop
<1>3. CASE ~Record /\ ~Hop
  <2>1. /\ UNCHANGED <<at, hops, passed, terminator>>
        /\ phase' = phase \/ (phase = "count" /\ phase' = "done")
    BY <1>3 DEF Next, Step, Begin, Plain, Follow, Return, Report, Finished, vars, hop
  <2>2. Decided => Decided'
    BY <1>f, <1>u, <1>w, <2>1 DEF Decided
  <2>. QED
    BY <1>f, <1>u, <2>1, <2>2 DEF ChainInv
<1>. QED
  BY <1>1, <1>2, <1>3

(* What no failure can hide: a name whose TXT lookup is not charged.       *)
LEMMA ReadIsAnswered ==
  ASSUME PathInv, NEW name \in Names, <<name, "TXT">> \in read \ Charged
  PROVE  /\ Answered(name) /\ SpfRows(name) = published[name]
         /\ HasSpf(name) <=> Publishes(name)
<1>1. ends[name] \in Ends
  BY DEF PathInv, TypeOK
<1>2. ~(ends[name] \in {"lost", "refused"})
  <2>1. <<name, "TXT">>[1] = name /\ <<name, "TXT">>[2] = "TXT"
    OBVIOUS
  <2>. QED
    BY <2>1 DEF Charged
<1>3. Answered(name)
  BY <1>1, <1>2 DEF Ends, Answered
<1>. QED
  BY <1>3 DEF SpfRows, HasSpf, Publishes

(* Without a loss, effective_terminator ends where the published records   *)
(* end the chain, with their qualifier.                                    *)
LEMMA SameTerminator ==
  ASSUME PathInv, ChainInv, Decided, Charged = {}
  PROVE  terminator = Scanned
<1>. DEFINE ends_at == {k \in 0 .. MaxHops + 1 :
                          \/ Blank(k)
                          \/ spf_qualifier(Record1(Chain[k])) # None
                          \/ Redirects(Record1(Chain[k])) = {}}
<1>t. hops \in Nat /\ MaxHops \in Nat /\ at \in Names /\ at = Chain[hops]
  BY SpfAssumption DEF PathInv, TypeOK, ChainInv
<1>1. \A k \in 0 .. hops - 1 : k <= MaxHops /\ k \notin ends_at
  <2>. SUFFICES ASSUME NEW k \in 0 .. hops - 1
                PROVE  k <= MaxHops /\ k \notin ends_at
    OBVIOUS
  <2>1. /\ k <= MaxHops /\ ~Returns(k) /\ HasSpf(Chain[k])
        /\ spf_qualifier(Record1(Chain[k])) = None /\ Redirects(Record1(Chain[k])) # {}
    BY DEF ChainInv, Undecided
  <2>2. Publishes(Chain[k])
    BY <2>1, SpfIsPublished
  <2>3. ~Blank(k)
    BY <1>t, <2>1, <2>2 DEF Blank, Repeats, Returns
  <2>. QED
    BY <2>1, <2>3
<1>2. hops \in 0 .. MaxHops + 1
  <2>1. hops = 0 \/ hops - 1 \in 0 .. hops - 1
    BY <1>t
  <2>. QED
    BY <1>t, <1>1, <2>1
<1>3. /\ hops \in ends_at
      /\ terminator = IF Blank(hops) THEN None ELSE spf_qualifier(Record1(Chain[hops]))
  <2>1. CASE /\ terminator = None
             /\ hops > MaxHops \/ Returns(hops) \/ (~HasSpf(at) /\ <<at, "TXT">> \in read)
    <3>1. Blank(hops)
      BY <1>t, <2>1, ReadIsAnswered DEF Blank, Repeats, Returns
    <3>. QED
      BY <1>2, <2>1, <3>1
  <2>2. CASE /\ hops <= MaxHops /\ ~Returns(hops) /\ HasSpf(at)
             /\ terminator = spf_qualifier(Record1(at))
             /\ terminator # None \/ Redirects(Record1(at)) = {}
    <3>1. ~Blank(hops)
      BY <1>t, <2>2, SpfIsPublished DEF Blank, Repeats, Returns
    <3>. QED
      BY <1>t, <1>2, <2>2, <3>1
  <2>. QED
    BY <2>1, <2>2 DEF Decided
<1>4. \A k \in ends_at : hops <= k
  <2>. SUFFICES ASSUME NEW k \in ends_at, ~(hops <= k)
                PROVE  FALSE
    OBVIOUS
  <2>1. k \in 0 .. hops - 1
    BY <1>t
  <2>. HIDE DEF ends_at
  <2>. QED
    BY <1>1, <2>1
<1>5. FirstOf(ends_at) = hops
  <2>1. ends_at \subseteq Nat
    BY <1>t
  <2>. HIDE DEF ends_at
  <2>2. \A i \in ends_at : (\A j \in ends_at : i <= j) => i = hops
    BY <1>t, <1>3, <1>4, <2>1
  <2>. QED
    BY <1>3, <1>4, <2>2 DEF FirstOf
<1>6. Scanned = IF Blank(FirstOf(ends_at)) THEN None
                ELSE spf_qualifier(Record1(Chain[FirstOf(ends_at)]))
  BY DEF Scanned, EndsWith
<1>. QED
  BY <1>3, <1>5, <1>6

(* Where no all is in capitals, verify.py finds what the scanner finds.    *)
LEMMA SameQualifier ==
  ASSUME published \in [Names -> Rows], InLowerCase("all"), NEW name \in Names, Publishes(name)
  PROVE  spf_terminator(Record1(name)) = spf_qualifier(Record1(name))
<1>. DEFINE rec == Record1(name)
<1>1. \A i \in DOMAIN rec : rec[i].kind = "all" => ~rec[i].loud
  <2>. SUFFICES ASSUME NEW i \in DOMAIN rec, rec[i].kind = "all"
                PROVE  ~rec[i].loud
    OBVIOUS
  <2>. DEFINE e == <<name, i>>
  <2>1. e = <<e[1], e[2]>> /\ e[1] \in Names /\ Publishes(e[1]) /\ e[2] \in DOMAIN Record1(e[1])
    OBVIOUS
  <2>2. e \in PlacesIn(Names) /\ TermAt(e) = rec[i]
    BY <2>1, InPlaces DEF TermAt
  <2>. QED
    BY <2>2 DEF InLowerCase
<1>2. \A i \in DOMAIN rec : LooksLikeLowAll(rec[i]) <=> LooksLikeAll(rec[i])
  BY <1>1 DEF LooksLikeLowAll
<1>. HIDE DEF rec
<1>3. IndexOf(rec, LooksLikeLowAll) = IndexOf(rec, LooksLikeAll)
  BY <1>2 DEF IndexOf
<1>. QED
  BY <1>3 DEF spf_terminator, spf_qualifier, rec

LEMMA SameEnd ==
  ASSUME published \in [Names -> Rows], InLowerCase("all")
  PROVE  eff_term = Scanned
<1>. DEFINE ends_by(q(_)) == {k \in 0 .. MaxHops + 1 :
                               \/ Blank(k)
                               \/ q(Record1(Chain[k])) # None
                               \/ Redirects(Record1(Chain[k])) = {}}
            first == FirstOf(ends_by(spf_qualifier))
<1>1. \A k \in Nat : ~Blank(k) =>
        spf_terminator(Record1(Chain[k])) = spf_qualifier(Record1(Chain[k]))
  <2>. SUFFICES ASSUME NEW k \in Nat, ~Blank(k)
                PROVE  spf_terminator(Record1(Chain[k])) = spf_qualifier(Record1(Chain[k]))
    OBVIOUS
  <2>1. Chain[k] \in Names /\ Publishes(Chain[k])
    BY ChainIs DEF Blank
  <2>. QED
    BY <2>1, SameQualifier
<1>2. ends_by(spf_terminator) = ends_by(spf_qualifier)
  BY <1>1
<1>3. first \in Nat
  <2>1. MaxHops + 1 \in 0 .. MaxHops + 1 /\ Blank(MaxHops + 1)
    BY SpfAssumption DEF Blank
  <2>2. ends_by(spf_qualifier) # {} /\ ends_by(spf_qualifier) \subseteq Nat
    BY <2>1
  <2>. HIDE DEF ends_by
  <2>3. \A S : S # {} /\ S \subseteq Nat => FirstOf(S) \in S
    BY FirstIn
  <2>. QED
    BY <2>2, <2>3
<1>4. /\ eff_term = IF Blank(first) THEN None ELSE spf_terminator(Record1(Chain[first]))
      /\ Scanned = IF Blank(first) THEN None ELSE spf_qualifier(Record1(Chain[first]))
  <2>1. eff_term = IF Blank(FirstOf(ends_by(spf_terminator))) THEN None
                   ELSE spf_terminator(Record1(Chain[FirstOf(ends_by(spf_terminator))]))
    BY DEF eff_term, EndsWith
  <2>2. Scanned = IF Blank(first) THEN None ELSE spf_qualifier(Record1(Chain[first]))
    BY DEF Scanned, EndsWith
  <2>. HIDE DEF ends_by
  <2>. QED
    BY <1>2, <2>1, <2>2
<1>. HIDE DEF first
<1>. QED
  BY <1>1, <1>3, <1>4

(* Without a redirect= in capitals, a receiver follows the same chain.     *)
IsReceiverChain(f) == f = [k \in Nat |-> IF k = 0 THEN Apex ELSE ReceiverTarget(f[k - 1])]

LEMMA SameTarget ==
  ASSUME published \in [Names -> Rows], InLowerCase("redirect"), NEW name \in Names
  PROVE  ReceiverTarget(name) = Target(name)
<1>1. CASE ~Publishes(name)
  BY <1>1 DEF ReceiverTarget, Target
<1>2. CASE Publishes(name)
  <2>. DEFINE rec == Record1(name)
  <2>1. \A i \in DOMAIN rec : rec[i].kind = "redirect" => ~rec[i].loud
    <3>. SUFFICES ASSUME NEW i \in DOMAIN rec, rec[i].kind = "redirect"
                  PROVE  ~rec[i].loud
      OBVIOUS
    <3>. DEFINE e == <<name, i>>
    <3>1. e = <<e[1], e[2]>> /\ e[1] \in Names /\ Publishes(e[1]) /\ e[2] \in DOMAIN Record1(e[1])
      BY <1>2
    <3>2. e \in PlacesIn(Names) /\ TermAt(e) = rec[i]
      BY <3>1, InPlaces DEF TermAt
    <3>. QED
      BY <3>2 DEF InLowerCase
  <2>. HIDE DEF rec
  <2>2. Modifiers(rec) = Redirects(rec)
    BY <2>1 DEF Modifiers, Redirects, IndexOf, AnyRedirect, IsRedirect
  <2>. QED
    BY <2>2 DEF ReceiverTarget, Target, rec
<1>. QED
  BY <1>1, <1>2

LEMMA SameChain ==
  ASSUME published \in [Names -> Rows], InLowerCase("redirect")
  PROVE  ReceiverChain = Chain
<1>1. /\ Chain \in [Nat -> Names] /\ Chain[0] = Apex
      /\ \A k \in Nat : Chain[k + 1] = Target(Chain[k])
  BY ChainIs
<1>2. \A k \in Nat : k = 0 \/ (k - 1 \in Nat /\ k = (k - 1) + 1)
  OBVIOUS
<1>3. \A k \in Nat : Chain[k] = IF k = 0 THEN Apex ELSE ReceiverTarget(Chain[k - 1])
  BY <1>1, <1>2, SameTarget
<1>4. IsReceiverChain(Chain)
  <2>1. Chain = [k \in Nat |-> Chain[k]]
    BY <1>1
  <2>. QED
    BY <1>3, <2>1 DEF IsReceiverChain
<1>5. IsReceiverChain(ReceiverChain)
  <2>1. ReceiverChain = CHOOSE c : IsReceiverChain(c)
    BY Zenon DEF ReceiverChain, IsReceiverChain
  <2>. QED
    BY <1>4, <2>1, Zenon
<1>. DEFINE c == ReceiverChain
<1>6. c = [k \in Nat |-> IF k = 0 THEN Apex ELSE ReceiverTarget(c[k - 1])]
  BY <1>5, Zenon DEF IsReceiverChain
<1>. DEFINE P == {k \in Nat : c[k] = Chain[k]}
<1>. HIDE DEF c
<1>7. c[0] = Apex /\ \A k \in Nat : c[k + 1] = ReceiverTarget(c[k])
  <2>1. \A k \in Nat : c[k] = IF k = 0 THEN Apex ELSE ReceiverTarget(c[k - 1])
    BY <1>6, Zenon
  <2>2. 0 \in Nat /\ \A k \in Nat : k + 1 \in Nat /\ k + 1 # 0 /\ (k + 1) - 1 = k
    OBVIOUS
  <2>. QED
    BY <2>1, <2>2
<1>8. 0 \in P /\ \A k \in Nat : k \in P => k + 1 \in P
  BY <1>1, <1>7, SameTarget
<1>. HIDE DEF P
<1>9. Nat \subseteq P
  BY <1>8, Induction
<1>10. \A k \in Nat : c[k] = Chain[k]
  BY <1>9 DEF P
<1>11. c = [k \in Nat |-> c[k]]
  BY <1>6, Zenon
<1>. QED
  BY <1>1, <1>10, <1>11 DEF c

Having(k) == Publishes(Chain[k]) /\ HasAll(Record1(Chain[k]))

LEMMA QualifierIsAll ==
  ASSUME published \in [Names -> Rows], \A e \in Edges : TargetOf(e) \notin AllLike,
         NEW name \in Names, Publishes(name)
  PROVE  /\ spf_qualifier(Record1(name)) # None <=> HasAll(Record1(name))
         /\ HasAll(Record1(name)) => spf_qualifier(Record1(name)) =
              Record1(name)[FirstOf(IndexOf(Record1(name), IsAll))].q
<1>. DEFINE rec == Record1(name)
            hits == {i \in DOMAIN rec : LooksLikeAll(rec[i])}
            alls == {i \in DOMAIN rec : rec[i].kind = "all"}
<1>1. rec \in Seq(Terms) /\ \A i \in DOMAIN rec : rec[i] \in Terms
  BY Record1Type
<1>2. hits = alls
  <2>. SUFFICES ASSUME NEW i \in DOMAIN rec, LooksLikeAll(rec[i]), rec[i].kind # "all"
                PROVE  FALSE
    BY DEF LooksLikeAll
  <2>1. rec[i].kind \in Targeted /\ rec[i].to \in AllLike
    BY DEF LooksLikeAll
  <2>. DEFINE e == <<name, i>>
  <2>2. e[1] = name /\ e[2] = i
    OBVIOUS
  <2>3. e \in PlacesIn(Names) /\ TermAt(e) = rec[i]
    <3>1. e = <<e[1], e[2]>> /\ e[1] \in Names /\ Publishes(e[1]) /\ e[2] \in DOMAIN Record1(e[1])
      OBVIOUS
    <3>2. e \in PlacesIn(Names)
      BY <3>1, InPlaces
    <3>. QED
      BY <3>2 DEF TermAt
  <2>. HIDE DEF e
  <2>4. e \in Edges /\ TargetOf(e) = rec[i].to
    BY <2>1, <2>3 DEF Edges, TargetOf
  <2>. QED
    BY <2>1, <2>4
<1>3. IndexOf(rec, LooksLikeAll) = hits /\ IndexOf(rec, IsAll) = alls
  BY DEF IndexOf, IsAll
<1>4. alls # {} => rec[FirstOf(alls)].kind = "all" /\ rec[FirstOf(alls)] \in Terms
  <2>1. alls \subseteq DOMAIN rec /\ alls \in SUBSET Nat
    BY <1>1
  <2>2. \A i \in alls : rec[i].kind = "all"
    OBVIOUS
  <2>. HIDE DEF alls
  <2>. QED
    BY <1>1, <2>1, <2>2, FirstIn
<1>5. alls # {} => rec[FirstOf(alls)].q \in Qualifiers
  BY <1>4 DEF Terms
<1>. HIDE DEF rec, hits, alls
<1>6. spf_qualifier(rec) = IF alls = {} THEN None ELSE rec[FirstOf(alls)].q
  BY <1>2, <1>3, <1>4 DEF spf_qualifier
<1>7. HasAll(rec) <=> alls # {}
  BY <1>3 DEF HasAll
<1>. QED
  BY <1>3, <1>5, <1>6, <1>7 DEF rec, Qualifiers, None

(* A chain that returns, or stays where it is, finds nothing new.          *)
LEMMA ReturningChain ==
  ASSUME published \in [Names -> Rows], NEW k \in Nat, Returns(k),
         \A j \in 0 .. k - 1 : ~Having(j)
  PROVE  \A i \in Nat : ~Having(i)
<1>. DEFINE S == {Chain[j] : j \in 0 .. k - 1}
<1>1. /\ Chain[0] = Apex /\ \A i \in Nat : Chain[i + 1] = Target(Chain[i])
  BY ChainIs
<1>2. Chain[k] \in S /\ k # 0
  BY DEF Returns
<1>3. Chain[0] \in S
  BY <1>2
<1>4. ASSUME NEW i \in Nat, Chain[i] \in S
      PROVE  Chain[i + 1] \in S
  <2>1. PICK j \in 0 .. k - 1 : Chain[i] = Chain[j]
    BY <1>4
  <2>2. Chain[i + 1] = Chain[j + 1]
    BY <1>1, <2>1
  <2>3. CASE j + 1 = k
    BY <1>2, <2>2, <2>3
  <2>4. CASE j + 1 # k
    <3>1. j + 1 \in 0 .. k - 1
      BY <2>4
    <3>. QED
      BY <2>2, <3>1
  <2>. QED
    BY <2>3, <2>4
<1>5. \A i \in Nat : Chain[i] \in S
  <2>. HIDE DEF S
  <2>. QED
    BY <1>3, <1>4, Stays
<1>. QED
  BY <1>5 DEF Having

LEMMA StuckChain ==
  ASSUME published \in [Names -> Rows], NEW k \in Nat, Target(Chain[k]) = Chain[k],
         \A j \in 0 .. k : ~Having(j)
  PROVE  \A i \in Nat : ~Having(i)
<1>. DEFINE c == [i \in Nat |-> Chain[k + i]]
            T == {Chain[k]}
<1>1. c[0] \in T
  BY ChainIs
<1>2. \A i \in Nat : c[i] \in T => c[i + 1] \in T
  <2>. SUFFICES ASSUME NEW i \in Nat, Chain[k + i] = Chain[k]
                PROVE  Chain[k + (i + 1)] = Chain[k]
    OBVIOUS
  <2>1. k + (i + 1) = (k + i) + 1 /\ k + i \in Nat
    OBVIOUS
  <2>2. Chain[(k + i) + 1] = Target(Chain[k + i])
    BY <2>1, ChainIs
  <2>. QED
    BY <2>1, <2>2
<1>3. \A i \in Nat : c[i] = Chain[k + i]
  OBVIOUS
<1>. HIDE DEF c
<1>4. \A i \in Nat : c[i] \in T
  <2>. HIDE DEF T
  <2>. QED
    BY <1>1, <1>2, Stays
<1>5. \A i \in Nat : i \in 0 .. k \/ (i - k \in Nat /\ i = k + (i - k))
  OBVIOUS
<1>6. \A i \in Nat : i \in 0 .. k \/ Chain[i] = Chain[k]
  BY <1>3, <1>4, <1>5
<1>7. k \in 0 .. k
  OBVIOUS
<1>. QED
  BY <1>6, <1>7 DEF Having

LEMMA SameAll ==
  ASSUME PathInv, ChainInv, Decided, Charged = {}, hops <= MaxHops,
         \A e \in Edges : TargetOf(e) \notin AllLike, InLowerCase("redirect")
  PROVE  terminator = Governing
<1>. DEFINE having == {k \in 0 .. Cardinality(Names) : Having(k)}
<1>t. /\ hops \in Nat /\ MaxHops \in Nat /\ at \in Names /\ at = Chain[hops]
      /\ published \in [Names -> Rows] /\ Chain \in [Nat -> Names]
  BY ChainIs, SpfAssumption DEF PathInv, TypeOK, ChainInv
<1>c. Cardinality(Names) \in Nat
  BY FS_CardinalityType, SpfAssumption
<1>q. \A k \in Nat : Publishes(Chain[k]) =>
        (spf_qualifier(Record1(Chain[k])) # None <=> HasAll(Record1(Chain[k])))
  BY <1>t, QualifierIsAll
<1>u. \A k \in 0 .. hops - 1 : /\ ~Returns(k) /\ ~Having(k)
  <2>. SUFFICES ASSUME NEW k \in 0 .. hops - 1
                PROVE  ~Returns(k) /\ ~Having(k)
    OBVIOUS
  <2>1. ~Returns(k) /\ HasSpf(Chain[k]) /\ spf_qualifier(Record1(Chain[k])) = None /\ k \in Nat
    BY <1>t DEF ChainInv, Undecided
  <2>. QED
    BY <1>q, <2>1 DEF Having
<1>g. Governing = IF having = {} THEN None
                  ELSE Record1(Chain[FirstOf(having)])[
                         FirstOf(IndexOf(Record1(Chain[FirstOf(having)]), IsAll))].q
  <2>1. ReceiverChain = Chain
    BY <1>t, SameChain
  <2>. QED
    BY <2>1 DEF Governing, Having
<1>n. (\A i \in Nat : ~Having(i)) => Governing = None
  BY <1>c, <1>g
<1>. HIDE DEF having
<1>1. CASE Returns(hops)
  <2>1. terminator = None
    BY <1>1 DEF Decided
  <2>2. \A i \in Nat : ~Having(i)
    BY <1>1, <1>t, <1>u, ReturningChain
  <2>. QED
    BY <1>n, <2>1, <2>2
<1>2. CASE ~Returns(hops) /\ ~HasSpf(at)
  <2>1. terminator = None /\ <<at, "TXT">> \in read
    BY <1>2, <1>t DEF Decided
  <2>2. ~Publishes(at)
    BY <1>2, <1>t, <2>1, ReadIsAnswered
  <2>3. Target(Chain[hops]) = Chain[hops] /\ ~Having(hops)
    BY <1>t, <2>2 DEF Target, Having
  <2>4. \A j \in 0 .. hops : ~Having(j)
    <3>1. \A j \in 0 .. hops : j = hops \/ j \in 0 .. hops - 1
      BY <1>t
    <3>. QED
      BY <1>u, <2>3, <3>1
  <2>5. \A i \in Nat : ~Having(i)
    BY <1>t, <2>3, <2>4, StuckChain
  <2>. QED
    BY <1>n, <2>1, <2>5
<1>3. CASE ~Returns(hops) /\ HasSpf(at)
  <2>1. /\ terminator = spf_qualifier(Record1(at))
        /\ terminator # None \/ Redirects(Record1(at)) = {}
        /\ Publishes(at)
    BY <1>3, <1>t, SpfIsPublished DEF Decided
  <2>2. terminator # None <=> Having(hops)
    BY <1>q, <1>t, <2>1 DEF Having
  <2>3. CASE terminator = None
    <3>1. Target(Chain[hops]) = Chain[hops]
      BY <1>t, <2>1, <2>3 DEF Target
    <3>2. \A j \in 0 .. hops : ~Having(j)
      <4>1. \A j \in 0 .. hops : j = hops \/ j \in 0 .. hops - 1
        BY <1>t
      <4>. QED
        BY <1>u, <2>2, <2>3, <4>1
    <3>3. \A i \in Nat : ~Having(i)
      BY <1>t, <3>1, <3>2, StuckChain
    <3>. QED
      BY <1>n, <2>3, <3>3
  <2>4. CASE terminator # None
    <3>1. hops \in 0 .. Cardinality(Names)
      <4>. DEFINE f == [k \in 0 .. hops |-> Chain[k]]
      <4>1. f \in [0 .. hops -> Names]
        BY <1>t
      <4>2. \A i, j \in 0 .. hops : f[i] = f[j] => i = j
        <5>. SUFFICES ASSUME NEW i \in 0 .. hops, NEW j \in 0 .. hops, i < j
                      PROVE  Chain[i] # Chain[j]
          BY <1>t
        <5>1. ~Returns(j)
          <6>1. j = hops \/ j \in 0 .. hops - 1
            BY <1>t
          <6>. QED
            BY <1>3, <1>u, <6>1
        <5>2. i \in 0 .. j - 1
          BY <1>t
        <5>. QED
          BY <5>1, <5>2 DEF Returns
      <4>3. f \in Injection(0 .. hops, Names)
        BY <4>1, <4>2 DEF Injection, IsInjective
      <4>. HIDE DEF f
      <4>4. Cardinality(0 .. hops) <= Cardinality(Names)
        BY <4>3, FS_Injection, SpfAssumption
      <4>5. Cardinality(0 .. hops) = hops + 1
        BY <1>t, FS_Interval
      <4>. QED
        BY <1>c, <1>t, <4>4, <4>5
    <3>2. hops \in having
      BY <2>2, <2>4, <3>1 DEF having
    <3>3. \A k \in having : k \in Nat /\ hops <= k
      <4>. SUFFICES ASSUME NEW k \in having, ~(hops <= k)
                    PROVE  FALSE
        BY DEF having
      <4>1. k \in 0 .. hops - 1 /\ Having(k)
        BY <1>t DEF having
      <4>. QED
        BY <1>u, <4>1
    <3>4. FirstOf(having) = hops
      <4>1. \A i \in having : (\A j \in having : i <= j) => i = hops
        BY <1>t, <3>2, <3>3
      <4>. QED
        BY <3>2, <3>3, <4>1 DEF FirstOf
    <3>5. Governing = Record1(at)[FirstOf(IndexOf(Record1(at), IsAll))].q
      BY <1>g, <1>t, <3>2, <3>4
    <3>6. HasAll(Record1(at))
      BY <1>t, <2>2, <2>4 DEF Having
    <3>7. spf_qualifier(Record1(at)) = Record1(at)[FirstOf(IndexOf(Record1(at), IsAll))].q
      BY <1>t, <2>1, <3>6, QualifierIsAll
    <3>. QED
      BY <2>1, <3>5, <3>7
  <2>. QED
    BY <2>3, <2>4
<1>. QED
  BY <1>1, <1>2, <1>3

(* A tree on which the code counts every mechanism.                        *)
PlainTree == Tree /\ Unadorned

(* What the receiver still charges a frame for, at its level of fuel.      *)
LeftAt(name, next, k) ==
  LET along == CostAlong(Record1(name), Cost[MaxLookups + 2 - k])
  IN  along[Len(Record1(name))] - along[next - 1]

Left(k) == LeftAt(stack[k].name, stack[k].next, k)

Rests(rest) ==
  /\ rest \in [0 .. Len(stack) -> Nat] /\ rest[0] = 0
  /\ \A k \in 1 .. Len(stack) : rest[k] = rest[k - 1] + Left(k)

Balanced(rest) ==
  /\ Rests(rest)
  /\ n + rest[Len(stack)] <= ReceiverCost
  /\ PlainTree /\ Charged = {} => n + rest[Len(stack)] = ReceiverCost

(* What is counted and what is left is no more than the receiver's cost,   *)
(* and all of it on a tree where nothing is lost.                          *)
BalanceInv ==
  NoDeadText /\ seen # {} =>
    IF n > MaxLookups THEN ReceiverCost > MaxLookups ELSE \E rest : Balanced(rest)

LEMMA CostIsFixed ==
  ASSUME UNCHANGED world
  PROVE  /\ Cost' = Cost /\ ReceiverCost' = ReceiverCost
         /\ \A name, next, k : LeftAt(name, next, k)' = LeftAt(name, next, k)
         /\ NoDeadText' = NoDeadText /\ PlainTree' = PlainTree
<1>1. published' = published
  BY DEF world
<1>2. Cost' = Cost
  BY <1>1 DEF Cost, CostAlong, Publishes, Record1, Price, Costs, HasAll, IndexOf, IsAll
<1>3. \A name, next, k : LeftAt(name, next, k)' = LeftAt(name, next, k)
  BY <1>1, <1>2 DEF LeftAt, Record1
<1>4. NoDeadText' = NoDeadText
  BY <1>1 DEF NoDeadText, Publishes, Record1, HasAll, Modifiers, IndexOf
<1>5. PlainTree' = PlainTree
  BY <1>1 DEF PlainTree, Unadorned, Tree, Edges, PlacesIn, TermAt, TargetOf, Publishes, Record1
<1>. QED
  BY <1>2, <1>3, <1>4, <1>5 DEF ReceiverCost

LEMMA CostTypes ==
  ASSUME published \in [Names -> Rows]
  PROVE  /\ MaxLookups \in Nat /\ MaxDepth \in Nat /\ MaxLookups <= MaxDepth
         /\ \A k \in 1 .. MaxLookups + 2 : Cost[MaxLookups + 2 - k] \in [Names -> Nat]
         /\ ReceiverCost \in Nat
<1>1. MaxLookups \in Nat /\ MaxDepth \in Nat /\ MaxLookups <= MaxDepth /\ Apex \in Names
  BY SpfAssumption, CapAssumption
<1>2. Cost \in [Nat -> [Names -> Nat]]
  BY CostIs
<1>3. \A k \in 1 .. MaxLookups + 2 : MaxLookups + 2 - k \in Nat
  BY <1>1
<1>. QED
  BY <1>1, <1>2, <1>3 DEF ReceiverCost

LEMMA LeftIs ==
  ASSUME published \in [Names -> Rows], NEW name \in Names, Publishes(name),
         NEW k \in 1 .. MaxLookups + 2
  PROVE  /\ LeftAt(name, 1, k) = Cost[MaxLookups + 3 - k][name]
         /\ \A next \in 1 .. Len(Record1(name)) + 1 : LeftAt(name, next, k) \in Nat
         /\ LeftAt(name, Len(Record1(name)) + 1, k) = 0
         /\ \A next \in 1 .. Len(Record1(name)) : LeftAt(name, next, k) =
              LeftAt(name, next + 1, k)
              + Price(Record1(name), Record1(name)[next], Cost[MaxLookups + 2 - k])
<1>. DEFINE rec == Record1(name)
            below == Cost[MaxLookups + 2 - k]
            along == CostAlong(rec, below)
<1>1. below \in [Names -> Nat] /\ MaxLookups \in Nat
  BY CostTypes
<1>2. rec \in Seq(Terms) /\ Len(rec) \in Nat /\ \A i \in 1 .. Len(rec) : rec[i] \in Terms
  BY Record1Type
<1>. HIDE DEF rec, below
<1>3. /\ along \in [0 .. Len(rec) -> Nat] /\ along[0] = 0
      /\ \A i \in 1 .. Len(rec) : along[i] = along[i - 1] + Price(rec, rec[i], below)
  BY <1>1, <1>2, CostAlongIs
<1>4. \A i \in 0 .. Len(rec) : along[i] <= along[Len(rec)]
  BY <1>1, <1>2, CostAlongGrows
<1>5. \A i \in 1 .. Len(rec) : Price(rec, rec[i], below) \in Nat
  BY <1>1, <1>2, PriceType
<1>. HIDE DEF along
<1>6. \A next : LeftAt(name, next, k) = along[Len(rec)] - along[next - 1]
  BY DEF LeftAt, along, rec, below
<1>7. LeftAt(name, 1, k) = Cost[MaxLookups + 3 - k][name]
  <2>1. MaxLookups + 2 - k \in Nat /\ (MaxLookups + 2 - k) + 1 = MaxLookups + 3 - k
    BY <1>1
  <2>2. Cost[(MaxLookups + 2 - k) + 1][name] = LevelCost(name, below)
    BY <2>1, CostIs DEF below
  <2>3. LevelCost(name, below) = along[Len(rec)]
    BY DEF LevelCost, along, rec
  <2>4. LeftAt(name, 1, k) = along[Len(rec)]
    BY <1>2, <1>3, <1>6
  <2>. QED
    BY <2>1, <2>2, <2>3, <2>4
<1>8. ASSUME NEW next \in 1 .. Len(rec) + 1
      PROVE  LeftAt(name, next, k) \in Nat
  <2>1. next - 1 \in 0 .. Len(rec) /\ Len(rec) \in 0 .. Len(rec)
    BY <1>2
  <2>. QED
    BY <1>3, <1>4, <1>6, <2>1
<1>9. LeftAt(name, Len(rec) + 1, k) = 0
  <2>1. (Len(rec) + 1) - 1 = Len(rec) /\ Len(rec) \in 0 .. Len(rec)
    BY <1>2
  <2>. QED
    BY <1>3, <1>6, <2>1
<1>10. ASSUME NEW next \in 1 .. Len(rec)
       PROVE  LeftAt(name, next, k) = LeftAt(name, next + 1, k) + Price(rec, rec[next], below)
  <2>1. /\ next - 1 \in 0 .. Len(rec) /\ next \in 0 .. Len(rec) /\ Len(rec) \in 0 .. Len(rec)
        /\ (next + 1) - 1 = next
    BY <1>2
  <2>2. along[next] = along[next - 1] + Price(rec, rec[next], below)
    BY <1>3
  <2>3. along[next] \in Nat /\ along[next - 1] \in Nat /\ along[Len(rec)] \in Nat
    BY <1>3, <2>1
  <2>. QED
    BY <1>5, <1>6, <2>1, <2>2, <2>3
<1>. QED
  BY <1>7, <1>8, <1>9, <1>10 DEF rec, below

(* On a tree no name is met twice, so the seen set never stops the walk.   *)
LEMMA TreeIsUnseen ==
  ASSUME PathInv, LedgerInv, Tree, Follow
  PROVE  Term.to \notin seen
<1>. SUFFICES ASSUME Term.to \in seen
              PROVE  FALSE
  OBVIOUS
<1>0. AtTerm /\ Followed(Term) /\ Term.kind \in Targeted
  BY DEF Follow, Followed, Targeted
<1>1. \A e : Place(e) /\ e[1] \in seen => e \in PlacesIn(Names)
  BY InPlaces DEF Place, PathInv, TypeOK
<1>2. /\ Place(Here) /\ TermAt(Here) = Term /\ Here \notin Walked /\ Here[1] \in seen
  BY <1>0, HereIsNew
<1>3. Here \in Edges /\ TargetOf(Here) = Term.to
  BY <1>0, <1>1, <1>2 DEF Edges, TargetOf
<1>4. Term.to # Apex
  BY <1>3 DEF Tree
<1>5. PICK e \in Walked : Followed(TermAt(e)) /\ TermAt(e).to = Term.to
  BY <1>4 DEF LedgerInv
<1>6. e \in Edges /\ TargetOf(e) = Term.to
  BY <1>1, <1>5, InWalked DEF Edges, TargetOf, Followed, Targeted
<1>7. e = Here
  BY <1>3, <1>6 DEF Tree
<1>. QED
  BY <1>2, <1>5, <1>7

Below1 == Cost[MaxLookups + 2 - Len(stack)]
Cut == Price(Record1(Top.name), Term, Below1)

(* What the term at the top costs the receiver, and the count.             *)
LEMMA TermPrice ==
  ASSUME PathInv, AtTerm, NoDeadText, Len(stack) <= MaxLookups + 1
  PROVE  /\ Below1 \in [Names -> Nat] /\ Cut \in Nat
         /\ Plain => n' \in {n, n + 1} /\ n' <= n + Cut /\ (PlainTree => n' = n + Cut)
         /\ Follow => Cut = 1 + Below1[Term.to]
<1>a. /\ Len(stack) \in Nat \ {0} /\ Top.name \in Names /\ Publishes(Top.name) /\ Term \in Terms
      /\ Record1(Top.name) \in Seq(Terms) /\ Top.next \in 1 .. Len(Record1(Top.name))
      /\ Term = Record1(Top.name)[Top.next]
      /\ Term.kind \in Targeted => Term.to \in Names
  BY AtTop
<1>t. published \in [Names -> Rows] /\ n \in Nat /\ seen \subseteq Names
  BY DEF PathInv, TypeOK
<1>1. Below1 \in [Names -> Nat]
  <2>1. Len(stack) \in 1 .. MaxLookups + 2
    BY <1>a, <1>t, CostTypes
  <2>. QED
    BY <1>t, <2>1, CostTypes DEF Below1
<1>2. Cut \in Nat
  BY <1>1, <1>a, PriceType DEF Cut
<1>3. Term.kind = "redirect" => ~HasAll(Record1(Top.name))
  <2>. SUFFICES ASSUME Term.kind = "redirect", HasAll(Record1(Top.name))
                PROVE  FALSE
    OBVIOUS
  <2>1. Top.next \in Modifiers(Record1(Top.name))
    BY <1>a DEF Modifiers, IndexOf, AnyRedirect
  <2>. QED
    BY <1>a, <2>1 DEF NoDeadText
<1>4. ASSUME Plain
      PROVE  n' \in {n, n + 1} /\ n' <= n + Cut /\ (PlainTree => n' = n + Cut)
  <2>1. CASE Term.kind = "mech"
    <3>1. Cut = 1 /\ n' = n + 1
      BY <1>4, <2>1 DEF Plain, Cut, Price, Costs, Targeted
    <3>. QED
      BY <1>t, <3>1
  <2>2. CASE Term.kind = "all"
    <3>1. Cut = 0 /\ n' = n
      BY <1>4, <2>2 DEF Plain, Cut, Price, Costs
    <3>. QED
      BY <1>t, <3>1
  <2>3. CASE Term.kind \in {"adorned", "qualified"}
    <3>1. n' = n
      BY <1>4, <2>3 DEF Plain
    <3>2. ~PlainTree
      <4>1. Place(Here) /\ TermAt(Here) = Term /\ Here[1] \in Names
        BY HereIsNew, <1>t
      <4>2. Here \in PlacesIn(Names)
        BY <4>1, InPlaces DEF Place
      <4>. QED
        BY <2>3, <4>1, <4>2 DEF PlainTree, Unadorned
    <3>. QED
      BY <1>2, <1>t, <3>1, <3>2
  <2>4. Term.kind \in {"mech", "all", "adorned", "qualified"}
    BY <1>4, <1>a DEF Plain, Terms
  <2>. QED
    BY <2>1, <2>2, <2>3, <2>4
<1>5. ASSUME Follow
      PROVE  Cut = 1 + Below1[Term.to]
  <2>1. Term.kind \in {"include", "redirect"}
    BY <1>5 DEF Follow
  <2>. QED
    BY <1>3, <2>1 DEF Cut, Price, Costs, Targeted
<1>. QED
  BY <1>1, <1>2, <1>4, <1>5

(* The top frame when it has moved past the term.                          *)
LEMMA TopLeft ==
  ASSUME PathInv, AtTerm, NoDeadText, Len(stack) <= MaxLookups + 1
  PROVE  /\ LeftAt(Top.name, Top.next + 1, Len(stack)) \in Nat
         /\ Left(Len(stack)) = LeftAt(Top.name, Top.next + 1, Len(stack)) + Cut
<1>a. /\ Len(stack) \in Nat \ {0} /\ Top = stack[Len(stack)] /\ Top.name \in Names
      /\ Publishes(Top.name) /\ Record1(Top.name) \in Seq(Terms)
      /\ Top.next \in 1 .. Len(Record1(Top.name)) /\ Term = Record1(Top.name)[Top.next]
  BY AtTop
<1>t. published \in [Names -> Rows]
  BY DEF PathInv, TypeOK
<1>1. Len(stack) \in 1 .. MaxLookups + 2 /\ Top.next + 1 \in 1 .. Len(Record1(Top.name)) + 1
  BY <1>a, <1>t, CostTypes
<1>. QED
  BY <1>a, <1>t, <1>1, LeftIs DEF Left, Cut, Below1

LEMMA RestCovers ==
  ASSUME PathInv, AtTerm, NoDeadText, Len(stack) <= MaxLookups + 1, NEW rest, Rests(rest)
  PROVE  /\ rest[Len(stack)] \in Nat /\ rest[Len(stack) - 1] \in Nat
         /\ rest[Len(stack)] = rest[Len(stack) - 1]
              + LeftAt(Top.name, Top.next + 1, Len(stack)) + Cut
         /\ LeftAt(Top.name, Top.next + 1, Len(stack)) \in Nat /\ Cut \in Nat
<1>1. Len(stack) \in Nat \ {0} /\ Len(stack) \in 1 .. Len(stack)
  BY AtTop
<1>2. /\ rest \in [0 .. Len(stack) -> Nat]
      /\ rest[Len(stack)] = rest[Len(stack) - 1] + Left(Len(stack))
  BY <1>1 DEF Rests
<1>3. rest[Len(stack)] \in Nat /\ rest[Len(stack) - 1] \in Nat
  BY <1>1, <1>2
<1>. QED
  BY <1>2, <1>3, TopLeft, TermPrice

LEMMA MovedRest ==
  ASSUME PathInv, Moving, UNCHANGED world, NoDeadText, Len(stack) <= MaxLookups + 1,
         NEW rest, Rests(rest)
  PROVE  \E r : Rests(r)' /\ r[Len(stack')] = rest[Len(stack)] - Cut
<1>. DEFINE L == Len(stack)
            f == [k \in 0 .. L |-> IF k = L THEN rest[L] - Cut ELSE rest[k]]
<1>1. /\ AtTerm /\ Len(stack') = L
      /\ \A i \in 1 .. L : /\ stack'[i].name = stack[i].name
                           /\ stack'[i].next = IF i = L THEN Top.next + 1 ELSE stack[i].next
  BY MovedFrames
<1>2. L \in Nat \ {0} /\ Top = stack[L]
  BY <1>1, AtTop
<1>3. /\ rest[L] \in Nat /\ rest[L - 1] \in Nat /\ Cut \in Nat
      /\ LeftAt(Top.name, Top.next + 1, L) \in Nat
      /\ rest[L] = rest[L - 1] + LeftAt(Top.name, Top.next + 1, L) + Cut
  BY <1>1, RestCovers
<1>4. /\ rest \in [0 .. L -> Nat] /\ rest[0] = 0
      /\ \A k \in 1 .. L : rest[k] = rest[k - 1] + Left(k)
  BY DEF Rests
<1>5. \A k \in 1 .. L : Left(k)' =
        IF k = L THEN LeftAt(Top.name, Top.next + 1, L) ELSE Left(k)
  <2>1. \A k \in 1 .. L : Left(k)' = LeftAt(stack'[k].name, stack'[k].next, k)
    BY CostIsFixed DEF Left
  <2>. QED
    BY <1>1, <1>2, <2>1 DEF Left
<1>. HIDE DEF L
<1>r. PICK r : r = f
  OBVIOUS
<1>6. r \in [0 .. L -> Nat]
  BY <1>r, <1>2, <1>3, <1>4
<1>7. r[0] = 0 /\ r[L] = rest[L] - Cut /\ \A k \in 0 .. L - 1 : r[k] = rest[k]
  BY <1>r, <1>2, <1>4
<1>. HIDE DEF f
<1>8. \A k \in 1 .. L : r[k] = r[k - 1] + Left(k)'
  <2>. SUFFICES ASSUME NEW k \in 1 .. L
                PROVE  r[k] = r[k - 1] + Left(k)'
    OBVIOUS
  <2>1. k - 1 \in 0 .. L - 1 /\ r[k - 1] = rest[k - 1]
    BY <1>2, <1>7
  <2>2. CASE k = L
    BY <1>3, <1>5, <1>7, <2>1, <2>2
  <2>3. CASE k # L
    <3>1. k \in 0 .. L - 1
      BY <1>2, <2>3
    <3>. QED
      BY <1>4, <1>5, <1>7, <2>1, <2>3, <3>1
  <2>. QED
    BY <2>2, <2>3
<1>9. Rests(r)'
  BY <1>1, <1>6, <1>7, <1>8 DEF Rests, L
<1>. QED
  BY <1>1, <1>7, <1>9 DEF L

LEMMA EnteredRest ==
  ASSUME PathInv, Follow, Entering, UNCHANGED world, NoDeadText,
         Len(stack) <= MaxLookups + 1, NEW rest, Rests(rest)
  PROVE  \E r : Rests(r)' /\ r[Len(stack')] = rest[Len(stack)] - 1
<1>. DEFINE L == Len(stack)
            new == Below1[Term.to]
            f == [k \in 0 .. L + 1 |-> IF k = L + 1 THEN rest[L] - 1
                                       ELSE IF k = L THEN rest[L] - Cut ELSE rest[k]]
<1>1. /\ AtTerm /\ Len(stack') = L + 1 /\ Term.to \in Names
      /\ stack'[L + 1].name = Term.to /\ stack'[L + 1].next = 1
      /\ \A i \in 1 .. L : /\ stack'[i].name = stack[i].name
                           /\ stack'[i].next = IF i = L THEN Top.next + 1 ELSE stack[i].next
  BY EnteredFrames DEF Entering
<1>2. L \in Nat \ {0} /\ Top = stack[L] /\ Publishes(Term.to)
  BY <1>1, AtTop, SpfIsPublished DEF Entering
<1>3. /\ rest[L] \in Nat /\ rest[L - 1] \in Nat /\ Cut \in Nat
      /\ LeftAt(Top.name, Top.next + 1, L) \in Nat
      /\ rest[L] = rest[L - 1] + LeftAt(Top.name, Top.next + 1, L) + Cut
  BY <1>1, RestCovers
<1>4. /\ rest \in [0 .. L -> Nat] /\ rest[0] = 0
      /\ \A k \in 1 .. L : rest[k] = rest[k - 1] + Left(k)
  BY DEF Rests
<1>5. Cut = 1 + new /\ new \in Nat
  BY <1>1, TermPrice
<1>6. LeftAt(Term.to, 1, L + 1) = new
  <2>1. published \in [Names -> Rows]
    BY DEF PathInv, TypeOK
  <2>2. L + 1 \in 1 .. MaxLookups + 2 /\ MaxLookups + 3 - (L + 1) = MaxLookups + 2 - L
    BY <1>2, <2>1, CostTypes
  <2>. QED
    BY <1>1, <1>2, <2>1, <2>2, LeftIs DEF Below1
<1>7. /\ \A k \in 1 .. L : Left(k)' =
           IF k = L THEN LeftAt(Top.name, Top.next + 1, L) ELSE Left(k)
      /\ \A k \in 1 .. L + 1 : k = L + 1 => Left(k)' = new
  <2>1. \A k \in 1 .. L + 1 : Left(k)' = LeftAt(stack'[k].name, stack'[k].next, k)
    BY CostIsFixed DEF Left
  <2>2. 1 .. L + 1 = 1 .. L \union {L + 1}
    BY <1>2
  <2>3. \A k \in 1 .. L + 1 : k = L + 1 => Left(k)' = new
    BY <1>1, <1>6, <2>1, <2>2
  <2>4. ASSUME NEW k \in 1 .. L
        PROVE  Left(k)' = IF k = L THEN LeftAt(Top.name, Top.next + 1, L) ELSE Left(k)
    BY <1>1, <1>2, <2>1, <2>2 DEF Left
  <2>. QED
    BY <2>3, <2>4
<1>. HIDE DEF L, new
<1>r. PICK r : r = f
  OBVIOUS
<1>8. r \in [0 .. L + 1 -> Nat]
  <2>1. rest[L] - Cut \in Nat /\ rest[L] - 1 \in Nat
    BY <1>2, <1>3, <1>4, <1>5
  <2>2. \A k \in 0 .. L + 1 : k # L + 1 => k \in 0 .. L
    BY <1>2
  <2>3. \A k \in 0 .. L + 1 : f[k] \in Nat
    BY <1>4, <2>1, <2>2
  <2>. QED
    BY <1>r, <2>3
<1>9. /\ r[0] = 0 /\ r[L] = rest[L] - Cut /\ r[L + 1] = rest[L] - 1
      /\ \A k \in 0 .. L - 1 : r[k] = rest[k]
  BY <1>r, <1>2, <1>4
<1>. HIDE DEF f
<1>10. \A k \in 1 .. L + 1 : r[k] = r[k - 1] + Left(k)'
  <2>. SUFFICES ASSUME NEW k \in 1 .. L + 1
                PROVE  r[k] = r[k - 1] + Left(k)'
    OBVIOUS
  <2>1. CASE k = L + 1
    <3>1. k - 1 = L /\ r[k] = rest[L] - 1 /\ r[k - 1] = rest[L] - Cut /\ Left(k)' = new
      BY <1>2, <1>7, <1>9, <2>1
    <3>. QED
      BY <1>3, <1>5, <3>1
  <2>2. CASE k = L
    <3>1. r[k - 1] = rest[k - 1]
      BY <1>2, <1>9, <2>2
    <3>. QED
      BY <1>2, <1>3, <1>7, <1>9, <2>2, <3>1
  <2>3. CASE k # L /\ k # L + 1
    <3>1. k \in 0 .. L - 1 /\ k - 1 \in 0 .. L - 1 /\ k \in 1 .. L
      BY <1>2, <2>3
    <3>. QED
      BY <1>4, <1>7, <1>9, <2>3, <3>1
  <2>. QED
    BY <2>1, <2>2, <2>3
<1>11. Rests(r)'
  BY <1>1, <1>8, <1>9, <1>10 DEF Rests, L
<1>. QED
  BY <1>1, <1>9, <1>11 DEF L

LEMMA ReturnedRest ==
  ASSUME PathInv, WalkInv, Return, UNCHANGED world, Len(stack) <= MaxLookups + 1,
         NEW rest, Rests(rest)
  PROVE  \E r : Rests(r)' /\ r[Len(stack')] = rest[Len(stack)]
<1>. DEFINE L == Len(stack)
            f == [k \in 0 .. L - 1 |-> rest[k]]
<1>1. /\ L \in Nat \ {0} /\ L \in 1 .. L /\ Len(stack') = L - 1 /\ Top = stack[L]
      /\ \A i \in 1 .. L - 1 : stack'[i] = stack[i]
      /\ Top.next > Len(Record1(Top.name))
  BY ReturnedFrames
<1>2. /\ rest \in [0 .. L -> Nat] /\ rest[0] = 0
      /\ \A k \in 1 .. L : rest[k] = rest[k - 1] + Left(k)
  BY DEF Rests
<1>t. published \in [Names -> Rows]
  BY DEF PathInv, TypeOK
<1>3. Left(L) = 0
  <2>1. Top.name \in Names /\ Top.next \in Nat /\ Publishes(Top.name)
    BY <1>1, Stack, SpfIsPublished
  <2>2. Top.next <= Len(Record1(Top.name)) + 1
    BY <1>1 DEF WalkInv
  <2>3. Len(Record1(Top.name)) \in Nat
    BY <1>t, <2>1, Record1Type
  <2>4. Top.next = Len(Record1(Top.name)) + 1
    BY <1>1, <2>1, <2>2, <2>3
  <2>5. L \in 1 .. MaxLookups + 2
    BY <1>1, <1>t, CostTypes
  <2>. QED
    BY <1>1, <1>t, <2>1, <2>4, <2>5, LeftIs DEF Left
<1>4. rest[L - 1] = rest[L]
  <2>1. rest[L] = rest[L - 1] + Left(L) /\ L - 1 \in 0 .. L
    BY <1>1, <1>2
  <2>. HIDE DEF L
  <2>2. rest[L - 1] \in Nat
    BY <1>2, <2>1
  <2>. QED
    BY <1>3, <2>1, <2>2
<1>5. \A k \in 1 .. L - 1 : Left(k)' = Left(k)
  <2>1. \A k \in 1 .. L - 1 : Left(k)' = LeftAt(stack'[k].name, stack'[k].next, k)
    BY CostIsFixed DEF Left
  <2>. QED
    BY <1>1, <2>1 DEF Left
<1>. HIDE DEF L
<1>r. PICK r : r = f
  OBVIOUS
<1>6. /\ r \in [0 .. L - 1 -> Nat] /\ r[0] = 0 /\ r[L - 1] = rest[L]
      /\ \A k \in 1 .. L - 1 : r[k] = r[k - 1] + Left(k)'
  BY <1>r, <1>1, <1>2, <1>4, <1>5
<1>. HIDE DEF f
<1>7. Rests(r)'
  BY <1>1, <1>6 DEF Rests, L
<1>. QED
  BY <1>1, <1>6, <1>7 DEF L

LEMMA BeganRest ==
  ASSUME PathInv, Begin, UNCHANGED world
  PROVE  \E r : Rests(r)' /\ r[Len(stack')] = ReceiverCost
<1>1. stack' = <<Frame(Apex)>> /\ phase = "count"
  BY DEF Begin
<1>2. Len(stack') = 1 /\ stack'[1].name = Apex /\ stack'[1].next = 1
  BY <1>1 DEF Frame
<1>t. published \in [Names -> Rows] /\ Apex \in Names
  BY SpfAssumption DEF PathInv, TypeOK
<1>3. Publishes(Apex)
  BY <1>1, SpfIsPublished DEF PathInv, Enumerable
<1>4. ReceiverCost \in Nat /\ LeftAt(Apex, 1, 1) = ReceiverCost
  <2>1. 1 \in 1 .. MaxLookups + 2 /\ MaxLookups + 3 - 1 = MaxLookups + 2
    BY <1>t, CostTypes
  <2>. QED
    BY <1>t, <1>3, <2>1, LeftIs, CostTypes DEF ReceiverCost
<1>5. Left(1)' = ReceiverCost
  <2>1. Left(1)' = LeftAt(stack'[1].name, stack'[1].next, 1)
    BY CostIsFixed DEF Left
  <2>. QED
    BY <1>2, <1>4, <2>1
<1>. DEFINE f == [k \in 0 .. 1 |-> IF k = 0 THEN 0 ELSE ReceiverCost]
<1>r. PICK r : r = f
  OBVIOUS
<1>6. r \in [0 .. 1 -> Nat] /\ r[0] = 0 /\ r[1] = ReceiverCost
  BY <1>r, <1>4
<1>. HIDE DEF f
<1>7. Rests(r)'
  BY <1>2, <1>4, <1>5, <1>6 DEF Rests
<1>. QED
  BY <1>2, <1>6, <1>7

LEMMA BalanceInit == Init => BalanceInv
<1>1. Init => seen = {}
  BY DEF Init
<1>. QED
  BY <1>1 DEF BalanceInv

LEMMA ChargedGrows ==
  ASSUME UNCHANGED world, read \subseteq read'
  PROVE  Charged' = {} => Charged = {}
BY DEF Charged, world

AllAnswered ==
  \A name \in Names : <<name, "TXT">> \in read => (HasSpf(name) <=> Publishes(name))

LEMMA ReadsAnswered == PathInv /\ Charged = {} => AllAnswered
BY ReadIsAnswered DEF AllAnswered

LEMMA BalanceStep ==
  PathInv /\ WalkInv /\ LedgerInv /\ PathInv' /\ WalkInv' /\ LedgerInv' /\ BalanceInv /\ [Next]_vars
    => BalanceInv'
<1>. SUFFICES ASSUME PathInv, WalkInv, LedgerInv, PathInv', WalkInv', LedgerInv', BalanceInv,
                     [Next]_vars
              PROVE  BalanceInv'
  OBVIOUS
<1>0. NoDeadText' = NoDeadText /\ ReceiverCost' = ReceiverCost
  BY WorldStays, CostIsFixed
<1>. SUFFICES ASSUME NoDeadText, seen' # {}
              PROVE  IF n' > MaxLookups THEN ReceiverCost > MaxLookups
                     ELSE \E rest : Balanced(rest)'
  BY <1>0 DEF BalanceInv
<1>w. UNCHANGED world /\ read \subseteq read'
  BY WorldStays
<1>f. /\ ReceiverCost' = ReceiverCost /\ PlainTree' = PlainTree
      /\ Charged' = {} => Charged = {}
  BY <1>w, CostIsFixed, ChargedGrows
<1>t. /\ published \in [Names -> Rows] /\ n \in Nat /\ Len(stack) \in Nat
      /\ MaxLookups \in Nat /\ MaxDepth \in Nat /\ MaxLookups <= MaxDepth /\ ReceiverCost \in Nat
      /\ Len(stack) <= n + 1 /\ n' \in Nat
  BY CostTypes, Stack DEF PathInv, TypeOK, WalkInv
<1>p. \A r : Balanced(r)' <=>
        /\ Rests(r)' /\ n' + r[Len(stack')] <= ReceiverCost
        /\ PlainTree /\ Charged' = {} => n' + r[Len(stack')] = ReceiverCost
  BY <1>f DEF Balanced
<1>1. CASE Begin
  <2>1. n' = 0
    BY <1>1 DEF Begin, WalkInv
  <2>2. PICK r : Rests(r)' /\ r[Len(stack')] = ReceiverCost
    BY <1>1, <1>w, BeganRest
  <2>3. Balanced(r)'
    BY <1>p, <1>t, <2>1, <2>2
  <2>. QED
    BY <1>t, <2>1, <2>3
<1>2. CASE ~Begin /\ n > MaxLookups
  <2>1. n' >= n /\ seen # {}
    BY <1>2, <1>t DEF Next, Step, Record, Hop, Plain, Follow, Return, Report, Finished, vars,
                      count, WalkInv, AtTerm, Counting
  <2>2. ReceiverCost > MaxLookups
    BY <1>2, <2>1 DEF BalanceInv
  <2>. QED
    BY <1>2, <1>t, <2>1, <2>2
<1>3. CASE ~Begin /\ ~(n > MaxLookups)
  <2>s. seen # {}
    BY <1>3 DEF Next, Step, Record, Hop, Plain, Follow, Return, Report, Finished, vars,
                count, WalkInv, AtTerm, Counting
  <2>0. PICK rest : Balanced(rest)
    BY <1>3, <2>s DEF BalanceInv
  <2>1. /\ Rests(rest) /\ n + rest[Len(stack)] <= ReceiverCost
        /\ PlainTree /\ Charged = {} => n + rest[Len(stack)] = ReceiverCost
    BY <2>0 DEF Balanced
  <2>2. Len(stack) <= MaxLookups + 1
    BY <1>3, <1>t
  <2>3. CASE Plain \/ Follow
    <3>0. AtTerm
      BY <2>3 DEF Plain, Follow
    <3>1. /\ rest[Len(stack)] \in Nat /\ Cut \in Nat /\ Cut <= rest[Len(stack)]
      BY <2>1, <2>2, <3>0, RestCovers
    <3>2. /\ Below1 \in [Names -> Nat]
          /\ Plain => n' \in {n, n + 1} /\ n' <= n + Cut /\ (PlainTree => n' = n + Cut)
          /\ Follow => Cut = 1 + Below1[Term.to]
      BY <2>2, <3>0, TermPrice
    <3>3. Follow => n' = n + 1 /\ Term.to \in Names /\ Cut >= 1
      <4>1. Follow => n' = n + 1 /\ Term.kind \in Targeted
        BY DEF Follow, Targeted
      <4>. QED
        BY <3>0, <3>2, <4>1, AtTop
    <3>4. CASE n' > MaxLookups
      <4>1. n' <= n + Cut
        BY <1>t, <2>3, <3>1, <3>2, <3>3
      <4>2. ReceiverCost > MaxLookups
        BY <1>t, <2>1, <3>1, <3>4, <4>1
      <4>. QED
        BY <3>4, <4>2
    <3>5. CASE ~(n' > MaxLookups) /\ Plain
      <4>1. PICK r : Rests(r)' /\ r[Len(stack')] = rest[Len(stack)] - Cut
        BY <1>w, <2>1, <2>2, <3>5, MovedRest DEF Moving
      <4>2. n' + r[Len(stack')] <= ReceiverCost
        BY <1>t, <2>1, <3>1, <3>2, <3>5, <4>1
      <4>3. PlainTree /\ Charged' = {} => n' + r[Len(stack')] = ReceiverCost
        BY <1>f, <1>t, <2>1, <3>1, <3>2, <3>5, <4>1
      <4>. QED
        BY <1>p, <3>5, <4>1, <4>2, <4>3
    <3>6. CASE ~(n' > MaxLookups) /\ Follow /\ Entering
      <4>1. PICK r : Rests(r)' /\ r[Len(stack')] = rest[Len(stack)] - 1
        BY <1>w, <2>1, <2>2, <3>6, EnteredRest
      <4>2. n' + r[Len(stack')] = n + rest[Len(stack)]
        BY <1>t, <3>1, <3>3, <3>6, <4>1
      <4>. QED
        BY <1>f, <1>p, <2>1, <3>6, <4>1, <4>2
    <3>7. CASE ~(n' > MaxLookups) /\ Follow /\ ~Entering
      <4>1. PICK r : Rests(r)' /\ r[Len(stack')] = rest[Len(stack)] - Cut
        BY <1>w, <2>1, <2>2, <3>7, MovedRest DEF Moving
      <4>2. n' + r[Len(stack')] <= ReceiverCost
        BY <1>t, <2>1, <3>1, <3>3, <3>7, <4>1
      <4>3. PlainTree /\ Charged' = {} => Below1[Term.to] = 0
        <5>. SUFFICES ASSUME PlainTree, Charged' = {}
                      PROVE  Below1[Term.to] = 0
          OBVIOUS
        <5>1. Term.to \notin seen
          BY <3>7, TreeIsUnseen DEF PlainTree
        <5>2. Len(stack) <= MaxDepth
          BY <1>t, <3>3, <3>7
        <5>3. ~HasSpf(Term.to)
          BY <3>0, <3>7, <5>1, <5>2 DEF Entering, Enters, Follow
        <5>4. <<Term.to, "TXT">> \in read'
          BY <3>7 DEF Follow, ReadsOf
        <5>5. ~Publishes(Term.to)
          <6>1. (PathInv /\ Charged = {} => AllAnswered)'
            BY ReadsAnswered, PTL
          <6>2. \A name \in Names : <<name, "TXT">> \in read' => (HasSpf(name) <=> Publishes(name))
            BY <1>w, <6>1, WorldIsFixed DEF AllAnswered
          <6>. QED
            BY <3>3, <3>7, <5>3, <5>4, <6>2
        <5>6. MaxLookups + 2 - Len(stack) \in Nat \ {0}
          BY <1>t, <2>2
        <5>7. (MaxLookups + 2 - Len(stack)) - 1 \in Nat
              /\ ((MaxLookups + 2 - Len(stack)) - 1) + 1 = MaxLookups + 2 - Len(stack)
          BY <1>t, <5>6
        <5>8. Below1[Term.to] = LevelCost(Term.to, Cost[(MaxLookups + 2 - Len(stack)) - 1])
          BY <1>t, <3>3, <3>7, <5>7, CostIs DEF Below1
        <5>. QED
          BY <5>5, <5>8 DEF LevelCost
      <4>4. PlainTree /\ Charged' = {} => n' + r[Len(stack')] = ReceiverCost
        BY <1>f, <1>t, <2>1, <3>1, <3>2, <3>3, <3>7, <4>1, <4>3
      <4>. QED
        BY <1>p, <3>7, <4>1, <4>2, <4>4
    <3>. QED
      BY <2>3, <3>4, <3>5, <3>6, <3>7
  <2>4. CASE Return
    <3>1. PICK r : Rests(r)' /\ r[Len(stack')] = rest[Len(stack)]
      BY <1>w, <2>1, <2>2, <2>4, ReturnedRest
    <3>2. n' = n
      BY <2>4 DEF Return
    <3>. QED
      BY <1>3, <1>f, <1>p, <2>1, <3>1, <3>2
  <2>5. CASE UNCHANGED <<stack, n>>
    <3>1. Rests(rest)'
      <4>1. \A k \in 1 .. Len(stack) : Left(k)' = Left(k)
        BY <1>w, <2>5, CostIsFixed DEF Left
      <4>. QED
        BY <2>1, <2>5, <4>1 DEF Rests
    <3>. QED
      BY <1>3, <1>f, <1>p, <2>1, <2>5, <3>1
  <2>6. Record \/ Hop \/ Report \/ Finished \/ UNCHANGED vars => UNCHANGED <<stack, n>>
    BY DEF Record, Hop, Report, Finished, vars, count
  <2>. QED
    BY <1>3, <2>3, <2>4, <2>5, <2>6 DEF Next, Step
<1>. QED
  BY <1>1, <1>2, <1>3

WholeInv == PathInv /\ WalkInv /\ LedgerInv /\ ChainInv /\ BalanceInv

LEMMA WholeInvariant == Spec => []WholeInv
<1>1. Init => WholeInv
  BY PathInit, WalkInit, LedgerInit, ChainInit, BalanceInit DEF WholeInv
<1>2. WholeInv /\ [Next]_vars => WholeInv'
  BY PathStep, WalkStep, LedgerStep, ChainStep, BalanceStep DEF WholeInv
<1>. QED
  BY <1>1, <1>2, PTL DEF Spec

LEMMA AtTheEnd ==
  ASSUME WholeInv, Done
  PROVE  /\ HasSpf(Apex) /\ Publishes(Apex) /\ seen # {} /\ stack = <<>> /\ Decided
         /\ F = Several \union Verdicts(Record1(Apex), terminator, n, voids)
         /\ "spf.lookup_limit" \in F <=> n > MaxLookups
<1>1. phase = "done" /\ "spf.present" \in F
  BY DEF Done
<1>2. /\ HasSpf(Apex) /\ seen # {} /\ stack = <<>>
      /\ F = Several \union Verdicts(Record1(Apex), terminator, n, voids)
  <2>1. F # {"spf.missing"}
    BY <1>1
  <2>. QED
    BY <1>1, <2>1 DEF WholeInv, WalkInv
<1>3. Decided
  BY <1>1, <1>2 DEF WholeInv, ChainInv
<1>4. "spf.lookup_limit" \in F <=> n > MaxLookups
  BY <1>2 DEF Several, Verdicts
<1>. QED
  BY <1>2, <1>3, <1>4, SpfIsPublished

(* A record said to exceed the limit does exceed it for the receiver, and  *)
(* on a tree of mechanisms without a qualifier or a prefix length, with no *)
(* lookup lost, none that exceeds it is missed; where no redirect= is in   *)
(* capitals the terminator is the qualifier in force: check_spf's single   *)
(* walk with its seen set, caps and patterns, for every include graph.     *)
THEOREM VerdictIsTheReceivers == Spec => []ReceiverAgrees
<1>1. WholeInv => LimitIsReal
  <2>. SUFFICES ASSUME WholeInv, Done, NoDeadText, "spf.lookup_limit" \in F
                PROVE  ReceiverCost > MaxLookups
    BY DEF LimitIsReal
  <2>. QED
    BY AtTheEnd DEF WholeInv, BalanceInv
<1>2. WholeInv => LimitFoundOnTrees
  <2>. SUFFICES ASSUME WholeInv, Done, NoDeadText, Tree, Unadorned, Charged = {}
                PROVE  "spf.lookup_limit" \in F <=> ReceiverCost > MaxLookups
    BY DEF LimitFoundOnTrees
  <2>1. seen # {} /\ stack = <<>> /\ ("spf.lookup_limit" \in F <=> n > MaxLookups)
    BY AtTheEnd
  <2>2. n > MaxLookups => ReceiverCost > MaxLookups
    BY <2>1 DEF WholeInv, BalanceInv
  <2>3. ~(n > MaxLookups) => ReceiverCost = n
    <3>. SUFFICES ASSUME ~(n > MaxLookups)
                  PROVE  ReceiverCost = n
      OBVIOUS
    <3>1. PICK rest : Balanced(rest)
      BY <2>1 DEF WholeInv, BalanceInv
    <3>2. n \in Nat /\ Len(stack) = 0
      BY <2>1 DEF WholeInv, PathInv, TypeOK
    <3>3. rest[0] = 0 /\ n + rest[0] = ReceiverCost
      BY <3>1, <3>2 DEF Balanced, Rests, PlainTree
    <3>. QED
      BY <3>2, <3>3
  <2>. QED
    BY <2>1, <2>2, <2>3
<1>3. WholeInv => TerminatorIsGoverning
  BY AtTheEnd, SameAll DEF WholeInv, TerminatorIsGoverning
<1>. QED
  BY <1>1, <1>2, <1>3, WholeInvariant, PTL DEF ReceiverAgrees

(* The names below the audited one are the least closed set.               *)
LEMMA ReachedIsLeast ==
  ASSUME published \in [Names -> Rows]
  PROVE  /\ Apex \in Reached /\ Reached \subseteq Names /\ Closed(Reached)
         /\ \A S \in SUBSET Names : Apex \in S /\ Closed(S) => Reached \subseteq S
<1>1. Apex \in Reached /\ Reached \subseteq Names
  BY SpfAssumption DEF Reached
<1>2. ASSUME NEW name \in Reached, Publishes(name), NEW i \in DOMAIN Record1(name),
             Followed(Record1(name)[i])
      PROVE  Record1(name)[i].to \in Reached
  <2>1. name \in Names /\ \A S \in SUBSET Names : Apex \in S /\ Closed(S) => name \in S
    BY <1>2 DEF Reached
  <2>2. Record1(name)[i].to \in Names
    BY <1>2, <2>1, Record1Type, TargetType DEF Followed, Targeted
  <2>3. ASSUME NEW S \in SUBSET Names, Apex \in S, Closed(S)
        PROVE  Record1(name)[i].to \in S
    BY <1>2, <2>1, <2>3 DEF Closed, IndexOf
  <2>. QED
    BY <2>2, <2>3 DEF Reached
<1>3. Closed(Reached)
  BY <1>2 DEF Closed, IndexOf
<1>4. \A S \in SUBSET Names : Apex \in S /\ Closed(S) => Reached \subseteq S
  BY DEF Reached
<1>. QED
  BY <1>1, <1>3, <1>4

ReachInv == seen \subseteq Reached

LEMMA ReachStep == PathInv /\ ReachInv /\ [Next]_vars => ReachInv'
<1>. SUFFICES ASSUME PathInv, ReachInv, [Next]_vars
              PROVE  ReachInv'
  OBVIOUS
<1>1. UNCHANGED world
  BY WorldStays
<1>2. Reached' = Reached
  <2>1. published' = published
    BY <1>1 DEF world
  <2>. QED
    BY <2>1 DEF Reached, Closed, Publishes, Record1, IndexOf, Followed
<1>t. published \in [Names -> Rows]
  BY DEF PathInv, TypeOK
<1>3. CASE Follow
  <2>1. /\ AtTerm /\ Followed(Term) /\ seen' \subseteq seen \union {Term.to}
    BY <1>3 DEF Follow, Followed
  <2>2. /\ Publishes(Top.name) /\ Term = Record1(Top.name)[Top.next]
        /\ Record1(Top.name) \in Seq(Terms) /\ Top.next \in DOMAIN Record1(Top.name)
    BY <2>1, AtTop
  <2>3. Top.name \in Reached
    BY <2>1, HereIsNew DEF ReachInv
  <2>4. Term.to \in Reached
    BY <1>t, <2>1, <2>2, <2>3, ReachedIsLeast DEF Closed, IndexOf
  <2>. QED
    BY <1>2, <2>1, <2>4 DEF ReachInv
<1>4. CASE ~Follow
  <2>1. seen' = seen \/ seen' = {Apex}
    BY <1>4 DEF Next, Step, Record, Hop, Begin, Plain, Return, Report, Finished, vars, count
  <2>. QED
    BY <1>2, <1>t, <2>1, ReachedIsLeast DEF ReachInv
<1>. QED
  BY <1>3, <1>4

LEMMA ReachInvariant == Spec => [](WholeInv /\ ReachInv)
<1>1. Init => ReachInv
  BY DEF Init, ReachInv
<1>2. WholeInv => PathInv
  BY DEF WholeInv
<1>. QED
  BY <1>1, <1>2, WholeInvariant, ReachStep, PTL DEF Spec

-----------------------------------------------------------------------------
LEMMA PlacesAreFinite ==
  ASSUME published \in [Names -> Rows], NEW S \in SUBSET Names
  PROVE  IsFiniteSet(PlacesIn(S))
<1>. DEFINE T == {m \in S : Publishes(m)}
            places(m) == {m} \X DOMAIN Record1(m)
            U == {places(m) : m \in T}
            f == [m \in T |-> places(m)]
<1>1. IsFiniteSet(T)
  <2>1. T \in SUBSET Names
    OBVIOUS
  <2>. HIDE DEF T
  <2>. QED
    BY <2>1, FS_Subset, SpfAssumption
<1>2. \A m \in T : IsFiniteSet(places(m))
  <2>. SUFFICES ASSUME NEW m \in T
                PROVE  IsFiniteSet({m} \X DOMAIN Record1(m))
    OBVIOUS
  <2>1. DOMAIN Record1(m) = 1 .. Len(Record1(m)) /\ Len(Record1(m)) \in Nat
    BY Record1Type
  <2>2. IsFiniteSet(1 .. Len(Record1(m)))
    BY <2>1, FS_Interval
  <2>3. IsFiniteSet({m})
    BY FS_Singleton, Zenon
  <2>. HIDE DEF T
  <2>. QED
    BY <2>1, <2>2, <2>3, FS_Product
<1>. HIDE DEF T, places
<1>3. f \in Surjection(T, U)
  BY DEF Surjection
<1>. HIDE DEF f
<1>4. IsFiniteSet(U)
  <2>. HIDE DEF U
  <2>. QED
    BY <1>1, <1>3, FS_Surjection
<1>5. \A A \in U : IsFiniteSet(A)
  BY <1>2
<1>6. PlacesIn(S) = UNION U
  BY DEF PlacesIn, T, places
<1>. HIDE DEF U
<1>. QED
  BY <1>4, <1>5, <1>6, FS_UNION

LEMMA MorePlaces ==
  ASSUME published \in [Names -> Rows], NEW T \in SUBSET Names, NEW S \in SUBSET T
  PROVE  /\ CostIn(T) \in Nat /\ CostIn(S) \in Nat /\ CostIn(S) <= CostIn(T)
         /\ DanglingIn(T) \in Nat /\ DanglingIn(S) \in Nat /\ DanglingIn(S) <= DanglingIn(T)
<1>1. IsFiniteSet(PlacesIn(T)) /\ PlacesIn(S) \subseteq PlacesIn(T)
  BY PlacesAreFinite, InPlaces
<1>. DEFINE A == {e \in PlacesIn(S) : Costly(TermAt(e))}
            B == {e \in PlacesIn(T) : Costly(TermAt(e))}
            C == {e \in PlacesIn(S) : Dangles(TermAt(e))}
            D == {e \in PlacesIn(T) : Dangles(TermAt(e))}
<1>2. B \in SUBSET PlacesIn(T) /\ D \in SUBSET PlacesIn(T) /\ A \in SUBSET B /\ C \in SUBSET D
  BY <1>1
<1>. HIDE DEF A, B, C, D
<1>3. IsFiniteSet(B) /\ IsFiniteSet(D)
  BY <1>1, <1>2, FS_Subset
<1>4. IsFiniteSet(A) /\ Cardinality(A) <= Cardinality(B)
      /\ IsFiniteSet(C) /\ Cardinality(C) <= Cardinality(D)
  BY <1>2, <1>3, FS_Subset
<1>5. Cardinality(A) \in Nat /\ Cardinality(B) \in Nat
      /\ Cardinality(C) \in Nat /\ Cardinality(D) \in Nat
  BY <1>3, <1>4, FS_CardinalityType
<1>. QED
  BY <1>4, <1>5 DEF CostIn, DanglingIn, A, B, C, D

-----------------------------------------------------------------------------
(* Without a loss the walk has passed the places of the names it has seen, *)
(* and has seen every name below unless the depth cap cut it.              *)
LEMMA CountsAreTrue ==
  ASSUME WholeInv, ReachInv, Done, Charged = {}
  PROVE  /\ n \in Nat /\ CostIn(Reached) \in Nat /\ n <= CostIn(Reached)
         /\ voids \in Nat /\ DanglingIn(Reached) \in Nat /\ voids <= DanglingIn(Reached)
         /\ n <= MaxDepth => n = CostIn(Reached) /\ voids = DanglingIn(Reached)
<1>i. PathInv /\ WalkInv /\ LedgerInv /\ stack = <<>> /\ seen # {}
  BY AtTheEnd DEF WholeInv
<1>t. /\ published \in [Names -> Rows] /\ seen \subseteq Names /\ n \in Nat /\ voids \in Nat
      /\ MaxDepth \in Nat /\ Len(stack) = 0
  BY <1>i, SpfAssumption DEF PathInv, TypeOK
<1>1. \A name \in seen : HasSpf(name) <=> Publishes(name)
  BY <1>i, <1>t, ReadIsAnswered DEF WalkInv
<1>2. \A e : Behind(e)
  BY <1>t DEF Behind
<1>3. Walked = PlacesIn(seen)
  <2>1. \A e : e \in Walked <=> e \in PlacesIn(seen)
    BY <1>1, <1>2, InWalked, InPlaces DEF Place
  <2>. QED
    BY <2>1
<1>4. ASSUME NEW e \in Walked
      PROVE  Voided(TermAt(e)) <=> Dangles(TermAt(e))
  <2>. SUFFICES ASSUME Followed(TermAt(e))
                PROVE  is_void(TermAt(e).to) <=>
                         ~Publishes(TermAt(e).to) /\ alive[TermAt(e).to] = "nothing"
    BY DEF Voided, Dangles
  <2>. DEFINE to == TermAt(e).to
  <2>1. ReadsOf(to) \subseteq read
    BY <1>i DEF LedgerInv
  <2>2. to \in Names
    <3>1. e[1] \in Names /\ Publishes(e[1]) /\ e[2] \in DOMAIN Record1(e[1])
      BY <1>t, InWalked DEF Place
    <3>2. TermAt(e) \in Terms
      BY <1>t, <3>1, Record1Type DEF TermAt
    <3>. QED
      BY <3>2, TargetType DEF Followed, Targeted
  <2>. HIDE DEF to
  <2>3. <<to, "TXT">> \in read
    BY <2>1 DEF ReadsOf
  <2>4. Answered(to) /\ (HasSpf(to) <=> Publishes(to))
    BY <1>i, <2>2, <2>3, ReadIsAnswered
  <2>5. ~Publishes(to) /\ alive[to] = "nothing" => ends[to] # "a_lost"
    <3>. SUFFICES ASSUME ~Publishes(to), alive[to] = "nothing"
                  PROVE  ends[to] # "a_lost"
      OBVIOUS
    <3>1. <<to, "A">> \in read
      BY <2>1, <2>4 DEF ReadsOf, Answered
    <3>2. <<to, "A">>[1] = to /\ <<to, "A">>[2] = "A"
      OBVIOUS
    <3>. QED
      BY <3>1, <3>2 DEF Charged
  <2>6. ends[to] # "lost" /\ ends[to] # "refused"
    BY <2>4 DEF Answered
  <2>7. is_void(to) <=> ~Publishes(to) /\ alive[to] = "nothing"
    BY <2>5, <2>6 DEF is_void, Publishes
  <2>. QED
    BY <2>7 DEF to
<1>5. n = CostIn(seen) /\ voids = DanglingIn(seen)
  <2>1. VoidedWalked = {e \in PlacesIn(seen) : Dangles(TermAt(e))}
    BY <1>3, <1>4 DEF VoidedWalked
  <2>. QED
    BY <1>i, <1>3, <2>1 DEF LedgerInv, CostlyWalked, CostIn, DanglingIn
<1>6. n <= MaxDepth => Reached \subseteq seen
  <2>. SUFFICES ASSUME n <= MaxDepth
                PROVE  Closed(seen) /\ Apex \in seen
    BY <1>t, ReachedIsLeast
  <2>1. ASSUME NEW name \in seen, Publishes(name), NEW i \in DOMAIN Record1(name),
               Followed(Record1(name)[i])
        PROVE  Record1(name)[i].to \in seen
    <3>. DEFINE e == <<name, i>>
    <3>1. e[1] = name /\ e[2] = i /\ e = <<e[1], e[2]>>
      OBVIOUS
    <3>. HIDE DEF e
    <3>2. e \in PlacesIn(seen) /\ TermAt(e) = Record1(name)[i]
      BY <2>1, <3>1, InPlaces DEF TermAt
    <3>. QED
      BY <1>i, <1>t, <1>3, <2>1, <3>2 DEF LedgerInv
  <2>. QED
    BY <1>i, <2>1 DEF Closed, IndexOf, WalkInv
<1>7. Reached \in SUBSET Names /\ seen \in SUBSET Reached
  BY <1>t, ReachedIsLeast DEF ReachInv
<1>8. /\ CostIn(Reached) \in Nat /\ CostIn(seen) <= CostIn(Reached)
      /\ DanglingIn(Reached) \in Nat /\ DanglingIn(seen) <= DanglingIn(Reached)
  BY <1>t, <1>7, MorePlaces
<1>9. n <= MaxDepth => seen = Reached
  BY <1>6, <1>7
<1>. QED
  BY <1>t, <1>5, <1>8, <1>9

(* A rule that the ledger calls conclusive is reported exactly when the    *)
(* published records make it true, whatever was lost elsewhere in the      *)
(* graph: check_spf's findings against the evidence ledger.                *)
THEOREM ConclusiveFindingsAreTrue == Spec => []ConclusiveIsTrue
<1>1. WholeInv /\ ReachInv => ConclusiveIsTrue
  <2>. SUFFICES ASSUME WholeInv, ReachInv, phase = "done"
                PROVE  /\ \A rule \in F : Conclusive(rule) => rule \in Truth
                       /\ \A rule \in Truth : Conclusive(rule) =>
                            rule \in F \/ (rule = "spf.void_limit" /\ "spf.lookup_limit" \in F)
    BY DEF ConclusiveIsTrue
  <2>t. /\ published \in [Names -> Rows] /\ Apex \in Names /\ <<Apex, "TXT">> \in read
        /\ PathInv /\ MaxLookups \in Nat /\ MaxVoids \in Nat /\ MaxDepth \in Nat
        /\ MaxLookups <= MaxDepth
    BY SpfAssumption, CapAssumption DEF WholeInv, PathInv, WalkInv, TypeOK
  <2>c. \A rule : Conclusive(rule) => <<Apex, "TXT">> \notin Charged
    BY DEF Conclusive
  <2>1. CASE ~HasSpf(Apex)
    <3>1. F = {"spf.missing"}
      BY <2>1 DEF WholeInv, WalkInv
    <3>2. <<Apex, "TXT">> \notin Charged => Truth = {"spf.missing"}
      BY <2>1, <2>t, ReadIsAnswered DEF Truth
    <3>. QED
      BY <2>c, <3>1, <3>2
  <2>2. CASE HasSpf(Apex)
    <3>1. /\ "spf.present" \in F
          /\ F = Several \union Verdicts(Record1(Apex), terminator, n, voids)
      BY <2>2 DEF WholeInv, WalkInv, Verdicts
    <3>2. Done /\ Publishes(Apex) /\ SpfRows(Apex) = published[Apex]
      BY <2>2, <3>1 DEF Done, HasSpf, SpfRows, Publishes
    <3>3. Truth = Verdicts(Record1(Apex), Scanned, CostIn(Reached), DanglingIn(Reached))
                    \union Several
      BY <3>2 DEF Truth, Several
    <3>4. "spf.present" \in Truth
      BY <3>3 DEF Verdicts
    <3>5. CASE Charged # {}
      <4>1. \A rule : Conclusive(rule) => rule = "spf.present"
        BY <3>5 DEF Conclusive
      <4>. QED
        BY <3>1, <3>4, <4>1
    <3>6. CASE Charged = {}
      <4>1. terminator = Scanned
        BY <3>2, <3>6, AtTheEnd, SameTerminator DEF WholeInv
      <4>2. /\ n \in Nat /\ CostIn(Reached) \in Nat /\ n <= CostIn(Reached)
            /\ voids \in Nat /\ DanglingIn(Reached) \in Nat /\ voids <= DanglingIn(Reached)
            /\ n <= MaxDepth => n = CostIn(Reached) /\ voids = DanglingIn(Reached)
        BY <3>2, <3>6, CountsAreTrue
      <4>3. n > MaxLookups <=> CostIn(Reached) > MaxLookups
        BY <2>t, <4>2
      <4>4. voids > MaxVoids => DanglingIn(Reached) > MaxVoids
        BY <2>t, <4>2
      <4>5. DanglingIn(Reached) > MaxVoids => voids > MaxVoids \/ n > MaxLookups
        BY <2>t, <4>2
      <4>. QED
        BY <3>1, <3>3, <4>1, <4>3, <4>4, <4>5 DEF Verdicts
    <3>. QED
      BY <3>5, <3>6
  <2>. QED
    BY <2>1, <2>2
<1>. QED
  BY <1>1, ReachInvariant, PTL

-----------------------------------------------------------------------------
(* The verifier's count of a record entered at a depth, term by term, and  *)
(* of the whole graph.                                                     *)
Outcome(name, acc, k) == LookupsAlong(Record1(name), acc, count_lookups[MaxDepth + 1 - k])
Final == count_lookups[MaxDepth + 1][Apex][[seen |-> {}, n |-> 0]]
Now == [seen |-> seen, n |-> n]

Value(e, k) == IF k = 0 THEN Final ELSE Outcome(stack[k].name, e[k], k)[stack[k].next - 1]

Resumes(e) ==
  /\ e \in [1 .. Len(stack) -> Accs]
  /\ \A k \in 1 .. Len(stack) :
       Outcome(stack[k].name, e[k], k)[Len(Record1(stack[k].name))] = Value(e, k - 1)
  /\ Now = Value(e, Len(stack))

(* The walk is a point in the verifier's recursion: the calls on its stack *)
(* have begun with some counts, and each is where its caller's term ends.  *)
ResumesInv == Charged = {} /\ NoSemicolon /\ seen # {} => \E e : Resumes(e)

LEMMA OutcomeIsFixed ==
  ASSUME UNCHANGED world
  PROVE  /\ \A name, acc, k : Outcome(name, acc, k)' = Outcome(name, acc, k)
         /\ Final' = Final /\ NoSemicolon' = NoSemicolon
<1>1. published' = published
  BY DEF world
<1>2. count_lookups' = count_lookups
  BY <1>1 DEF count_lookups, LookupsAlong, Publishes, Record1, LookupsOf
<1>3. \A name, acc, k : Outcome(name, acc, k)' = Outcome(name, acc, k)
  BY <1>1, <1>2 DEF Outcome, Record1
<1>4. NoSemicolon' = NoSemicolon
  BY <1>1 DEF NoSemicolon, Edges, PlacesIn, TermAt, TargetOf, Publishes, Record1
<1>. QED
  BY <1>2, <1>3, <1>4 DEF Final

LEMMA OutcomeIs ==
  ASSUME published \in [Names -> Rows], NEW name \in Names, Publishes(name), NEW acc \in Accs,
         NEW k \in 1 .. MaxDepth + 1
  PROVE  /\ Outcome(name, acc, k)[0] = acc
         /\ \A i \in 0 .. Len(Record1(name)) : Outcome(name, acc, k)[i] \in Accs
         /\ \A i \in 1 .. Len(Record1(name)) : Outcome(name, acc, k)[i] =
              LookupsOf(Record1(name)[i], Outcome(name, acc, k)[i - 1],
                        count_lookups[MaxDepth + 1 - k])
<1>1. MaxDepth + 1 - k \in Nat
  BY SpfAssumption
<1>. DEFINE below == count_lookups[MaxDepth + 1 - k]
            rec == Record1(name)
<1>2. below \in [Names -> [Accs -> Accs]]
  BY <1>1, CountIs
<1>3. rec \in Seq(Terms)
  BY Record1Type
<1>. HIDE DEF below, rec
<1>4. /\ LookupsAlong(rec, acc, below) \in [0 .. Len(rec) -> Accs]
      /\ LookupsAlong(rec, acc, below)[0] = acc
      /\ \A i \in 1 .. Len(rec) : LookupsAlong(rec, acc, below)[i] =
           LookupsOf(rec[i], LookupsAlong(rec, acc, below)[i - 1], below)
  BY <1>2, <1>3, LookupsAlongIs
<1>. QED
  BY <1>4 DEF Outcome, below, rec

LEMMA Descends ==
  ASSUME published \in [Names -> Rows], NEW name \in Names, NEW acc \in Accs,
         NEW k \in 1 .. MaxDepth + 1
  PROVE  count_lookups[MaxDepth + 1 - k][name][acc] =
           IF k = MaxDepth + 1 \/ name \in acc.seen THEN acc
           ELSE IF ~Publishes(name) THEN Entered(acc, name)
           ELSE Outcome(name, Entered(acc, name), k + 1)[Len(Record1(name))]
<1>1. MaxDepth \in Nat
  BY SpfAssumption
<1>2. CASE k = MaxDepth + 1
  <2>1. MaxDepth + 1 - k = 0
    BY <1>1, <1>2
  <2>. QED
    BY <1>2, <2>1, CountIs
<1>3. CASE k # MaxDepth + 1
  <2>1. MaxDepth - k \in Nat /\ (MaxDepth - k) + 1 = MaxDepth + 1 - k
        /\ MaxDepth + 1 - (k + 1) = MaxDepth - k
    BY <1>1, <1>3
  <2>2. count_lookups[(MaxDepth - k) + 1][name][acc]
          = LevelCount(name, acc, count_lookups[MaxDepth - k])
    BY <2>1, CountIs
  <2>. QED
    BY <1>3, <2>1, <2>2 DEF LevelCount, Outcome
<1>. QED
  BY <1>2, <1>3

LEMMA NowMoves ==
  ASSUME PathInv, PathInv', UNCHANGED world, Plain \/ Follow, Charged' = {}, NoSemicolon
  PROVE  LET one == LookupsOf(Term, Now, count_lookups[MaxDepth + 1 - Len(stack)])
         IN  /\ Now \in Accs /\ Now' \in Accs
             /\ ~Entering => Now' = one
             /\ Entering => one = Outcome(Term.to, Now', Len(stack) + 1)[Len(Record1(Term.to))]
<1>. DEFINE k == Len(stack)
            below == count_lookups[MaxDepth + 1 - k]
            up == [seen |-> seen, n |-> n + 1]
<1>t. /\ published \in [Names -> Rows] /\ seen \subseteq Names /\ n \in Nat
      /\ seen' \subseteq Names /\ n' \in Nat /\ MaxDepth \in Nat
  BY SpfAssumption DEF PathInv, TypeOK
<1>0. AtTerm
  BY DEF Plain, Follow
<1>1. Now \in Accs /\ Now' \in Accs /\ up \in Accs /\ up.seen = seen
      /\ up = [Now EXCEPT !.n = @ + 1]
  BY <1>t DEF Accs, Now
<1>2. k \in 1 .. MaxDepth + 1
  BY <1>0, AtTop DEF PathInv, PathIsSimple
<1>3. CASE Plain
  <2>1. ~Entering /\ seen' = seen /\ Term \in Terms
    BY <1>0, <1>3, AtTop DEF Plain, Entering
  <2>2. Now' = IF Term.kind = "mech" THEN up ELSE Now
    BY <1>3, <2>1 DEF Plain, Now
  <2>3. Term.kind \notin {"include", "redirect"}
    BY <1>3 DEF Plain
  <2>4. LookupsOf(Term, Now, below) = IF Term.kind = "mech" THEN up ELSE Now
    BY <1>1, <2>3 DEF LookupsOf
  <2>. QED
    BY <1>1, <2>1, <2>2, <2>4
<1>4. CASE Follow
  <2>1. /\ Term.kind \in {"include", "redirect"} /\ n' = n + 1
        /\ seen' = IF Enters(Term.to) THEN seen \union {Term.to} ELSE seen
    BY <1>4 DEF Follow
  <2>2. Term.to \in Names /\ Term.kind \in Targeted
    BY <1>0, <2>1, AtTop DEF Targeted
  <2>3. Term.kind = "redirect" => ~Term.semi
    <3>1. Place(Here) /\ TermAt(Here) = Term /\ Here[1] \in seen
      BY <1>0, HereIsNew
    <3>2. Here \in PlacesIn(Names)
      BY <1>t, <3>1, InPlaces DEF Place
    <3>3. Here \in Edges
      BY <2>2, <3>1, <3>2 DEF Edges
    <3>. QED
      BY <3>1, <3>3 DEF NoSemicolon
  <2>4. LookupsOf(Term, Now, below) = below[Term.to][up]
    BY <1>1, <2>1, <2>3 DEF LookupsOf
  <2>5. below[Term.to][up] =
          IF k = MaxDepth + 1 \/ Term.to \in seen THEN up
          ELSE IF ~Publishes(Term.to) THEN Entered(up, Term.to)
          ELSE Outcome(Term.to, Entered(up, Term.to), k + 1)[Len(Record1(Term.to))]
    BY <1>t, <1>1, <1>2, <2>2, Descends
  <2>6. Enters(Term.to) <=> ~(k = MaxDepth + 1 \/ Term.to \in seen)
    BY <1>2, <1>t DEF Enters
  <2>7. Now' = IF Enters(Term.to) THEN Entered(up, Term.to) ELSE up
    BY <2>1 DEF Now, Entered
  <2>8. HasSpf(Term.to) <=> Publishes(Term.to)
    <3>1. <<Term.to, "TXT">> \in read'
      BY <1>4 DEF Follow, ReadsOf
    <3>2. (PathInv /\ Charged = {} => AllAnswered)'
      BY ReadsAnswered, PTL
    <3>3. \A name \in Names : <<name, "TXT">> \in read' => (HasSpf(name) <=> Publishes(name))
      BY <3>2, WorldIsFixed DEF AllAnswered
    <3>. QED
      BY <2>2, <3>1, <3>3
  <2>9. Entering <=> Enters(Term.to) /\ Publishes(Term.to)
    BY <1>0, <2>1, <2>8 DEF Entering
  <2>. HIDE DEF up, below, k
  <2>10. CASE Entering
    <3>1. LookupsOf(Term, Now, below) = Outcome(Term.to, Now', k + 1)[Len(Record1(Term.to))]
      BY <2>4, <2>5, <2>6, <2>7, <2>9, <2>10
    <3>. QED
      BY <1>1, <2>10, <3>1 DEF below, k
  <2>11. CASE ~Entering
    <3>1. LookupsOf(Term, Now, below) = Now'
      BY <2>4, <2>5, <2>6, <2>7, <2>9, <2>11
    <3>. QED
      BY <1>1, <2>11, <3>1 DEF below, k
  <2>. QED
    BY <2>10, <2>11
<1>. QED
  BY <1>3, <1>4

(* One lemma per kind of step, as for the receiver's cost.                 *)
LEMMA BeganResumes ==
  ASSUME PathInv, WalkInv, Begin, UNCHANGED world
  PROVE  \E e : Resumes(e)'
<1>1. stack' = <<Frame(Apex)>> /\ phase = "count" /\ seen = {} /\ seen' = {Apex} /\ n' = 0
  BY DEF Begin, WalkInv
<1>2. Len(stack') = 1 /\ stack'[1].name = Apex /\ stack'[1].next = 1
  BY <1>1 DEF Frame
<1>t. published \in [Names -> Rows] /\ Apex \in Names /\ MaxDepth \in Nat
  BY SpfAssumption DEF PathInv, TypeOK
<1>3. Publishes(Apex)
  BY <1>1, SpfIsPublished DEF PathInv, Enumerable
<1>. DEFINE acc == [seen |-> {Apex}, n |-> 0]
            empty == [seen |-> {}, n |-> 0]
<1>4. acc \in Accs /\ empty \in Accs /\ Entered(empty, Apex) = acc /\ Apex \notin empty.seen
  BY <1>t DEF Accs, Entered
<1>5. Final = Outcome(Apex, acc, 1)[Len(Record1(Apex))]
  <2>1. count_lookups[MaxDepth + 1][Apex][empty]
          = LevelCount(Apex, empty, count_lookups[MaxDepth])
    BY <1>t, <1>4, CountIs
  <2>2. MaxDepth + 1 - 1 = MaxDepth
    BY <1>t
  <2>. HIDE DEF acc
  <2>. QED
    BY <1>3, <1>4, <2>1, <2>2 DEF Final, LevelCount, Outcome
<1>6. Now' = acc
  BY <1>1 DEF Now
<1>7. Outcome(Apex, acc, 1)[0] = acc
  BY <1>3, <1>4, <1>t, OutcomeIs
<1>. HIDE DEF acc, empty
<1>e. PICK e : e = [k \in 1 .. 1 |-> acc]
  OBVIOUS
<1>8. e \in [1 .. 1 -> Accs] /\ e[1] = acc
  BY <1>e, <1>4
<1>9. Value(e, 0)' = Final /\ Value(e, 1)' = acc
  <2>1. Value(e, 0)' = Final
    BY OutcomeIsFixed DEF Value
  <2>2. Value(e, 1)' = Outcome(stack'[1].name, e[1], 1)[stack'[1].next - 1]
    BY OutcomeIsFixed DEF Value
  <2>. QED
    BY <1>2, <1>7, <1>8, <2>1, <2>2
<1>10. (Outcome(stack[1].name, e[1], 1)[Len(Record1(stack[1].name))])' = Value(e, 0)'
  BY <1>2, <1>5, <1>8, <1>9, OutcomeIsFixed, WorldIsFixed
<1>11. Resumes(e)'
  BY <1>2, <1>6, <1>8, <1>9, <1>10 DEF Resumes
<1>. QED
  BY <1>11

LEMMA ReturnedResumes ==
  ASSUME PathInv, WalkInv, Return, UNCHANGED world, NEW e, Resumes(e)
  PROVE  \E f : Resumes(f)'
<1>l. PICK L : L = Len(stack)
  OBVIOUS
<1>1. /\ L \in Nat \ {0} /\ L \in 1 .. L /\ Len(stack') = L - 1 /\ Top = stack[L]
      /\ \A i \in 1 .. L - 1 : stack'[i] = stack[i]
      /\ Top.next > Len(Record1(Top.name))
  BY <1>l, ReturnedFrames
<1>2. /\ e \in [1 .. L -> Accs] /\ Now = Value(e, L)
      /\ \A k \in 1 .. L :
           Outcome(stack[k].name, e[k], k)[Len(Record1(stack[k].name))] = Value(e, k - 1)
  BY <1>l DEF Resumes
<1>3. Top.next - 1 = Len(Record1(Top.name))
  <2>1. Top.name \in Names /\ Top.next \in Nat /\ Publishes(Top.name)
    BY <1>1, <1>l, Stack, SpfIsPublished
  <2>2. Top.next <= Len(Record1(Top.name)) + 1
    BY <1>1, <1>l DEF WalkInv
  <2>3. Len(Record1(Top.name)) \in Nat
    BY <2>1, Record1Type DEF PathInv, TypeOK
  <2>. QED
    BY <1>1, <2>1, <2>2, <2>3
<1>4. Now' = Value(e, L - 1)
  <2>1. Now' = Now
    BY DEF Return, Now
  <2>2. Value(e, L) = Outcome(stack[L].name, e[L], L)[Len(Record1(stack[L].name))]
    BY <1>1, <1>3 DEF Value
  <2>. QED
    BY <1>1, <1>2, <2>1, <2>2
<1>f. PICK f : f = [k \in 1 .. L - 1 |-> e[k]]
  OBVIOUS
<1>5. f \in [1 .. L - 1 -> Accs] /\ \A k \in 1 .. L - 1 : f[k] = e[k]
  BY <1>1, <1>2, <1>f
<1>6. \A k \in 0 .. L - 1 : Value(f, k)' = Value(e, k)
  <2>1. \A k \in 0 .. L - 1 : Value(f, k)' =
          IF k = 0 THEN Final ELSE Outcome(stack'[k].name, f[k], k)[stack'[k].next - 1]
    BY OutcomeIsFixed DEF Value
  <2>2. \A k \in 0 .. L - 1 : k = 0 \/ k \in 1 .. L - 1
    BY <1>1
  <2>. QED
    BY <1>1, <1>5, <2>1, <2>2 DEF Value
<1>7. \A k \in 1 .. L - 1 :
        (Outcome(stack[k].name, f[k], k)[Len(Record1(stack[k].name))])' = Value(f, k - 1)'
  <2>. SUFFICES ASSUME NEW k \in 1 .. L - 1
                PROVE  Outcome(stack'[k].name, f[k], k)[Len(Record1(stack'[k].name))]
                         = Value(f, k - 1)'
    BY OutcomeIsFixed, WorldIsFixed
  <2>1. k \in 1 .. L /\ k - 1 \in 0 .. L - 1 /\ stack'[k] = stack[k] /\ f[k] = e[k]
    BY <1>1, <1>5
  <2>. QED
    BY <1>2, <1>6, <2>1
<1>8. Now' = Value(f, L - 1)'
  <2>1. L - 1 \in 0 .. L - 1
    BY <1>1
  <2>. QED
    BY <1>4, <1>6, <2>1
<1>9. Resumes(f)'
  BY <1>1, <1>5, <1>7, <1>8 DEF Resumes
<1>. QED
  BY <1>9

LEMMA MovedResumes ==
  ASSUME PathInv, PathInv', Moving, UNCHANGED world, Charged' = {}, NoSemicolon,
         NEW e, Resumes(e)
  PROVE  Resumes(e)'
<1>l. PICK L : L = Len(stack)
  OBVIOUS
<1>t. published \in [Names -> Rows]
  BY DEF PathInv, TypeOK
<1>1. /\ AtTerm /\ Len(stack') = L
      /\ \A i \in 1 .. L : /\ stack'[i].name = stack[i].name
                           /\ stack'[i].next = IF i = L THEN Top.next + 1 ELSE stack[i].next
  BY <1>l, MovedFrames
<1>2. /\ L \in Nat \ {0} /\ L \in 1 .. L /\ Top = stack[L] /\ Top.name \in Names
      /\ Publishes(Top.name) /\ Top.next \in 1 .. Len(Record1(Top.name))
      /\ Term = Record1(Top.name)[Top.next] /\ Top.next \in Nat \ {0}
      /\ L \in 1 .. MaxDepth + 1
  BY <1>1, <1>l, AtTop DEF PathInv, PathIsSimple
<1>3. /\ e \in [1 .. L -> Accs] /\ Now = Value(e, L)
      /\ \A k \in 1 .. L :
           Outcome(stack[k].name, e[k], k)[Len(Record1(stack[k].name))] = Value(e, k - 1)
  BY <1>l DEF Resumes
<1>4. Outcome(Top.name, e[L], L)[Top.next]
        = LookupsOf(Term, Now, count_lookups[MaxDepth + 1 - L])
  <2>1. e[L] \in Accs
    BY <1>2, <1>3
  <2>2. Now = Outcome(Top.name, e[L], L)[Top.next - 1]
    BY <1>2, <1>3 DEF Value
  <2>. QED
    BY <1>2, <1>t, <2>1, <2>2, OutcomeIs
<1>5. Now' = LookupsOf(Term, Now, count_lookups[MaxDepth + 1 - L])
  <2>1. (Plain \/ Follow) /\ ~Entering
    BY DEF Moving, Plain, Entering
  <2>. QED
    BY <1>l, <2>1, NowMoves
<1>v. \A k \in 0 .. L : Value(e, k)' =
        IF k = 0 THEN Final ELSE Outcome(stack'[k].name, e[k], k)[stack'[k].next - 1]
  BY OutcomeIsFixed DEF Value
<1>6. \A k \in 0 .. L - 1 : Value(e, k)' = Value(e, k)
  <2>1. \A k \in 0 .. L - 1 : k \in 0 .. L /\ k # L /\ (k = 0 \/ k \in 1 .. L)
    BY <1>2
  <2>. QED
    BY <1>1, <1>v, <2>1 DEF Value
<1>7. \A k \in 1 .. L :
        (Outcome(stack[k].name, e[k], k)[Len(Record1(stack[k].name))])' = Value(e, k - 1)'
  <2>. SUFFICES ASSUME NEW k \in 1 .. L
                PROVE  Outcome(stack'[k].name, e[k], k)[Len(Record1(stack'[k].name))]
                         = Value(e, k - 1)'
    BY OutcomeIsFixed, WorldIsFixed
  <2>1. k - 1 \in 0 .. L - 1 /\ stack'[k].name = stack[k].name
    BY <1>1, <1>2
  <2>. QED
    BY <1>3, <1>6, <2>1
<1>8. Now' = Value(e, L)'
  <2>1. L \in 0 .. L /\ L # 0 /\ stack'[L].name = Top.name /\ stack'[L].next - 1 = Top.next
    BY <1>1, <1>2
  <2>. QED
    BY <1>4, <1>5, <1>v, <2>1
<1>. QED
  BY <1>1, <1>3, <1>7, <1>8 DEF Resumes

LEMMA EnteredResumes ==
  ASSUME PathInv, PathInv', Follow, Entering, UNCHANGED world, Charged' = {}, NoSemicolon,
         NEW e, Resumes(e)
  PROVE  \E f : Resumes(f)'
<1>l. PICK L : L = Len(stack)
  OBVIOUS
<1>t. published \in [Names -> Rows]
  BY DEF PathInv, TypeOK
<1>1. /\ AtTerm /\ Len(stack') = L + 1 /\ Term.to \in Names
      /\ stack'[L + 1].name = Term.to /\ stack'[L + 1].next = 1
      /\ \A i \in 1 .. L : /\ stack'[i].name = stack[i].name
                           /\ stack'[i].next = IF i = L THEN Top.next + 1 ELSE stack[i].next
      /\ Publishes(Term.to)
  BY <1>l, EnteredFrames, SpfIsPublished DEF Entering
<1>2. /\ L \in Nat \ {0} /\ L \in 1 .. L /\ Top = stack[L] /\ Top.name \in Names
      /\ Publishes(Top.name) /\ Top.next \in 1 .. Len(Record1(Top.name))
      /\ Term = Record1(Top.name)[Top.next] /\ Top.next \in Nat \ {0}
      /\ L \in 1 .. MaxDepth + 1 /\ L + 1 \in 1 .. MaxDepth + 1
  <2>1. Len(stack) <= MaxDepth /\ MaxDepth \in Nat
    BY SpfAssumption, EnteredFrames
  <2>. QED
    BY <1>1, <1>l, <2>1, AtTop
<1>3. /\ e \in [1 .. L -> Accs] /\ Now = Value(e, L)
      /\ \A k \in 1 .. L :
           Outcome(stack[k].name, e[k], k)[Len(Record1(stack[k].name))] = Value(e, k - 1)
  BY <1>l DEF Resumes
<1>4. Outcome(Top.name, e[L], L)[Top.next]
        = LookupsOf(Term, Now, count_lookups[MaxDepth + 1 - L])
  <2>1. e[L] \in Accs
    BY <1>2, <1>3
  <2>2. Now = Outcome(Top.name, e[L], L)[Top.next - 1]
    BY <1>2, <1>3 DEF Value
  <2>. QED
    BY <1>2, <1>t, <2>1, <2>2, OutcomeIs
<1>n. PICK new : new = Now'
  OBVIOUS
<1>5. /\ new \in Accs
      /\ LookupsOf(Term, Now, count_lookups[MaxDepth + 1 - L])
           = Outcome(Term.to, new, L + 1)[Len(Record1(Term.to))]
  BY <1>l, <1>n, NowMoves
<1>o. PICK to : to = Term.to
  OBVIOUS
<1>f. PICK f : f = [k \in 1 .. L + 1 |-> IF k = L + 1 THEN new ELSE e[k]]
  OBVIOUS
<1>6. f \in [1 .. L + 1 -> Accs] /\ f[L + 1] = new /\ \A k \in 1 .. L : f[k] = e[k]
  BY <1>2, <1>3, <1>5, <1>f
<1>v. \A k \in 0 .. L + 1 : Value(f, k)' =
        IF k = 0 THEN Final ELSE Outcome(stack'[k].name, f[k], k)[stack'[k].next - 1]
  BY OutcomeIsFixed DEF Value
<1>7. \A k \in 0 .. L - 1 : Value(f, k)' = Value(e, k)
  <2>1. \A k \in 0 .. L - 1 : k \in 0 .. L + 1 /\ k # L /\ (k = 0 \/ k \in 1 .. L)
    BY <1>2
  <2>. QED
    BY <1>1, <1>6, <1>v, <2>1 DEF Value
<1>8. Value(f, L)' = Outcome(to, new, L + 1)[Len(Record1(to))]
  <2>1. /\ L \in 0 .. L + 1 /\ L # 0 /\ stack'[L].name = Top.name
        /\ stack'[L].next - 1 = Top.next /\ f[L] = e[L]
    BY <1>1, <1>2, <1>6
  <2>. QED
    BY <1>4, <1>5, <1>o, <1>v, <2>1
<1>9. Value(f, L + 1)' = new
  <2>1. /\ L + 1 \in 0 .. L + 1 /\ L + 1 # 0 /\ stack'[L + 1].name = to
        /\ stack'[L + 1].next - 1 = 0
    BY <1>1, <1>2, <1>o
  <2>2. Outcome(to, new, L + 1)[0] = new
    BY <1>1, <1>2, <1>5, <1>o, <1>t, OutcomeIs
  <2>. QED
    BY <1>6, <1>v, <2>1, <2>2
<1>10. \A k \in 1 .. L + 1 :
        (Outcome(stack[k].name, f[k], k)[Len(Record1(stack[k].name))])' = Value(f, k - 1)'
  <2>. SUFFICES ASSUME NEW k \in 1 .. L + 1
                PROVE  Outcome(stack'[k].name, f[k], k)[Len(Record1(stack'[k].name))]
                         = Value(f, k - 1)'
    BY OutcomeIsFixed, WorldIsFixed
  <2>1. CASE k = L + 1
    <3>1. k - 1 = L /\ f[k] = new /\ stack'[k].name = to
      BY <1>1, <1>2, <1>6, <1>o, <2>1
    <3>. QED
      BY <1>8, <2>1, <3>1
  <2>2. CASE k # L + 1
    <3>1. k \in 1 .. L /\ k - 1 \in 0 .. L - 1 /\ stack'[k].name = stack[k].name /\ f[k] = e[k]
      BY <1>1, <1>2, <1>6, <2>2
    <3>. QED
      BY <1>3, <1>7, <3>1
  <2>. QED
    BY <2>1, <2>2
<1>11. Resumes(f)'
  BY <1>1, <1>6, <1>9, <1>10, <1>n DEF Resumes
<1>. QED
  BY <1>11

LEMMA ResumesStep ==
  PathInv /\ WalkInv /\ PathInv' /\ ResumesInv /\ [Next]_vars => ResumesInv'
<1>. SUFFICES ASSUME PathInv, WalkInv, PathInv', ResumesInv, [Next]_vars
              PROVE  ResumesInv'
  OBVIOUS
<1>w. UNCHANGED world /\ read \subseteq read'
  BY WorldStays
<1>. SUFFICES ASSUME Charged' = {}, NoSemicolon, seen' # {}
              PROVE  \E e : Resumes(e)'
  BY <1>w, OutcomeIsFixed DEF ResumesInv
<1>1. CASE Begin
  BY <1>1, <1>w, BeganResumes
<1>2. CASE ~Begin
  <2>1. seen # {}
    BY <1>2 DEF Next, Step, Record, Hop, Plain, Follow, Return, Report, Finished, vars,
                count, WalkInv, AtTerm, Counting
  <2>2. PICK e : Resumes(e)
    BY <1>w, <2>1, ChargedGrows DEF ResumesInv
  <2>3. CASE Moving
    BY <1>w, <2>2, <2>3, MovedResumes
  <2>4. CASE Follow /\ Entering
    BY <1>w, <2>2, <2>4, EnteredResumes
  <2>5. CASE Return
    BY <1>w, <2>2, <2>5, ReturnedResumes
  <2>6. CASE UNCHANGED <<stack, seen, n>>
    <3>1. \A k : Value(e, k)' = Value(e, k)
      BY <1>w, <2>6, OutcomeIsFixed DEF Value
    <3>2. Now' = Now
      BY <2>6 DEF Now
    <3>3. \A k : (Outcome(stack[k].name, e[k], k)[Len(Record1(stack[k].name))])'
                   = Outcome(stack[k].name, e[k], k)[Len(Record1(stack[k].name))]
      BY <1>w, <2>6, OutcomeIsFixed, WorldIsFixed
    <3>. QED
      BY <2>2, <2>6, <3>1, <3>2, <3>3 DEF Resumes
  <2>7. Record \/ Hop \/ Report \/ Finished \/ UNCHANGED vars => UNCHANGED <<stack, seen, n>>
    BY DEF Record, Hop, Report, Finished, vars, count
  <2>. QED
    BY <1>2, <2>3, <2>4, <2>5, <2>6, <2>7 DEF Next, Step, Moving
<1>. QED
  BY <1>1, <1>2

-----------------------------------------------------------------------------
(* The verifier never counts a term it has not seen the record of, and     *)
(* counts each such term once: its count is that of the names it has seen. *)
CountsSeen(acc, result) ==
  /\ result \in Accs /\ acc.seen \subseteq result.seen /\ result.seen \subseteq Reached
  /\ result.n + CostIn(acc.seen) = acc.n + CostIn(result.seen)

(* The places of a record up to a term.                                    *)
PartOf(name, i) == {e \in PlacesIn({name}) : e[2] <= i /\ Costly(TermAt(e))}

LEMMA PartsGrow ==
  ASSUME published \in [Names -> Rows], NEW name \in Names, Publishes(name)
  PROVE  /\ PartOf(name, 0) = {}
         /\ \A i \in 0 .. Len(Record1(name)) : IsFiniteSet(PartOf(name, i))
              /\ Cardinality(PartOf(name, i)) \in Nat
         /\ \A i \in 1 .. Len(Record1(name)) : Cardinality(PartOf(name, i)) =
              IF Costly(Record1(name)[i]) THEN Cardinality(PartOf(name, i - 1)) + 1
              ELSE Cardinality(PartOf(name, i - 1))
<1>0. /\ Len(Record1(name)) \in Nat /\ DOMAIN Record1(name) = 1 .. Len(Record1(name))
  BY Record1Type
<1>1. \A e : e \in PlacesIn({name}) <=> e = <<name, e[2]>> /\ e[2] \in 1 .. Len(Record1(name))
  <2>. SUFFICES ASSUME NEW e
                PROVE  e \in PlacesIn({name}) <=>
                         e = <<name, e[2]>> /\ e[2] \in 1 .. Len(Record1(name))
    OBVIOUS
  <2>1. CASE e[1] = name
    BY <1>0, <2>1, InPlaces
  <2>2. CASE e[1] # name
    <3>1. e \notin PlacesIn({name})
      BY <2>2, InPlaces
    <3>2. e # <<name, e[2]>>
      BY <2>2
    <3>. QED
      BY <3>1, <3>2
  <2>. QED
    BY <2>1, <2>2
<1>2. PartOf(name, 0) = {}
  <2>1. \A e \in PlacesIn({name}) : ~(e[2] <= 0)
    BY <1>0, <1>1
  <2>. QED
    BY <2>1 DEF PartOf
<1>3. \A i \in 0 .. Len(Record1(name)) : IsFiniteSet(PartOf(name, i))
  <2>1. IsFiniteSet(PlacesIn({name}))
    BY PlacesAreFinite
  <2>2. \A i : PartOf(name, i) \in SUBSET PlacesIn({name})
    BY DEF PartOf
  <2>. QED
    BY <2>1, <2>2, FS_Subset
<1>4. ASSUME NEW i \in 1 .. Len(Record1(name))
      PROVE  Cardinality(PartOf(name, i)) =
               IF Costly(Record1(name)[i]) THEN Cardinality(PartOf(name, i - 1)) + 1
               ELSE Cardinality(PartOf(name, i - 1))
  <2>x. PICK x : x = <<name, i>>
    OBVIOUS
  <2>1. x \in PlacesIn({name}) /\ x[2] = i /\ TermAt(x) = Record1(name)[i]
    BY <1>1, <2>x DEF TermAt
  <2>2. \A e \in PlacesIn({name}) : e[2] \in Nat /\ (e[2] = i => e = x)
    BY <1>0, <1>1, <2>x
  <2>3. i \in Nat /\ i - 1 \in Nat /\ i - 1 \in 0 .. Len(Record1(name))
    BY <1>0
  <2>4. ASSUME NEW e \in PlacesIn({name})
        PROVE  e[2] <= i <=> e[2] <= i - 1 \/ e = x
    <3>1. e[2] \in Nat /\ (e[2] = i <=> e = x)
      BY <2>1, <2>2
    <3>. QED
      BY <2>3, <3>1
  <2>5. x \notin PartOf(name, i - 1)
    BY <2>1, <2>3 DEF PartOf
  <2>6. PartOf(name, i) = IF Costly(Record1(name)[i]) THEN PartOf(name, i - 1) \union {x}
                          ELSE PartOf(name, i - 1)
    BY <2>1, <2>4 DEF PartOf
  <2>7. Costly(Record1(name)[i]) \in BOOLEAN /\ IsFiniteSet(PartOf(name, i - 1))
    BY <1>3, <2>3 DEF Costly
  <2>. QED
    BY <2>5, <2>6, <2>7, OneMore
<1>5. \A i \in 0 .. Len(Record1(name)) : Cardinality(PartOf(name, i)) \in Nat
  BY <1>3, FS_CardinalityType
<1>. QED
  BY <1>2, <1>3, <1>4, <1>5

LEMMA OneMoreName ==
  ASSUME published \in [Names -> Rows], NEW S \in SUBSET Names, NEW name \in Names, name \notin S
  PROVE  /\ ~Publishes(name) => CostIn(S \union {name}) = CostIn(S)
         /\ Publishes(name) => CostIn(S \union {name}) =
              CostIn(S) + Cardinality(PartOf(name, Len(Record1(name))))
<1>. DEFINE A == {e \in PlacesIn(S) : Costly(TermAt(e))}
            B == {e \in PlacesIn({name}) : Costly(TermAt(e))}
            C == {e \in PlacesIn(S \union {name}) : Costly(TermAt(e))}
<1>1. C = A \union B /\ A \intersect B = {}
  BY InPlaces
<1>2. IsFiniteSet(A) /\ IsFiniteSet(B)
  <2>1. IsFiniteSet(PlacesIn(S)) /\ IsFiniteSet(PlacesIn({name}))
    BY PlacesAreFinite
  <2>2. A \in SUBSET PlacesIn(S) /\ B \in SUBSET PlacesIn({name})
    OBVIOUS
  <2>. HIDE DEF A, B
  <2>. QED
    BY <2>1, <2>2, FS_Subset
<1>3. CASE ~Publishes(name)
  <2>1. B = {}
    BY <1>3, InPlaces
  <2>. QED
    BY <1>1, <1>3, <2>1 DEF CostIn
<1>4. CASE Publishes(name)
  <2>1. B = PartOf(name, Len(Record1(name)))
    <3>1. \A e \in PlacesIn({name}) : e[2] <= Len(Record1(name))
      <4>1. \A e \in PlacesIn({name}) : e[1] = name /\ e[2] \in DOMAIN Record1(e[1])
        BY InPlaces
      <4>. QED
        BY <1>4, <4>1, Record1Type
    <3>. QED
      BY <3>1 DEF PartOf
  <2>2. CostIn(S) = Cardinality(A) /\ CostIn(S \union {name}) = Cardinality(C)
    BY DEF CostIn
  <2>. HIDE DEF A, B, C
  <2>3. Cardinality(A) \in Nat /\ Cardinality(B) \in Nat
    BY <1>2, FS_CardinalityType
  <2>4. Cardinality(C) = Cardinality(A) + Cardinality(B) - Cardinality(A \intersect B)
    BY <1>1, <1>2, FS_Union
  <2>5. Cardinality(A \intersect B) = 0
    BY <1>1, FS_EmptySet
  <2>. QED
    BY <1>4, <2>1, <2>2, <2>3, <2>4, <2>5
<1>. QED
  BY <1>3, <1>4

CountsWell(below) ==
  \A name \in Reached, acc \in Accs : acc.seen \subseteq Reached =>
    CountsSeen(acc, below[name][acc])

(* The same inside a record: the terms so far and the names seen since.    *)
CountsPart(name, acc, i, result) ==
  /\ result \in Accs /\ acc.seen \subseteq result.seen /\ result.seen \subseteq Reached
  /\ result.n + CostIn(acc.seen)
       = acc.n + Cardinality(PartOf(name, i)) + CostIn(result.seen)

LEMMA CostOfSeen ==
  ASSUME published \in [Names -> Rows]
  PROVE  \A S \in SUBSET Reached : CostIn(S) \in Nat
<1>1. Reached \in SUBSET Names
  BY DEF Reached
<1>. QED
  BY <1>1, MorePlaces

LEMMA Sums ==
  ASSUME NEW x \in Nat, NEW y \in Nat, NEW z \in Nat, NEW w \in Nat,
         NEW p \in Nat, NEW q \in Nat, NEW r \in Nat,
         y + p = z + w + q, x + q = y + 1 + r
  PROVE  x + p = z + (w + 1) + r
OBVIOUS

LEMMA TermCounts ==
  ASSUME published \in [Names -> Rows], NEW name \in Reached, Publishes(name),
         NEW below \in [Names -> [Accs -> Accs]], CountsWell(below),
         NEW acc \in Accs, acc.seen \subseteq Reached,
         NEW i \in 1 .. Len(Record1(name)), NEW a, CountsPart(name, acc, i - 1, a)
  PROVE  CountsPart(name, acc, i, LookupsOf(Record1(name)[i], a, below))
<1>. DEFINE t == Record1(name)[i]
            one == [a EXCEPT !.n = @ + 1]
            w == Cardinality(PartOf(name, i - 1))
            v == Cardinality(PartOf(name, i))
<1>0. name \in Names
  BY DEF Reached
<1>1. /\ a \in Accs /\ acc.seen \subseteq a.seen /\ a.seen \subseteq Reached
      /\ a.n + CostIn(acc.seen) = acc.n + w + CostIn(a.seen)
  BY DEF CountsPart
<1>2. /\ one \in Accs /\ one.seen = a.seen /\ one.n = a.n + 1 /\ a.n \in Nat /\ acc.n \in Nat
  BY <1>1 DEF Accs
<1>3. /\ w \in Nat /\ v \in Nat /\ v = IF Costly(t) THEN w + 1 ELSE w
  <2>1. i - 1 \in 0 .. Len(Record1(name)) /\ i \in 0 .. Len(Record1(name))
    BY <1>0, Record1Type
  <2>. QED
    BY <1>0, <2>1, PartsGrow
<1>4. t \in Terms
  BY <1>0, Record1Type
<1>5. CostIn(acc.seen) \in Nat /\ CostIn(a.seen) \in Nat
  BY <1>1, CostOfSeen
<1>s. ASSUME NEW r, r \in Accs, r.n + CostIn(a.seen) = a.n + 1 + CostIn(r.seen),
             CostIn(r.seen) \in Nat, r.n \in Nat, v = w + 1
      PROVE  r.n + CostIn(acc.seen) = acc.n + v + CostIn(r.seen)
  <2>. DEFINE x == r.n
              y == a.n
              z == acc.n
              p == CostIn(acc.seen)
              q == CostIn(a.seen)
              s == CostIn(r.seen)
  <2>1. x \in Nat /\ y \in Nat /\ z \in Nat /\ p \in Nat /\ q \in Nat /\ s \in Nat /\ w \in Nat
    BY <1>2, <1>3, <1>5, <1>s
  <2>2. y + p = z + w + q /\ x + q = y + 1 + s /\ v = w + 1
    BY <1>1, <1>s
  <2>. HIDE DEF x, y, z, p, q, s, w, v
  <2>3. x + p = z + v + s
    BY <2>1, <2>2, Sums
  <2>. QED
    BY <2>3 DEF x, z, p, s
<1>6. CASE t.kind = "include" \/ (t.kind = "redirect" /\ ~t.semi)
  <2>. DEFINE out == below[t.to][one]
  <2>1. LookupsOf(t, a, below) = out /\ Costly(t) /\ Followed(t)
    BY <1>6 DEF LookupsOf, Costly, Followed
  <2>2. t.to \in Reached
    <3>1. i \in DOMAIN Record1(name)
      BY <1>0, Record1Type
    <3>. QED
      BY <2>1, <3>1, ReachedIsLeast DEF Closed, IndexOf
  <2>3. CountsSeen(one, out)
    BY <1>1, <1>2, <2>2 DEF CountsWell
  <2>. HIDE DEF out, one
  <2>4. /\ out \in Accs /\ a.seen \subseteq out.seen /\ out.seen \subseteq Reached
        /\ out.n + CostIn(a.seen) = a.n + 1 + CostIn(out.seen)
    BY <1>2, <2>3 DEF CountsSeen
  <2>5. CostIn(out.seen) \in Nat /\ out.n \in Nat
    BY <2>4, CostOfSeen DEF Accs
  <2>. HIDE DEF w, v, t
  <2>6. out.n + CostIn(acc.seen) = acc.n + v + CostIn(out.seen)
    BY <1>3, <1>s, <2>1, <2>4, <2>5
  <2>7. CountsPart(name, acc, i, out)
    BY <1>1, <2>4, <2>6 DEF CountsPart, v
  <2>. QED
    BY <2>1, <2>7 DEF t
<1>7. CASE t.kind = "mech" \/ (t.kind = "redirect" /\ t.semi)
  <2>1. LookupsOf(t, a, below) = one /\ Costly(t)
    BY <1>7 DEF LookupsOf, Costly
  <2>. HIDE DEF w, v, t, one
  <2>2. one.n + CostIn(acc.seen) = acc.n + v + CostIn(one.seen)
    <3>1. one.n + CostIn(a.seen) = a.n + 1 + CostIn(one.seen) /\ CostIn(one.seen) \in Nat
      BY <1>2, <1>5
    <3>. QED
      BY <1>2, <1>3, <1>s, <2>1, <3>1
  <2>3. CountsPart(name, acc, i, one)
    BY <1>1, <1>2, <2>2 DEF CountsPart, v
  <2>. QED
    BY <2>1, <2>3 DEF t
<1>8. CASE t.kind \in {"all", "adorned", "qualified"}
  <2>1. LookupsOf(t, a, below) = a /\ ~Costly(t)
    BY <1>8 DEF LookupsOf, Costly
  <2>. HIDE DEF w, v, t
  <2>2. CountsPart(name, acc, i, a)
    BY <1>1, <1>3, <2>1 DEF CountsPart, v
  <2>. QED
    BY <2>1, <2>2 DEF t
<1>9. t.kind \in {"mech", "adorned", "include", "qualified", "redirect", "all"}
      /\ (t.kind = "redirect" => t.semi \in BOOLEAN)
  BY <1>4 DEF Terms
<1>. QED
  BY <1>6, <1>7, <1>8, <1>9

LEMMA LevelCounts ==
  ASSUME published \in [Names -> Rows], NEW name \in Reached,
         NEW below \in [Names -> [Accs -> Accs]], CountsWell(below),
         NEW acc \in Accs, acc.seen \subseteq Reached
  PROVE  CountsSeen(acc, LevelCount(name, acc, below))
<1>0. name \in Names /\ Reached \in SUBSET Names
  BY DEF Reached
<1>. DEFINE base == Entered(acc, name)
<1>1. /\ base \in Accs /\ base.seen = acc.seen \union {name} /\ base.n = acc.n /\ acc.n \in Nat
      /\ base.seen \subseteq Reached
  BY <1>0 DEF Entered, Accs
<1>2. CostIn(acc.seen) \in Nat /\ CostIn(base.seen) \in Nat
  BY <1>1, CostOfSeen
<1>. HIDE DEF base
<1>3. CASE name \in acc.seen
  BY <1>2, <1>3 DEF LevelCount, CountsSeen
<1>4. CASE name \notin acc.seen /\ ~Publishes(name)
  <2>1. CostIn(base.seen) = CostIn(acc.seen)
    BY <1>0, <1>1, <1>4, OneMoreName
  <2>2. LevelCount(name, acc, below) = base
    BY <1>4 DEF LevelCount, base
  <2>. QED
    BY <1>1, <1>2, <2>1, <2>2 DEF CountsSeen
<1>5. CASE name \notin acc.seen /\ Publishes(name)
  <2>. DEFINE rec == Record1(name)
              along == LookupsAlong(rec, base, below)
  <2>1. Len(rec) \in Nat /\ rec \in Seq(Terms)
    BY <1>0, <1>5, Record1Type
  <2>2. /\ along[0] = base
        /\ \A i \in 1 .. Len(rec) : along[i] = LookupsOf(rec[i], along[i - 1], below)
    BY <1>1, <2>1, LookupsAlongIs
  <2>3. CostIn(base.seen) = CostIn(acc.seen) + Cardinality(PartOf(name, Len(rec)))
    BY <1>0, <1>1, <1>5, OneMoreName
  <2>4. LevelCount(name, acc, below) = along[Len(rec)]
    BY <1>5 DEF LevelCount, base
  <2>. DEFINE P == {i \in Nat : i <= Len(rec) => CountsPart(name, base, i, along[i])}
  <2>. HIDE DEF along
  <2>5. 0 \in P
    <3>1. Cardinality(PartOf(name, 0)) = 0
      BY <1>0, <1>5, PartsGrow, FS_EmptySet
    <3>2. CountsPart(name, base, 0, base)
      BY <1>1, <1>2, <3>1 DEF CountsPart
    <3>. QED
      BY <2>2, <3>2
  <2>6. ASSUME NEW i \in Nat, i \in P
        PROVE  i + 1 \in P
    <3>. SUFFICES ASSUME i + 1 <= Len(rec)
                  PROVE  CountsPart(name, base, i + 1, along[i + 1])
      OBVIOUS
    <3>1. i + 1 \in 1 .. Len(rec) /\ (i + 1) - 1 = i /\ i <= Len(rec)
      BY <2>1
    <3>2. CountsPart(name, base, i, along[i])
      BY <2>6, <3>1
    <3>3. CountsPart(name, base, i + 1, LookupsOf(rec[i + 1], along[i], below))
      BY <1>1, <1>5, <3>1, <3>2, TermCounts
    <3>4. along[i + 1] = LookupsOf(rec[i + 1], along[i], below)
      BY <2>2, <3>1
    <3>. QED
      BY <3>3, <3>4
  <2>. HIDE DEF P
  <2>7. Nat \subseteq P
    BY <2>5, <2>6, Induction
  <2>8. CountsPart(name, base, Len(rec), along[Len(rec)])
    BY <2>1, <2>7 DEF P
  <2>. DEFINE out == along[Len(rec)]
              w == Cardinality(PartOf(name, Len(rec)))
  <2>. HIDE DEF out
  <2>9. /\ out \in Accs /\ base.seen \subseteq out.seen /\ out.seen \subseteq Reached
        /\ out.n + CostIn(base.seen) = base.n + w + CostIn(out.seen)
    BY <2>8 DEF CountsPart, out
  <2>10. w \in Nat /\ CostIn(out.seen) \in Nat /\ out.n \in Nat
    <3>1. Len(rec) \in 0 .. Len(rec)
      BY <2>1
    <3>2. w \in Nat
      BY <1>0, <1>5, <3>1, PartsGrow
    <3>. QED
      BY <2>9, <3>2, CostOfSeen DEF Accs
  <2>. HIDE DEF w
  <2>11. out.n + CostIn(acc.seen) = acc.n + CostIn(out.seen)
    BY <1>1, <1>2, <2>3, <2>9, <2>10 DEF w
  <2>12. CountsSeen(acc, out)
    BY <1>1, <2>9, <2>11 DEF CountsSeen
  <2>. QED
    BY <2>4, <2>12 DEF out
<1>. QED
  BY <1>3, <1>4, <1>5

LEMMA VerifierCounts ==
  ASSUME published \in [Names -> Rows]
  PROVE  /\ Lookups \in Nat /\ CostIn(Reached) \in Nat /\ Lookups <= CostIn(Reached)
<1>. DEFINE S == {c \in [Names -> [Accs -> Accs]] : CountsWell(c)}
<1>1. count_lookups[0] \in S
  <2>1. \A name \in Reached, acc \in Accs : count_lookups[0][name][acc] = acc
    BY CountIs DEF Reached
  <2>2. \A acc \in Accs : acc.seen \subseteq Reached => CountsSeen(acc, acc)
    BY CostOfSeen DEF CountsSeen
  <2>3. count_lookups[0] \in [Names -> [Accs -> Accs]]
    BY CountIs
  <2>. QED
    BY <2>1, <2>2, <2>3 DEF CountsWell
<1>2. ASSUME NEW i \in Nat, count_lookups[i] \in S
      PROVE  count_lookups[i + 1] \in S
  <2>1. count_lookups[i] \in [Names -> [Accs -> Accs]] /\ CountsWell(count_lookups[i])
    BY <1>2
  <2>2. \A name \in Reached, acc \in Accs :
          count_lookups[i + 1][name][acc] = LevelCount(name, acc, count_lookups[i])
    BY CountIs DEF Reached
  <2>3. \A name \in Reached, acc \in Accs : acc.seen \subseteq Reached =>
          CountsSeen(acc, LevelCount(name, acc, count_lookups[i]))
    BY <2>1, LevelCounts
  <2>4. count_lookups[i + 1] \in [Names -> [Accs -> Accs]]
    BY CountIs
  <2>. QED
    BY <2>2, <2>3, <2>4 DEF CountsWell
<1>. HIDE DEF S
<1>3. \A i \in Nat : count_lookups[i] \in S
  BY <1>1, <1>2, Stays
<1>4. CountsWell(count_lookups[MaxDepth + 1])
  <2>1. MaxDepth + 1 \in Nat
    BY SpfAssumption
  <2>. QED
    BY <1>3, <2>1 DEF S
<1>5. Apex \in Reached /\ Reached \in SUBSET Names
  BY ReachedIsLeast
<1>. DEFINE empty == [seen |-> {}, n |-> 0]
<1>6. empty \in Accs /\ empty.seen = {} /\ empty.n = 0
  BY DEF Accs
<1>7. CountsSeen(empty, Final)
  BY <1>4, <1>5, <1>6 DEF CountsWell, Final
<1>8. CostIn({}) = 0
  <2>1. PlacesIn({}) = {}
    BY InPlaces
  <2>. QED
    BY <2>1, FS_EmptySet DEF CostIn
<1>. HIDE DEF empty
<1>9. Final \in Accs /\ Final.seen \subseteq Reached /\ Final.n + 0 = 0 + CostIn(Final.seen)
  BY <1>6, <1>7, <1>8 DEF CountsSeen
<1>10. /\ CostIn(Final.seen) \in Nat /\ CostIn(Reached) \in Nat
       /\ CostIn(Final.seen) <= CostIn(Reached)
  BY <1>5, <1>9, MorePlaces
<1>11. Lookups = Final.n /\ Final.n \in Nat
  BY <1>9 DEF Lookups, Final, Accs
<1>. QED
  BY <1>9, <1>10, <1>11

-----------------------------------------------------------------------------
VerifiedInv == WholeInv /\ ReachInv /\ ResumesInv

LEMMA VerifiedInvariant == Spec => []VerifiedInv
<1>1. Init => ResumesInv
  BY DEF Init, ResumesInv
<1>2. WholeInv => PathInv /\ WalkInv
  BY DEF WholeInv
<1>3. Spec => []ResumesInv
  <2>1. WholeInv /\ WholeInv' /\ ResumesInv /\ [Next]_vars => ResumesInv'
    BY <1>2, ResumesStep DEF WholeInv
  <2>. QED
    BY <1>1, <2>1, WholeInvariant, PTL DEF Spec
<1>. QED
  BY <1>3, ReachInvariant, PTL DEF VerifiedInv

(* verify.py derives the terminator and the lookups a second time: without *)
(* a loss it has the terminator of check_spf where no all is in capitals,  *)
(* its count where no redirect ends in a semicolon, and never an excess    *)
(* that check_spf misses.                                                  *)
THEOREM VerifierCountsTheSame == Spec => []VerifierAgrees
<1>1. VerifiedInv => VerifierAgrees
  <2>. SUFFICES ASSUME WholeInv, ReachInv, ResumesInv, Done, Charged = {}
                PROVE  /\ InLowerCase("all") => terminator = eff_term
                       /\ NoSemicolon => Lookups = n
                       /\ Lookups <= n \/ n > MaxLookups
    BY DEF VerifierAgrees, VerifiedInv
  <2>1. InLowerCase("all") => terminator = eff_term
    BY AtTheEnd, SameTerminator, SameEnd DEF WholeInv, PathInv, TypeOK
  <2>2. NoSemicolon => Lookups = n
    <3>. SUFFICES ASSUME NoSemicolon
                  PROVE  Lookups = n
      OBVIOUS
    <3>1. stack = <<>> /\ seen # {}
      BY AtTheEnd
    <3>2. PICK e : Resumes(e)
      BY <3>1 DEF ResumesInv
    <3>3. Now = Final
      <4>1. Len(stack) = 0
        BY <3>1
      <4>. QED
        BY <3>2, <4>1 DEF Resumes, Value
    <3>. QED
      BY <3>3 DEF Now, Final, Lookups
  <2>3. Lookups <= n \/ n > MaxLookups
    <3>1. /\ n \in Nat /\ n <= CostIn(Reached) /\ (n <= MaxDepth => n = CostIn(Reached))
          /\ MaxLookups \in Nat /\ MaxDepth \in Nat /\ MaxLookups <= MaxDepth
      BY CountsAreTrue, SpfAssumption, CapAssumption
    <3>2. Lookups \in Nat /\ CostIn(Reached) \in Nat /\ Lookups <= CostIn(Reached)
      BY VerifierCounts DEF WholeInv, PathInv, TypeOK
    <3>. QED
      BY <3>1, <3>2
  <2>. QED
    BY <2>1, <2>2, <2>3
<1>. QED
  BY <1>1, VerifiedInvariant, PTL
==============================================================================
