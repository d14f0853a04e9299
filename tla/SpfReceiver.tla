----------------------------- MODULE SpfReceiver -----------------------------
(***************************************************************************)
(* What check_spf is compared with: a receiver that evaluates the          *)
(* published records (RFC 7208), and verify.py, which derives terminator   *)
(* and count a second time from its own resolvers.  What recurs through    *)
(* the graph is a function of the redirects followed, or of the depth left.*)
(***************************************************************************)
EXTENDS SpfCheck

(* 12 and 10: a branch that the depth cap cuts is over the limit already.  *)
ASSUME CapAssumption == MaxLookups <= MaxDepth

IsAll(t) == t.kind = "all"
HasAll(rec) == IndexOf(rec, IsAll) # {}
Record1(name) == published[name][1]
Publishes(name) == published[name] # <<>>

(* RFC 7208 4.6.4 and 6.1, for mail that nothing before the all matches:   *)
(* every mechanism that queries costs a lookup, adorned or not, every      *)
(* include and redirect its target's lookups too, however often; redirect= *)
(* counts without an all.  Fuel stands for the limit: each level has cost  *)
(* one lookup already.                                                     *)
Costs(rec, t) ==
  \/ t.kind \in {"mech", "adorned", "include", "qualified"}
  \/ t.kind = "redirect" /\ ~HasAll(rec)

Price(rec, t, below) ==
  IF ~Costs(rec, t) THEN 0 ELSE 1 + (IF t.kind \in Targeted THEN below[t.to] ELSE 0)

CostAlong(rec, below) ==
  LET cost[i \in 0 .. Len(rec)] ==
        IF i = 0 THEN 0 ELSE cost[i - 1] + Price(rec, rec[i], below)
  IN  cost

Cost ==
  LET cost[fuel \in Nat] ==
        [name \in Names |->
           IF fuel = 0 \/ ~Publishes(name) THEN 0
           ELSE CostAlong(Record1(name), cost[fuel - 1])[Len(Record1(name))]]
  IN  cost

ReceiverCost == Cost[MaxLookups + 2][Apex]

(* The name after so many redirects; one without redirect= stays.          *)
Target(name) ==
  IF Publishes(name) /\ Redirects(Record1(name)) # {}
  THEN Record1(name)[FirstOf(Redirects(Record1(name)))].to ELSE name

Chain ==
  LET chain[k \in Nat] == IF k = 0 THEN Apex ELSE Target(chain[k - 1]) IN  chain

(* A receiver follows redirect= in any case (RFC 7208 4.6.1).              *)
AnyRedirect(t) == t.kind = "redirect"
Modifiers(rec) == IndexOf(rec, AnyRedirect)

ReceiverTarget(name) ==
  IF Publishes(name) /\ Modifiers(Record1(name)) # {}
  THEN Record1(name)[FirstOf(Modifiers(Record1(name)))].to ELSE name

ReceiverChain ==
  LET chain[k \in Nat] == IF k = 0 THEN Apex ELSE ReceiverTarget(chain[k - 1]) IN  chain

(* The all in force is the first one on the receiver's chain.              *)
Governing ==
  LET having == {k \in 0 .. Cardinality(Names) :
                   Publishes(ReceiverChain[k]) /\ HasAll(Record1(ReceiverChain[k]))}
      rec == Record1(ReceiverChain[FirstOf(having)])
  IN  IF having = {} THEN None ELSE rec[FirstOf(IndexOf(rec, IsAll))].q
-----------------------------------------------------------------------------
(* A terminator with nothing lost, by the qualifier that is found in a     *)
(* record: the scanner's, and eff_term of verify.py, which reads what its  *)
(* resolver returns and knows "all" in lower case only.                    *)
Repeats(k) == \E j \in 0 .. k - 1 : Chain[j] = Chain[k]
Blank(k) == k > MaxHops \/ Repeats(k) \/ ~Publishes(Chain[k])

EndsWith(qualifier(_)) ==
  LET ends_at == {k \in 0 .. MaxHops + 1 :
                    \/ Blank(k)
                    \/ qualifier(Record1(Chain[k])) # None
                    \/ Redirects(Record1(Chain[k])) = {}}
      k == FirstOf(ends_at)
  IN  IF Blank(k) THEN None ELSE qualifier(Record1(Chain[k]))

LooksLikeLowAll(t) == LooksLikeAll(t) /\ (t.kind = "all" => ~t.loud)

spf_terminator(rec) ==
  LET hits == IndexOf(rec, LooksLikeLowAll)
  IN  IF hits = {} THEN None
      ELSE LET t == rec[FirstOf(hits)] IN IF t.kind = "all" THEN t.q ELSE "+"

Scanned == EndsWith(spf_qualifier)
eff_term == EndsWith(spf_terminator)

(* count_lookups, with one seen set: it leaves the ";" on a redirect       *)
(* target, which then is a name that publishes nothing.                    *)
Accs == [seen : SUBSET Names, n : Nat]

LookupsOf(t, acc, below) ==
  LET one == [acc EXCEPT !.n = @ + 1]
  IN  CASE t.kind = "include" \/ (t.kind = "redirect" /\ ~t.semi) -> below[t.to][one]
        [] t.kind = "mech" \/ (t.kind = "redirect" /\ t.semi) -> one
        [] OTHER -> acc

LookupsAlong(rec, acc, below) ==
  LET along[i \in 0 .. Len(rec)] ==
        IF i = 0 THEN acc ELSE LookupsOf(rec[i], along[i - 1], below)
  IN  along

count_lookups ==
  LET count_to[left \in Nat] ==
        [name \in Names |-> [acc \in Accs |->
           IF left = 0 \/ name \in acc.seen THEN acc
           ELSE LET entered == [acc EXCEPT !.seen = @ \union {name}]
                    rec == Record1(name)
                IN  IF ~Publishes(name) THEN entered
                    ELSE LookupsAlong(rec, entered, count_to[left - 1])[Len(rec)]]]
  IN  count_to

Lookups == count_lookups[MaxDepth + 1][Apex][[seen |-> {}, n |-> 0]].n
-----------------------------------------------------------------------------
(* The places of the terms of some names, and the term at a place.         *)
PlacesIn(names) ==
  UNION {{name} \X DOMAIN Record1(name) : name \in {m \in names : Publishes(m)}}
TermAt(e) == Record1(e[1])[e[2]]

Edges == {e \in PlacesIn(Names) : TermAt(e).kind \in Targeted}
TargetOf(e) == TermAt(e).to

(* Each record is named at most once.                                      *)
Tree ==
  \A e \in Edges :
    /\ TargetOf(e) # Apex
    /\ \A f \in Edges : TargetOf(e) = TargetOf(f) => e = f

(* Every mechanism is spelled as the code counts it.                       *)
Unadorned == \A e \in PlacesIn(Names) : TermAt(e).kind \notin {"adorned", "qualified"}

(* A redirect= beside an all, and what stands after an all, are dead text  *)
(* (RFC 7208 5.1 and 6.1).                                                 *)
NoDeadText ==
  \A name \in Names : Publishes(name) /\ HasAll(Record1(name)) =>
    LET rec == Record1(name)
    IN  /\ Modifiers(rec) = {}
        /\ \A i \in DOMAIN rec : i > FirstOf(IndexOf(rec, IsAll)) => IsAll(rec[i])

(* No term of a kind is in capitals.                                       *)
InLowerCase(kind) ==
  \A e \in PlacesIn(Names) : TermAt(e).kind = kind => ~TermAt(e).loud

Done == phase = "done" /\ "spf.present" \in F

(* A reported excess is one: sharing and failing lookups only hide cost,   *)
(* so no receiver is said to reject a record it accepts.                   *)
LimitIsReal ==
  Done /\ NoDeadText /\ "spf.lookup_limit" \in F => ReceiverCost > MaxLookups

(* Where no record is shared, no mechanism adorned and no lookup lost, the *)
(* limit is the receiver's.  The depth cap does not hide an excess.        *)
LimitFoundOnTrees ==
  Done /\ NoDeadText /\ Tree /\ Unadorned /\ Charged = {} =>
    ("spf.lookup_limit" \in F <=> ReceiverCost > MaxLookups)

(* The names below the audited one, however deep: those of every set that  *)
(* has it and the targets of its members.                                  *)
Followed(t) == t.kind \in {"include", "redirect"}
Closed(S) ==
  \A name \in S : Publishes(name) =>
    \A i \in IndexOf(Record1(name), Followed) : Record1(name)[i].to \in S
Reached == {name \in Names : \A S \in SUBSET Names : Apex \in S /\ Closed(S) => name \in S}

(* Their terms that cost a lookup, and those that dangle.                  *)
Costly(t) == t.kind \notin {"all", "adorned", "qualified"}
Dangles(t) == Followed(t) /\ ~Publishes(t.to) /\ alive[t.to] = "nothing"

CostIn(names) == Cardinality({e \in PlacesIn(names) : Costly(TermAt(e))})
DanglingIn(names) == Cardinality({e \in PlacesIn(names) : Dangles(TermAt(e))})

(* What check_spf reports if no lookup is lost: each term of each record   *)
(* below counts once.                                                      *)
Truth ==
  IF ~Publishes(Apex) THEN {"spf.missing"}
  ELSE Verdicts(Record1(Apex), Scanned, CostIn(Reached), DanglingIn(Reached))
       \union (IF Len(published[Apex]) > 1 THEN {"spf.multiple_records"} ELSE {})

(* The evidence ledger: spf.present depends on the apex record alone, any  *)
(* other spf rule on every lookup of the check.                            *)
Conclusive(rule) ==
  IF rule = "spf.present" THEN <<Apex, "TXT">> \notin Charged ELSE Charged = {}

(* README.md: an entry is conclusive or names the failure.  A conclusive   *)
(* rule is reported exactly when the published records make it true,       *)
(* whatever was lost deeper in the include graph.  Dangling targets below  *)
(* the depth cap are missed, where the lookups are over their limit.       *)
ConclusiveIsTrue ==
  phase = "done" =>
    /\ \A rule \in F : Conclusive(rule) => rule \in Truth
    /\ \A rule \in Truth : Conclusive(rule) =>
         rule \in F \/ (rule = "spf.void_limit" /\ "spf.lookup_limit" \in F)

(* verify.py and the scanner, when both see the same answers, agree on the *)
(* terminator where no all is in capitals, and on the count where no       *)
(* redirect ends in a semicolon.  With one, the verifier does not find an  *)
(* excess that the scanner does not.                                       *)
NoSemicolon == \A e \in Edges : TermAt(e).kind = "redirect" => ~TermAt(e).semi

VerifierAgrees ==
  Done /\ Charged = {} =>
    /\ InLowerCase("all") => terminator = eff_term
    /\ NoSemicolon => Lookups = n
    /\ Lookups <= n \/ n > MaxLookups

(* For records without a host name that ends in "all" and without a        *)
(* redirect= in capitals, on chains the hop limit does not cut, the        *)
(* qualifier is the one a receiver finds in force.                         *)
TerminatorIsGoverning ==
  Done /\ Charged = {} /\ (\A e \in Edges : TargetOf(e) \notin AllLike) /\
  InLowerCase("redirect") /\ hops <= MaxHops => terminator = Governing

(* The verdict is the receiver's, as far as the one walk with its caps and *)
(* patterns can tell: a reported excess is one, none is missed on a tree   *)
(* of unadorned mechanisms, and the terminator is the one in force.        *)
ReceiverAgrees ==
  /\ LimitIsReal
  /\ LimitFoundOnTrees
  /\ TerminatorIsGoverning

(* audit.py: "The qualifier on the `all` mechanism [...] or None if        *)
(* there's no `all` mechanism at all".                                     *)
QualifierOfAll ==
  Done /\ Charged = {} /\ InLowerCase("redirect") => terminator = Governing
=============================================================================
