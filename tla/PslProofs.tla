------------------------------ MODULE PslProofs ------------------------------
(***************************************************************************)
(* Theorems of PublicSuffix and PslPipeline, for any names, rules and      *)
(* published versions, any number of days and edits.                       *)
(***************************************************************************)
EXTENDS PslPipeline, SequenceTheorems, WellFoundedInduction, TLAPS

(* What is greatest is the maximum.                                        *)
LEMMA MaxIs ==
  ASSUME NEW S, NEW m \in S, \A y \in S : y \in Int /\ m >= y
  PROVE  Max(S) = m
<1>. DEFINE Top(x) == x \in S /\ \A y \in S : x >= y
<1>1. Max(S) = CHOOSE x : Top(x)
  BY DEF Max
<1>2. Top(m)
  OBVIOUS
<1>3. Top(CHOOSE x : Top(x))
  BY <1>2, Zenon
<1>4. Top(Max(S))
  BY <1>1, <1>3, Zenon
<1>5. Max(S) \in Int /\ Max(S) >= m /\ m >= Max(S)
  BY <1>4
<1>. QED
  BY <1>5

LEMMA Below == OpToRel(<, Nat) = {ss \in Nat \X Nat : ss[1] < ss[2]}
BY Zenon DEF OpToRel

(* A nonempty set of numbers has a least one.                              *)
LEMMA LeastIn ==
  ASSUME NEW S \in SUBSET Nat, S # {}
  PROVE  \E m \in S : \A y \in S : m <= y
<1>1. \E m \in S : \A y \in S : <<y, m>> \notin OpToRel(<, Nat)
  BY NatLessThanWellFounded, WFMin
<1>2. PICK m \in S : \A y \in S : <<y, m>> \notin {ss \in Nat \X Nat : ss[1] < ss[2]}
  BY <1>1, Below, Zenon
<1>3. \A y \in S : ~(<<y, m>>[1] < <<y, m>>[2])
  BY <1>2, Zenon
<1>. QED
  BY <1>3

(* A nonempty set of bounded numbers has a maximum.                        *)
LEMMA MaxIn ==
  ASSUME NEW N \in Nat, NEW S, S # {}, \A x \in S : x \in 0 .. N
  PROVE  Max(S) \in S /\ \A y \in S : Max(S) >= y
<1>. DEFINE T == {N - x : x \in S}
<1>1. \A x \in S : x \in Int /\ N - x \in Nat
  OBVIOUS
<1>5. T \in SUBSET Nat /\ T # {}
  BY <1>1
<1>2. PICK t \in T : \A y \in T : t <= y
  BY <1>5, LeastIn
<1>3. PICK m \in S : t = N - m
  BY <1>2
<1>4. ASSUME NEW y \in S PROVE m >= y
  <2>1. N - m <= N - y
    BY <1>2, <1>3
  <2>. QED
    BY <2>1, <1>1
<1>. QED
  BY <1>1, <1>4, MaxIs
-----------------------------------------------------------------------------
(* A rule's labels are those a name ends with when they match one by one   *)
(* from the right.                                                         *)
LEMMA TailingType ==
  ASSUME NEW name \in Seq(Labels), NEW l \in 1 .. Len(name)
  PROVE  /\ Tailing(name, l) \in Seq(Labels) /\ Len(Tailing(name, l)) = l
         /\ \A i \in 1 .. l : Tailing(name, l)[i] = name[Len(name) - l + i]
<1>. DEFINE m == Len(name) - l + 1
            n == Len(name)
<1>1. n \in Nat /\ m \in Int /\ m >= 1 /\ n - m + 1 = l /\ m <= n
  OBVIOUS
<1>2. \A i \in m .. n : name[i] \in Labels
  BY <1>1
<1>3. \A i \in 1 .. l : m + i - 1 = n - l + i
  BY <1>1
<1>4. Tailing(name, l) = SubSeq(name, m, n)
  BY DEF Tailing
<1>. HIDE DEF m, n
<1>5. /\ SubSeq(name, m, n) \in Seq(Labels)
      /\ Len(SubSeq(name, m, n)) = IF m <= n THEN n - m + 1 ELSE 0
      /\ \A i \in 1 .. n - m + 1 : SubSeq(name, m, n)[i] = name[m + i - 1]
  BY <1>1, <1>2, SubSeqProperties
<1>. QED
  BY <1>1, <1>3, <1>4, <1>5 DEF n

LEMMA TailingMatches ==
  ASSUME NEW name \in Seq(Labels), NEW w \in Seq(Labels), w # <<>>, Len(w) <= Len(name)
  PROVE  (\A i \in 1 .. Len(w) : w[Len(w) + 1 - i] = name[Len(name) + 1 - i])
           <=> Tailing(name, Len(w)) = w
<1>. DEFINE k == Len(w)
            n == Len(name)
            t == Tailing(name, k)
<1>1. k \in 1 .. n /\ n \in Nat
  OBVIOUS
<1>2. /\ t \in Seq(Labels) /\ Len(t) = k
      /\ \A i \in 1 .. k : t[i] = name[n - k + i]
  BY <1>1, TailingType
<1>3. t = w <=> \A i \in 1 .. k : t[i] = w[i]
  BY <1>2, SeqEqual
<1>4. ASSUME NEW i \in 1 .. k
      PROVE  k + 1 - i \in 1 .. k /\ n - k + (k + 1 - i) = n + 1 - i /\ k + 1 - (k + 1 - i) = i
  BY <1>1
<1>. HIDE DEF k, n, t
<1>5. ASSUME \A i \in 1 .. k : t[i] = w[i], NEW i \in 1 .. k
      PROVE  w[k + 1 - i] = name[n + 1 - i]
  BY <1>1, <1>2, <1>4, <1>5
<1>6. ASSUME \A i \in 1 .. k : w[k + 1 - i] = name[n + 1 - i], NEW i \in 1 .. k
      PROVE  t[i] = w[i]
  <2>1. w[k + 1 - (k + 1 - i)] = name[n + 1 - (k + 1 - i)]
    BY <1>4, <1>6
  <2>2. n + 1 - (k + 1 - i) = n - k + i
    BY <1>1
  <2>. QED
    BY <1>2, <1>4, <2>1, <2>2
<1>. QED
  BY <1>3, <1>5, <1>6 DEF k, n, t

(* A rule that is no wildcard matches the name that ends with its labels,  *)
(* a wildcard one that has a label more.                                   *)
LEMMA MatchesIsTailing ==
  ASSUME NEW name \in Seq(Labels), NEW rule \in Rules
  PROVE  /\ rule.labels \in Seq(Labels) /\ Len(rule.labels) \in Nat \ {0}
         /\ rule.kind # "wildcard" =>
              (Matches(rule, name) <=> /\ Len(rule.labels) \in 1 .. Len(name)
                                       /\ Tailing(name, Len(rule.labels)) = rule.labels)
         /\ rule.kind = "wildcard" =>
              (Matches(rule, name) <=> /\ Len(rule.labels) + 1 \in 2 .. Len(name)
                                       /\ Tailing(name, Len(rule.labels)) = rule.labels)
<1>1. rule.labels \in Seq(Labels) /\ rule.labels # <<>>
  BY DEF Rules
<1>2. Len(rule.labels) \in Nat \ {0} /\ Len(name) \in Nat
  BY <1>1, EmptySeq
<1>. DEFINE Aligned == \A i \in 1 .. Len(rule.labels) :
                         rule.labels[Len(rule.labels) + 1 - i] = name[Len(name) + 1 - i]
<1>3. Len(rule.labels) <= Len(name) => (Aligned <=> Tailing(name, Len(rule.labels)) = rule.labels)
  BY <1>1, TailingMatches
<1>4. /\ rule.kind # "wildcard" => (Matches(rule, name) <=> Len(rule.labels) <= Len(name) /\ Aligned)
      /\ rule.kind = "wildcard" => (Matches(rule, name) <=> Len(rule.labels) + 1 <= Len(name) /\ Aligned)
  <2>. DEFINE wild == IF rule.kind = "wildcard" THEN 1 ELSE 0
  <2>1. Matches(rule, name) <=> Len(rule.labels) + wild <= Len(name) /\ Aligned
    BY Zenon DEF Matches
  <2>2. Len(rule.labels) + 0 = Len(rule.labels)
    BY <1>2
  <2>3. (rule.kind = "wildcard" => wild = 1) /\ (rule.kind # "wildcard" => wild = 0)
    OBVIOUS
  <2>. HIDE DEF wild, Aligned
  <2>. QED
    BY <2>1, <2>2, <2>3
<1>. DEFINE k == Len(rule.labels)
            n == Len(name)
            ends == Tailing(name, k) = rule.labels
<1>5. k <= n <=> k \in 1 .. n
  BY <1>2
<1>6. k + 1 <= n <=> k + 1 \in 2 .. n
  BY <1>2
<1>7. k + 1 <= n => k <= n
  BY <1>2
<1>8. Aligned /\ k <= n <=> ends /\ k <= n
  BY <1>3
<1>9. (k <= n /\ Aligned <=> k \in 1 .. n /\ ends) /\ (k + 1 <= n /\ Aligned <=> k + 1 \in 2 .. n /\ ends)
  <2>. HIDE DEF Aligned, ends, k, n
  <2>. QED
    BY <1>5, <1>6, <1>7, <1>8, Zenon
<1>. QED
  BY <1>1, <1>2, <1>4, <1>9, Zenon

(* The lengths a lookup finds in its three sets are those of the rules     *)
(* that match.                                                             *)
LEMMA LengthsOfMatching ==
  ASSUME NEW rules \in SUBSET Rules, NEW name \in Seq(Labels)
  PROVE  LET psl == load(rules)
             matching == {r \in rules : Matches(r, name)}
         IN  /\ {l \in 1 .. Len(name) : Tailing(name, l) \in psl.exceptions}
                   = {Len(r.labels) : r \in {q \in matching : q.kind = "exception"}}
             /\ {l \in 1 .. Len(name) : Tailing(name, l) \in psl.exact}
                   = {Len(r.labels) : r \in {q \in matching : q.kind = "exact"}}
             /\ {l \in 2 .. Len(name) : Tailing(name, l - 1) \in psl.wildcards}
                   = {Len(r.labels) + 1 : r \in {q \in matching : q.kind = "wildcard"}}
<1>. DEFINE psl == load(rules)
            n == Len(name)
            Ending(l) == Tailing(name, l)
            Mat(r) == Matches(r, name)
            Size(r) == Len(r.labels)
<1>1. n \in Nat
  OBVIOUS
<1>2. /\ psl.exact = {r.labels : r \in {q \in rules : q.kind = "exact"}}
      /\ psl.wildcards = {r.labels : r \in {q \in rules : q.kind = "wildcard"}}
      /\ psl.exceptions = {r.labels : r \in {q \in rules : q.kind = "exception"}}
  BY DEF load
<1>3. \A l \in 1 .. n : Len(Ending(l)) = l
  BY TailingType
<1>4. \A r \in rules :
        /\ Size(r) \in Nat \ {0}
        /\ r.kind # "wildcard" => (Mat(r) <=> Size(r) \in 1 .. n /\ Ending(Size(r)) = r.labels)
        /\ r.kind = "wildcard" => (Mat(r) <=> Size(r) + 1 \in 2 .. n /\ Ending(Size(r)) = r.labels)
  BY MatchesIsTailing
<1>5. \A r \in rules : \A l \in 1 .. n : Ending(l) = r.labels => Size(r) = l
  BY <1>3
<1>. HIDE DEF psl, n, Ending, Mat
<1>6. {l \in 1 .. n : Ending(l) \in psl.exceptions}
        = {Size(r) : r \in {q \in {r \in rules : Mat(r)} : q.kind = "exception"}}
  BY <1>1, <1>2, <1>4, <1>5
<1>7. {l \in 1 .. n : Ending(l) \in psl.exact}
        = {Size(r) : r \in {q \in {r \in rules : Mat(r)} : q.kind = "exact"}}
  BY <1>1, <1>2, <1>4, <1>5
<1>8. {l \in 2 .. n : Ending(l - 1) \in psl.wildcards}
        = {Size(r) + 1 : r \in {q \in {r \in rules : Mat(r)} : q.kind = "wildcard"}}
  BY <1>1, <1>2, <1>4, <1>5
<1>. QED
  BY <1>6, <1>7, <1>8 DEF psl, n, Ending, Mat

(* The lookup of audit.py, which keeps three sets and looks at a name from *)
(* its every label on, finds for any rules that are not malformed and any  *)
(* name the registrable domain that publicsuffix.org defines.              *)
THEOREM LookupIsPsl ==
  ASSUME NEW rules \in SUBSET Rules, \A r \in rules : ~wildcard_shape_error(r),
         NEW name \in Seq(Labels)
  PROVE  org_base(load(rules), name) = Registrable(rules, name)
<1>. DEFINE psl == load(rules)
            n == Len(name)
            matching == {r \in rules : Matches(r, name)}
            exceptions == {r \in matching : r.kind = "exception"}
            E == {l \in 1 .. n : Tailing(name, l) \in psl.exceptions}
            X == {l \in 1 .. n : Tailing(name, l) \in psl.exact}
            W == {l \in 2 .. n : Tailing(name, l - 1) \in psl.wildcards}
            prevailing == IF exceptions # {} THEN exceptions ELSE matching
            suffix == IF prevailing = {} THEN 1 ELSE Max({LengthOf(r) : r \in prevailing})
            Y == X \union W
<1>1. E = {Len(r.labels) : r \in exceptions}
  BY LengthsOfMatching
<1>0. /\ X = {Len(r.labels) : r \in {q \in matching : q.kind = "exact"}}
      /\ W = {Len(r.labels) + 1 : r \in {q \in matching : q.kind = "wildcard"}}
  BY LengthsOfMatching
<1>2. n \in Nat /\ \A r \in rules : Len(r.labels) \in Nat \ {0}
  BY MatchesIsTailing
<1>3. \A r \in matching : r.kind \in {"exact", "wildcard", "exception"}
  BY DEF Rules, wildcard_shape_error
<1>4. /\ \A l \in E : l \in Int /\ l >= 1 /\ l <= n
      /\ \A l \in Y : l \in Int /\ l >= 1 /\ l <= n
  BY <1>2
<1>5. exception_length(psl, name) = Max({0} \union E)
  BY DEF exception_length
<1>6. match_length(psl, name) = Max({1} \union Y)
  BY DEF match_length, Y
<1>7. /\ \A r \in exceptions : LengthOf(r) = Len(r.labels) - 1
      /\ \A r \in matching : \/ r.kind = "exact" /\ LengthOf(r) = Len(r.labels)
                             \/ r.kind = "wildcard" /\ LengthOf(r) = Len(r.labels) + 1
                             \/ r \in exceptions
  BY <1>3 DEF LengthOf
<1>. DEFINE S == {LengthOf(r) : r \in prevailing}
<1>. HIDE DEF psl, n, E, X, W, Y, matching, exceptions
<1>8. ASSUME exceptions # {} PROVE suffix_length(psl, name) = suffix
  <2>0. \A l \in E : l \in 0 .. n
    BY <1>2, <1>4
  <2>1. E # {}
    BY <1>1, <1>8
  <2>2. Max(E) \in E /\ \A y \in E : Max(E) >= y
    BY <1>2, <2>0, <2>1, MaxIn
  <2>3. Max(E) \in Int /\ Max(E) > 0
    BY <1>2, <1>4, <2>2
  <2>4. Max({0} \union E) = Max(E)
    <3>1. \A y \in {0} \union E : y \in Int /\ Max(E) >= y
      BY <1>2, <1>4, <2>2, <2>3
    <3>. QED
      BY <2>2, <3>1, MaxIs
  <2>5. S = {l - 1 : l \in E}
    BY <1>1, <1>7, <1>8
  <2>6. Max(S) = Max(E) - 1
    <3>. HIDE DEF S
    <3>1. Max(E) - 1 \in S
      BY <2>2, <2>5
    <3>2. \A y \in S : y \in Int /\ Max(E) - 1 >= y
      BY <1>4, <2>2, <2>3, <2>5
    <3>. QED
      BY <3>1, <3>2, MaxIs
  <2>7. suffix = Max(S)
    BY <1>8
  <2>. HIDE DEF S, suffix
  <2>. QED
    BY <1>5, <2>3, <2>4, <2>6, <2>7 DEF suffix_length
<1>9. ASSUME exceptions = {} PROVE suffix_length(psl, name) = suffix
  <2>1. Max({0} \union E) = 0
    <3>1. E = {}
      BY <1>1, <1>9
    <3>2. 0 \in {0} \union E /\ \A y \in {0} \union E : y \in Int /\ 0 >= y
      BY <3>1
    <3>. QED
      BY <3>2, MaxIs
  <2>2. suffix_length(psl, name) = Max({1} \union Y)
    BY <1>5, <1>6, <2>1 DEF suffix_length
  <2>3. S = Y
    <3>1. \A r \in matching : \/ r.kind = "exact" /\ LengthOf(r) = Len(r.labels)
                              \/ r.kind = "wildcard" /\ LengthOf(r) = Len(r.labels) + 1
      BY <1>7, <1>9
    <3>2. \A y : y \in S <=> \E r \in matching : y = LengthOf(r)
      BY <1>9
    <3>3. /\ \A y : y \in X <=> \E r \in matching : r.kind = "exact" /\ y = Len(r.labels)
          /\ \A y : y \in W <=> \E r \in matching : r.kind = "wildcard" /\ y = Len(r.labels) + 1
      BY <1>0
    <3>4. \A r \in matching : r.kind = "exact" => LengthOf(r) = Len(r.labels)
      BY <3>1
    <3>5. \A r \in matching : r.kind = "wildcard" => LengthOf(r) = Len(r.labels) + 1
      BY <3>1
    <3>. HIDE DEF S
    <3>. QED
      BY <3>1, <3>2, <3>3, <3>4, <3>5 DEF Y
  <2>4. CASE matching = {}
    <3>1. {1} \union Y = {1}
      BY <1>0, <2>4 DEF Y
    <3>2. Max({1}) = 1
      <4>1. 1 \in {1} /\ \A y \in {1} : y \in Int /\ 1 >= y
        OBVIOUS
      <4>. QED
        BY <4>1, MaxIs
    <3>. QED
      BY <1>9, <2>2, <2>4, <3>1, <3>2
  <2>5. CASE matching # {}
    <3>1. S # {} /\ suffix = Max(S)
      BY <1>9, <2>5
    <3>. HIDE DEF S, suffix
    <3>2. \A l \in S : l \in Int /\ l >= 1 /\ l \in 0 .. n
      BY <1>2, <1>4, <2>3
    <3>3. Max(S) \in S /\ \A y \in S : Max(S) >= y
      BY <1>2, <3>1, <3>2, MaxIn
    <3>4. \A y \in {1} \union S : y \in Int /\ Max(S) >= y
      BY <1>2, <3>2, <3>3
    <3>5. Max({1} \union S) = Max(S)
      BY <3>3, <3>4, MaxIs
    <3>. QED
      BY <2>2, <2>3, <3>1, <3>5
  <2>. QED
    BY <2>4, <2>5
<1>10. suffix_length(psl, name) = suffix
  BY <1>8, <1>9
<1>. HIDE DEF suffix
<1>11. suffix_length(psl, name) \in Int
  <2>1. /\ \A l \in {0} \union E : l \in 0 .. n
        /\ \A l \in {1} \union Y : l \in 0 .. n + 1
    BY <1>2, <1>4
  <2>2. Max({0} \union E) \in {0} \union E
    BY <1>2, <2>1, MaxIn
  <2>4. Max({1} \union Y) \in {1} \union Y
    <3>1. n + 1 \in Nat /\ {1} \union Y # {}
      BY <1>2
    <3>. QED
      BY <2>1, <3>1, MaxIn
  <2>3. exception_length(psl, name) \in Int
    <3>1. \A l \in {0} \union E : l \in Int
      BY <1>4
    <3>. QED
      BY <1>5, <2>2, <3>1, Zenon
  <2>5. match_length(psl, name) \in Int
    <3>1. \A l \in {1} \union Y : l \in Int
      BY <1>4
    <3>. QED
      BY <1>6, <2>4, <3>1, Zenon
  <2>. QED
    BY <2>3, <2>5 DEF suffix_length
<1>. DEFINE refused == name = <<>> \/ Contains(name, Strange \union Overlong)
<1>12. org_base(psl, name) =
        IF refused \/ n <= suffix THEN None ELSE SubSeq(name, n - (suffix + 1) + 1, n)
  BY <1>10 DEF org_base, WithOneMore, Refused, Tailing, n
<1>13. Registrable(rules, name) =
        IF refused \/ n <= suffix THEN None ELSE SubSeq(name, n - suffix, n)
  BY DEF Registrable, n, suffix, matching, exceptions
<1>14. n - (suffix + 1) + 1 = n - suffix
  BY <1>2, <1>10, <1>11
<1>. QED
  BY <1>12, <1>13, <1>14 DEF psl
-----------------------------------------------------------------------------
Line == ({"header"} \X DOMAIN Snapshots) \union ({"begin", "end"} \X Sections)
        \union ({"rule"} \X Rules)

LEMMA SnapshotType ==
  ASSUME NEW v \in DOMAIN Snapshots, NEW s \in Sections
  PROVE  /\ Snapshots[v][s] \in Seq(Rules) /\ Len(Snapshots[v][s]) \in Nat
         /\ DOMAIN Snapshots[v][s] = 1 .. Len(Snapshots[v][s])
<1>1. Snapshots[v] \in [Sections -> Seq(Rules)]
  BY PipelineAssumption
<1>2. Snapshots[v][s] \in Seq(Rules)
  BY <1>1
<1>. QED
  BY <1>2

(* Two sequences joined, position by position.                             *)
IsJoin(joined, s, t) ==
  /\ Len(joined) = Len(s) + Len(t)
  /\ \A i \in 1 .. Len(s) : joined[i] = s[i]
  /\ \A i, j \in Int : i = Len(s) + j /\ j >= 1 /\ j <= Len(t) => joined[i] = t[j]

LEMMA Joined ==
  ASSUME NEW S, NEW s \in Seq(S), NEW t \in Seq(S)
  PROVE  s \o t \in Seq(S) /\ IsJoin(s \o t, s, t)
<1>. DEFINE m == Len(s)
            n == Len(t)
<1>1. m \in Nat /\ n \in Nat
  OBVIOUS
<1>2. /\ s \o t \in Seq(S) /\ Len(s \o t) = m + n
      /\ \A i \in 1 .. m + n : (s \o t)[i] = IF i <= m THEN s[i] ELSE t[i - m]
  BY ConcatProperties
<1>3. ASSUME NEW i \in 1 .. m PROVE (s \o t)[i] = s[i]
  <2>1. i \in 1 .. m + n /\ i <= m
    BY <1>1
  <2>. QED
    BY <1>2, <2>1
<1>4. ASSUME NEW i \in Int, NEW j \in Int, i = m + j, j >= 1, j <= n PROVE (s \o t)[i] = t[j]
  <2>1. i \in 1 .. m + n /\ ~(i <= m) /\ i - m = j
    BY <1>1, <1>4
  <2>. QED
    BY <1>2, <2>1
<1>. QED
  BY <1>1, <1>2, <1>3, <1>4 DEF IsJoin

(* A section is its begin marker, its rules and its end marker.            *)
LEMMA SectionIs ==
  ASSUME NEW v \in DOMAIN Snapshots, NEW s \in Sections
  PROVE  LET rules == Snapshots[v][s]
             lines == SectionLines(s, v)
         IN  /\ lines \in Seq(Line) /\ Len(lines) = Len(rules) + 2
             /\ lines[1] = <<"begin", s>> /\ lines[Len(rules) + 2] = <<"end", s>>
             /\ \A i \in 1 .. Len(rules) : lines[i + 1] = <<"rule", rules[i]>>
<1>. DEFINE rules == Snapshots[v][s]
            from == <<<<"begin", s>>>>
            body == [i \in DOMAIN rules |-> <<"rule", rules[i]>>]
            to == <<<<"end", s>>>>
            n == Len(rules)
            front == from \o body
            lines == front \o to
<1>1. n \in Nat /\ DOMAIN rules = 1 .. n /\ \A i \in 1 .. n : rules[i] \in Rules
  BY SnapshotType
<1>2. from \in Seq(Line) /\ Len(from) = 1 /\ from[1] = <<"begin", s>>
  BY DEF Line
<1>3. to \in Seq(Line) /\ Len(to) = 1 /\ to[1] = <<"end", s>>
  BY DEF Line
<1>4. body \in Seq(Line) /\ Len(body) = n /\ \A i \in 1 .. n : body[i] = <<"rule", rules[i]>>
  <2>1. \A i \in 1 .. n : <<"rule", rules[i]>> \in Line
    BY <1>1 DEF Line
  <2>2. body = [i \in 1 .. n |-> <<"rule", rules[i]>>]
    BY <1>1
  <2>3. body \in [1 .. n -> Line]
    BY <2>1, <2>2
  <2>. HIDE DEF n
  <2>4. body \in Seq(Line) /\ Len(body) = n
    BY <1>1, <2>3
  <2>. QED
    BY <2>2, <2>4
<1>5. SectionLines(s, v) = lines
  BY DEF SectionLines
<1>. HIDE DEF from, body, to, n
<1>6. /\ front \in Seq(Line) /\ Len(front) = 1 + n
      /\ \A i \in 1 .. 1 : front[i] = from[i]
      /\ \A i, j \in Int : i = 1 + j /\ j >= 1 /\ j <= n => front[i] = body[j]
  <2>1. from \o body \in Seq(Line) /\ IsJoin(from \o body, from, body)
    BY <1>2, <1>4, Joined, Zenon
  <2>. QED
    BY <1>2, <1>4, <2>1 DEF IsJoin
<1>. HIDE DEF front
<1>7. /\ lines \in Seq(Line) /\ Len(lines) = 1 + n + 1
      /\ \A i \in 1 .. 1 + n : lines[i] = front[i]
      /\ \A i, j \in Int : i = 1 + n + j /\ j >= 1 /\ j <= 1 => lines[i] = to[j]
  <2>1. front \o to \in Seq(Line) /\ IsJoin(front \o to, front, to)
    BY <1>3, <1>6, Joined, Zenon
  <2>. QED
    BY <1>3, <1>6, <2>1 DEF IsJoin
<1>. HIDE DEF lines
<1>8. lines \in Seq(Line) /\ Len(lines) = n + 2
  BY <1>1, <1>7
<1>9. lines[1] = <<"begin", s>>
  <2>1. 1 \in 1 .. 1 /\ 1 \in 1 .. 1 + n
    BY <1>1
  <2>. QED
    BY <1>2, <1>6, <1>7, <2>1
<1>10. lines[n + 2] = <<"end", s>>
  <2>1. n + 2 \in Int /\ n + 2 = 1 + n + 1
    BY <1>1
  <2>2. lines[n + 2] = to[1]
    BY <1>7, <2>1
  <2>. QED
    BY <1>3, <2>2
<1>11. ASSUME NEW i \in 1 .. n PROVE lines[i + 1] = <<"rule", rules[i]>>
  <2>1. /\ i \in Int /\ i + 1 \in Int /\ i + 1 \in 1 .. 1 + n /\ i + 1 = 1 + i
        /\ i >= 1 /\ i <= n
    BY <1>1
  <2>2. lines[i + 1] = front[i + 1]
    BY <1>7, <2>1
  <2>3. front[i + 1] = body[i]
    BY <1>6, <2>1
  <2>. QED
    BY <1>4, <2>2, <2>3
<1>. QED
  BY <1>5, <1>8, <1>9, <1>10, <1>11 DEF n

(* A published version, line by line.                                      *)
IsVersion(lines, v, icann, private) ==
  LET a == Len(icann)
      b == Len(private)
  IN  /\ a \in Nat /\ b \in Nat
      /\ lines \in Seq(Line) /\ Len(lines) = a + b + 5
      /\ lines[1] = <<"header", v>>
      /\ lines[2] = <<"begin", "ICANN">>
      /\ \A i \in 1 .. a : lines[2 + i] = <<"rule", icann[i]>>
      /\ lines[3 + a] = <<"end", "ICANN">>
      /\ lines[4 + a] = <<"begin", "PRIVATE">>
      /\ \A i \in 1 .. b : lines[4 + a + i] = <<"rule", private[i]>>
      /\ lines[5 + a + b] = <<"end", "PRIVATE">>

LEMMA LinesAre ==
  ASSUME NEW v \in DOMAIN Snapshots
  PROVE  IsVersion(LinesOf[v], v, Snapshots[v]["ICANN"], Snapshots[v]["PRIVATE"])
<1>. DEFINE icann == Snapshots[v]["ICANN"]
            private == Snapshots[v]["PRIVATE"]
            a == Len(icann)
            b == Len(private)
            top == <<<<"header", v>>>>
            I == SectionLines("ICANN", v)
            P == SectionLines("PRIVATE", v)
            front == top \o I
            lines == front \o P
<1>1. a \in Nat /\ b \in Nat
  BY SnapshotType DEF Sections
<1>2. /\ I \in Seq(Line) /\ Len(I) = a + 2
      /\ I[1] = <<"begin", "ICANN">> /\ I[a + 2] = <<"end", "ICANN">>
      /\ \A i \in 1 .. a : I[i + 1] = <<"rule", icann[i]>>
  BY SectionIs DEF Sections
<1>3. /\ P \in Seq(Line) /\ Len(P) = b + 2
      /\ P[1] = <<"begin", "PRIVATE">> /\ P[b + 2] = <<"end", "PRIVATE">>
      /\ \A i \in 1 .. b : P[i + 1] = <<"rule", private[i]>>
  BY SectionIs DEF Sections
<1>4. top \in Seq(Line) /\ Len(top) = 1 /\ top[1] = <<"header", v>>
  BY DEF Line
<1>5. LinesOf[v] = lines
  BY DEF LinesOf
<1>. HIDE DEF a, b, top, I, P
<1>6. /\ front \in Seq(Line) /\ Len(front) = 1 + (a + 2)
      /\ \A i \in 1 .. 1 : front[i] = top[i]
      /\ \A i, j \in Int : i = 1 + j /\ j >= 1 /\ j <= a + 2 => front[i] = I[j]
  <2>1. top \o I \in Seq(Line) /\ IsJoin(top \o I, top, I)
    BY <1>2, <1>4, Joined, Zenon
  <2>. QED
    BY <1>2, <1>4, <2>1 DEF IsJoin
<1>. HIDE DEF front
<1>7. /\ lines \in Seq(Line) /\ Len(lines) = 1 + (a + 2) + (b + 2)
      /\ \A i \in 1 .. 1 + (a + 2) : lines[i] = front[i]
      /\ \A i, j \in Int : i = 1 + (a + 2) + j /\ j >= 1 /\ j <= b + 2 => lines[i] = P[j]
  <2>1. front \o P \in Seq(Line) /\ IsJoin(front \o P, front, P)
    BY <1>3, <1>6, Joined, Zenon
  <2>. QED
    BY <1>3, <1>6, <2>1 DEF IsJoin
<1>. HIDE DEF lines
<1>8. \A i, j \in Int : i = 1 + j /\ j >= 1 /\ j <= a + 2 => lines[i] = I[j]
  <2>. SUFFICES ASSUME NEW i \in Int, NEW j \in Int, i = 1 + j, j >= 1, j <= a + 2
                PROVE  lines[i] = I[j]
    OBVIOUS
  <2>1. i \in 1 .. 1 + (a + 2)
    BY <1>1
  <2>. QED
    BY <1>6, <1>7, <2>1
<1>9. lines[1] = <<"header", v>>
  <2>1. 1 \in 1 .. 1 /\ 1 \in 1 .. 1 + (a + 2)
    BY <1>1
  <2>. QED
    BY <1>4, <1>6, <1>7, <2>1
<1>10. lines[2] = <<"begin", "ICANN">>
  <2>1. lines[2] = I[1]
    BY <1>1, <1>8
  <2>. QED
    BY <1>2, <2>1
<1>11. lines[3 + a] = <<"end", "ICANN">>
  <2>1. 3 + a \in Int /\ a + 2 \in Int /\ 3 + a = 1 + (a + 2) /\ a + 2 >= 1 /\ a + 2 <= a + 2
    BY <1>1
  <2>2. lines[3 + a] = I[a + 2]
    BY <1>8, <2>1
  <2>. QED
    BY <1>2, <2>2
<1>12. lines[4 + a] = <<"begin", "PRIVATE">>
  <2>1. 4 + a \in Int /\ 4 + a = 1 + (a + 2) + 1 /\ 1 <= b + 2
    BY <1>1
  <2>2. lines[4 + a] = P[1]
    BY <1>7, <2>1
  <2>. QED
    BY <1>3, <2>2
<1>13. lines[5 + a + b] = <<"end", "PRIVATE">>
  <2>1. /\ 5 + a + b \in Int /\ b + 2 \in Int /\ 5 + a + b = 1 + (a + 2) + (b + 2)
        /\ b + 2 >= 1 /\ b + 2 <= b + 2
    BY <1>1
  <2>2. lines[5 + a + b] = P[b + 2]
    BY <1>7, <2>1
  <2>. QED
    BY <1>3, <2>2
<1>14. ASSUME NEW i \in 1 .. a PROVE lines[2 + i] = <<"rule", icann[i]>>
  <2>1. /\ 2 + i \in Int /\ i + 1 \in Int /\ 2 + i = 1 + (i + 1)
        /\ i + 1 >= 1 /\ i + 1 <= a + 2
    BY <1>1
  <2>2. lines[2 + i] = I[i + 1]
    BY <1>8, <2>1
  <2>. QED
    BY <1>2, <2>2
<1>15. ASSUME NEW i \in 1 .. b PROVE lines[4 + a + i] = <<"rule", private[i]>>
  <2>1. /\ 4 + a + i \in Int /\ i + 1 \in Int /\ 4 + a + i = 1 + (a + 2) + (i + 1)
        /\ i + 1 >= 1 /\ i + 1 <= b + 2
    BY <1>1
  <2>2. lines[4 + a + i] = P[i + 1]
    BY <1>7, <2>1
  <2>. QED
    BY <1>3, <2>2
<1>16. lines \in Seq(Line) /\ Len(lines) = a + b + 5
  BY <1>1, <1>7
<1>. QED
  BY <1>1, <1>5, <1>9, <1>10, <1>11, <1>12, <1>13, <1>14, <1>15, <1>16 DEF a, b, IsVersion

(* Each marker stands in one place.                                        *)
LEMMA MarkersAt ==
  ASSUME NEW v \in DOMAIN Snapshots
  PROVE  LET a == Len(Snapshots[v]["ICANN"])
             b == Len(Snapshots[v]["PRIVATE"])
         IN  /\ At(LinesOf[v], <<"begin", "ICANN">>) = {2}
             /\ At(LinesOf[v], <<"end", "ICANN">>) = {3 + a}
             /\ At(LinesOf[v], <<"begin", "PRIVATE">>) = {4 + a}
             /\ At(LinesOf[v], <<"end", "PRIVATE">>) = {5 + a + b}
<1>. DEFINE icann == Snapshots[v]["ICANN"]
            private == Snapshots[v]["PRIVATE"]
            a == Len(icann)
            b == Len(private)
            lines == LinesOf[v]
<1>0. IsVersion(lines, v, icann, private)
  BY LinesAre, Zenon
<1>1. /\ a \in Nat /\ b \in Nat
      /\ lines \in Seq(Line) /\ Len(lines) = a + b + 5
      /\ lines[1] = <<"header", v>>
      /\ lines[2] = <<"begin", "ICANN">>
      /\ \A i \in 1 .. a : lines[2 + i] = <<"rule", icann[i]>>
      /\ lines[3 + a] = <<"end", "ICANN">>
      /\ lines[4 + a] = <<"begin", "PRIVATE">>
      /\ \A i \in 1 .. b : lines[4 + a + i] = <<"rule", private[i]>>
      /\ lines[5 + a + b] = <<"end", "PRIVATE">>
  BY <1>0, Zenon DEF IsVersion
<1>. HIDE DEF a, b, icann, private, lines
<1>2. DOMAIN lines = 1 .. a + b + 5
  BY <1>1
<1>3. ASSUME NEW j \in DOMAIN lines
      PROVE  /\ j = 1 => lines[j][1] = "header"
             /\ j > 2 /\ j < 3 + a => lines[j][1] = "rule"
             /\ j > 4 + a /\ j < 5 + a + b => lines[j][1] = "rule"
  <2>1. CASE j = 1
    BY <1>1, <2>1
  <2>2. CASE j > 2 /\ j < 3 + a
    <3>1. j - 2 \in 1 .. a /\ 2 + (j - 2) = j
      BY <1>1, <1>2, <2>2
    <3>2. lines[2 + (j - 2)] = <<"rule", icann[j - 2]>>
      BY <1>1, <3>1
    <3>. QED
      BY <1>1, <2>2, <3>1, <3>2
  <2>3. CASE j > 4 + a /\ j < 5 + a + b
    <3>. DEFINE i == j - (4 + a)
    <3>1. i \in 1 .. b /\ 4 + a + i = j
      BY <1>1, <1>2, <2>3
    <3>. HIDE DEF i
    <3>2. lines[j] = <<"rule", private[i]>>
      BY <1>1, <3>1
    <3>. QED
      BY <1>1, <2>3, <3>2
  <2>. QED
    BY <2>1, <2>2, <2>3
<1>4. ASSUME NEW j \in DOMAIN lines
      PROVE  \/ j = 1 \/ j = 2 \/ j = 3 + a \/ j = 4 + a \/ j = 5 + a + b
             \/ j > 2 /\ j < 3 + a
             \/ j > 4 + a /\ j < 5 + a + b
  <2>1. j \in 1 .. a + b + 5 /\ a \in Nat /\ b \in Nat
    BY <1>1, <1>2
  <2>. QED
    BY <2>1
<1>5. 2 \in DOMAIN lines /\ 3 + a \in DOMAIN lines /\ 4 + a \in DOMAIN lines
      /\ 5 + a + b \in DOMAIN lines
  <2>1. 2 \in 1 .. a + b + 5 /\ 3 + a \in 1 .. a + b + 5 /\ 4 + a \in 1 .. a + b + 5
        /\ 5 + a + b \in 1 .. a + b + 5
    BY <1>1
  <2>. QED
    BY <1>2, <2>1, Zenon
<1>6. ASSUME NEW j \in DOMAIN lines
      PROVE  /\ lines[j] = <<"begin", "ICANN">> <=> j = 2
             /\ lines[j] = <<"end", "ICANN">> <=> j = 3 + a
             /\ lines[j] = <<"begin", "PRIVATE">> <=> j = 4 + a
             /\ lines[j] = <<"end", "PRIVATE">> <=> j = 5 + a + b
  <2>. DEFINE kind == lines[j][1]
              section == lines[j][2]
  <2>1. kind \in {"header", "rule"} \/ j = 2 \/ j = 3 + a \/ j = 4 + a \/ j = 5 + a + b
    BY <1>3, <1>4
  <2>2. /\ j = 2 => lines[j] = <<"begin", "ICANN">>
        /\ j = 3 + a => lines[j] = <<"end", "ICANN">>
        /\ j = 4 + a => lines[j] = <<"begin", "PRIVATE">>
        /\ j = 5 + a + b => lines[j] = <<"end", "PRIVATE">>
    BY <1>1, Zenon
  <2>3. /\ lines[j] = <<"begin", "ICANN">> => kind = "begin" /\ section = "ICANN"
        /\ lines[j] = <<"end", "ICANN">> => kind = "end" /\ section = "ICANN"
        /\ lines[j] = <<"begin", "PRIVATE">> => kind = "begin" /\ section = "PRIVATE"
        /\ lines[j] = <<"end", "PRIVATE">> => kind = "end" /\ section = "PRIVATE"
    OBVIOUS
  <2>4. /\ "header" # "begin" /\ "header" # "end" /\ "rule" # "begin" /\ "rule" # "end"
        /\ "begin" # "end" /\ "ICANN" # "PRIVATE"
    OBVIOUS
  <2>. HIDE DEF kind, section
  <2>. QED
    BY <2>1, <2>2, <2>3, <2>4
<1>. QED
  BY <1>5, <1>6 DEF At, a, b, icann, private, lines

LEMMA LastLine ==
  ASSUME NEW v \in DOMAIN Snapshots
  PROVE  /\ LinesOf[v] \in Seq(Line) /\ Len(LinesOf[v]) \in Nat
         /\ At(LinesOf[v], <<"end", "PRIVATE">>) = {Len(LinesOf[v])}
<1>. DEFINE a == Len(Snapshots[v]["ICANN"])
            b == Len(Snapshots[v]["PRIVATE"])
<1>0. IsVersion(LinesOf[v], v, Snapshots[v]["ICANN"], Snapshots[v]["PRIVATE"])
  BY LinesAre, Zenon
<1>1. a \in Nat /\ b \in Nat /\ LinesOf[v] \in Seq(Line) /\ Len(LinesOf[v]) = a + b + 5
  BY <1>0 DEF IsVersion
<1>2. At(LinesOf[v], <<"end", "PRIVATE">>) = {5 + a + b}
  BY MarkersAt
<1>. HIDE DEF a, b
<1>3. 5 + a + b = a + b + 5
  BY <1>1
<1>. QED
  BY <1>1, <1>2, <1>3

(* What parse_source reads back of a whole version is what was published.  *)
LEMMA RulesInAre ==
  ASSUME NEW v \in DOMAIN Snapshots, NEW s \in Sections
  PROVE  RulesIn(LinesOf[v], s) = Snapshots[v][s]
<1>. DEFINE a == Len(Snapshots[v]["ICANN"])
            b == Len(Snapshots[v]["PRIVATE"])
            lines == LinesOf[v]
            from == IndexOf(lines, <<"begin", s>>)
            to == IndexOf(lines, <<"end", s>>)
            n == Len(Snapshots[v][s])
<1>0. IsVersion(lines, v, Snapshots[v]["ICANN"], Snapshots[v]["PRIVATE"])
  BY LinesAre, Zenon
<1>1. a \in Nat /\ b \in Nat /\ n \in Nat /\ s \in {"ICANN", "PRIVATE"}
  BY SnapshotType DEF Sections
<1>2. /\ s = "ICANN" => from = 2 /\ to = 3 + a /\ n = a
      /\ s = "PRIVATE" => from = 4 + a /\ to = 5 + a + b /\ n = b
  <2>1. CASE s = "ICANN"
    <3>1. At(lines, <<"begin", s>>) = {2} /\ At(lines, <<"end", s>>) = {3 + a}
      BY <2>1, MarkersAt
    <3>. QED
      BY <2>1, <3>1 DEF IndexOf
  <2>2. CASE s = "PRIVATE"
    <3>1. At(lines, <<"begin", s>>) = {4 + a} /\ At(lines, <<"end", s>>) = {5 + a + b}
      BY <2>2, MarkersAt
    <3>. QED
      BY <2>2, <3>1 DEF IndexOf
  <2>. QED
    BY <1>1, <2>1, <2>2
<1>3. ASSUME NEW i \in 1 .. n
      PROVE  /\ s = "ICANN" => lines[2 + i][2] = Snapshots[v][s][i]
             /\ s = "PRIVATE" => lines[4 + a + i][2] = Snapshots[v][s][i]
  <2>1. CASE s = "ICANN"
    <3>1. lines[2 + i] = <<"rule", Snapshots[v][s][i]>>
      BY <1>0, <2>1 DEF IsVersion
    <3>. QED
      BY <2>1, <3>1
  <2>2. CASE s = "PRIVATE"
    <3>1. lines[4 + a + i] = <<"rule", Snapshots[v][s][i]>>
      BY <1>0, <2>2 DEF IsVersion
    <3>. QED
      BY <2>2, <3>1
  <2>. QED
    BY <1>1, <2>1, <2>2
<1>4. RulesIn(lines, s) = [i \in 1 .. to - from - 1 |-> lines[from + i][2]]
  BY DEF RulesIn
<1>5. Snapshots[v][s] = [i \in 1 .. n |-> Snapshots[v][s][i]]
  BY SnapshotType
<1>. HIDE DEF from, to, n, lines, a, b
<1>6. to - from - 1 = n
  BY <1>1, <1>2
<1>7. \A i \in 1 .. n : lines[from + i][2] = Snapshots[v][s][i]
  BY <1>1, <1>2, <1>3
<1>. QED
  BY <1>4, <1>5, <1>6, <1>7 DEF lines

(* A reply that parse_source accepts is the whole version: what is cut     *)
(* does not end with the last marker.                                      *)
LEMMA SoundIsWhole ==
  ASSUME NEW body \in Sound
  PROVE  /\ body.version \in DOMAIN Snapshots /\ body = Whole(body.version)
         /\ Lines(body) = LinesOf[body.version]
<1>0. PICK v \in DOMAIN Snapshots : body \in RepliesOf(v)
  BY DEF Sound, Bodies
<1>1. PICK n \in 0 .. Len(LinesOf[v]) : body = [version |-> v, length |-> n]
  BY <1>0 DEF RepliesOf
<1>. DEFINE lines == LinesOf[v]
            last == Len(lines)
            cut == SubSeq(lines, 1, n)
<1>2. lines \in Seq(Line) /\ last \in Nat
  BY LastLine
<1>3. Lines(body) = cut
  BY <1>1 DEF Lines
<1>4. cut # <<>> /\ cut[Len(cut)] = <<"end", "PRIVATE">>
  BY <1>3 DEF Sound, Parses
<1>. HIDE DEF lines, last, cut
<1>5. /\ cut \in Seq(Line) /\ Len(cut) = IF 1 <= n THEN n - 1 + 1 ELSE 0
      /\ \A i \in 1 .. n - 1 + 1 : cut[i] = lines[1 + i - 1]
  <2>1. \A i \in 1 .. n : lines[i] \in Line
    BY <1>1, <1>2 DEF lines, last
  <2>. QED
    BY <1>1, <2>1, SubSeqProperties DEF cut
<1>6. 1 <= n /\ Len(cut) = n
  BY <1>1, <1>4, <1>5, EmptySeq
<1>7. n \in DOMAIN lines /\ lines[n] = <<"end", "PRIVATE">>
  BY <1>1, <1>2, <1>4, <1>5, <1>6 DEF lines, last
<1>8. n = last
  <2>1. n \in At(lines, <<"end", "PRIVATE">>)
    BY <1>7 DEF At
  <2>. QED
    BY <2>1, LastLine DEF lines, last
<1>9. cut = lines
  BY <1>2, <1>5, <1>6, <1>8 DEF last
<1>. QED
  BY <1>1, <1>3, <1>8, <1>9 DEF Whole, lines, last
-----------------------------------------------------------------------------
(* Of what a version is: it is out, or it was given as a local file.       *)
Out(v) ==
  /\ v \in DOMAIN Snapshots
  /\ v <= upstream \/ "source_file" \in hands

Dated == {"source_sha256", "fetched_at", "source_file"} \intersect hands = {}
Since(v, when) == when \in Nat /\ (Dated => when \in served[v] .. day)

Clocks ==
  /\ day \in Nat /\ upstream \in DOMAIN Snapshots
  /\ served \in [DOMAIN Snapshots -> Nat]
  /\ \A v \in DOMAIN Snapshots : served[v] <= day

(* A provenance is of one version that is out, in every field that no hand *)
(* has set; a run of generate.py is at work on one; an artifact was made   *)
(* of one, retouched or not; and main was let in with its digest.          *)
Describes(record, v) ==
  /\ Out(v) /\ Whole(v) \in Sound /\ Since(v, record.fetched_at)
  /\ "artifact_sha256" \notin hands => record.artifact_sha256 = artifact_bytes(Whole(v))
  /\ "source_sha256" \notin hands => record.source_sha256 = Whole(v)

RunIsOfOne ==
  \/ gen.step = "idle"
  \/ \E v \in DOMAIN Snapshots, when \in Nat, step \in {"artifact", "provenance"} :
       /\ gen = [step |-> step, source |-> Whole(v), fetched_at |-> when]
       /\ Out(v) /\ Whole(v) \in Sound /\ Since(v, when)

FileIsOfOne(file) ==
  \/ file = Torn
  \/ /\ file = [version |-> file.version, rows |-> file.rows]
     /\ Out(file.version)
     /\ \A row \in file.rows : row[2] \in Rules

TreeIsOfOne ==
  /\ tree = [artifact |-> tree.artifact, copy |-> tree.copy, provenance |-> tree.provenance,
             code |-> tree.code, cases |-> tree.cases]
  /\ tree.code \in Codes /\ tree.cases \in SUBSET Cases
  /\ FileIsOfOne(tree.artifact)
  /\ tree.provenance = Torn \/ \E v \in DOMAIN Snapshots : Describes(tree.provenance, v)

MainIsOfOne ==
  /\ main = [artifact |-> main.artifact, copy |-> main.copy, provenance |-> main.provenance,
             code |-> main.code, cases |-> main.cases]
  /\ main.code \in Codes /\ main.cases \in SUBSET Cases
  /\ FileIsOfOne(main.artifact) /\ main.artifact # Torn /\ main.copy = main.artifact
  /\ main.artifact = main.provenance.artifact_sha256
  /\ \E v \in DOMAIN Snapshots : Describes(main.provenance, v)

PslInv == Clocks /\ RunIsOfOne /\ TreeIsOfOne /\ MainIsOfOne

(* What every step does: time goes on, and so does what was set by hand.   *)
Forward ==
  /\ Clocks' /\ hands \subseteq hands' /\ upstream <= upstream' /\ day <= day'
  /\ \A v \in DOMAIN Snapshots : v <= upstream => served'[v] = served[v]

LEMMA PublishedType ==
  Len(Snapshots) \in Nat /\ DOMAIN Snapshots = 1 .. Len(Snapshots)
BY PipelineAssumption

LEMMA ProvenanceIs ==
  ASSUME NEW v, NEW when
  PROVE  /\ Whole(v).version = v
         /\ provenance(Whole(v), when).artifact_sha256 = artifact_bytes(Whole(v))
         /\ provenance(Whole(v), when).source_sha256 = Whole(v)
         /\ provenance(Whole(v), when).fetched_at = when
BY DEF Whole, provenance

(* The rows of a version's artifact are the rules that were published.     *)
LEMMA RowsAre ==
  ASSUME NEW v \in DOMAIN Snapshots, Whole(v) \in Sound, NEW row \in Rows[Whole(v)]
  PROVE  \E s \in Sections : \E i \in DOMAIN Snapshots[v][s] :
           row = <<s, Snapshots[v][s][i]>> /\ row[2] \in Rules
<1>1. Lines(Whole(v)) = LinesOf[v]
  BY SoundIsWhole, ProvenanceIs
<1>2. \A s \in Sections : RulesIn(Lines(Whole(v)), s) = Snapshots[v][s]
  BY <1>1, RulesInAre
<1>3. PICK s \in Sections : \E i \in DOMAIN RulesIn(Lines(Whole(v)), s) :
        row = <<s, RulesIn(Lines(Whole(v)), s)[i]>>
  BY DEF Rows
<1>4. PICK i \in DOMAIN Snapshots[v][s] : row = <<s, Snapshots[v][s][i]>>
  BY <1>2, <1>3
<1>5. Snapshots[v][s][i] \in Rules
  BY SnapshotType
<1>. QED
  BY <1>4, <1>5

(* What generate.py makes of a version.                                    *)
LEMMA GeneratedIs ==
  ASSUME NEW v \in DOMAIN Snapshots, Out(v), Whole(v) \in Sound
  PROVE  /\ artifact_bytes(Whole(v)).version = v
         /\ FileIsOfOne(artifact_bytes(Whole(v)))
         /\ \A when : Since(v, when) => Describes(provenance(Whole(v), when), v)
<1>1. artifact_bytes(Whole(v)) = [version |-> v, rows |-> Rows[Whole(v)]]
  BY ProvenanceIs DEF artifact_bytes
<1>2. \A row \in Rows[Whole(v)] : row[2] \in Rules
  BY RowsAre
<1>3. FileIsOfOne(artifact_bytes(Whole(v)))
  BY <1>1, <1>2 DEF FileIsOfOne
<1>4. ASSUME NEW when, Since(v, when) PROVE Describes(provenance(Whole(v), when), v)
  BY <1>4, ProvenanceIs DEF Describes
<1>. QED
  BY <1>1, <1>3, <1>4

LEMMA PslInit == Init => PslInv
<1>. SUFFICES ASSUME Init PROVE PslInv
  OBVIOUS
<1>1. Whole(1) \in Sound /\ Whole(1).version = 1
  BY PinnedAssumption DEF Whole
<1>2. 1 \in DOMAIN Snapshots
  BY <1>1, SoundIsWhole
<1>3. Clocks
  BY <1>2 DEF Init, Clocks
<1>4. RunIsOfOne
  BY DEF Init, RunIsOfOne
<1>5. /\ main = Pinned /\ tree = Pinned
      /\ Pinned = [artifact |-> Pinned.artifact, copy |-> Pinned.copy,
                   provenance |-> Pinned.provenance, code |-> Pinned.code, cases |-> Pinned.cases]
      /\ Pinned.code \in Codes /\ Pinned.cases \in SUBSET Cases
      /\ Pinned.provenance = provenance(Whole(1), 0)
      /\ Pinned.artifact = artifact_bytes(Whole(1)) /\ Pinned.copy = Pinned.artifact
  BY PipelineAssumption DEF Init, Pinned, Codes
<1>6. Out(1) /\ Since(1, 0)
  BY <1>2, PublishedType DEF Out, Since, Init
<1>7. /\ FileIsOfOne(artifact_bytes(Whole(1)))
      /\ Describes(provenance(Whole(1), 0), 1)
  BY <1>1, <1>2, <1>6, GeneratedIs
<1>8. Pinned.artifact # Torn /\ Pinned.artifact = Pinned.provenance.artifact_sha256
  BY PinnedAssumption DEF Gate, verify
<1>9. TreeIsOfOne
  BY <1>2, <1>5, <1>7 DEF TreeIsOfOne
<1>10. MainIsOfOne
  BY <1>2, <1>5, <1>7, <1>8 DEF MainIsOfOne
<1>. QED
  BY <1>3, <1>4, <1>9, <1>10 DEF PslInv

(* What was so of a version stays so.                                      *)
LEMMA VersionStays ==
  ASSUME PslInv, Forward, NEW v, Out(v)
  PROVE  Out(v)' /\ \A when : Since(v, when) => Since(v, when)'
<1>1. v \in DOMAIN Snapshots /\ v \in Nat /\ upstream \in Nat /\ upstream' \in Nat
  BY PublishedType DEF Out, PslInv, Clocks, Forward
<1>2. Out(v)'
  BY <1>1 DEF Out, Forward
<1>3. ASSUME NEW when, Since(v, when) PROVE Since(v, when)'
  <2>1. when \in Nat /\ (Dated' => Dated)
    BY <1>3 DEF Since, Dated, Forward
  <2>2. day \in Nat /\ day' \in Nat /\ day <= day' /\ served[v] \in Nat
    BY <1>1 DEF PslInv, Clocks, Forward
  <2>3. Dated' => served'[v] = served[v]
    BY <1>1, <2>1 DEF Out, Dated, Forward
  <2>. QED
    BY <1>3, <2>1, <2>2, <2>3 DEF Since
<1>. QED
  BY <1>2, <1>3

LEMMA RecordStays ==
  ASSUME PslInv, Forward, NEW record, NEW v, Describes(record, v)
  PROVE  Describes(record, v)'
<1>1. Out(v)' /\ Since(v, record.fetched_at)'
  BY VersionStays DEF Describes
<1>. QED
  BY <1>1 DEF Describes, Forward

LEMMA FileStays ==
  ASSUME PslInv, Forward, NEW file, FileIsOfOne(file)
  PROVE  FileIsOfOne(file)'
<1>1. CASE file = Torn
  BY <1>1 DEF FileIsOfOne
<1>2. CASE file # Torn
  <2>1. Out(file.version)
    BY <1>2 DEF FileIsOfOne
  <2>2. Out(file.version)'
    BY <2>1, VersionStays
  <2>. QED
    BY <1>2, <2>2 DEF FileIsOfOne
<1>. QED
  BY <1>1, <1>2

LEMMA MainStays ==
  ASSUME PslInv, Forward, UNCHANGED main
  PROVE  MainIsOfOne'
<1>1. PICK file, record : file = main.artifact /\ record = main.provenance
  OBVIOUS
<1>2. PICK v \in DOMAIN Snapshots : Describes(record, v)
  BY <1>1 DEF PslInv, MainIsOfOne
<1>3. FileIsOfOne(file)' /\ Describes(record, v)'
  BY <1>1, <1>2, FileStays, RecordStays DEF PslInv, MainIsOfOne
<1>. QED
  BY <1>1, <1>3 DEF PslInv, MainIsOfOne

LEMMA RunStays ==
  ASSUME PslInv, Forward, UNCHANGED gen
  PROVE  RunIsOfOne'
<1>1. CASE gen.step = "idle"
  BY <1>1 DEF RunIsOfOne
<1>2. CASE gen.step # "idle"
  <2>1. PICK v \in DOMAIN Snapshots, when \in Nat, step \in {"artifact", "provenance"} :
          /\ gen = [step |-> step, source |-> Whole(v), fetched_at |-> when]
          /\ Out(v) /\ Whole(v) \in Sound /\ Since(v, when)
    BY <1>2 DEF PslInv, RunIsOfOne
  <2>2. Out(v)' /\ Since(v, when)'
    BY <2>1, VersionStays
  <2>. QED
    BY <2>1, <2>2 DEF RunIsOfOne
<1>. QED
  BY <1>1, <1>2

(* A tree with another artifact, copy, code or cases.                      *)
LEMMA OtherTree ==
  ASSUME PslInv, Forward,
         tree' = [artifact |-> tree'.artifact, copy |-> tree'.copy,
                  provenance |-> tree'.provenance, code |-> tree'.code, cases |-> tree'.cases],
         tree'.code \in Codes, tree'.cases \in SUBSET Cases,
         FileIsOfOne(tree.artifact)', tree'.provenance \in {tree.provenance, Torn}
  PROVE  TreeIsOfOne'
<1>1. CASE tree'.provenance = Torn
  BY <1>1 DEF TreeIsOfOne
<1>2. CASE tree'.provenance = tree.provenance /\ tree.provenance # Torn
  <2>1. PICK record : record = tree.provenance
    OBVIOUS
  <2>2. PICK v \in DOMAIN Snapshots : Describes(record, v)
    BY <1>2, <2>1 DEF PslInv, TreeIsOfOne
  <2>3. Describes(record, v)'
    BY <2>2, RecordStays
  <2>. QED
    BY <1>2, <2>1, <2>3 DEF TreeIsOfOne
<1>. QED
  BY <1>1, <1>2

LEMMA ArtifactStays ==
  ASSUME PslInv, Forward, tree'.artifact \in {tree.artifact, Torn}
  PROVE  FileIsOfOne(tree.artifact)'
<1>1. PICK file : file = tree.artifact
  OBVIOUS
<1>2. FileIsOfOne(file)'
  BY <1>1, FileStays DEF PslInv, TreeIsOfOne
<1>3. CASE tree'.artifact = Torn
  BY <1>3 DEF FileIsOfOne
<1>4. CASE tree'.artifact = file
  BY <1>2, <1>4
<1>. QED
  BY <1>1, <1>3, <1>4

LEMMA TreeStays ==
  ASSUME PslInv, Forward, UNCHANGED tree
  PROVE  TreeIsOfOne'
BY ArtifactStays, OtherTree DEF PslInv, TreeIsOfOne

(* What a run of generate.py accepted is a whole version that is out or    *)
(* was given, with a day since that version came out unless it was given.  *)
LEMMA GenerateStep == PslInv /\ Generate => Forward /\ RunIsOfOne'
<1>. SUFFICES ASSUME PslInv, Generate PROVE Forward /\ RunIsOfOne'
  OBVIOUS
<1>1. PICK body \in (Replies \union Files) \intersect Sound, when \in Days :
        /\ gen' = [step |-> "artifact", source |-> body, fetched_at |-> when]
        /\ hands' = hands
             \union (IF when = existing_timestamp(body) THEN {} ELSE {"fetched_at"})
             \union (IF body.version <= upstream THEN {} ELSE {"source_file"})
  BY DEF Generate
<1>2. UNCHANGED <<day, upstream, served, tree, main>>
  BY DEF Generate
<1>3. Forward
  BY <1>1, <1>2, PublishedType DEF PslInv, Clocks, Forward
<1>4. PICK v \in DOMAIN Snapshots : body = Whole(v)
  BY <1>1, SoundIsWhole
<1>5. v \in Nat /\ upstream \in Nat
  BY PublishedType DEF PslInv, Clocks
<1>6. Out(v)'
  BY <1>1, <1>2, <1>4, <1>5, ProvenanceIs DEF Out
<1>7. when \in Nat
  BY <1>1, PipelineAssumption DEF Days
<1>8. Since(v, when)'
  <2>. SUFFICES ASSUME Dated' PROVE when \in served[v] .. day
    BY <1>2, <1>7 DEF Since
  <2>1. when = existing_timestamp(body) /\ Dated
    BY <1>1 DEF Dated
  <2>2. day \in Nat /\ served[v] \in Nat /\ served[v] <= day
    BY DEF PslInv, Clocks
  <2>3. CASE tree.provenance # Torn /\ tree.provenance.source_sha256 = body
    <3>1. PICK u \in DOMAIN Snapshots : Describes(tree.provenance, u)
      BY <2>3 DEF PslInv, TreeIsOfOne
    <3>2. tree.provenance.source_sha256 = Whole(u)
      BY <2>1, <3>1 DEF Describes, Dated
    <3>3. u = v /\ when = tree.provenance.fetched_at
      BY <1>4, <2>1, <2>3, <3>2, ProvenanceIs DEF existing_timestamp
    <3>. QED
      BY <2>1, <3>1, <3>3 DEF Describes, Since
  <2>4. CASE ~(tree.provenance # Torn /\ tree.provenance.source_sha256 = body)
    <3>1. when = day
      BY <2>1, <2>4 DEF existing_timestamp
    <3>. QED
      BY <2>2, <3>1
  <2>. QED
    BY <2>3, <2>4
<1>. QED
  BY <1>1, <1>3, <1>4, <1>6, <1>7, <1>8 DEF RunIsOfOne

(* An edit: rows of files, fields of the provenance, code, vectors.        *)
LEMMA EditStep == PslInv /\ Edit => Forward /\ TreeIsOfOne'
<1>. SUFFICES ASSUME PslInv, Edit PROVE Forward /\ TreeIsOfOne'
  OBVIOUS
<1>1. UNCHANGED <<day, upstream, served, main, gen>>
  BY DEF Edit
<1>2. PICK part \in Parts : \E new \in Edits(part) :
        /\ tree' = [tree EXCEPT ![part] = new]
        /\ hands' = hands \union (IF part = "provenance" THEN Reset(new) ELSE {})
  BY DEF Edit
<1>3. PICK new \in Edits(part) :
        /\ tree' = [tree EXCEPT ![part] = new]
        /\ hands' = hands \union (IF part = "provenance" THEN Reset(new) ELSE {})
  BY <1>2
<1>4. Forward
  BY <1>1, <1>3, PublishedType DEF PslInv, Clocks, Forward
<1>5. part \in {"artifact", "copy", "provenance", "code", "cases"}
  BY DEF Parts
<1>6. CASE part = "artifact"
  <2>1. new \in Retouched(tree.artifact) /\ tree' = [tree EXCEPT !.artifact = new]
    BY <1>3, <1>6 DEF Edits
  <2>2. tree.artifact # Torn
    BY <2>1 DEF Retouched
  <2>3. PICK file : file = tree.artifact
    OBVIOUS
  <2>4. FileIsOfOne(file) /\ file # Torn
    BY <2>2, <2>3 DEF PslInv, TreeIsOfOne
  <2>5. FileIsOfOne(new)
    <3>1. \A row \in Own : row[2] \in Rules
      BY PipelineAssumption
    <3>2. new \in {[file EXCEPT !.rows = @ \ {row}] : row \in file.rows}
                    \union {[file EXCEPT !.rows = @ \union {row}] : row \in Own}
      BY <2>1, <2>3, <2>4 DEF Retouched
    <3>3. /\ new = [version |-> file.version, rows |-> new.rows]
          /\ \A row \in new.rows : row \in file.rows \/ row \in Own
      BY <2>4, <3>2 DEF FileIsOfOne
    <3>. QED
      BY <2>4, <3>1, <3>3 DEF FileIsOfOne
  <2>6. FileIsOfOne(new)'
    BY <1>4, <2>5, FileStays
  <2>. QED
    BY <1>4, <2>1, <2>6, OtherTree DEF PslInv, TreeIsOfOne
<1>7. CASE part = "provenance"
  <2>1. PICK old : old = tree.provenance
    OBVIOUS
  <2>2. /\ new \in Reworded /\ tree' = [tree EXCEPT !.provenance = new]
        /\ hands' = hands \union Reset(new)
    BY <1>3, <1>7 DEF Edits
  <2>3. old # Torn /\ new.fetched_at \in Days
    BY <2>1, <2>2 DEF Reworded
  <2>4. PICK v \in DOMAIN Snapshots : Describes(old, v)
    BY <2>1, <2>3 DEF PslInv, TreeIsOfOne
  <2>5. Describes(old, v)'
    BY <1>4, <2>4, RecordStays
  <2>6. \A f \in {"artifact_sha256", "fetched_at", "source_sha256"} :
          f \notin hands' => new[f] = old[f]
    BY <2>1, <2>2 DEF Reset
  <2>7. /\ "artifact_sha256" \notin hands' => new.artifact_sha256 = old.artifact_sha256
        /\ "fetched_at" \notin hands' => new.fetched_at = old.fetched_at
        /\ "source_sha256" \notin hands' => new.source_sha256 = old.source_sha256
    BY <2>6
  <2>8. new.fetched_at \in Nat
    BY <2>3, PipelineAssumption DEF Days
  <2>9. Since(v, new.fetched_at)'
    BY <2>5, <2>7, <2>8 DEF Describes, Since, Dated
  <2>10. Describes(new, v)'
    BY <2>5, <2>7, <2>9 DEF Describes
  <2>11. FileIsOfOne(tree.artifact)'
    BY <1>4, <2>2, ArtifactStays DEF PslInv, TreeIsOfOne
  <2>12. tree' = [artifact |-> tree.artifact, copy |-> tree.copy, provenance |-> new,
                  code |-> tree.code, cases |-> tree.cases]
         /\ tree.code \in Codes /\ tree.cases \in SUBSET Cases
    BY <2>2 DEF PslInv, TreeIsOfOne
  <2>. QED
    BY <1>4, <2>10, <2>11, <2>12 DEF TreeIsOfOne
<1>8. CASE part \in {"copy", "code", "cases"}
  <2>1. /\ part = "copy" => tree' = [tree EXCEPT !.copy = new]
        /\ part = "code" => tree' = [tree EXCEPT !.code = new] /\ new \in Codes
        /\ part = "cases" => tree' = [tree EXCEPT !.cases = new] /\ new \in SUBSET Cases
    <3>1. part = "code" => new \in Codes
      BY <1>3 DEF Edits
    <3>2. part = "cases" => new \in Vectors
      BY <1>3 DEF Edits
    <3>3. Vectors \subseteq SUBSET Cases
      BY DEF Vectors, PslInv, TreeIsOfOne
    <3>4. /\ part = "copy" => tree' = [tree EXCEPT !.copy = new]
          /\ part = "code" => tree' = [tree EXCEPT !.code = new]
          /\ part = "cases" => tree' = [tree EXCEPT !.cases = new]
      BY <1>3
    <3>5. part = "cases" => new \in SUBSET Cases
      BY <3>2, <3>3
    <3>. QED
      BY <3>1, <3>4, <3>5
  <2>2. FileIsOfOne(tree.artifact)'
    BY <1>4, <1>8, <2>1, ArtifactStays DEF PslInv, TreeIsOfOne
  <2>. QED
    BY <1>4, <1>8, <2>1, <2>2, OtherTree DEF PslInv, TreeIsOfOne
<1>. QED
  BY <1>4, <1>5, <1>6, <1>7, <1>8

LEMMA PslNext == PslInv /\ [Next]_vars => PslInv'
<1>. SUFFICES ASSUME PslInv, [Next]_vars PROVE PslInv'
  OBVIOUS
<1>. USE DEF PslInv
<1>0. ASSUME Forward
      PROVE  /\ Clocks' /\ (UNCHANGED gen => RunIsOfOne')
             /\ UNCHANGED tree => TreeIsOfOne'
             /\ UNCHANGED main => MainIsOfOne'
  BY <1>0, RunStays, TreeStays, MainStays DEF Forward
<1>1. ASSUME UNCHANGED <<day, upstream, served, hands>> PROVE Forward
  BY <1>1, PublishedType DEF Clocks, Forward
<1>2. CASE Generate
  <2>1. UNCHANGED <<tree, main>>
    BY <1>2 DEF Generate
  <2>. QED
    BY <1>0, <1>2, <2>1, GenerateStep
<1>3. CASE gen.step # "idle" /\ (WriteArtifact \/ WriteProvenance)
  <2>1. PICK v \in DOMAIN Snapshots, when \in Nat, step \in {"artifact", "provenance"} :
          /\ gen = [step |-> step, source |-> Whole(v), fetched_at |-> when]
          /\ Out(v) /\ Whole(v) \in Sound /\ Since(v, when)
    BY <1>3 DEF RunIsOfOne
  <2>2. Forward /\ UNCHANGED main
    BY <1>1, <1>3 DEF WriteArtifact, WriteProvenance
  <2>3. Out(v)' /\ Since(v, when)'
    BY <2>1, <2>2, VersionStays
  <2>4. PICK file, record : file = artifact_bytes(Whole(v)) /\ record = provenance(Whole(v), when)
    OBVIOUS
  <2>5. FileIsOfOne(file)' /\ Describes(record, v)'
    <3>1. FileIsOfOne(file) /\ Describes(record, v)
      BY <2>1, <2>4, GeneratedIs
    <3>. QED
      BY <2>2, <3>1, FileStays, RecordStays
  <2>6. CASE WriteArtifact
    <3>1. /\ tree' = [tree EXCEPT !.artifact = file]
          /\ gen' = [step |-> "provenance", source |-> Whole(v), fetched_at |-> when]
      BY <2>1, <2>4, <2>6 DEF WriteArtifact
    <3>2. RunIsOfOne'
      BY <2>1, <2>3, <3>1 DEF RunIsOfOne
    <3>3. FileIsOfOne(tree.artifact)'
      BY <2>5, <3>1 DEF TreeIsOfOne
    <3>4. TreeIsOfOne'
      BY <2>2, <3>1, <3>3, OtherTree DEF TreeIsOfOne
    <3>. QED
      BY <1>0, <2>2, <3>2, <3>4
  <2>7. CASE WriteProvenance
    <3>1. tree' = [tree EXCEPT !.provenance = record] /\ gen' = [step |-> "idle"]
      BY <2>1, <2>4, <2>7 DEF WriteProvenance
    <3>2. RunIsOfOne'
      BY <3>1 DEF RunIsOfOne
    <3>3. FileIsOfOne(tree.artifact)'
      BY <2>2, <3>1, ArtifactStays DEF TreeIsOfOne
    <3>4. TreeIsOfOne'
      BY <2>5, <3>1, <3>3 DEF TreeIsOfOne
    <3>. QED
      BY <1>0, <2>2, <3>2, <3>4
  <2>. QED
    BY <1>3, <2>6, <2>7
<1>4. CASE Crash
  <2>1. /\ Forward /\ UNCHANGED main /\ gen' = [step |-> "idle"]
        /\ gen.step \in {"artifact", "provenance"}
        /\ tree' \in {tree, [tree EXCEPT ![gen.step] = Torn]}
    BY <1>1, <1>4 DEF Crash
  <2>2. RunIsOfOne'
    BY <2>1 DEF RunIsOfOne
  <2>3. \/ tree' = tree
        \/ tree' = [tree EXCEPT !.artifact = Torn]
        \/ tree' = [tree EXCEPT !.provenance = Torn]
    BY <2>1
  <2>4. FileIsOfOne(tree.artifact)'
    BY <2>1, <2>3, ArtifactStays DEF TreeIsOfOne
  <2>5. TreeIsOfOne'
    BY <2>1, <2>3, <2>4, OtherTree DEF TreeIsOfOne
  <2>. QED
    BY <1>0, <2>1, <2>2, <2>5
<1>5. CASE Ship
  <2>1. /\ Forward /\ UNCHANGED <<main, gen>>
        /\ tree' \in {[tree EXCEPT !.copy = tree.artifact], [tree EXCEPT !.copy = Torn]}
    BY <1>1, <1>5 DEF Ship
  <2>2. FileIsOfOne(tree.artifact)'
    BY <2>1, ArtifactStays DEF TreeIsOfOne
  <2>3. TreeIsOfOne'
    BY <2>1, <2>2, OtherTree DEF TreeIsOfOne
  <2>. QED
    BY <1>0, <2>1, <2>3
<1>6. CASE Edit
  <2>1. UNCHANGED <<main, gen>>
    BY <1>6 DEF Edit
  <2>. QED
    BY <1>0, <1>6, <2>1, EditStep
<1>7. CASE StartOver
  <2>1. Forward /\ UNCHANGED main /\ tree' = main /\ gen' = [step |-> "idle"]
    BY <1>1, <1>7 DEF StartOver
  <2>2. MainIsOfOne' /\ RunIsOfOne'
    BY <1>0, <2>1 DEF RunIsOfOne
  <2>3. TreeIsOfOne'
    BY <2>1, <2>2 DEF MainIsOfOne, TreeIsOfOne
  <2>. QED
    BY <1>0, <2>1, <2>2, <2>3
<1>8. CASE Merge
  <2>1. Forward /\ UNCHANGED <<tree, gen>> /\ main' = tree /\ verify(tree)
    BY <1>1, <1>8 DEF Merge, Gate
  <2>2. TreeIsOfOne'
    BY <1>0, <2>1
  <2>3. MainIsOfOne'
    BY <2>1, <2>2 DEF MainIsOfOne, TreeIsOfOne, verify
  <2>. QED
    BY <1>0, <2>1, <2>2, <2>3
<1>9. CASE Freshness \/ Close \/ UNCHANGED vars
  <2>1. UNCHANGED <<day, upstream, served, hands, tree, main, gen>>
    BY <1>9 DEF Freshness, Close, vars
  <2>. QED
    BY <1>0, <1>1, <2>1
<1>10. CASE Publish
  <2>1. /\ upstream < Len(Snapshots) /\ upstream' = upstream + 1
        /\ served' = [served EXCEPT ![upstream + 1] = day]
        /\ UNCHANGED <<day, tree, main, gen, hands>>
    BY <1>10 DEF Publish
  <2>2. upstream \in Nat /\ upstream' \in DOMAIN Snapshots /\ upstream' \in Nat
    BY <2>1, PublishedType DEF Clocks
  <2>3. /\ served' \in [DOMAIN Snapshots -> Nat] /\ served'[upstream'] = day
        /\ \A v \in DOMAIN Snapshots : v # upstream + 1 => served'[v] = served[v]
    BY <2>1, <2>2 DEF Clocks
  <2>4. \A v \in DOMAIN Snapshots : v <= upstream => v # upstream + 1
    BY <2>2, PublishedType
  <2>5. \A v \in DOMAIN Snapshots : served'[v] <= day'
    BY <2>1, <2>2, <2>3 DEF Clocks
  <2>6. Forward
    BY <2>1, <2>2, <2>3, <2>4, <2>5 DEF Clocks, Forward
  <2>. QED
    BY <1>0, <2>1, <2>6
<1>11. CASE Tick
  <2>1. day' = day + 1 /\ UNCHANGED <<upstream, served, tree, main, gen, hands>>
    BY <1>11 DEF Tick
  <2>2. Forward
    BY <2>1, PublishedType DEF Clocks, Forward
  <2>. QED
    BY <1>0, <2>1, <2>2
<1>12. WriteArtifact \/ WriteProvenance => gen.step # "idle"
  BY DEF WriteArtifact, WriteProvenance
<1>. QED
  BY <1>2, <1>3, <1>4, <1>5, <1>6, <1>7, <1>8, <1>9, <1>10, <1>11, <1>12
     DEF Next, Generator, Maintainer, World

LEMMA PslInvariant == Spec => []PslInv
BY PslInit, PslNext, PTL DEF Spec

(* The merged copy is the artifact; until its digest is set by hand the    *)
(* artifact is one whole list; and what no hand has set in the provenance  *)
(* is true of it.                                                          *)
THEOREM MergedIsOneSnapshot == Spec => []MergedIsSnapshot
<1>1. PslInv => MergedIsSnapshot
  <2>. SUFFICES ASSUME PslInv PROVE MergedIsSnapshot
    OBVIOUS
  <2>. DEFINE v == main.artifact.version
              record == main.provenance
  <2>1. /\ main.copy = main.artifact /\ main.artifact = record.artifact_sha256
        /\ Out(v)
    BY DEF PslInv, MainIsOfOne, FileIsOfOne
  <2>2. PICK u \in DOMAIN Snapshots : Describes(record, u)
    BY DEF PslInv, MainIsOfOne
  <2>3. "artifact_sha256" \notin hands => main.artifact = artifact_bytes(Whole(u)) /\ v = u
    BY <2>1, <2>2, GeneratedIs DEF Describes
  <2>4. "source_sha256" \notin hands => record.source_sha256 = Whole(u)
    BY <2>2 DEF Describes
  <2>5. {"source_sha256", "fetched_at", "source_file"} \intersect hands = {}
          => record.fetched_at \in served[u] .. day
    BY <2>2 DEF Describes, Since, Dated
  <2>6. "source_file" \notin hands => v <= upstream
    BY <2>1 DEF Out
  <2>. HIDE DEF v, record
  <2>7. /\ "artifact_sha256" \notin hands => main.artifact = artifact_bytes(Whole(v))
        /\ {"artifact_sha256", "source_sha256"} \intersect hands = {}
             => record.source_sha256 = Whole(v)
        /\ hands = {} => record.fetched_at \in served[v] .. day
    BY <2>3, <2>4, <2>5
  <2>. QED
    BY <2>1, <2>6, <2>7 DEF MergedIsSnapshot, v, record
<1>. QED
  BY <1>1, PslInvariant, PTL
-----------------------------------------------------------------------------
(* What main is, the gate let in.                                          *)
GateInv == PslInv /\ Gate(main)

LEMMA GateInvariant == Spec => []GateInv
<1>1. Init => GateInv
  BY PslInit, PinnedAssumption DEF Init, GateInv
<1>2. GateInv /\ [Next]_vars => GateInv'
  <2>. SUFFICES ASSUME GateInv, [Next]_vars PROVE GateInv'
    OBVIOUS
  <2>1. PslInv'
    BY PslNext DEF GateInv
  <2>2. main' = main \/ (Gate(tree) /\ main' = tree)
    BY DEF Next, Generator, Maintainer, World, vars, Generate, WriteArtifact, WriteProvenance,
           Crash, Ship, Edit, StartOver, Merge, Freshness, Close, Publish, Tick
  <2>3. Gate(main')
    BY <2>2 DEF GateInv
  <2>. QED
    BY <2>1, <2>3 DEF GateInv
<1>. QED
  BY <1>1, <1>2, PTL DEF Spec

(* A lookup without the name check answers a probe that is neither a rule  *)
(* nor below a wildcard.                                                   *)
LEMMA LenientAnswers ==
  ASSUME NEW rules, NEW odd \in Strange \ Overlong,
         \A r \in rules : /\ ~(r.kind = "exact" /\ r.labels = <<odd, Tld>>)
                          /\ ~(r.kind = "wildcard" /\ r.labels = <<Tld>>)
  PROVE  ReferenceLookup(load(rules), <<odd, Tld>>) # None
<1>. DEFINE name == <<odd, Tld>>
            psl == load(rules)
            E == {l \in 1 .. Len(name) : Tailing(name, l) \in psl.exceptions}
            X == {l \in 1 .. Len(name) : Tailing(name, l) \in psl.exact}
            W == {l \in 2 .. Len(name) : Tailing(name, l - 1) \in psl.wildcards}
<1>1. /\ name \in Seq(Labels) /\ Len(name) = 2 /\ name[1] = odd /\ name[2] = Tld
      /\ odd \notin Overlong /\ Tld \notin Overlong
  BY LabelAssumption, PipelineAssumption
<1>2. Tailing(name, 2) = <<odd, Tld>> /\ Tailing(name, 1) = <<Tld>>
  <2>. HIDE DEF name
  <2>0. 1 \in 1 .. Len(name) /\ 2 \in 1 .. Len(name)
    BY <1>1
  <2>1. /\ Len(Tailing(name, 2)) = 2 /\ Tailing(name, 2) \in Seq(Labels)
        /\ \A i \in 1 .. 2 : Tailing(name, 2)[i] = name[Len(name) - 2 + i]
    BY <1>1, <2>0, TailingType
  <2>2. /\ Len(Tailing(name, 1)) = 1 /\ Tailing(name, 1) \in Seq(Labels)
        /\ \A i \in 1 .. 1 : Tailing(name, 1)[i] = name[Len(name) - 1 + i]
    BY <1>1, <2>0, TailingType
  <2>. QED
    BY <1>1, <2>1, <2>2
<1>3. <<odd, Tld>> \notin psl.exact /\ <<Tld>> \notin psl.wildcards
  BY DEF load
<1>. HIDE DEF psl
<1>4. X \subseteq {1} /\ W = {}
  BY <1>1, <1>2, <1>3
<1>5. match_length(psl, name) = 1
  <2>1. {1} \union X \union W = {1}
    BY <1>4
  <2>2. 1 \in {1} /\ \A y \in {1} : y \in Int /\ 1 >= y
    OBVIOUS
  <2>. QED
    BY <2>1, <2>2, MaxIs DEF match_length
<1>6. exception_length(psl, name) \in 0 .. 2
  <2>1. {0} \union E # {} /\ \A l \in {0} \union E : l \in 0 .. 2
    BY <1>1
  <2>2. Max({0} \union E) \in {0} \union E
    BY <2>1, MaxIn
  <2>. QED
    BY <2>1, <2>2, Zenon DEF exception_length
<1>7. suffix_length(psl, name) \in {0, 1}
  BY <1>5, <1>6 DEF suffix_length
<1>8. WithOneMore(psl, name) \in {<<odd, Tld>>, <<Tld>>}
  <2>. HIDE DEF name
  <2>. QED
    BY <1>1, <1>2, <1>7 DEF WithOneMore
<1>9. ~Contains(name, Overlong) /\ name # <<>>
  BY <1>1 DEF Contains
<1>10. ReferenceLookup(psl, name) = WithOneMore(psl, name)
  BY <1>9 DEF ReferenceLookup
<1>. QED
  BY <1>8, <1>10 DEF None, psl

(* The forms that have a canary do not pass the gate, but for the lenient  *)
(* lookup when rows were added under a new digest.                         *)
LEMMA CanariesReject == GateInv => CanariesHold
<1>. SUFFICES ASSUME GateInv PROVE CanariesHold
  OBVIOUS
<1>1. PICK v \in DOMAIN Snapshots : Describes(main.provenance, v)
  BY DEF GateInv, PslInv, MainIsOfOne
<1>2. /\ Whole(v) \in Sound /\ main.copy = main.artifact
      /\ "artifact_sha256" \notin hands => main.artifact = artifact_bytes(Whole(v))
  BY <1>1 DEF GateInv, PslInv, MainIsOfOne, Describes
<1>. DEFINE psl == load(RulesOf(main.copy))
<1>3. /\ run_vectors(main.code, main.copy, main.cases) = {}
      /\ adoption_canary(main) /\ differential_canary(main)
  BY DEF GateInv, Gate
<1>4. main.code # "two_labels"
  <2>. SUFFICES ASSUME main.code = "two_labels" PROVE FALSE
    OBVIOUS
  <2>1. Named \in main.cases /\ last_two_labels(Named.domain) # Named.expected
        /\ run_dmarc_boundary(main) = "parent_observation"
    BY <1>3 DEF adoption_canary
  <2>2. Lookup(main.code, psl, Named.domain) = Named.expected
    BY <1>3, <2>1 DEF run_vectors
  <2>3. Lookup(main.code, psl, Named.domain) = Named.domain
    BY <2>1 DEF run_dmarc_boundary
  <2>4. Lookup(main.code, psl, Named.domain) =
          IF Refused(Named.domain) THEN None ELSE last_two_labels(Named.domain)
    BY DEF Lookup
  <2>. QED
    BY <2>1, <2>2, <2>3, <2>4, PipelineAssumption
<1>5. main.code = "lenient" => "artifact_sha256" \in hands
  <2>. SUFFICES ASSUME main.code = "lenient", "artifact_sha256" \notin hands PROVE FALSE
    OBVIOUS
  <2>1. PICK odd \in Strange \ Overlong :
          \A u \in DOMAIN Snapshots, s \in Sections : \A i \in DOMAIN Snapshots[u][s] :
            Snapshots[u][s][i] \notin {[kind |-> "exact", labels |-> <<odd, Tld>>],
                                      [kind |-> "wildcard", labels |-> <<Tld>>]}
    BY ProbeAssumption
  <2>2. \A r \in RulesOf(main.copy) : r \in Rules
          /\ r \notin {[kind |-> "exact", labels |-> <<odd, Tld>>],
                       [kind |-> "wildcard", labels |-> <<Tld>>]}
    <3>. SUFFICES ASSUME NEW row \in Rows[Whole(v)]
                  PROVE  row[2] \in Rules
                         /\ row[2] \notin {[kind |-> "exact", labels |-> <<odd, Tld>>],
                                           [kind |-> "wildcard", labels |-> <<Tld>>]}
      BY <1>2 DEF RulesOf, artifact_bytes
    <3>1. PICK s \in Sections : \E i \in DOMAIN Snapshots[v][s] :
            row = <<s, Snapshots[v][s][i]>> /\ row[2] \in Rules
      BY <1>2, RowsAre
    <3>2. PICK i \in DOMAIN Snapshots[v][s] : row = <<s, Snapshots[v][s][i]>> /\ row[2] \in Rules
      BY <3>1
    <3>3. row[2] = Snapshots[v][s][i]
      BY <3>2
    <3>. QED
      BY <1>2, <2>1, <3>2, <3>3
  <2>3. \A r \in RulesOf(main.copy) : /\ ~(r.kind = "exact" /\ r.labels = <<odd, Tld>>)
                                      /\ ~(r.kind = "wildcard" /\ r.labels = <<Tld>>)
    <3>. SUFFICES ASSUME NEW r \in RulesOf(main.copy)
                  PROVE  /\ ~(r.kind = "exact" /\ r.labels = <<odd, Tld>>)
                         /\ ~(r.kind = "wildcard" /\ r.labels = <<Tld>>)
      OBVIOUS
    <3>1. r = [kind |-> r.kind, labels |-> r.labels]
      BY <2>2 DEF Rules
    <3>. QED
      BY <2>2, <3>1
  <2>4. ReferenceLookup(psl, <<odd, Tld>>) # None
    BY <2>3, LenientAnswers
  <2>5. <<odd, Tld>> \in Probes
    BY DEF Probes
  <2>6. Lookup(main.code, psl, <<odd, Tld>>) = None
    BY <1>3, <2>5 DEF differential_canary
  <2>. QED
    BY <2>4, <2>6 DEF Lookup
<1>6. main.code # "psd_open"
  BY <1>3 DEF adoption_canary, run_dmarc_boundary
<1>7. main.code # "blind"
  <2>. SUFFICES ASSUME main.code = "blind" PROVE FALSE
    OBVIOUS
  <2>1. PICK odd \in Strange : <<odd, Tld>> \in Probes
    BY ProbeAssumption DEF Probes
  <2>2. \A domains, ours, theirs : compare_results(main.code, domains, ours, theirs) = {}
    BY DEF compare_results
  <2>. QED
    BY <1>3, <2>1, <2>2 DEF differential_canary
<1>. QED
  BY <1>4, <1>5, <1>6, <1>7 DEF CanariesHold

(* Code, vectors and data may be edited together: a form that has a canary *)
(* is not let in, audit.py as it is looks every name up as                 *)
(* publicsuffix.org defines it, any other form the names of the vectors.   *)
THEOREM MergedLookup == Spec => []MergedLookupIsPsl
<1>1. GateInv => MergedLookupIsPsl
  <2>. SUFFICES ASSUME GateInv PROVE MergedLookupIsPsl
    OBVIOUS
  <2>1. CanariesHold
    BY CanariesReject
  <2>. DEFINE rules == RulesOf(main.artifact)
  <2>2. main.copy = main.artifact
    BY DEF GateInv, PslInv, MainIsOfOne
  <2>3. rules \in SUBSET Rules
    BY DEF GateInv, PslInv, MainIsOfOne, FileIsOfOne, RulesOf
  <2>4. \A r \in rules : ~wildcard_shape_error(r)
    BY DEF GateInv, Gate, verify, RulesOf
  <2>5. \A name \in Seq(Labels) : org_base(load(rules), name) = Registrable(rules, name)
    BY <2>3, <2>4, LookupIsPsl
  <2>. HIDE DEF rules
  <2>6. RegistrableIsPsl
    <3>. SUFFICES ASSUME main.code = "psl", NEW name \in Names
                  PROVE  Lookup(main.code, load(rules), name) = Registrable(rules, name)
      BY <2>2 DEF RegistrableIsPsl, rules
    <3>1. name \in Seq(Labels)
      BY PipelineAssumption
    <3>. QED
      BY <2>5, <3>1 DEF Lookup
  <2>7. VectorsAreTrue
    <3>. SUFFICES ASSUME NEW c \in main.cases, ~Contains(c.domain, Strange)
                  PROVE  /\ c.expected = Registrable(rules, c.domain)
                         /\ Lookup(main.code, load(rules), c.domain) = c.expected
      BY <2>2 DEF VectorsAreTrue, rules
    <3>1. c.domain \in Seq(Labels)
      BY PipelineAssumption DEF GateInv, PslInv, MainIsOfOne
    <3>2. /\ Lookup("lenient", load(rules), c.domain) = c.expected
          /\ Lookup(main.code, load(rules), c.domain) = c.expected
      BY <2>2 DEF GateInv, Gate, run_vectors, rules
    <3>3. ReferenceLookup(load(rules), c.domain) = org_base(load(rules), c.domain)
      BY DEF ReferenceLookup, org_base, Refused, Contains
    <3>. QED
      BY <2>5, <3>1, <3>2, <3>3 DEF Lookup
  <2>8. RootIsRespected
    BY DEF GateInv, Gate, adoption_canary, RootIsRespected
  <2>9. DifferenceShows
    BY <2>1 DEF CanariesHold, DifferenceShows, compare_results
  <2>. QED
    BY <2>1, <2>6, <2>7, <2>8, <2>9 DEF MergedLookupIsPsl
<1>. QED
  BY <1>1, GateInvariant, PTL
=============================================================================
