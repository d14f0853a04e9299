------------------------------ MODULE SpfCheck ------------------------------
(***************************************************************************)
(* check_spf: the audited name's SPF record, the qualifier that ends it    *)
(* (effective_terminator, along redirect=) and the lookups it costs        *)
(* (count_spf_lookups, a depth-first walk of include: and redirect= with   *)
(* one seen set for the whole walk).  Names form a graph that may share    *)
(* records and have cycles; any lookup may fail or be refused.             *)
(***************************************************************************)
EXTENDS Integers, Sequences, FiniteSets

CONSTANTS
  Names, Apex,   (* host names, as spelled in the records: in lower case  *)
  AllLike,    (* names with a label that ends in "all", as small.example   *)
  Records,    (* the SPF records a name may publish: sequences of terms    *)
  MaxDepth,   (* 12 in count_spf_lookups                                   *)
  MaxHops,    (* 10 in effective_terminator                                *)
  MaxLookups, (* 10, RFC 7208                                              *)
  MaxVoids,   (* 2, RFC 7208                                               *)
  StackLimit  (* calls within calls that Python allows                     *)

Qualifiers == {"-", "~", "?", "+"}
Targeted == {"include", "qualified", "redirect"}

(* A term of a record.  "mech" is a, mx, a:host, mx:host, exists: or ptr;  *)
(* "adorned" is one of these with a qualifier, as +mx, or a and mx with a  *)
(* prefix length, as a/24; "qualified" an include with a qualifier;        *)
(* "semi" a trailing ";"; "loud" is spelled in capitals.                   *)
Terms ==
  [kind : {"mech", "adorned"}, ptr : BOOLEAN] \union
  [kind : {"include", "qualified"}, to : Names] \union
  [kind : {"redirect"}, to : Names, semi : BOOLEAN, loud : BOOLEAN] \union
  [kind : {"all"}, q : Qualifiers, loud : BOOLEAN]

ASSUME SpfAssumption ==
  /\ Apex \in Names /\ AllLike \subseteq Names /\ IsFiniteSet(Names)
  /\ Records \subseteq Seq(Terms)
  /\ MaxDepth \in Nat /\ MaxHops \in Nat /\ MaxLookups \in Nat /\ MaxVoids \in Nat
  /\ StackLimit \in Nat /\ MaxDepth + 1 < StackLimit

VARIABLES
  published,  (* the SPF records of each name, none, one or several        *)
  alive,      (* a name without SPF: other TXT rows, an address, or nothing *)
  ends,       (* how the lookups of a name end in this audit               *)
  phase,
  at, hops, passed,       (* effective_terminator: domain, depth, seen     *)
  terminator,
  stack, seen, n, voids,  (* count_spf_lookups                             *)
  dead,       (* history: the targets is_void called void                  *)
  read,       (* history: the lookups made, for the ledger                 *)
  F

world == <<published, alive, ends>>
hop == <<at, hops, passed, terminator>>
count == <<stack, seen, n, voids, dead>>
vars == <<world, phase, hop, count, read, F>>

None == "none"

(* Of several records the first is the one looked at.                      *)
Rows == {<<>>} \union {<<r>> : r \in Records} \union {<<r, r>> : r \in Records}
Alive == {"txt", "a", "nothing"}
Ends == {"answered", "lost", "a_lost", "refused"}

(* What a name may be: the address of one that publishes SPF is not asked  *)
(* for, and only the audited name is counted for its records.              *)
Situations(name) ==
  {s \in [rows : Rows, alive : Alive, ends : Ends] :
     /\ s.rows # <<>> => s.alive = "txt" /\ s.ends # "a_lost"
     /\ name # Apex => Len(s.rows) <= 1
     /\ name = Apex => s.ends # "refused"}

Init ==
  /\ \E s \in [Names -> UNION {Situations(name) : name \in Names}] :
       /\ \A name \in Names : s[name] \in Situations(name)
       /\ published = [name \in Names |-> s[name].rows]
       /\ alive = [name \in Names |-> s[name].alive]
       /\ ends = [name \in Names |-> s[name].ends]
  /\ phase = "record"
  /\ at = Apex /\ hops = 0 /\ passed = {} /\ terminator = None
  /\ stack = <<>> /\ seen = {} /\ n = 0 /\ voids = 0 /\ dead = {}
  /\ read = {} /\ F = {}

(* The SPF rows of dig(name, "TXT") in this audit.                         *)
Answered(name) == ends[name] \in {"answered", "a_lost"}
SpfRows(name) == IF Answered(name) THEN published[name] ELSE <<>>
HasSpf(name) == SpfRows(name) # <<>>
first_txt(name) == SpfRows(name)[1]

IndexOf(rec, P(_)) == {i \in DOMAIN rec : P(rec[i])}
FirstOf(S) == CHOOSE i \in S : \A j \in S : i <= j

(* The pattern asks for "all" at the end of a word, in any case, wherever  *)
(* it stands.                                                              *)
LooksLikeAll(t) == t.kind = "all" \/ (t.kind \in Targeted /\ t.to \in AllLike)

spf_qualifier(rec) ==
  LET hits == IndexOf(rec, LooksLikeAll)
  IN  IF hits = {} THEN None
      ELSE LET t == rec[FirstOf(hits)] IN IF t.kind = "all" THEN t.q ELSE "+"

(* The pattern for redirect= asks for lower case.                          *)
IsRedirect(t) == t.kind = "redirect" /\ ~t.loud
Redirects(rec) == IndexOf(rec, IsRedirect)

(* Mutant: a failed lookup is as good as an empty one.                     *)
VoidWhenEmpty(name) ==
  ~HasSpf(name) /\ (~Answered(name) \/ alive[name] = "nothing")

(* is_void: TXT and address both empty, neither with the error bit.  A     *)
(* name the guard refuses is read as empty and carries no bit.             *)
is_void(name) ==
  CASE ends[name] = "lost" -> FALSE
    [] ends[name] = "refused" -> TRUE
    [] OTHER -> published[name] = <<>> /\ alive[name] = "nothing" /\ ends[name] # "a_lost"

(* Mutant: the check of a target leaves no trace in the ledger.            *)
ReadsQuietly(name) == {}

ReadsOf(name) ==
  {<<name, "TXT">>} \union
  (IF HasSpf(name) \/ ends[name] = "lost" \/ (Answered(name) /\ alive[name] = "txt")
   THEN {} ELSE {<<name, "A">>})
-----------------------------------------------------------------------------
(* confirm_txt: an empty answer is asked for twice more, through the run's *)
(* cache, which repeats it.                                                *)
Record ==
  /\ phase = "record"
  /\ read' = read \union {<<Apex, "TXT">>}
  /\ LET several == IF Len(SpfRows(Apex)) > 1 THEN {"spf.multiple_records"} ELSE {}
     IN  IF HasSpf(Apex) THEN phase' = "terminator" /\ F' = several
                         ELSE phase' = "done" /\ F' = {"spf.missing"}
  /\ UNCHANGED <<world, hop, count>>

ChainEnds == hops > MaxHops \/ at \in passed \/ ~HasSpf(at)

Terminate(q) ==
  /\ terminator' = q
  /\ phase' = "count"
  /\ UNCHANGED <<at, hops>>

FollowRedirect(rec) ==
  /\ at' = rec[FirstOf(Redirects(rec))].to
  /\ hops' = hops + 1
  /\ UNCHANGED <<phase, terminator>>

Hop ==
  /\ phase = "terminator"
  /\ passed' = passed \union {at}
  /\ read' = read \union (IF hops > MaxHops \/ at \in passed THEN {} ELSE {<<at, "TXT">>})
  /\ \/ ChainEnds /\ Terminate(None)
     \/ /\ ~ChainEnds
        /\ LET rec == first_txt(at)
           IN  IF spf_qualifier(rec) # None \/ Redirects(rec) = {}
               THEN Terminate(spf_qualifier(rec))
               ELSE FollowRedirect(rec)
  /\ UNCHANGED <<world, count, F>>
-----------------------------------------------------------------------------
Frame(name) == [name |-> name, next |-> 1]

Begin ==
  /\ phase = "count" /\ seen = {}
  /\ seen' = {Apex}
  /\ stack' = <<Frame(Apex)>>
  /\ UNCHANGED <<world, phase, hop, n, voids, dead, read, F>>

Top == stack[Len(stack)]
Term == first_txt(Top.name)[Top.next]
Advanced == [stack EXCEPT ![Len(stack)] = [name |-> Top.name, next |-> Top.next + 1]]

Counting == phase = "count" /\ stack # <<>>
AtTerm == Counting /\ Top.next <= Len(first_txt(Top.name))

(* Mutant: every term costs a lookup.                                      *)
PlainCostly ==
  /\ AtTerm /\ Term.kind \notin {"include", "redirect"}
  /\ n' = n + 1
  /\ stack' = Advanced
  /\ UNCHANGED <<world, phase, hop, seen, voids, dead, read, F>>

(* A term that costs a lookup or nothing, and has no record of its own.    *)
(* Adorned ones are not among the spellings that count.                    *)
Plain ==
  /\ AtTerm /\ Term.kind \notin {"include", "redirect"}
  /\ n' = IF Term.kind = "mech" THEN n + 1 ELSE n
  /\ stack' = Advanced
  /\ UNCHANGED <<world, phase, hop, seen, voids, dead, read, F>>

(* Mutants: a record is entered again when it is not on the path; without  *)
(* a look at the names seen; with neither test.                            *)
EntersAgain(name) ==
  Len(stack) <= MaxDepth /\ \A i \in DOMAIN stack : stack[i].name # name
EntersLoops(name) == Len(stack) <= MaxDepth
EntersAlways(name) == TRUE

Enters(name) == Len(stack) <= MaxDepth /\ name \notin seen

(* include: or redirect=: one lookup, the void check, the target's record. *)
(* At the limit of the stack the call raises, and there is no verdict.     *)
Follow ==
  /\ AtTerm /\ Term.kind \in {"include", "redirect"}
  /\ Len(stack) < StackLimit
  /\ n' = n + 1
  /\ voids' = IF is_void(Term.to) THEN voids + 1 ELSE voids
  /\ dead' = IF is_void(Term.to) THEN dead \union {Term.to} ELSE dead
  /\ read' = read \union ReadsOf(Term.to)
  /\ seen' = IF Enters(Term.to) THEN seen \union {Term.to} ELSE seen
  /\ stack' = IF Enters(Term.to) /\ HasSpf(Term.to)
              THEN Append(Advanced, Frame(Term.to)) ELSE Advanced
  /\ UNCHANGED <<world, phase, hop, F>>

Return ==
  /\ Counting /\ ~AtTerm
  /\ stack' = SubSeq(stack, 1, Len(stack) - 1)
  /\ UNCHANGED <<world, phase, hop, seen, n, voids, dead, read, F>>

(* re.findall reads "include:" in the record's text, qualified or not.     *)
Duplicated(rec) ==
  \E i, j \in DOMAIN rec :
    /\ i # j /\ {rec[i].kind, rec[j].kind} \subseteq {"include", "qualified"}
    /\ rec[i].to = rec[j].to

Verdicts(rec, q, lookups, dangling) ==
  {"spf.present"} \union
  (IF q = None THEN {"spf.no_all"} ELSE {}) \union
  (IF q \in {"+", "?"} THEN {"spf.permissive_all"} ELSE {}) \union
  (IF lookups > MaxLookups THEN {"spf.lookup_limit"} ELSE {}) \union
  (IF dangling > MaxVoids THEN {"spf.void_limit"} ELSE {}) \union
  (IF \E i \in DOMAIN rec : rec[i].kind \in {"mech", "adorned"} /\ rec[i].ptr THEN {"spf.ptr_mechanism"} ELSE {}) \union
  (IF Duplicated(rec) THEN {"spf.duplicate_include"} ELSE {})

Report ==
  /\ phase = "count" /\ seen # {} /\ stack = <<>>
  /\ F' = F \union Verdicts(first_txt(Apex), terminator, n, voids)
  /\ phase' = "done"
  /\ UNCHANGED <<world, hop, count, read>>

Finished == phase = "done" /\ UNCHANGED vars

Step == Record \/ Hop \/ Begin \/ Plain \/ Follow \/ Return \/ Report

Next == Step \/ Finished

Spec == Init /\ [][Next]_vars

FairSpec == Spec /\ WF_vars(Step)
-----------------------------------------------------------------------------
TypeOK ==
  /\ published \in [Names -> Rows] /\ alive \in [Names -> Alive]
  /\ ends \in [Names -> Ends]
  /\ phase \in {"record", "terminator", "count", "done"}
  /\ at \in Names /\ hops \in Nat /\ passed \in SUBSET Names
  /\ terminator \in Qualifiers \union {None}
  /\ stack \in Seq([name : Names, next : Nat \ {0}])
  /\ seen \in SUBSET Names /\ dead \in SUBSET Names
  /\ n \in Nat /\ voids \in Nat
  /\ read \in SUBSET (Names \X {"TXT", "A"})

(* dig: the lookups of this check that are charged to scope "spf".         *)
Charged ==
  {k \in read : IF k[2] = "A" THEN ends[k[1]] # "answered"
                            ELSE ends[k[1]] \in {"lost", "refused"}}

(* SPEC.md: "a failed SPF include lookup is not an authoritative void      *)
(* response and does not count toward the void-lookup limit".  A target    *)
(* counted as void is one, or its lookups are in the ledger.               *)
VoidsAreReal ==
  \A name \in dead :
    IF ends[name] = "refused" THEN <<name, "TXT">> \in Charged
    ELSE published[name] = <<>> /\ alive[name] = "nothing"

(* The walk is on a path without a repetition inside the names it has      *)
(* seen, never deeper than the cap: so no record is expanded twice and the *)
(* graph's cycles end.                                                     *)
PathIsSimple ==
  /\ \A i \in DOMAIN stack : stack[i].name \in seen /\ HasSpf(stack[i].name)
  /\ \A i, j \in DOMAIN stack : stack[i].name = stack[j].name => i = j
  /\ Len(stack) <= MaxDepth + 1

(* Every include graph, also a cyclic one, gets a verdict.                 *)
CheckEnds == <>(phase = "done")
=============================================================================
