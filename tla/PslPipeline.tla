----------------------------- MODULE PslPipeline -----------------------------
(***************************************************************************)
(* The life of the pinned list: upstream publishes, generate.py writes the *)
(* artifact and then its provenance, a maintainer copies the artifact      *)
(* beside audit.py, edits data, provenance, code and vectors by hand or    *)
(* starts over, the gate of the conformance workflow (verify.py,           *)
(* run_vectors.py, the two canaries) lets a tree into main or not, and the *)
(* weekly freshness workflow compares main with upstream.  A run may die   *)
(* between any two writes, a reply of the canonical server may end         *)
(* anywhere, and generate.py may be given a local file and a time.         *)
(***************************************************************************)
EXTENDS PublicSuffix

CONSTANTS
  Snapshots,  (* lists, in the order upstream publishes them, if it ever   *)
              (* does: the rules of each section                           *)
  Own,        (* rows a maintainer may add by hand                         *)
  Floor,      (* rules a section must have (6000 and 3000)                 *)
  Cases,      (* test vectors a maintainer may write down                  *)
  Official,   (* the official ones, of which Named is #22                  *)
  Named,
  Tld,
  Names,      (* bound of the model: the names looked up                   *)
  MaxAge,     (* MAX_PIN_AGE_DAYS                                          *)
  Horizon,    (* bound of the model: days                                  *)
  Courses,    (* bound of the model: the courses that Events may take      *)
  Torn        (* a file whose write was cut short                          *)

Sections == {"ICANN", "PRIVATE"}

(* What a maintainer may edit by hand, and what is bounded by Courses.     *)
Parts == {"artifact", "copy", "provenance", "code", "cases"}
Events == Parts \union {"generate", "publish", "tick"}

(* The code a maintainer may leave behind: audit.py as it is, or with the  *)
(* fallback, without the name check, or without the psd=y test; a comparer *)
(* that finds nothing; or a lookup that forgets a kind of rule.            *)
Codes == {"psl", "two_labels", "lenient", "psd_open", "blind", "no_exceptions", "no_wildcards"}

ASSUME PipelineAssumption ==
  /\ Floor \in Nat \ {0} /\ MaxAge \in Nat /\ Horizon \in Nat
  /\ Named \in Official /\ Official \subseteq Cases /\ Named.domain # None
  /\ \A c \in Cases : c.domain \in Seq(Labels)
  /\ Snapshots \in Seq([Sections -> Seq(Rules)]) /\ Snapshots # <<>>
  /\ Own \subseteq Sections \X Rules
  /\ Courses \subseteq Seq(Events)
  /\ Names \subseteq Seq(Labels) /\ Tld \in Labels \ (Strange \union Overlong)

(* Of the probes that are not DNS names, one is neither a rule of upstream *)
(* nor below a wildcard of it, as "ex ample.com".                          *)
ASSUME ProbeAssumption ==
  \E odd \in Strange \ Overlong :
    \A v \in DOMAIN Snapshots, s \in Sections : \A i \in DOMAIN Snapshots[v][s] :
      Snapshots[v][s][i] \notin {[kind |-> "exact", labels |-> <<odd, Tld>>],
                                [kind |-> "wildcard", labels |-> <<Tld>>]}

VARIABLES
  day, upstream, served,  (* served: the day each snapshot came out        *)
  tree, main,             (* the working tree and the merged one           *)
  gen,                    (* a run of generate.py                          *)
  course,                 (* the runs, edits, versions and days so far     *)
  hands,                  (* what of the provenance was not left to the    *)
                          (* generator and the server, ever since          *)
  issue                   (* the freshness alarm: "none" or "open"        *)

vars == <<day, upstream, served, tree, main, gen, course, hands, issue>>

(* A reply of the canonical server: how many lines arrived of a version.   *)
SectionLines(s, v) ==
  <<<<"begin", s>>>> \o [i \in DOMAIN Snapshots[v][s] |-> <<"rule", Snapshots[v][s][i]>>]
                     \o <<<<"end", s>>>>
LinesOf == [v \in DOMAIN Snapshots |->
              <<<<"header", v>>>> \o SectionLines("ICANN", v) \o SectionLines("PRIVATE", v)]
Whole(v) == [version |-> v, length |-> Len(LinesOf[v])]
RepliesOf(v) == {[version |-> v, length |-> n] : n \in 0 .. Len(LinesOf[v])}
Bodies == UNION {RepliesOf(v) : v \in DOMAIN Snapshots}
Lines(body) == SubSeq(LinesOf[body.version], 1, body.length)
-----------------------------------------------------------------------------
At(lines, line) == {i \in DOMAIN lines : lines[i] = line}
IndexOf(lines, line) == CHOOSE i \in At(lines, line) : TRUE
RulesIn(lines, s) ==
  LET from == IndexOf(lines, <<"begin", s>>)
      to == IndexOf(lines, <<"end", s>>)
  IN  [i \in 1 .. to - from - 1 |-> lines[from + i][2]]

wildcard_shape_error(rule) == rule.kind = "malformed"

Sectioned(lines, s) ==
  /\ Cardinality(At(lines, <<"begin", s>>)) = 1
  /\ Cardinality(At(lines, <<"end", s>>)) = 1
  /\ IndexOf(lines, <<"begin", s>>) + 1 < IndexOf(lines, <<"end", s>>)

SoundRules(rules) ==
  /\ \A i \in DOMAIN rules : ~wildcard_shape_error(rules[i])
  /\ \A i, j \in DOMAIN rules : rules[i] = rules[j] => i = j
  /\ Len(rules) >= Floor

(* parse_source raises on anything else.                                   *)
Parses(lines) ==
  /\ lines # <<>> /\ lines[1][1] = "header"
  /\ \A s \in Sections : Sectioned(lines, s) /\ SoundRules(RulesIn(lines, s))
  /\ lines[Len(lines)] = <<"end", "PRIVATE">>

Sound == {body \in Bodies : Parses(Lines(body))}

Rows == [body \in Sound |->
  UNION {{<<s, RulesIn(Lines(body), s)[i]>> : i \in DOMAIN RulesIn(Lines(body), s)}
         : s \in Sections}]

artifact_bytes(body) == [version |-> body.version, rows |-> Rows[body]]

Counts(rows) == [s \in Sections |-> Cardinality({r \in rows : r[1] = s})]

(* A digest stands for what it is taken of.                                *)
provenance(body, when) ==
  [artifact_sha256 |-> artifact_bytes(body), fetched_at |-> when,
   source_sha256 |-> body, sections |-> Counts(Rows[body])]

(* The tree of the first version upstream published.                       *)
Pinned ==
  [artifact |-> artifact_bytes(Whole(1)), copy |-> artifact_bytes(Whole(1)),
   provenance |-> provenance(Whole(1), 0), code |-> "psl", cases |-> Official]

Init ==
  /\ day = 0 /\ upstream = 1
  /\ served = [v \in DOMAIN Snapshots |-> 0]
  /\ main = Pinned /\ tree = main
  /\ gen = [step |-> "idle"] /\ course = <<>> /\ hands = {} /\ issue = "none"
-----------------------------------------------------------------------------
(* Another event, within the bound.                                        *)
Happens(event) == course' = Append(course, event) /\ course' \in Courses

(* The reply of the server, cut anywhere; or a local file, which may be a  *)
(* list that is not out yet.                                               *)
Days == 0 .. Horizon
Replies == RepliesOf(upstream)
Files == {Whole(v) : v \in DOMAIN Snapshots}

(* Mutant: the recorded time is kept whatever was fetched.                 *)
TimestampKept(body) ==
  IF tree.provenance # Torn THEN tree.provenance.fetched_at ELSE day

existing_timestamp(body) ==
  IF tree.provenance # Torn /\ tree.provenance.source_sha256 = body
  THEN tree.provenance.fetched_at ELSE day

(* A refused source leaves every file as it was.  --source-file may be a   *)
(* list that is not out, --fetched-at any day.                             *)
Generate ==
  /\ gen.step = "idle" /\ Happens("generate")
  /\ \E body \in (Replies \union Files) \intersect Sound, when \in Days :
       /\ gen' = [step |-> "artifact", source |-> body, fetched_at |-> when]
       /\ hands' = hands
            \union (IF when = existing_timestamp(body) THEN {} ELSE {"fetched_at"})
            \union (IF body.version <= upstream THEN {} ELSE {"source_file"})
  /\ UNCHANGED <<day, upstream, served, tree, main, issue>>

WriteArtifact ==
  /\ gen.step = "artifact"
  /\ tree' = [tree EXCEPT !.artifact = artifact_bytes(gen.source)]
  /\ gen' = [gen EXCEPT !.step = "provenance"]
  /\ UNCHANGED <<day, upstream, served, main, course, hands, issue>>

WriteProvenance ==
  /\ gen.step = "provenance"
  /\ tree' = [tree EXCEPT !.provenance = provenance(gen.source, gen.fetched_at)]
  /\ gen' = [step |-> "idle"]
  /\ UNCHANGED <<day, upstream, served, main, course, hands, issue>>

(* The run dies before or within a write.                                  *)
Crash ==
  /\ gen.step \in {"artifact", "provenance"}
  /\ tree' \in {tree, [tree EXCEPT ![gen.step] = Torn]}
  /\ gen' = [step |-> "idle"]
  /\ UNCHANGED <<day, upstream, served, main, course, hands, issue>>

(* cp of the artifact, which may be cut short too.                         *)
Ship ==
  /\ tree' \in {[tree EXCEPT !.copy = tree.artifact], [tree EXCEPT !.copy = Torn]}
  /\ UNCHANGED <<day, upstream, served, main, gen, course, hands, issue>>

Retouched(file) ==
  IF file = Torn THEN {}
  ELSE {[file EXCEPT !.rows = @ \ {row}] : row \in file.rows}
       \union {[file EXCEPT !.rows = @ \union {row}] : row \in Own}

(* Any of the provenance, its digest and counts to those of the artifact.  *)
(* (What is left of a torn file is at best one with rows retouched.)       *)
Reworded ==
  LET now == tree.provenance
      files == {tree.artifact} \ {Torn}
  IN  IF now = Torn THEN {}
      ELSE [artifact_sha256 : {now.artifact_sha256} \union files,
            fetched_at : Days,
            source_sha256 : {now.source_sha256, Whole(upstream)},
            sections : {now.sections} \union {Counts(file.rows) : file \in files}]

Vectors == {(tree.cases \ {old}) \union {new} : old \in tree.cases, new \in Cases}

Edits(part) ==
  CASE part \in {"artifact", "copy"} -> Retouched(tree[part])
    [] part = "provenance" -> Reworded
    [] part = "code" -> Codes
    [] OTHER -> Vectors

Reset(record) ==
  {f \in {"artifact_sha256", "fetched_at", "source_sha256"} : record[f] # tree.provenance[f]}

Edit ==
  /\ \E part \in Parts :
       /\ Happens(part)
       /\ \E new \in Edits(part) :
            /\ tree' = [tree EXCEPT ![part] = new]
            /\ hands' = hands \union (IF part = "provenance" THEN Reset(new) ELSE {})
  /\ UNCHANGED <<day, upstream, served, main, gen, issue>>

StartOver ==
  /\ tree' = main
  /\ gen' = [step |-> "idle"]
  /\ UNCHANGED <<day, upstream, served, main, course, hands, issue>>
-----------------------------------------------------------------------------
RulesOf(file) == {row[2] : row \in file.rows}

Lookup(code, psl, name) ==
  CASE code = "two_labels" -> IF Refused(name) THEN None ELSE last_two_labels(name)
    [] code = "lenient" -> ReferenceLookup(psl, name)
    [] code = "no_exceptions" -> org_base([psl EXCEPT !.exceptions = {}], name)
    [] code = "no_wildcards" -> org_base([psl EXCEPT !.wildcards = {}], name)
    [] OTHER -> org_base(psl, name)

(* dmarc_policy_context of a name with a record one label above, which     *)
(* only a psd=y lets govern when the name is registrable.                  *)
run_dmarc_boundary(t) ==
  CASE Lookup(t.code, load(RulesOf(t.copy)), Named.domain) # Named.domain -> "inherited"
    [] t.code = "psd_open" -> "psd"
    [] OTHER -> "parent_observation"

(* differential.py: the domains two runtimes answer differently.           *)
compare_results(code, domains, python, engine) ==
  {name \in domains : python[name] # engine[name] /\ code # "blind"}

(* Mutant: a copy need only exist.                                         *)
VerifyAlone(t) ==
  /\ t.artifact # Torn /\ t.provenance # Torn /\ t.copy # Torn
  /\ t.artifact = t.provenance.artifact_sha256

(* A torn file is not JSON, or has another digest.                         *)
verify(t) ==
  /\ t.artifact # Torn /\ t.provenance # Torn
  /\ t.artifact = t.provenance.artifact_sha256
  /\ t.copy = t.artifact
  /\ \A row \in t.artifact.rows : ~wildcard_shape_error(row[2])
  /\ Counts(t.artifact.rows) = t.provenance.sections

load_cases(t) == Cardinality(t.cases) = Cardinality(Official)

run_vectors(code, file, cases) ==
  LET psl == load(RulesOf(file))
  IN  {c \in cases : Lookup(code, psl, c.domain) # c.expected}

(* Mutant: the canary is not part of the gate.                             *)
NoCanary(t) == TRUE

(* The fallback must be rejected, by the vector it is known by; so must    *)
(* discovery that lets any record above the root govern.                   *)
adoption_canary(t) ==
  /\ Named \in t.cases /\ last_two_labels(Named.domain) # Named.expected
  /\ run_dmarc_boundary(t) = "parent_observation"
  /\ run_dmarc_boundary([t EXCEPT !.code = "psd_open"]) = "psd"

(* The sweep of every rule and the probes that no lookup may answer.       *)
artifact_domains(file) ==
  {r.labels : r \in RulesOf(file)} \union {<<"x">> \o r.labels : r \in RulesOf(file)}
Probes == {<<label, Tld>> : label \in Strange \union Overlong}
comparison_inputs(t) == artifact_domains(t.artifact) \union Probes

(* An injected disagreement is found, and nothing else.                    *)
differential_canary(t) ==
  LET inputs == comparison_inputs(t)
      healthy == [name \in inputs |-> None]
  IN  /\ \A probe \in Probes : Lookup(t.code, load(RulesOf(t.copy)), probe) = None
      /\ compare_results(t.code, inputs, healthy, healthy) = {}
      /\ \A probe \in Probes :
           compare_results(t.code, inputs, healthy, [healthy EXCEPT ![probe] = probe]) = {probe}

Gate(t) ==
  /\ verify(t) /\ load_cases(t)
  /\ run_vectors("lenient", t.artifact, t.cases) = {}
  /\ run_vectors(t.code, t.copy, t.cases) = {}
  /\ adoption_canary(t)
  /\ differential_canary(t)

(* The repository passes its own gate at its first pin.                    *)
ASSUME PinnedAssumption == Whole(1) \in Sound /\ Gate(Pinned)

Merge ==
  /\ Gate(tree)
  /\ main' = tree
  /\ UNCHANGED <<day, upstream, served, tree, gen, course, hands, issue>>
-----------------------------------------------------------------------------
IcannDrift(body) ==
  {r \in Rows[body] : r[1] = "ICANN"} # {r \in main.artifact.rows : r[1] = "ICANN"}
Age == day - main.provenance.fetched_at

(* freshness.py --alarm-policy: its exit status.                           *)
Status(body) ==
  IF body \notin Sound \/ Age < 0 THEN "error"
  ELSE IF IcannDrift(body) \/ Age > MaxAge THEN "alarm" ELSE "fresh"

(* Mutant: only a comparison that was made can raise the alarm.            *)
FreshnessIfRead ==
  /\ \E body \in Replies :
       issue' = IF Status(body) = "alarm" THEN "open" ELSE issue
  /\ UNCHANGED <<day, upstream, served, tree, main, gen, course, hands>>

(* The weekly workflow: the one issue is opened or rewritten.              *)
Freshness ==
  /\ \E body \in Replies :
       issue' = IF Status(body) = "fresh" THEN issue ELSE "open"
  /\ UNCHANGED <<day, upstream, served, tree, main, gen, course, hands>>

Close ==
  /\ issue = "open" /\ issue' = "none"
  /\ UNCHANGED <<day, upstream, served, tree, main, gen, course, hands>>

Publish ==
  /\ upstream < Len(Snapshots) /\ Happens("publish")
  /\ upstream' = upstream + 1
  /\ served' = [served EXCEPT ![upstream + 1] = day]
  /\ UNCHANGED <<day, tree, main, gen, hands, issue>>

Tick ==
  /\ day < Horizon /\ Happens("tick")
  /\ day' = day + 1
  /\ UNCHANGED <<upstream, served, tree, main, gen, hands, issue>>

Generator == Generate \/ WriteArtifact \/ WriteProvenance \/ Crash
Maintainer == Ship \/ Edit \/ StartOver \/ Merge
World == Close \/ Publish \/ Tick

Next == Generator \/ Maintainer \/ Freshness \/ World

Spec == Init /\ [][Next]_vars

FairSpec == Spec /\ WF_vars(Freshness)
-----------------------------------------------------------------------------
(* Whatever run died where and whatever was edited, the copy beside        *)
(* audit.py is the merged artifact.  As long as nobody set its digest by   *)
(* hand, which verify.py cannot see, it is one complete list; and each     *)
(* other thing the provenance says is true unless it, or what it is taken  *)
(* from, was given by hand: the source is that list, the list is out, and  *)
(* the fetch is dated on or after the day it came out.                     *)
MergedIsSnapshot ==
  LET v == main.artifact.version
      record == main.provenance
  IN  /\ main.copy = main.artifact
      /\ "artifact_sha256" \notin hands => main.artifact = artifact_bytes(Whole(v))
      /\ {"artifact_sha256", "source_sha256"} \intersect hands = {}
           => record.source_sha256 = Whole(v)
      /\ "source_file" \notin hands => v <= upstream
      /\ hands = {} => record.fetched_at \in served[v] .. day

(* What the gate lets in, though code, vectors and data may be edited      *)
(* together.  The forms that have a canary do not pass, the lenient one    *)
(* unless a row added by hand hides it. audit.py as it is answers what     *)
(* publicsuffix.org defines for the merged list.  Any other form may pass  *)
(* with weaker vectors, but no vector is wrong: on those that are DNS      *)
(* names the merged code answers what publicsuffix.org defines, on the     *)
(* official ones too if they were kept.  A record above the registrable    *)
(* domain does not govern, and a runtime that disagrees is found.          *)
CanariesHold ==
  /\ main.code \notin {"two_labels", "psd_open", "blind"}
  /\ main.code = "lenient" => "artifact_sha256" \in hands

RegistrableIsPsl ==
  main.code = "psl" =>
    \A name \in Names :
      Lookup(main.code, load(RulesOf(main.copy)), name)
        = Registrable(RulesOf(main.artifact), name)

VectorsAreTrue ==
  \A c \in {v \in main.cases : ~Contains(v.domain, Strange)} :
    /\ c.expected = Registrable(RulesOf(main.artifact), c.domain)
    /\ Lookup(main.code, load(RulesOf(main.copy)), c.domain) = c.expected

RootIsRespected == run_dmarc_boundary(main) = "parent_observation"

DifferenceShows ==
  LET psl == load(RulesOf(main.copy))
      ours == [name \in Names |-> Lookup(main.code, psl, name)]
      theirs == [name \in Names |-> ReferenceLookup(psl, name)]
  IN  compare_results(main.code, Names, ours, theirs) = {n \in Names : ours[n] # theirs[n]}

MergedLookupIsPsl ==
  CanariesHold /\ RegistrableIsPsl /\ VectorsAreTrue /\ RootIsRespected /\ DifferenceShows

(* An ICANN rule that moved or a pin too old does not go unnoticed, also   *)
(* when the canonical server keeps failing.                                *)
Stale ==
  \/ Whole(upstream) \notin Sound
  \/ IcannDrift(Whole(upstream))
  \/ Age > MaxAge
StaleIsRaised == Stale ~> (issue = "open" \/ ~Stale)
=============================================================================
