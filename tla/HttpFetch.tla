------------------------------ MODULE HttpFetch ------------------------------
(***************************************************************************)
(* The HTTPS reads of the audit: _http_get (RDAP, which follows redirects, *)
(* and robots.txt, which does not) and _fetch_mta_sts_policy.  Each hop    *)
(* goes through the address guard, the connection or a recv may fail at    *)
(* any time, a server sends as little per recv as it likes, and the read   *)
(* loop ends by size or by end of stream, wherever in the reply that comes.*)
(* A document is a sequence of lines, the head of the reply counts as one  *)
(* line more.                                                              *)
(***************************************************************************)
EXTENDS Integers, Sequences, FiniteSets, SequencesExt

CONSTANTS
  Hosts, Start,
  Follow,  (* 3 for RDAP                                                   *)
  Cap,     (* bytes read at most before the last recv, in lines            *)
  Chunk,   (* what one recv returns at most, in lines                      *)
  Bot,     (* one of AI_BOTS                                               *)
  Texts    (* the robots.txt files a host may serve                        *)

Lines ==
  [kind : {"agent"}, of : {Bot, "*", "other"}] \union
  [kind : {"allow", "disallow"}, path : {"/", "/x"}] \union [kind : {"noise"}]

ASSUME FetchAssumption ==
  /\ Start \in Hosts
  /\ Follow \in Nat /\ Cap \in Nat \ {0} /\ Chunk \in Nat \ {0}
  /\ Texts \subseteq Seq(Lines) /\ <<>> \in Texts

(* How the run's lookups of a host's A and AAAA end; "private" stands for  *)
(* every answer with an address the table refuses.                         *)
Answers == {"none", "lost", "public", "private"}
Unresolved == <<>>

Statuses == {"200", "404", "30x", "busy", "garbled"}
NoHost == "no host"

(* A Location of "no host" is missing or not https; "plain" is text/plain. *)
Replies ==
  [status : {"200"}, location : {NoHost}, plain : BOOLEAN, lines : Texts] \union
  [status : {"404", "busy", "garbled"}, location : {NoHost}, plain : {TRUE}, lines : {<<>>}]
  \union [status : {"30x"}, location : Hosts \union {NoHost}, plain : {TRUE}, lines : {<<>>}]

(* What may arrive of a reply that ends early.                             *)
Arrived ==
  [status : Statuses, location : Hosts \union {NoHost}, plain : BOOLEAN, lines : Seq(Lines)]

NoReply == [status |-> "garbled", location |-> NoHost, plain |-> TRUE, lines |-> <<>>]

VARIABLES
  kind,         (* "robots", "rdap" or "policy"                            *)
  addr,         (* the run's DNS cache: A and AAAA of each host            *)
  phase, host, hops,
  reply, got,   (* the reply that arrives and how much of it was received  *)
  served, cut,  (* history: the reply as the host has it, and whether the  *)
                (* stream ended before its end                             *)
  outcome, charged,
  observation,  (* the observations map's entry                            *)
  body,         (* the document handed to the check                        *)
  visited       (* history: the hosts connected to                         *)

request == <<phase, host, hops>>
stream == <<reply, got, served, cut>>
ended == <<outcome, charged, observation, body>>
vars == <<kind, addr, request, stream, ended, visited>>

Init ==
  /\ kind \in {"robots", "rdap", "policy"}
  /\ addr = [h \in Hosts |-> Unresolved]
  /\ phase = "guard" /\ host = Start /\ hops = 0
  /\ reply = NoReply /\ got = 0 /\ served = NoReply /\ cut = FALSE
  /\ outcome = "pending" /\ charged = FALSE
  /\ observation = "none" /\ body = <<>>
  /\ visited = <<>>

follow == IF kind = "rdap" THEN Follow ELSE 0

End(how, observed, text) ==
  /\ phase' = "done"
  /\ outcome' = how
  /\ charged' = (how \in {"busy", "unavailable"})
  /\ observation' = observed
  /\ body' = text
-----------------------------------------------------------------------------
(* Every address of both families must be public; a lost family is only    *)
(* seen when the other has no address either.                              *)
host_public_ips_with_state(found) ==
  CASE "private" \in {found[1], found[2]} -> "refused"
    [] "private" \notin {found[1], found[2]} /\ "public" \in {found[1], found[2]} -> "public"
    [] {found[1], found[2]} = {"none"} -> "no_answers"
    [] OTHER -> "lookup_failed"

(* check_ai_bots asks for the state first: a host without addresses has no *)
(* robots.txt to look at.                                                  *)
RefusedAs(state) ==
  IF kind = "robots" /\ state = "no_answers" THEN "not_applicable" ELSE "unavailable"

Guard ==
  /\ phase = "guard"
  /\ \E found \in IF addr[host] = Unresolved THEN Answers \X Answers ELSE {addr[host]} :
       /\ addr' = [addr EXCEPT ![host] = found]
       /\ LET state == host_public_ips_with_state(found)
          IN  \/ /\ state = "public"
                 /\ phase' = "connect"
                 /\ UNCHANGED ended
              \/ /\ state # "public"
                 /\ End("refused", RefusedAs(state), <<>>)
  /\ UNCHANGED <<kind, host, hops, stream, visited>>

Connect ==
  /\ phase = "connect"
  /\ phase' = "read"
  /\ reply' \in Replies /\ got' = 0 /\ served' = reply' /\ cut' = FALSE
  /\ visited' = Append(visited, host)
  /\ UNCHANGED <<kind, addr, host, hops, ended>>

(* The garbled reply is the empty one.                                     *)
Extent(some) == IF some.status = "garbled" THEN 0 ELSE Len(some.lines) + 1
Total == Extent(reply)

Recv ==
  /\ phase = "read" /\ got < Cap /\ got < Total
  /\ got' \in got + 1 .. (IF got + Chunk < Total THEN got + Chunk ELSE Total)
  /\ UNCHANGED <<kind, addr, request, reply, served, cut, ended, visited>>

(* Mutant: an empty recv is not the end.                                   *)
EndAtCap ==
  /\ phase = "read" /\ got >= Cap
  /\ phase' = "parse"
  /\ UNCHANGED <<kind, addr, host, hops, stream, ended, visited>>

EndOfRead ==
  /\ phase = "read" /\ (got >= Cap \/ got = Total)
  /\ phase' = "parse"
  /\ UNCHANGED <<kind, addr, host, hops, stream, ended, visited>>

(* A head that ends early may lack its status or the headers that count,   *)
(* or name another host by the start of one; a line may read as another.   *)
HeadCut ==
  {NoReply} \union
  [status : {reply.status}, lines : {<<>>}, plain : {reply.plain, FALSE},
   location : IF reply.location = NoHost THEN {NoHost} ELSE Hosts \union {NoHost}]

Starts(line) ==
  {[kind |-> "noise"], line} \union
  {l \in Lines : l.kind = line.kind /\ (l.kind = "agent" => "*" \notin {l.of, line.of})}

BodyCut ==
  LET whole == SubSeq(reply.lines, 1, got - 1)
  IN  {[reply EXCEPT !.lines = whole]} \union
      {[reply EXCEPT !.lines = Append(whole, l)] : l \in Starts(reply.lines[got])}

(* An empty recv before the last line: the connection was closed, in TLS   *)
(* as well, whose missing closure the socket does not report.  Nobody      *)
(* compares what arrived with the length the head gives.                   *)
EndsEarly ==
  /\ phase = "read" /\ got < Cap /\ got < Total
  /\ phase' = "parse"
  /\ reply' \in IF got = 0 THEN HeadCut ELSE BodyCut
  /\ got' = Total'
  /\ cut' = TRUE
  /\ UNCHANGED <<kind, addr, host, hops, served, ended, visited>>

(* Mutant: a failure after the first hop is nobody's.                      *)
FailQuietly ==
  /\ phase \in {"connect", "read"}
  /\ phase' = "done" /\ outcome' = "unavailable" /\ charged' = (hops = 0)
  /\ observation' = "unavailable" /\ body' = <<>>
  /\ UNCHANGED <<kind, addr, host, hops, stream, visited>>

(* Refused, reset, no TLS, or a recv that times out.                       *)
Fail ==
  /\ phase \in {"connect", "read"}
  /\ End("unavailable", "unavailable", <<>>)
  /\ UNCHANGED <<kind, addr, host, hops, stream, visited>>
-----------------------------------------------------------------------------
Redirects == reply.status = "30x" /\ hops < follow /\ reply.location # NoHost

(* Mutant: the target of a redirect is trusted.                            *)
RedirectUnchecked ==
  /\ phase = "parse" /\ Redirects
  /\ phase' = "connect" /\ host' = reply.location /\ hops' = hops + 1
  /\ UNCHANGED <<kind, addr, stream, ended, visited>>

Redirect ==
  /\ phase = "parse" /\ Redirects
  /\ phase' = "guard" /\ host' = reply.location /\ hops' = hops + 1
  /\ UNCHANGED <<kind, addr, stream, ended, visited>>

(* The lines received of a document that the check may use.                *)
Received == SubSeq(reply.lines, 1, got - 1)
Usable == reply.status = "200" /\ (kind = "policy" => reply.plain)

Answer ==
  /\ phase = "parse" /\ ~Redirects
  /\ CASE reply.status = "garbled" -> End("unavailable", "unavailable", <<>>)
       [] reply.status = "busy" -> End("busy", "checked", <<>>)
       [] OTHER -> End("document", "checked", IF Usable THEN Received ELSE <<>>)
  /\ UNCHANGED <<kind, addr, host, hops, stream, visited>>

Finished == phase = "done" /\ UNCHANGED vars

Step == Guard \/ Connect \/ Recv \/ EndOfRead \/ EndsEarly \/ Fail \/ Redirect \/ Answer

Next == Step \/ Finished

Spec == Init /\ [][Next]_vars

(* A recv returns data, nothing at the end of the stream, or times out     *)
(* (Fail): so an enabled step other than Fail comes, or Fail does.         *)
FairSpec ==
  Spec /\ WF_vars(Guard \/ Connect \/ Recv \/ EndOfRead \/ EndsEarly \/ Redirect \/ Answer)
-----------------------------------------------------------------------------
(* _robots_blocks_ai_bots: groups of agents with the rules for "/", read a *)
(* line at a time.                                                         *)
NoGroups == [groups |-> <<>>, expect_agent |-> FALSE]
LastGroup(st) == st.groups[Len(st.groups)]
WithLast(st, group) == [st.groups EXCEPT ![Len(st.groups)] = group]
Opens(line) ==
  IF line.path = "/" THEN {line.kind} ELSE {}

(* Mutant: a rule does not end the list of agents.                         *)
ReadLineOpen(st, line) ==
  CASE line.kind = "agent" /\ ~st.expect_agent ->
         [groups |-> Append(st.groups, [agents |-> {line.of}, rules |-> {}]),
          expect_agent |-> TRUE]
    [] line.kind = "agent" /\ st.expect_agent ->
         [st EXCEPT !.groups = WithLast(st, [LastGroup(st) EXCEPT !.agents = @ \union {line.of}])]
    [] line.kind \in {"allow", "disallow"} /\ st.groups # <<>> ->
         [st EXCEPT !.groups =
            WithLast(st, [LastGroup(st) EXCEPT !.rules = @ \union Opens(line)])]
    [] OTHER -> st

ReadLine(st, line) ==
  CASE line.kind = "agent" /\ ~st.expect_agent ->
         [groups |-> Append(st.groups, [agents |-> {line.of}, rules |-> {}]),
          expect_agent |-> TRUE]
    [] line.kind = "agent" /\ st.expect_agent ->
         [st EXCEPT !.groups = WithLast(st, [LastGroup(st) EXCEPT !.agents = @ \union {line.of}])]
    [] line.kind \in {"allow", "disallow"} /\ st.groups # <<>> ->
         [groups |-> WithLast(st, [LastGroup(st) EXCEPT !.rules = @ \union Opens(line)]),
          expect_agent |-> FALSE]
    [] OTHER -> st

Reading(text) ==
  LET st[i \in 0 .. Len(text)] ==
        IF i = 0 THEN NoGroups ELSE ReadLine(st[i - 1], text[i])
  IN  st

_robots_blocks_ai_bots(text) ==
  LET groups == Range(Reading(text)[Len(text)].groups)
      naming(a) == {g \in groups : a \in g.agents}
      governing == IF naming(Bot) # {} THEN naming(Bot) ELSE naming("*")
      rules == UNION {g.rules : g \in governing}
  IN  "disallow" \in rules /\ "allow" \notin rules

Blocks == kind = "robots" /\ phase = "done" /\ _robots_blocks_ai_bots(body)
-----------------------------------------------------------------------------
TypeOK ==
  /\ kind \in {"robots", "rdap", "policy"}
  /\ addr \in [Hosts -> {Unresolved} \union (Answers \X Answers)]
  /\ phase \in {"guard", "connect", "read", "parse", "done"}
  /\ host \in Hosts /\ hops \in 0 .. Follow
  /\ reply \in Arrived /\ got \in Nat /\ served \in Arrived /\ cut \in BOOLEAN
  /\ outcome \in {"pending", "refused", "document", "busy", "unavailable"}
  /\ charged \in BOOLEAN
  /\ observation \in {"none", "checked", "unavailable", "not_applicable"}
  /\ body \in Seq(Lines)
  /\ visited \in Seq(Hosts)

Vetted(h) ==
  /\ addr[h] # Unresolved
  /\ "public" \in {addr[h][1], addr[h][2]} /\ "private" \notin {addr[h][1], addr[h][2]}

(* audit.py: "each hop is re-validated through the same guard": a host is  *)
(* connected to only if all its addresses are public, the first is the one *)
(* asked for, and redirects are followed only so far.                      *)
HopsAreVetted ==
  /\ \A i \in DOMAIN visited : Vetted(visited[i])
  /\ Len(visited) <= follow + 1
  /\ visited # <<>> => visited[1] = Start

(* The read ends once, and a loss is charged to the ledger whatever hop it *)
(* strikes, a refusal or a document never.                                 *)
Document == INSTANCE OneDocument
FetchOnce == Document!Spec

(* However little the server sends at a time, the read ends.               *)
FetchEnds == <>(phase = "done")

(* RFC 9309: an agent line governs the rules that follow the run of agent  *)
(* lines it is in.                                                         *)
Is(text, i, kinds) == text[i].kind \in kinds
Governs(text, j, i) ==
  /\ j < i /\ Is(text, j, {"agent"}) /\ Is(text, i, {"allow", "disallow"})
  /\ \A k \in j .. i : Is(text, k, {"allow", "disallow"}) =>
       ~\E l \in k .. i : Is(text, l, {"agent"})

RulesFor(text, agent) ==
  {text[i].kind : i \in {i \in DOMAIN text :
     /\ Is(text, i, {"allow", "disallow"}) /\ text[i].path = "/"
     /\ \E j \in DOMAIN text : Governs(text, j, i) /\ text[j].of = agent}}

BlockedIn(text) ==
  LET named == \E j \in DOMAIN text : Is(text, j, {"agent"}) /\ text[j].of = Bot
      rules == RulesFor(text, IF named THEN Bot ELSE "*")
  IN  "disallow" \in rules /\ "allow" \notin rules

(* The ledger calls the robots rule conclusive when nothing is charged.    *)
(* Then the finding is true of the file the host serves, however it was    *)
(* cut into packets, provided the file fits under the cap and its stream   *)
(* was not ended before it; of one that was, the code takes the part that  *)
(* arrived for the file, and charges nothing.                              *)
ConclusiveIsTrue ==
  /\ kind = "robots" /\ observation = "checked" /\ ~charged
  /\ Extent(served) <= Cap /\ ~cut
  => (Blocks <=> served.status = "200" /\ BlockedIn(served.lines))
=============================================================================
