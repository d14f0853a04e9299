--------------------------- MODULE HttpFetchProofs ---------------------------
(***************************************************************************)
(* Theorems of HttpFetch, for any hosts, files, caps and redirect limits.  *)
(***************************************************************************)
EXTENDS HttpFetch, SequenceTheorems, WellFoundedInduction, TLAPS

LEMMA RepliesArrive ==
  ASSUME NEW r \in Replies \union {NoReply}
  PROVE  r \in Arrived
<1>. <<>> \in Seq(Lines)
  BY EmptySeq
<1>1. CASE r = NoReply
  BY <1>1 DEF NoReply, Arrived, Statuses
<1>2. CASE r \in [status : {"200"}, location : {NoHost}, plain : BOOLEAN, lines : Texts]
  BY <1>2, FetchAssumption DEF Arrived, Statuses
<1>3. CASE r \in [status : {"404", "busy", "garbled"}, location : {NoHost}, plain : {TRUE},
                  lines : {<<>>}]
  BY <1>3 DEF Arrived, Statuses
<1>4. CASE r \in [status : {"30x"}, location : Hosts \union {NoHost}, plain : {TRUE},
                  lines : {<<>>}]
  BY <1>4 DEF Arrived, Statuses
<1>. QED
  BY <1>1, <1>2, <1>3, <1>4 DEF Replies

LEMMA ReplyType ==
  ASSUME NEW r \in Arrived
  PROVE  /\ r.location \in Hosts \union {NoHost} /\ r.lines \in Seq(Lines)
         /\ Extent(r) \in Nat
BY LenProperties DEF Arrived, Extent

(* What arrives of a reply that ends early is a reply that may arrive.     *)
LEMMA CutArrives ==
  ASSUME reply \in Arrived, got \in Nat, got < Total,
         NEW r \in IF got = 0 THEN HeadCut ELSE BodyCut
  PROVE  r \in Arrived
<1>1. CASE got = 0
  <2>1. CASE r = NoReply
    BY <2>1, RepliesArrive
  <2>2. CASE r # NoReply
    <3>1. <<>> \in Seq(Lines)
      BY EmptySeq
    <3>. QED
      BY <1>1, <2>2, <3>1 DEF HeadCut, Arrived
  <2>. QED
    BY <2>1, <2>2
<1>2. CASE got # 0
  <2>. DEFINE whole == SubSeq(reply.lines, 1, got - 1)
  <2>1. reply.lines \in Seq(Lines) /\ got \in 1 .. Len(reply.lines)
    BY <1>2, ReplyType, LenProperties DEF Total, Extent
  <2>2. \A i \in 1 .. Len(reply.lines) : reply.lines[i] \in Lines
    BY <2>1, ElementOfSeq, LenProperties
  <2>3. whole \in Seq(Lines)
    <3>. DEFINE k == got - 1
    <3>1. 1 \in Int /\ k \in Int /\ \A i \in 1 .. k : reply.lines[i] \in Lines
      BY <2>1, <2>2
    <3>. HIDE DEF k
    <3>2. SubSeq(reply.lines, 1, k) \in Seq(Lines)
      BY <3>1, SubSeqProperties
    <3>. QED
      BY <3>2 DEF k
  <2>4. Starts(reply.lines[got]) \subseteq Lines
    BY <2>1, <2>2 DEF Starts, Lines
  <2>5. r \in {[reply EXCEPT !.lines = whole]} \union
             {[reply EXCEPT !.lines = Append(whole, l)] : l \in Starts(reply.lines[got])}
    BY <1>2 DEF BodyCut
  <2>. HIDE DEF whole
  <2>6. \A l \in Lines : Append(whole, l) \in Seq(Lines)
    BY <2>3, AppendProperties
  <2>7. PICK text \in Seq(Lines) : r = [reply EXCEPT !.lines = text]
    BY <2>3, <2>4, <2>5, <2>6
  <2>. QED
    BY <2>7 DEF Arrived
<1>. QED
  BY <1>1, <1>2

LEMMA FollowType == follow \in 0 .. Follow
BY FetchAssumption DEF follow

(* A host the guard calls public has only public addresses.                *)
LEMMA PublicIsVetted ==
  ASSUME NEW found \in Answers \X Answers, host_public_ips_with_state(found) = "public"
  PROVE  "public" \in {found[1], found[2]} /\ "private" \notin {found[1], found[2]}
BY DEF host_public_ips_with_state

(* What was received is part of the reply, so the document handed to the   *)
(* check is one of its prefixes.                                           *)
InReply == phase \in {"read", "parse"} => got \in 0 .. Total

(* Where the fetch stands: the host at hand is vetted before it is         *)
(* connected to, and each hop connects to one host.                        *)
OnItsWay ==
  /\ hops <= follow
  /\ phase \in {"connect", "read", "parse"} => Vetted(host)
  /\ phase \in {"guard", "connect"} =>
       Len(visited) = hops /\ (hops = 0 => host = Start)
  /\ phase \in {"read", "parse"} => Len(visited) = hops + 1
  /\ (phase # "done") = (outcome = "pending")
  /\ outcome = "pending" => ~charged

FetchInv == TypeOK /\ InReply /\ OnItsWay /\ HopsAreVetted

LEMMA FetchInit == Init => FetchInv
<1>. SUFFICES ASSUME Init
              PROVE  FetchInv
  OBVIOUS
<1>1. visited = <<>> /\ Len(visited) = 0 /\ hops = 0 /\ visited \in Seq(Hosts)
      /\ body \in Seq(Lines)
  BY DEF Init
<1>2. TypeOK
  <2>1. addr \in [Hosts -> {Unresolved} \union (Answers \X Answers)]
    BY DEF Init
  <2>2. reply \in Arrived /\ got \in Nat /\ served \in Arrived /\ cut \in BOOLEAN
    BY RepliesArrive DEF Init
  <2>3. kind \in {"robots", "rdap", "policy"} /\ phase = "guard" /\ host \in Hosts
    BY FetchAssumption DEF Init
  <2>4. hops \in 0 .. Follow
    BY FetchAssumption DEF Init
  <2>5. outcome = "pending" /\ charged = FALSE /\ observation = "none"
    BY DEF Init
  <2>. QED
    BY <1>1, <2>1, <2>2, <2>3, <2>4, <2>5 DEF TypeOK
<1>. QED
  BY <1>1, <1>2, FollowType DEF Init, FetchInv, InReply, OnItsWay, HopsAreVetted

(* An ending keeps the invariant: nothing else of it moves.                *)
LEMMA EndKeeps ==
  ASSUME FetchInv, phase # "done",
         NEW how \in {"refused", "document", "busy", "unavailable"},
         NEW observed \in {"checked", "unavailable", "not_applicable"},
         NEW text \in Seq(Lines),
         End(how, observed, text), UNCHANGED <<kind, addr, host, hops, stream, visited>>
  PROVE  FetchInv'
<1>1. TypeOK'
  BY DEF FetchInv, TypeOK, End, stream
<1>2. HopsAreVetted'
  BY DEF FetchInv, HopsAreVetted, Vetted, End, follow
<1>. QED
  BY <1>1, <1>2 DEF FetchInv, InReply, OnItsWay, End, follow

LEMMA GuardStep == FetchInv /\ Guard => FetchInv'
<1>. SUFFICES ASSUME FetchInv, Guard
              PROVE  FetchInv'
  OBVIOUS
<1>1. PICK found \in IF addr[host] = Unresolved THEN Answers \X Answers ELSE {addr[host]} :
        /\ addr' = [addr EXCEPT ![host] = found]
        /\ \/ /\ host_public_ips_with_state(found) = "public"
              /\ phase' = "connect" /\ UNCHANGED ended
           \/ End("refused", RefusedAs(host_public_ips_with_state(found)), <<>>)
  BY DEF Guard
<1>2. found \in Answers \X Answers /\ host \in Hosts
  BY <1>1 DEF FetchInv, TypeOK
<1>3. /\ addr' \in [Hosts -> {Unresolved} \union (Answers \X Answers)] /\ addr'[host] = found
      /\ \A h \in Hosts : addr[h] # Unresolved => addr'[h] = addr[h]
  BY <1>1, <1>2 DEF FetchInv, TypeOK
<1>4. UNCHANGED <<kind, host, hops, stream, visited>> /\ phase = "guard"
  BY DEF Guard
<1>5. HopsAreVetted'
  <2>1. \A i \in DOMAIN visited : visited[i] \in Hosts
    BY DEF FetchInv, TypeOK
  <2>. QED
    BY <1>3, <1>4, <2>1 DEF FetchInv, HopsAreVetted, Vetted, follow
<1>6. CASE host_public_ips_with_state(found) = "public" /\ phase' = "connect" /\ UNCHANGED ended
  <2>1. TypeOK'
    BY <1>3, <1>4, <1>6 DEF FetchInv, TypeOK, stream, ended
  <2>2. found # Unresolved
    BY <1>2 DEF Unresolved
  <2>3. Vetted(host)'
    BY <1>2, <1>3, <1>4, <1>6, <2>2, PublicIsVetted DEF Vetted
  <2>. QED
    BY <1>4, <1>5, <1>6, <2>1, <2>3 DEF FetchInv, InReply, OnItsWay, follow, ended
<1>7. CASE End("refused", RefusedAs(host_public_ips_with_state(found)), <<>>)
  <2>1. RefusedAs(host_public_ips_with_state(found)) \in {"not_applicable", "unavailable"}
    BY DEF RefusedAs
  <2>2. <<>> \in Seq(Lines)
    BY EmptySeq
  <2>3. TypeOK'
    BY <1>3, <1>4, <1>7, <2>1, <2>2 DEF FetchInv, TypeOK, End, stream
  <2>. QED
    BY <1>4, <1>5, <1>7, <2>3 DEF FetchInv, InReply, OnItsWay, End, follow
<1>. QED
  BY <1>1, <1>6, <1>7

LEMMA FetchStep == FetchInv /\ [Next]_vars => FetchInv'
<1>. SUFFICES ASSUME FetchInv, [Next]_vars
              PROVE  FetchInv'
  OBVIOUS
<1>1. CASE Guard
  BY <1>1, GuardStep
<1>2. CASE Connect
  <2>1. /\ visited \in Seq(Hosts) /\ host \in Hosts /\ visited' = Append(visited, host)
        /\ phase = "connect" /\ phase' = "read" /\ reply' \in Arrived /\ got' = 0
        /\ served' \in Arrived /\ cut' \in BOOLEAN
        /\ UNCHANGED <<kind, addr, host, hops, ended>>
    BY <1>2, RepliesArrive DEF Connect, FetchInv, TypeOK
  <2>2. /\ visited' \in Seq(Hosts) /\ Len(visited') = Len(visited) + 1
        /\ DOMAIN visited' = 1 .. Len(visited) + 1
        /\ \A i \in 1 .. Len(visited) : visited'[i] = visited[i]
        /\ visited'[Len(visited) + 1] = host
    BY <2>1, AppendProperties, LenProperties
  <2>3. TypeOK'
    BY <2>1, <2>2 DEF FetchInv, TypeOK, ended
  <2>4. InReply'
    <3>1. Extent(reply') \in Nat
      BY <2>1, ReplyType
    <3>. QED
      BY <2>1, <3>1 DEF InReply, Total, Extent
  <2>5. HopsAreVetted'
    <3>1. \A i \in 1 .. Len(visited) + 1 : Vetted(visited[i])'
      <4>. SUFFICES ASSUME NEW i \in 1 .. Len(visited) + 1
                    PROVE  Vetted(visited[i])'
        OBVIOUS
      <4>1. CASE i \in 1 .. Len(visited)
        <5>1. Vetted(visited[i])
          BY <2>1, <4>1, LenProperties DEF FetchInv, HopsAreVetted
        <5>. QED
          BY <2>1, <2>2, <4>1, <5>1 DEF Vetted
      <4>2. CASE i = Len(visited) + 1
        <5>1. Vetted(host)
          BY <2>1 DEF FetchInv, OnItsWay
        <5>. QED
          BY <2>1, <2>2, <4>2, <5>1 DEF Vetted
      <4>. QED
        BY <2>1, <4>1, <4>2, LenProperties
    <3>2. Len(visited) = hops /\ hops <= follow /\ hops \in Nat /\ follow \in Nat
      BY <2>1, FollowType, FetchAssumption DEF FetchInv, TypeOK, OnItsWay
    <3>3. visited'[1] = Start
      <4>1. CASE Len(visited) = 0
        BY <2>1, <2>2, <3>2, <4>1 DEF FetchInv, OnItsWay
      <4>2. CASE Len(visited) # 0
        <5>1. visited # <<>> /\ 1 \in 1 .. Len(visited)
          BY <3>2, <4>2
        <5>. QED
          BY <2>2, <5>1 DEF FetchInv, HopsAreVetted
      <4>. QED
        BY <4>1, <4>2
    <3>4. follow' = follow
      BY <2>1 DEF follow
    <3>5. Len(visited') <= follow' + 1 /\ \A i \in DOMAIN visited' : Vetted(visited[i])'
      BY <2>2, <3>1, <3>2, <3>4
    <3>. QED
      BY <3>3, <3>5 DEF HopsAreVetted
  <2>6. OnItsWay'
    BY <2>1, <2>2 DEF FetchInv, OnItsWay, Vetted, follow, ended
  <2>. QED
    BY <2>3, <2>4, <2>5, <2>6 DEF FetchInv
<1>3. CASE Recv
  <2>1. /\ phase = "read" /\ got' \in Nat /\ got' <= Total
        /\ UNCHANGED <<kind, addr, request, reply, served, cut, ended, visited>>
    <3>1. got \in Nat /\ Total \in Nat
      BY ReplyType, LenProperties DEF FetchInv, TypeOK, Total
    <3>. QED
      BY <1>3, <3>1, FetchAssumption DEF Recv
  <2>2. TypeOK'
    BY <2>1 DEF FetchInv, TypeOK, request, ended
  <2>3. InReply'
    BY <2>1 DEF InReply, Total, Extent, request
  <2>4. HopsAreVetted'
    BY <2>1 DEF FetchInv, HopsAreVetted, Vetted, follow
  <2>5. OnItsWay'
    BY <2>1 DEF FetchInv, OnItsWay, Vetted, follow, request, ended
  <2>. QED
    BY <2>2, <2>3, <2>4, <2>5 DEF FetchInv
<1>4. CASE EndOfRead
  <2>1. /\ phase = "read" /\ phase' = "parse"
        /\ UNCHANGED <<kind, addr, host, hops, stream, ended, visited>>
    BY <1>4 DEF EndOfRead
  <2>2. TypeOK' /\ InReply'
    BY <2>1 DEF FetchInv, TypeOK, InReply, Total, Extent, stream, ended
  <2>3. HopsAreVetted'
    BY <2>1 DEF FetchInv, HopsAreVetted, Vetted, follow
  <2>4. OnItsWay'
    BY <2>1 DEF FetchInv, OnItsWay, Vetted, follow, ended
  <2>. QED
    BY <2>2, <2>3, <2>4 DEF FetchInv
<1>9. CASE EndsEarly
  <2>1. /\ phase = "read" /\ phase' = "parse" /\ got' = Total' /\ cut' = TRUE
        /\ UNCHANGED <<kind, addr, host, hops, served, ended, visited>>
    BY <1>9 DEF EndsEarly
  <2>2. reply' \in Arrived /\ Total' \in Nat
    BY <1>9, CutArrives, ReplyType DEF EndsEarly, FetchInv, TypeOK, Total, Extent
  <2>3. TypeOK' /\ InReply'
    BY <2>1, <2>2 DEF FetchInv, TypeOK, InReply, ended
  <2>4. HopsAreVetted'
    BY <2>1 DEF FetchInv, HopsAreVetted, Vetted, follow
  <2>5. OnItsWay'
    BY <2>1 DEF FetchInv, OnItsWay, Vetted, follow, ended
  <2>. QED
    BY <2>3, <2>4, <2>5 DEF FetchInv
<1>5. CASE Fail
  <2>1. <<>> \in Seq(Lines)
    BY EmptySeq
  <2>. QED
    BY <1>5, <2>1, EndKeeps DEF Fail
<1>6. CASE Redirect
  <2>1. /\ phase = "parse" /\ phase' = "guard" /\ host' = reply.location
        /\ hops' = hops + 1 /\ hops < follow /\ reply.location # NoHost
        /\ UNCHANGED <<kind, addr, stream, ended, visited>>
    BY <1>6 DEF Redirect, Redirects
  <2>2. /\ host' \in Hosts /\ hops \in Nat /\ follow \in 0 .. Follow
        /\ hops' \in 0 .. Follow /\ hops' <= follow /\ hops' # 0
    BY <2>1, ReplyType, FollowType, FetchAssumption DEF FetchInv, TypeOK
  <2>3. TypeOK' /\ InReply'
    BY <2>1, <2>2 DEF FetchInv, TypeOK, InReply, stream, ended
  <2>4. HopsAreVetted'
    BY <2>1 DEF FetchInv, HopsAreVetted, Vetted, follow
  <2>5. OnItsWay'
    BY <2>1, <2>2 DEF FetchInv, OnItsWay, follow, ended
  <2>. QED
    BY <2>3, <2>4, <2>5 DEF FetchInv
<1>7. CASE Answer
  <2>1. /\ phase = "parse" /\ UNCHANGED <<kind, addr, host, hops, stream, visited>>
        /\ \/ End("unavailable", "unavailable", <<>>)
           \/ End("busy", "checked", <<>>)
           \/ /\ reply.status # "garbled"
              /\ End("document", "checked", IF Usable THEN Received ELSE <<>>)
    BY <1>7 DEF Answer
  <2>2. <<>> \in Seq(Lines)
    BY EmptySeq
  <2>3. ASSUME reply.status # "garbled"
        PROVE  (IF Usable THEN Received ELSE <<>>) \in Seq(Lines)
    <3>1. reply.lines \in Seq(Lines) /\ got \in 0 .. Len(reply.lines) + 1
      BY <2>1, <2>3, ReplyType DEF FetchInv, TypeOK, InReply, Total, Extent
    <3>2. \A i \in 1 .. got - 1 : reply.lines[i] \in Lines
      BY <3>1, ElementOfSeq, LenProperties
    <3>3. Received \in Seq(Lines)
      <4>. DEFINE k == got - 1
      <4>1. 1 \in Int /\ k \in Int /\ \A i \in 1 .. k : reply.lines[i] \in Lines
        BY <3>1, <3>2
      <4>. HIDE DEF k
      <4>2. SubSeq(reply.lines, 1, k) \in Seq(Lines)
        BY <4>1, SubSeqProperties
      <4>. QED
        BY <4>2 DEF Received, k
    <3>. QED
      BY <2>2, <3>3
  <2>. QED
    BY <2>1, <2>2, <2>3, EndKeeps
<1>8. CASE Finished \/ UNCHANGED vars
  <2>1. UNCHANGED <<kind, addr, request, stream, ended, visited>>
    BY <1>8 DEF Finished, vars
  <2>2. TypeOK' /\ InReply'
    BY <2>1 DEF FetchInv, TypeOK, InReply, Total, Extent, request, stream, ended
  <2>3. HopsAreVetted'
    BY <2>1 DEF FetchInv, HopsAreVetted, Vetted, follow
  <2>4. OnItsWay'
    BY <2>1 DEF FetchInv, OnItsWay, Vetted, follow, request, ended
  <2>. QED
    BY <2>2, <2>3, <2>4 DEF FetchInv
<1>. QED
  BY <1>1, <1>2, <1>3, <1>4, <1>5, <1>6, <1>7, <1>8, <1>9 DEF Next, Step

(* Whatever hop a fetch is at, the host was vetted and no more was        *)
(* received than the server sent.                                         *)
THEOREM FetchInvariant == Spec => []FetchInv
BY FetchInit, FetchStep, PTL DEF Spec

(* A fetch keeps its types: what a check is handed is a document's prefix. *)
THEOREM Typing == Spec => []TypeOK
<1>1. FetchInv => TypeOK
  BY DEF FetchInv
<1>. QED
  BY <1>1, FetchInvariant, PTL

(* Every hop of every redirect chain, however long, went through the       *)
(* address guard, and no more redirects are followed than allowed.         *)
THEOREM EveryHopIsVetted == Spec => []HopsAreVetted
<1>1. FetchInv => HopsAreVetted
  BY DEF FetchInv
<1>. QED
  BY <1>1, FetchInvariant, PTL

-----------------------------------------------------------------------------
LEMMA EndRefines ==
  ASSUME OnItsWay, phase # "done",
         NEW how \in {"refused", "document", "busy", "unavailable"},
         NEW observed, NEW text, End(how, observed, text)
  PROVE  Document!Next
<1>1. Document!End(how)
  BY DEF OnItsWay, End, Document!End, Document!Losses
<1>2. how \in Document!Outcomes \ {"pending"}
  BY DEF Document!Outcomes
<1>. QED
  BY <1>1, <1>2 DEF Document!Next

LEMMA StepRefines == FetchInv /\ [Next]_vars => [Document!Next]_(Document!vars)
<1>. SUFFICES ASSUME FetchInv, [Next]_vars
              PROVE  Document!Next \/ UNCHANGED Document!vars
  OBVIOUS
<1>. USE DEF FetchInv
<1>1. CASE UNCHANGED ended
  BY <1>1 DEF ended, Document!vars
<1>2. CASE Guard
  <2>1. \/ UNCHANGED ended
        \/ phase = "guard" /\ \E s : End("refused", RefusedAs(s), <<>>)
    BY <1>2 DEF Guard
  <2>. QED
    BY <1>1, <2>1, EndRefines
<1>3. CASE Fail
  BY <1>3, EndRefines DEF Fail
<1>4. CASE Answer
  <2>1. /\ phase = "parse"
        /\ \E how \in {"document", "busy", "unavailable"}, observed \in {"checked", "unavailable"},
              text \in {<<>>, Received} : End(how, observed, text)
    BY <1>4 DEF Answer
  <2>. QED
    BY <2>1, EndRefines
<1>5. CASE Connect \/ Recv \/ EndOfRead \/ EndsEarly \/ Redirect \/ Finished \/ UNCHANGED vars
  BY <1>1, <1>5 DEF Connect, Recv, EndOfRead, EndsEarly, Redirect, Finished, vars
<1>. QED
  BY <1>2, <1>3, <1>4, <1>5 DEF Next, Step

(* A fetch ends once, and its loss is charged at whatever hop it strikes:  *)
(* the read loop and the redirects implement OneDocument.                  *)
THEOREM Refinement == Spec => FetchOnce
<1>1. Init => Document!Init
  BY DEF Init, Document!Init
<1>. QED
  BY <1>1, StepRefines, FetchInvariant, PTL DEF Spec, FetchOnce, Document!Spec

-----------------------------------------------------------------------------
LEMMA Below == OpToRel(<, Nat) = {ss \in Nat \X Nat : ss[1] < ss[2]}
BY Zenon DEF OpToRel

(* Induction over the numbers: a set that holds zero and each successor of *)
(* its members holds them all.                                             *)
LEMMA Induction ==
  ASSUME NEW P, 0 \in P, \A n \in Nat : n \in P => n + 1 \in P
  PROVE  Nat \subseteq P
<1>1. SUFFICES ASSUME Nat \ P # {} PROVE FALSE
  OBVIOUS
<1>2. \E m \in Nat \ P : \A y \in Nat \ P : <<y, m>> \notin OpToRel(<, Nat)
  BY <1>1, NatLessThanWellFounded, WFMin
<1>3. PICK m \in Nat \ P :
        \A y \in Nat \ P : <<y, m>> \notin {ss \in Nat \X Nat : ss[1] < ss[2]}
  BY <1>2, Below, Zenon
<1>4. \A y \in Nat \ P : ~(<<y, m>>[1] < <<y, m>>[2])
  BY <1>3, Zenon
<1>5. m # 0 /\ m - 1 \in Nat /\ (m - 1) + 1 = m
  OBVIOUS
<1>. QED
  BY <1>4, <1>5

Reads(text, f, n) ==
  f = [i \in 0 .. n |-> IF i = 0 THEN NoGroups ELSE ReadLine(f[i - 1], text[i])]

LEMMA ReadingExists ==
  ASSUME NEW text, NEW n \in Nat
  PROVE  \E f : Reads(text, f, n)
<1>. DEFINE P == {k \in Nat : \E f : Reads(text, f, k)}
<1>1. 0 \in P
  <2>. DEFINE f == [i \in 0 .. 0 |-> NoGroups]
  <2>1. f = [i \in 0 .. 0 |-> IF i = 0 THEN NoGroups ELSE ReadLine(f[i - 1], text[i])]
    OBVIOUS
  <2>2. Reads(text, f, 0)
    BY <2>1, Zenon DEF Reads
  <2>. QED
    BY <2>2
<1>2. ASSUME NEW k \in Nat, k \in P
      PROVE  k + 1 \in P
  <2>1. PICK f : Reads(text, f, k)
    BY <1>2
  <2>. DEFINE g == [i \in 0 .. k + 1 |-> IF i = k + 1 THEN ReadLine(f[k], text[k + 1]) ELSE f[i]]
  <2>2. f = [i \in 0 .. k |-> IF i = 0 THEN NoGroups ELSE ReadLine(f[i - 1], text[i])]
    BY <2>1, Zenon DEF Reads
  <2>3. \A i \in 0 .. k + 1 :
          g[i] = IF i = 0 THEN NoGroups ELSE ReadLine(g[i - 1], text[i])
    <3>1. \A i \in 0 .. k : i # k + 1 /\ i \in 0 .. k + 1 /\ (i # 0 => i - 1 \in 0 .. k)
      OBVIOUS
    <3>2. k + 1 # 0 /\ k + 1 \in 0 .. k + 1 /\ k \in 0 .. k /\ (k + 1) - 1 = k
      OBVIOUS
    <3>3. \A i \in 0 .. k + 1 : i = k + 1 \/ i \in 0 .. k
      OBVIOUS
    <3>4. \A i \in 0 .. k : g[i] = f[i]
      BY <3>1
    <3>5. g[k + 1] = ReadLine(f[k], text[k + 1])
      BY <3>2
    <3>6. \A i \in 0 .. k : f[i] = IF i = 0 THEN NoGroups ELSE ReadLine(f[i - 1], text[i])
      BY <2>2
    <3>. HIDE DEF g
    <3>7. \A i \in 0 .. k : i # 0 => g[i - 1] = f[i - 1]
      BY <3>1, <3>4
    <3>8. g[(k + 1) - 1] = f[k]
      BY <3>2, <3>4
    <3>. QED
      BY <3>2, <3>3, <3>4, <3>5, <3>6, <3>7, <3>8
  <2>4. g = [i \in 0 .. k + 1 |-> g[i]]
    OBVIOUS
  <2>. HIDE DEF g
  <2>5. g = [i \in 0 .. k + 1 |-> IF i = 0 THEN NoGroups ELSE ReadLine(g[i - 1], text[i])]
    BY <2>3, <2>4
  <2>6. Reads(text, g, k + 1)
    BY <2>5, Zenon DEF Reads
  <2>. QED
    BY <2>6
<1>. HIDE DEF P
<1>3. Nat \subseteq P
  BY <1>1, <1>2, Induction
<1>. QED
  BY <1>3 DEF P

LEMMA ReadingIs ==
  ASSUME NEW text \in Seq(Lines)
  PROVE  /\ Reading(text)[0] = NoGroups
         /\ \A i \in 1 .. Len(text) :
              Reading(text)[i] = ReadLine(Reading(text)[i - 1], text[i])
<1>1. Len(text) \in Nat
  BY LenProperties
<1>2. Reads(text, Reading(text), Len(text))
  <2>1. Reading(text) = CHOOSE f : Reads(text, f, Len(text))
    BY Zenon DEF Reading, Reads
  <2>. QED
    BY <1>1, <2>1, ReadingExists, Zenon
<1>3. Reading(text) = [i \in 0 .. Len(text) |->
        IF i = 0 THEN NoGroups ELSE ReadLine(Reading(text)[i - 1], text[i])]
  BY <1>2, Zenon DEF Reads
<1>. QED
  BY <1>1, <1>3

-----------------------------------------------------------------------------
Agent(text, i) == text[i].kind = "agent"
Rule(text, i) == text[i].kind \in {"allow", "disallow"}

(* Line j is in the run of agent lines that line i, or the next rule after *)
(* it, belongs to.                                                         *)
Open(text, j, i) ==
  Agent(text, j) /\ \A k, l \in j .. i : k < l /\ Rule(text, k) => ~Agent(text, l)

OpenAgents(text, i) == {text[j].of : j \in {j \in 1 .. i : Open(text, j, i)}}

Governed(text, i, agent, which) ==
  \E k \in 1 .. i :
    /\ Rule(text, k) /\ text[k].path = "/" /\ text[k].kind = which
    /\ \E j \in 1 .. k - 1 : Open(text, j, k - 1) /\ text[j].of = agent

Groups == Seq([agents : SUBSET {Bot, "*", "other"}, rules : SUBSET {"allow", "disallow"}])
Parses == [groups : Groups, expect_agent : BOOLEAN]

(* What the parser knows after i lines.                                    *)
KnowsAgents(text, i, st) ==
  \A a : (\E g \in DOMAIN st.groups : a \in st.groups[g].agents)
            <=> \E j \in 1 .. i : Agent(text, j) /\ text[j].of = a

KnowsLast(text, i, st) ==
  IF st.groups = <<>> THEN \A j \in 1 .. i : ~Agent(text, j)
                      ELSE LastGroup(st).agents = OpenAgents(text, i)

KnowsRun(text, i, st) ==
  /\ st.expect_agent <=>
       \E j \in 1 .. i : Agent(text, j) /\ \A k \in j .. i : ~Rule(text, k)
  /\ st.expect_agent => st.groups # <<>> /\ LastGroup(st).rules = {}

KnowsRules(text, i, st) ==
  \A a, r : (\E g \in DOMAIN st.groups : a \in st.groups[g].agents /\ r \in st.groups[g].rules)
               <=> Governed(text, i, a, r)

Knows(text, i, st) ==
  /\ st \in Parses
  /\ KnowsAgents(text, i, st) /\ KnowsLast(text, i, st)
  /\ KnowsRun(text, i, st) /\ KnowsRules(text, i, st)

LEMMA LineIs ==
  ASSUME NEW x \in Lines
  PROVE  \/ x.kind = "agent" /\ x.of \in {Bot, "*", "other"}
         \/ x.kind \in {"allow", "disallow"} /\ x.path \in {"/", "/x"}
         \/ x.kind = "noise"
BY DEF Lines

LEMMA SeqShape ==
  ASSUME NEW S, NEW s \in Seq(S)
  PROVE  /\ DOMAIN s = 1 .. Len(s) /\ Len(s) \in Nat /\ (s = <<>> <=> Len(s) = 0)
         /\ \A g \in 1 .. Len(s) : s[g] \in S
OBVIOUS

(* A sequence of groups changes at its end.                                *)
LEMMA GroupAdded ==
  ASSUME NEW gs \in Groups, NEW A \in SUBSET {Bot, "*", "other"}
  PROVE  LET hs == Append(gs, [agents |-> A, rules |-> {}])
         IN  /\ hs \in Groups /\ hs # <<>> /\ Len(hs) = Len(gs) + 1
             /\ DOMAIN hs = 1 .. Len(gs) + 1 /\ DOMAIN gs = 1 .. Len(gs) /\ Len(gs) \in Nat
             /\ hs[Len(gs) + 1] = [agents |-> A, rules |-> {}]
             /\ \A g \in 1 .. Len(gs) : hs[g] = gs[g]
<1>. DEFINE S == [agents : SUBSET {Bot, "*", "other"}, rules : SUBSET {"allow", "disallow"}]
            e == [agents |-> A, rules |-> {}]
<1>1. e \in S
  OBVIOUS
<1>2. gs \in Seq(S)
  BY DEF Groups
<1>3. Groups = Seq(S)
  BY DEF Groups
<1>. HIDE DEF S, e
<1>4. /\ Append(gs, e) \in Seq(S) /\ Append(gs, e) # <<>> /\ Len(Append(gs, e)) = Len(gs) + 1
      /\ DOMAIN Append(gs, e) = 1 .. Len(gs) + 1 /\ DOMAIN gs = 1 .. Len(gs) /\ Len(gs) \in Nat
      /\ Append(gs, e)[Len(gs) + 1] = e /\ \A g \in 1 .. Len(gs) : Append(gs, e)[g] = gs[g]
  BY <1>1, <1>2
<1>. QED
  BY <1>3, <1>4 DEF e

LEMMA LastChanged ==
  ASSUME NEW st \in Parses, st.groups # <<>>,
         NEW e \in [agents : SUBSET {Bot, "*", "other"}, rules : SUBSET {"allow", "disallow"}]
  PROVE  LET hs == WithLast(st, e)
             gs == st.groups
         IN  /\ hs \in Groups /\ hs # <<>> /\ Len(hs) = Len(gs)
             /\ DOMAIN hs = DOMAIN gs /\ DOMAIN gs = 1 .. Len(gs) /\ Len(gs) \in Nat \ {0}
             /\ hs[Len(gs)] = e
             /\ \A g \in 1 .. Len(gs) : g # Len(gs) => hs[g] = gs[g]
<1>. DEFINE S == [agents : SUBSET {Bot, "*", "other"}, rules : SUBSET {"allow", "disallow"}]
            gs == st.groups
            hs == [gs EXCEPT ![Len(gs)] = e]
<1>1. e \in S /\ gs \in Seq(S) /\ Groups = Seq(S) /\ gs # <<>>
  BY DEF Parses, Groups
<1>2. WithLast(st, e) = hs
  BY DEF WithLast
<1>. HIDE DEF S, gs
<1>3. DOMAIN gs = 1 .. Len(gs) /\ Len(gs) \in Nat \ {0} /\ Len(gs) \in 1 .. Len(gs)
      /\ \A g \in 1 .. Len(gs) : gs[g] \in S
  BY <1>1
<1>4. DOMAIN hs = 1 .. Len(gs) /\ hs[Len(gs)] = e /\ \A g \in 1 .. Len(gs) : g # Len(gs) => hs[g] = gs[g]
  BY <1>3
<1>5. hs \in [1 .. Len(gs) -> S]
  BY <1>1, <1>3
<1>6. hs \in Seq(S) /\ Len(hs) = Len(gs)
  BY <1>3, <1>5
<1>7. hs # <<>>
  BY <1>3, <1>6
<1>. QED
  BY <1>1, <1>2, <1>3, <1>4, <1>6, <1>7 DEF gs

LEMMA GroupChanged ==
  ASSUME NEW A, NEW R, NEW g \in [agents : A, rules : R], NEW T
  PROVE  /\ [g EXCEPT !.agents = @ \union T] = [agents |-> g.agents \union T, rules |-> g.rules]
         /\ [g EXCEPT !.rules = @ \union T] = [agents |-> g.agents, rules |-> g.rules \union T]
OBVIOUS

LEMMA KnowsNothing == ASSUME NEW text PROVE Knows(text, 0, NoGroups)
<1>1. NoGroups \in Parses /\ NoGroups.groups = <<>> /\ NoGroups.expect_agent = FALSE
      /\ DOMAIN NoGroups.groups = {}
  BY DEF NoGroups, Parses, Groups
<1>. QED
  BY <1>1 DEF Knows, KnowsAgents, KnowsLast, KnowsRun, KnowsRules, Governed

-----------------------------------------------------------------------------
(* Open from one line to the next.                                         *)
LEMMA OpenNext ==
  ASSUME NEW text, NEW i \in Nat, NEW j \in 1 .. i
  PROVE  /\ ~Agent(text, i + 1) => (Open(text, j, i + 1) <=> Open(text, j, i))
         /\ Agent(text, i + 1) =>
              (Open(text, j, i + 1) <=> Agent(text, j) /\ \A k \in j .. i : ~Rule(text, k))
<1>1. j \in Nat /\ j <= i
  OBVIOUS
<1>2. \A k : k \in j .. i + 1 <=> k \in j .. i \/ k = i + 1
  BY <1>1
<1>3. \A k \in j .. i : k \in Nat /\ k < i + 1 /\ ~(i + 1 < k)
  BY <1>1
<1>4. ~(i + 1 < i + 1)
  OBVIOUS
<1>5. Open(text, j, i + 1) <=>
        Open(text, j, i) /\ \A k \in j .. i : Rule(text, k) => ~Agent(text, i + 1)
  BY <1>2, <1>3, <1>4 DEF Open
<1>6. ASSUME Agent(text, j), \A k \in j .. i : ~Rule(text, k) PROVE Open(text, j, i)
  BY <1>6 DEF Open
<1>. QED
  BY <1>5, <1>6 DEF Open

LEMMA OpenHere ==
  ASSUME NEW text, NEW i \in Nat
  PROVE  Open(text, i, i) <=> Agent(text, i)
<1>1. \A k, l \in i .. i : ~(k < l)
  OBVIOUS
<1>. QED
  BY <1>1 DEF Open

LEMMA GovernedNext ==
  ASSUME NEW text, NEW i \in Nat, NEW a, NEW r
  PROVE  Governed(text, i + 1, a, r) <=>
           \/ Governed(text, i, a, r)
           \/ /\ Rule(text, i + 1) /\ text[i + 1].path = "/" /\ text[i + 1].kind = r
              /\ a \in OpenAgents(text, i)
<1>1. \A k : k \in 1 .. i + 1 <=> k \in 1 .. i \/ k = i + 1
  OBVIOUS
<1>2. (i + 1) - 1 = i
  OBVIOUS
<1>3. a \in OpenAgents(text, i) <=> \E j \in 1 .. i : Open(text, j, i) /\ text[j].of = a
  BY DEF OpenAgents
<1>. QED
  BY <1>1, <1>2, <1>3, Zenon DEF Governed

InRun(text, i) == \E j \in 1 .. i : Agent(text, j) /\ \A k \in j .. i : ~Rule(text, k)

LEMMA RunNext ==
  ASSUME NEW text, NEW i \in Nat
  PROVE  InRun(text, i + 1) <=>
           Agent(text, i + 1) \/ (InRun(text, i) /\ ~Rule(text, i + 1))
<1>1. ASSUME Agent(text, i + 1) PROVE InRun(text, i + 1)
  <2>1. i + 1 \in 1 .. i + 1 /\ \A k \in i + 1 .. i + 1 : k = i + 1
    OBVIOUS
  <2>2. ~Rule(text, i + 1)
    BY <1>1 DEF Agent, Rule
  <2>. QED
    BY <1>1, <2>1, <2>2 DEF InRun
<1>2. ASSUME NEW j \in 1 .. i, Agent(text, j), \A k \in j .. i : ~Rule(text, k), ~Rule(text, i + 1)
      PROVE  InRun(text, i + 1)
  <2>1. j \in 1 .. i + 1 /\ \A k \in j .. i + 1 : k \in j .. i \/ k = i + 1
    OBVIOUS
  <2>. QED
    BY <1>2, <2>1 DEF InRun
<1>3. ASSUME NEW j \in 1 .. i + 1, Agent(text, j), \A k \in j .. i + 1 : ~Rule(text, k),
             ~Agent(text, i + 1)
      PROVE  InRun(text, i) /\ ~Rule(text, i + 1)
  <2>1. j # i + 1
    BY <1>3
  <2>2. j \in 1 .. i /\ i + 1 \in j .. i + 1 /\ \A k \in j .. i : k \in j .. i + 1
    BY <2>1
  <2>. QED
    BY <1>3, <2>2 DEF InRun
<1>. QED
  BY <1>1, <1>2, <1>3 DEF InRun

LEMMA OpenAgentsNext ==
  ASSUME NEW text, NEW i \in Nat
  PROVE  OpenAgents(text, i + 1) =
           IF Agent(text, i + 1)
           THEN {text[i + 1].of} \union (IF InRun(text, i) THEN OpenAgents(text, i) ELSE {})
           ELSE OpenAgents(text, i)
<1>1. \A j : j \in 1 .. i + 1 <=> j \in 1 .. i \/ j = i + 1
  OBVIOUS
<1>2. Open(text, i + 1, i + 1) <=> Agent(text, i + 1)
  BY OpenHere
<1>3. \A a : a \in OpenAgents(text, i + 1) <=>
        \/ \E j \in 1 .. i : Open(text, j, i + 1) /\ text[j].of = a
        \/ Agent(text, i + 1) /\ text[i + 1].of = a
  BY <1>1, <1>2 DEF OpenAgents
<1>4. \A a : a \in OpenAgents(text, i) <=> \E j \in 1 .. i : Open(text, j, i) /\ text[j].of = a
  BY DEF OpenAgents
<1>5. CASE ~Agent(text, i + 1)
  BY <1>3, <1>4, <1>5, OpenNext
<1>6. CASE Agent(text, i + 1) /\ ~InRun(text, i)
  <2>1. \A j \in 1 .. i : ~Open(text, j, i + 1)
    BY <1>6, OpenNext DEF InRun
  <2>. QED
    BY <1>3, <1>6, <2>1
<1>7. CASE Agent(text, i + 1) /\ InRun(text, i)
  <2>1. PICK j0 \in 1 .. i : Agent(text, j0) /\ \A k \in j0 .. i : ~Rule(text, k)
    BY <1>7 DEF InRun
  <2>2. ~Rule(text, j0)
    BY <2>1 DEF Agent, Rule
  <2>3. ASSUME NEW j \in 1 .. i, Open(text, j, i), NEW k \in j .. i, Rule(text, k)
        PROVE  FALSE
    <3>1. k \in Nat /\ j \in Nat /\ j <= k /\ k <= i /\ j0 \in Nat /\ j0 <= i
      OBVIOUS
    <3>2. ~(j0 <= k)
      <4>1. j0 <= k => k \in j0 .. i
        BY <3>1
      <4>. QED
        BY <2>1, <2>3, <4>1
    <3>3. k < j0 /\ j0 \in j .. i
      BY <3>1, <3>2
    <3>. QED
      BY <2>1, <2>3, <3>3 DEF Open
  <2>4. \A j \in 1 .. i : Open(text, j, i) <=> Open(text, j, i + 1)
    BY <1>7, <2>3, OpenNext DEF Open
  <2>. QED
    BY <1>3, <1>4, <1>7, <2>4
<1>. QED
  BY <1>5, <1>6, <1>7

-----------------------------------------------------------------------------
(* One line more.                                                          *)
LEMMA KnowsNext ==
  ASSUME NEW text, NEW i \in Nat, NEW st, Knows(text, i, st), text[i + 1] \in Lines
  PROVE  Knows(text, i + 1, ReadLine(st, text[i + 1]))
<1>. DEFINE x == text[i + 1]
            to == ReadLine(st, text[i + 1])
            n == Len(st.groups)
<1>1. \/ x.kind = "agent" /\ x.of \in {Bot, "*", "other"}
      \/ x.kind \in {"allow", "disallow"} /\ x.path \in {"/", "/x"}
      \/ x.kind = "noise"
  BY LineIs
<1>2. /\ st \in Parses /\ st.groups \in Groups /\ st.expect_agent \in BOOLEAN
      /\ st = [groups |-> st.groups, expect_agent |-> st.expect_agent]
  BY DEF Knows, Parses
<1>3. /\ Agent(text, i + 1) <=> x.kind = "agent"
      /\ Rule(text, i + 1) <=> x.kind \in {"allow", "disallow"}
  BY DEF Agent, Rule
<1>4. st.expect_agent <=> InRun(text, i)
  BY DEF Knows, KnowsRun, InRun
<1>5. \A j : j \in 1 .. i + 1 <=> j \in 1 .. i \/ j = i + 1
  OBVIOUS
<1>6. \A a : (\E j \in 1 .. i + 1 : Agent(text, j) /\ text[j].of = a) <=>
              \/ \E j \in 1 .. i : Agent(text, j) /\ text[j].of = a
              \/ Agent(text, i + 1) /\ x.of = a
  BY <1>5
<1>7. DOMAIN st.groups = 1 .. n /\ n \in Nat /\ (st.groups = <<>> <=> n = 0)
      /\ \A g \in 1 .. n : st.groups[g] \in
           [agents : SUBSET {Bot, "*", "other"}, rules : SUBSET {"allow", "disallow"}]
  BY <1>2, SeqShape DEF Groups
<1>. DEFINE e == [agents |-> {x.of}, rules |-> {}]
            a1 == Append(st.groups, e)
            more == [agents |-> LastGroup(st).agents \union {x.of}, rules |-> LastGroup(st).rules]
            ruled == [agents |-> LastGroup(st).agents,
                      rules |-> LastGroup(st).rules \union Opens(x)]
<1>8. CASE x.kind = "agent" /\ ~st.expect_agent
  <2>1. to = [groups |-> a1, expect_agent |-> TRUE]
    BY <1>8, Zenon DEF ReadLine
  <2>2. /\ a1 \in Groups /\ a1 # <<>> /\ Len(a1) = n + 1 /\ DOMAIN a1 = 1 .. n + 1
        /\ a1[n + 1] = e /\ \A g \in 1 .. n : a1[g] = st.groups[g]
    BY <1>1, <1>2, <1>8, GroupAdded
  <2>3. to \in Parses /\ to.groups = a1 /\ to.expect_agent = TRUE
        /\ LastGroup(to).agents = {x.of} /\ LastGroup(to).rules = {}
    BY <2>1, <2>2 DEF Parses, LastGroup
  <2>4. \A g : g \in 1 .. n + 1 <=> g \in 1 .. n \/ g = n + 1
    BY <1>7
  <2>. HIDE DEF to, a1
  <2>5. KnowsAgents(text, i + 1, to)
    <3>1. \A a : (\E g \in DOMAIN a1 : a \in a1[g].agents) <=>
            (\E g \in 1 .. n : a \in st.groups[g].agents) \/ a = x.of
      BY <2>2, <2>4
    <3>. QED
      BY <3>1, <2>3, <1>3, <1>6, <1>7, <1>8 DEF Knows, KnowsAgents
  <2>6. KnowsLast(text, i + 1, to)
    BY <2>2, <2>3, <1>3, <1>4, <1>8, OpenAgentsNext DEF KnowsLast
  <2>7. KnowsRun(text, i + 1, to)
    BY <2>2, <2>3, <1>3, <1>8, RunNext DEF KnowsRun, InRun
  <2>8. KnowsRules(text, i + 1, to)
    <3>1. \A a, r : (\E g \in DOMAIN a1 : a \in a1[g].agents /\ r \in a1[g].rules) <=>
            \E g \in 1 .. n : a \in st.groups[g].agents /\ r \in st.groups[g].rules
      BY <2>2, <2>4
    <3>. QED
      BY <3>1, <2>3, <1>3, <1>7, <1>8, GovernedNext DEF Knows, KnowsRules
  <2>9. Knows(text, i + 1, to)
    BY <2>3, <2>5, <2>6, <2>7, <2>8 DEF Knows
  <2>. QED
    BY <2>9 DEF to
<1>9. CASE x.kind = "agent" /\ st.expect_agent
  <2>1. st.groups # <<>> /\ LastGroup(st).rules = {} /\ LastGroup(st) = st.groups[n] /\ n \in 1 .. n
        /\ LastGroup(st).agents = OpenAgents(text, i)
    BY <1>7, <1>9 DEF Knows, KnowsRun, KnowsLast, LastGroup
  <2>. DEFINE hs == WithLast(st, more)
  <2>2. to = [groups |-> hs, expect_agent |-> TRUE]
    <3>1. to = [st EXCEPT !.groups = WithLast(st, [LastGroup(st) EXCEPT !.agents = @ \union {x.of}])]
      BY <1>9, Zenon DEF ReadLine
    <3>2. [LastGroup(st) EXCEPT !.agents = @ \union {x.of}] = more
      <4>1. LastGroup(st) \in
              [agents : SUBSET {Bot, "*", "other"}, rules : SUBSET {"allow", "disallow"}]
        BY <1>7, <2>1
      <4>. QED
        BY <4>1, GroupChanged
    <3>3. to = [st EXCEPT !.groups = hs]
      BY <3>1, <3>2
    <3>. HIDE DEF hs, to
    <3>. QED
      BY <1>2, <1>9, <3>3 DEF Parses
  <2>3. more \in [agents : SUBSET {Bot, "*", "other"}, rules : SUBSET {"allow", "disallow"}]
    BY <1>1, <1>7, <1>9, <2>1
  <2>. HIDE DEF more
  <2>4. /\ hs \in Groups /\ hs # <<>> /\ Len(hs) = n /\ DOMAIN hs = 1 .. n
        /\ hs[n] = more /\ \A g \in 1 .. n : g # n => hs[g] = st.groups[g]
    BY <1>2, <1>7, <2>1, <2>3, LastChanged
  <2>5. more.agents = LastGroup(st).agents \union {x.of} /\ more.rules = {}
    BY <2>1 DEF more
  <2>. HIDE DEF hs, to
  <2>6. to \in Parses /\ to.groups = hs /\ to.expect_agent = TRUE /\ LastGroup(to) = more
    BY <2>2, <2>4 DEF Parses, LastGroup
  <2>7. KnowsAgents(text, i + 1, to)
    <3>1. \A a : (\E g \in DOMAIN hs : a \in hs[g].agents) <=>
            (\E g \in 1 .. n : a \in st.groups[g].agents) \/ a = x.of
      BY <2>1, <2>4, <2>5
    <3>. QED
      BY <3>1, <2>6, <1>3, <1>6, <1>7, <1>9 DEF Knows, KnowsAgents
  <2>8. KnowsLast(text, i + 1, to)
    <3>1. OpenAgents(text, i + 1) = {x.of} \union OpenAgents(text, i)
      BY <1>3, <1>4, <1>9, OpenAgentsNext, Zenon
    <3>. QED
      BY <2>1, <2>4, <2>5, <2>6, <3>1 DEF KnowsLast
  <2>9. KnowsRun(text, i + 1, to)
    BY <2>4, <2>5, <2>6, <1>3, <1>9, RunNext DEF KnowsRun, InRun
  <2>10. KnowsRules(text, i + 1, to)
    <3>1. \A a, r : (\E g \in DOMAIN hs : a \in hs[g].agents /\ r \in hs[g].rules) <=>
            \E g \in 1 .. n : a \in st.groups[g].agents /\ r \in st.groups[g].rules
      BY <2>1, <2>4, <2>5
    <3>. QED
      BY <3>1, <2>6, <1>3, <1>7, <1>9, GovernedNext DEF Knows, KnowsRules
  <2>11. Knows(text, i + 1, to)
    BY <2>6, <2>7, <2>8, <2>9, <2>10 DEF Knows
  <2>. QED
    BY <2>11 DEF to
<1>10. CASE x.kind \in {"allow", "disallow"} /\ st.groups # <<>>
  <2>1. LastGroup(st) = st.groups[n] /\ n \in 1 .. n /\ LastGroup(st).agents = OpenAgents(text, i)
    BY <1>7, <1>10 DEF Knows, KnowsRun, KnowsLast, LastGroup
  <2>. DEFINE hs == WithLast(st, ruled)
  <2>2. to = [groups |-> hs, expect_agent |-> FALSE]
    <3>1. [LastGroup(st) EXCEPT !.rules = @ \union Opens(x)] = ruled
      <4>1. LastGroup(st) \in
              [agents : SUBSET {Bot, "*", "other"}, rules : SUBSET {"allow", "disallow"}]
        BY <1>7, <2>1
      <4>. QED
        BY <4>1, GroupChanged
    <3>2. to = [groups |-> WithLast(st, [LastGroup(st) EXCEPT !.rules = @ \union Opens(x)]),
                expect_agent |-> FALSE]
      BY <1>10, Zenon DEF ReadLine
    <3>. QED
      BY <3>1, <3>2
  <2>3. ruled \in [agents : SUBSET {Bot, "*", "other"}, rules : SUBSET {"allow", "disallow"}]
    BY <1>1, <1>7, <1>10, <2>1 DEF Opens
  <2>. HIDE DEF ruled
  <2>4. /\ hs \in Groups /\ hs # <<>> /\ Len(hs) = n /\ DOMAIN hs = 1 .. n
        /\ hs[n] = ruled /\ \A g \in 1 .. n : g # n => hs[g] = st.groups[g]
    BY <1>2, <1>7, <1>10, <2>3, LastChanged
  <2>5. ruled.agents = LastGroup(st).agents /\ ruled.rules = LastGroup(st).rules \union Opens(x)
    BY DEF ruled
  <2>. HIDE DEF hs, to
  <2>6. to \in Parses /\ to.groups = hs /\ to.expect_agent = FALSE /\ LastGroup(to) = ruled
    BY <2>2, <2>4 DEF Parses, LastGroup
  <2>7. KnowsAgents(text, i + 1, to)
    <3>1. \A a : (\E g \in DOMAIN hs : a \in hs[g].agents) <=>
            \E g \in 1 .. n : a \in st.groups[g].agents
      BY <2>1, <2>4, <2>5
    <3>. QED
      BY <3>1, <2>6, <1>3, <1>6, <1>7, <1>10 DEF Knows, KnowsAgents
  <2>8. KnowsLast(text, i + 1, to)
    BY <2>1, <2>4, <2>5, <2>6, <1>3, <1>10, OpenAgentsNext DEF KnowsLast
  <2>9. KnowsRun(text, i + 1, to)
    BY <2>6, <1>3, <1>10, RunNext DEF KnowsRun, InRun
  <2>10. KnowsRules(text, i + 1, to)
    <3>1. \A a, r : (\E g \in DOMAIN hs : a \in hs[g].agents /\ r \in hs[g].rules) <=>
            \/ \E g \in 1 .. n : a \in st.groups[g].agents /\ r \in st.groups[g].rules
            \/ a \in OpenAgents(text, i) /\ r \in Opens(x)
      BY <2>1, <2>4, <2>5
    <3>2. \A r : r \in Opens(x) <=> x.path = "/" /\ x.kind = r
      BY DEF Opens
    <3>3. \A a, r : Governed(text, i + 1, a, r) <=>
            Governed(text, i, a, r) \/ (a \in OpenAgents(text, i) /\ r \in Opens(x))
      BY <3>2, <1>3, <1>10, GovernedNext
    <3>4. \A a, r : (\E g \in 1 .. n : a \in st.groups[g].agents /\ r \in st.groups[g].rules)
            <=> Governed(text, i, a, r)
      BY <1>7, Zenon DEF Knows, KnowsRules
    <3>. QED
      BY <3>1, <3>3, <3>4, <2>6, Zenon DEF KnowsRules
  <2>11. Knows(text, i + 1, to)
    BY <2>6, <2>7, <2>8, <2>9, <2>10 DEF Knows
  <2>. QED
    BY <2>11 DEF to
<1>11. CASE x.kind = "noise" \/ (x.kind \in {"allow", "disallow"} /\ st.groups = <<>>)
  <2>1. to = st
    BY <1>11, Zenon DEF ReadLine
  <2>2. ~Agent(text, i + 1)
    BY <1>3, <1>11
  <2>3. Rule(text, i + 1) => OpenAgents(text, i) = {} /\ ~InRun(text, i)
    BY <1>3, <1>11 DEF Knows, KnowsLast, OpenAgents, Open, InRun
  <2>4. KnowsAgents(text, i + 1, st)
    BY <1>6, <2>2 DEF Knows, KnowsAgents
  <2>5. KnowsLast(text, i + 1, st)
    BY <1>5, <2>2, OpenAgentsNext DEF Knows, KnowsLast
  <2>6. KnowsRun(text, i + 1, st)
    BY <1>4, <2>2, <2>3, RunNext DEF Knows, KnowsRun, InRun
  <2>7. KnowsRules(text, i + 1, st)
    BY <2>3, GovernedNext DEF Knows, KnowsRules
  <2>8. Knows(text, i + 1, st)
    BY <2>4, <2>5, <2>6, <2>7 DEF Knows
  <2>. QED
    BY <2>1, <2>8
<1>. QED
  BY <1>1, <1>2, <1>8, <1>9, <1>10, <1>11

LEMMA ReadingKnows ==
  ASSUME NEW text \in Seq(Lines)
  PROVE  Knows(text, Len(text), Reading(text)[Len(text)])
<1>. DEFINE P == {i \in Nat : i <= Len(text) => Knows(text, i, Reading(text)[i])}
<1>1. Len(text) \in Nat /\ \A i \in 1 .. Len(text) : text[i] \in Lines
  OBVIOUS
<1>2. 0 \in P
  BY KnowsNothing, ReadingIs
<1>3. ASSUME NEW i \in Nat, i \in P
      PROVE  i + 1 \in P
  <2>1. SUFFICES ASSUME i + 1 <= Len(text)
                 PROVE  Knows(text, i + 1, Reading(text)[i + 1])
    OBVIOUS
  <2>2. i <= Len(text) /\ i + 1 \in 1 .. Len(text) /\ (i + 1) - 1 = i
    BY <1>1, <2>1
  <2>3. Knows(text, i, Reading(text)[i])
    BY <1>3, <2>2
  <2>4. Reading(text)[i + 1] = ReadLine(Reading(text)[i], text[i + 1])
    BY <2>2, ReadingIs
  <2>5. Knows(text, i + 1, ReadLine(Reading(text)[i], text[i + 1]))
    BY <1>1, <2>2, <2>3, KnowsNext
  <2>. QED
    BY <2>4, <2>5
<1>. HIDE DEF P
<1>4. Len(text) \in P
  BY <1>1, <1>2, <1>3, Induction
<1>. QED
  BY <1>1, <1>4 DEF P

(* What the property says of lines is what the parser tracks.              *)
LEMMA GovernsIsOpen ==
  ASSUME NEW text, NEW i \in Nat, NEW j \in Nat
  PROVE  Governs(text, j, i) <=> j < i /\ Rule(text, i) /\ Open(text, j, i - 1)
<1>1. /\ \A k : Is(text, k, {"agent"}) <=> Agent(text, k)
      /\ \A k : Is(text, k, {"allow", "disallow"}) <=> Rule(text, k)
      /\ \A k : ~(Agent(text, k) /\ Rule(text, k))
  BY DEF Is, Agent, Rule
<1>2. ASSUME j < i, Rule(text, i)
      PROVE  (\A k \in j .. i : Rule(text, k) => ~\E l \in k .. i : Agent(text, l)) <=>
             \A k, l \in j .. i - 1 : k < l /\ Rule(text, k) => ~Agent(text, l)
  <2>1. ASSUME NEW k \in j .. i - 1, NEW l \in j .. i - 1, k < l
        PROVE  k \in j .. i /\ l \in k .. i
    BY <2>1
  <2>2. ASSUME NEW k \in j .. i, NEW l \in k .. i, k # l, l # i
        PROVE  k \in j .. i - 1 /\ l \in j .. i - 1 /\ k < l
    BY <2>2
  <2>3. ASSUME NEW k \in j .. i, NEW l \in k .. i, Rule(text, k), Agent(text, l)
        PROVE  k # l /\ l # i
    BY <1>1, <1>2, <2>3
  <2>. QED
    BY <2>1, <2>2, <2>3
<1>. QED
  BY <1>1, <1>2 DEF Governs, Open

LEMMA RulesForAre ==
  ASSUME NEW text \in Seq(Lines), NEW a, NEW r
  PROVE  r \in RulesFor(text, a) <=> Governed(text, Len(text), a, r)
<1>1. Len(text) \in Nat /\ DOMAIN text = 1 .. Len(text)
  OBVIOUS
<1>2. \A k : Is(text, k, {"allow", "disallow"}) <=> Rule(text, k)
  BY DEF Is, Rule
<1>3. ASSUME NEW i \in DOMAIN text, Rule(text, i)
      PROVE  (\E j \in DOMAIN text : Governs(text, j, i) /\ text[j].of = a) <=>
             \E j \in 1 .. i - 1 : Open(text, j, i - 1) /\ text[j].of = a
  <2>1. i \in Nat /\ i <= Len(text)
    BY <1>1
  <2>2. \A j \in DOMAIN text : j \in Nat /\ (j < i => j \in 1 .. i - 1)
    BY <1>1, <2>1
  <2>3. \A j \in 1 .. i - 1 : j \in Nat /\ j \in DOMAIN text /\ j < i
    BY <1>1, <2>1
  <2>. QED
    BY <1>3, <2>1, <2>2, <2>3, GovernsIsOpen
<1>4. r \in RulesFor(text, a) <=>
        \E i \in DOMAIN text :
          /\ Rule(text, i) /\ text[i].path = "/" /\ text[i].kind = r
          /\ \E j \in DOMAIN text : Governs(text, j, i) /\ text[j].of = a
  BY <1>2, Zenon DEF RulesFor
<1>. QED
  BY <1>1, <1>3, <1>4, Zenon DEF Governed

(* The parser of robots.txt finds what RFC 9309 says, in every file.       *)
LEMMA RobotsAreRead ==
  ASSUME NEW text \in Seq(Lines)
  PROVE  _robots_blocks_ai_bots(text) <=> BlockedIn(text)
<1>. DEFINE st == Reading(text)[Len(text)]
            naming(a) == {g \in Range(st.groups) : a \in g.agents}
            governing == IF naming(Bot) # {} THEN naming(Bot) ELSE naming("*")
            rules == UNION {g.rules : g \in governing}
            named == \E j \in DOMAIN text : Is(text, j, {"agent"}) /\ text[j].of = Bot
            agent == IF named THEN Bot ELSE "*"
<1>1. Knows(text, Len(text), st)
  BY ReadingKnows
<1>2. DOMAIN text = 1 .. Len(text)
  OBVIOUS
<1>3. _robots_blocks_ai_bots(text) <=> "disallow" \in rules /\ "allow" \notin rules
  BY Zenon DEF _robots_blocks_ai_bots
<1>4. BlockedIn(text) <=>
        "disallow" \in RulesFor(text, agent) /\ "allow" \notin RulesFor(text, agent)
  BY Zenon DEF BlockedIn
<1>. HIDE DEF st
<1>5. \A a : naming(a) # {} <=> \E g \in DOMAIN st.groups : a \in st.groups[g].agents
  BY DEF Range
<1>6. naming(Bot) # {} <=> named
  BY <1>1, <1>2, <1>5 DEF Knows, KnowsAgents, Agent, Is
<1>7. governing = naming(agent)
  BY <1>6
<1>8. \A r : r \in rules <=>
        \E g \in DOMAIN st.groups : agent \in st.groups[g].agents /\ r \in st.groups[g].rules
  BY <1>7 DEF Range
<1>. HIDE DEF agent
<1>9. \A r : r \in rules <=> Governed(text, Len(text), agent, r)
  BY <1>1, <1>8, Zenon DEF Knows, KnowsRules
<1>10. \A r : r \in rules <=> r \in RulesFor(text, agent)
  BY <1>9, RulesForAre
<1>. QED
  BY <1>3, <1>4, <1>10, Zenon

-----------------------------------------------------------------------------
(* The document of a conclusive read is the one that arrived, cut at the   *)
(* cap, and where the stream did not end early that is the one served.     *)
Checked ==
  observation = "checked" /\ ~charged =>
    /\ phase = "done" /\ reply.status # "garbled"
    /\ got \in 0 .. Total /\ (got >= Cap \/ got = Total)
    /\ body = IF Usable THEN Received ELSE <<>>

CheckInv ==
  /\ Checked
  /\ phase # "done" => observation = "none"
  /\ phase = "parse" => got >= Cap \/ got = Total
  /\ ~cut => reply = served

LEMMA CheckInit == Init => CheckInv
BY DEF Init, CheckInv, Checked

LEMMA CheckStep == FetchInv /\ CheckInv /\ [Next]_vars => CheckInv'
<1>. SUFFICES ASSUME FetchInv, CheckInv, [Next]_vars
              PROVE  CheckInv'
  OBVIOUS
<1>1. CASE Guard
  <2>1. /\ phase = "guard" /\ UNCHANGED stream
        /\ \/ phase' = "connect" /\ UNCHANGED ended
           \/ \E s : End("refused", RefusedAs(s), <<>>)
    BY <1>1 DEF Guard
  <2>2. \A s : RefusedAs(s) # "checked"
    BY DEF RefusedAs
  <2>. QED
    BY <2>1, <2>2 DEF CheckInv, Checked, End, ended, stream
<1>2. CASE Connect
  BY <1>2 DEF Connect, CheckInv, Checked, ended
<1>3. CASE Recv
  BY <1>3 DEF Recv, CheckInv, Checked, request, ended
<1>4. CASE EndOfRead
  BY <1>4 DEF EndOfRead, CheckInv, Checked, Total, Extent, stream, ended
<1>9. CASE EndsEarly
  BY <1>9 DEF EndsEarly, CheckInv, Checked, ended
<1>5. CASE Fail
  BY <1>5 DEF Fail, CheckInv, Checked, End, stream
<1>6. CASE Redirect
  BY <1>6 DEF Redirect, CheckInv, Checked, ended, stream
<1>7. CASE Answer
  <2>1. /\ phase = "parse" /\ UNCHANGED <<kind, addr, host, hops, stream, visited>>
        /\ \/ End("unavailable", "unavailable", <<>>)
           \/ End("busy", "checked", <<>>)
           \/ /\ reply.status # "garbled"
              /\ End("document", "checked", IF Usable THEN Received ELSE <<>>)
    BY <1>7 DEF Answer
  <2>2. got \in 0 .. Total /\ (got >= Cap \/ got = Total)
    <3>1. InReply
      BY DEF FetchInv
    <3>2. phase = "parse" => got >= Cap \/ got = Total
      BY DEF CheckInv
    <3>. QED
      BY <2>1, <3>1, <3>2, Zenon DEF InReply
  <2>3. CASE End("unavailable", "unavailable", <<>>) \/ End("busy", "checked", <<>>)
    <3>1. phase' = "done" /\ (observation' # "checked" \/ charged' = TRUE)
      BY <2>3 DEF End
    <3>. QED
      BY <2>1, <3>1 DEF CheckInv, Checked, stream
  <2>4. CASE reply.status # "garbled"
             /\ End("document", "checked", IF Usable THEN Received ELSE <<>>)
    BY <2>1, <2>2, <2>4 DEF CheckInv, Checked, End, Usable, Received, Total, Extent, stream
  <2>. QED
    BY <2>1, <2>3, <2>4
<1>8. CASE Finished \/ UNCHANGED vars
  BY <1>8 DEF Finished, vars, CheckInv, Checked, Usable, Received, Total, Extent, request,
              stream, ended
<1>. QED
  BY <1>1, <1>2, <1>3, <1>4, <1>5, <1>6, <1>7, <1>8, <1>9 DEF Next, Step

(* A document handed over with nothing charged is the one that arrived,   *)
(* cut at the cap at most.                                                *)
THEOREM CheckInvariant == Spec => []CheckInv
BY CheckInit, CheckStep, FetchInvariant, PTL DEF Spec

(* An empty file blocks nobody.                                            *)
LEMMA NothingBlocks == ~_robots_blocks_ai_bots(<<>>)
<1>1. <<>> \in Seq(Lines) /\ DOMAIN <<>> = {}
  BY EmptySeq
<1>2. \A a : RulesFor(<<>>, a) = {}
  BY <1>1 DEF RulesFor
<1>. QED
  BY <1>1, <1>2, RobotsAreRead DEF BlockedIn

(* The robots finding of a read that nothing was charged for is true of    *)
(* the file the host serves, for every file that fits under the cap, every *)
(* way to cut it into packets, and every order of its lines, provided its  *)
(* stream did not end before it.                                           *)
THEOREM RobotsFindingIsTrue == Spec => []ConclusiveIsTrue
<1>1. FetchInv /\ CheckInv => ConclusiveIsTrue
  <2>. SUFFICES ASSUME FetchInv, CheckInv, kind = "robots", observation = "checked", ~charged,
                       Extent(served) <= Cap, ~cut
                PROVE  Blocks <=> served.status = "200" /\ BlockedIn(served.lines)
    BY DEF ConclusiveIsTrue
  <2>s. reply = served
    BY DEF CheckInv
  <2>1. /\ phase = "done" /\ reply.status # "garbled"
        /\ got \in 0 .. Total /\ (got >= Cap \/ got = Total)
        /\ body = IF reply.status = "200" THEN Received ELSE <<>>
    BY DEF CheckInv, Checked, Usable
  <2>2. reply.lines \in Seq(Lines) /\ Len(reply.lines) \in Nat
    BY ReplyType, LenProperties DEF FetchInv, TypeOK
  <2>3. got = Len(reply.lines) + 1
    BY <2>1, <2>2, <2>s, FetchAssumption DEF Total, Extent
  <2>4. Received = reply.lines
    <3>1. \A s \in Seq(Lines) : SubSeq(s, 1, Len(s)) = s
      OBVIOUS
    <3>2. got - 1 = Len(reply.lines)
      BY <2>2, <2>3
    <3>. QED
      BY <2>2, <3>1, <3>2 DEF Received
  <2>5. CASE reply.status = "200"
    BY <2>s, <2>1, <2>2, <2>4, <2>5, RobotsAreRead DEF Blocks
  <2>6. CASE reply.status # "200"
    BY <2>s, <2>1, <2>6, NothingBlocks DEF Blocks
  <2>. QED
    BY <2>5, <2>6
<1>. QED
  BY <1>1, FetchInvariant, CheckInvariant, PTL
=============================================================================
