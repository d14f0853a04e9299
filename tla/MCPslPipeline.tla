--------------------------- MODULE MCPslPipeline ---------------------------
(* An instance of PslPipeline for TLC: a list with every kind of rule, one *)
(* with another ICANN rule, and one with a malformed rule; every course of *)
(* three events, and some longer ones.                                     *)
EXTENDS PslPipeline

Entry(k, n) == [kind |-> k, labels |-> n]
MCIcann == <<Entry("wildcard", <<"ck">>), Entry("exception", <<"www", "ck">>)>>
MCPrivate == <<Entry("exact", <<"uk", "com">>)>>
MCFirst == [ICANN |-> MCIcann, PRIVATE |-> MCPrivate]
MCBroken == [MCFirst EXCEPT !.ICANN = Append(@, Entry("malformed", <<"uk">>))]
MCSecond == [MCFirst EXCEPT !.ICANN = <<Entry("exact", <<"ck">>)>>]
MCSnapshots == <<MCFirst, MCSecond, MCBroken>>
MCLong ==
  {<<"generate", "publish", "generate", "tick", "generate">>,
   <<"generate", "generate", "artifact", "provenance">>,
   <<"publish", "generate", "code", "cases">>}
MCCourses ==
  UNION {[1 .. n -> Events] : n \in 0 .. 3}
    \union UNION {{SubSeq(c, 1, n) : n \in 4 .. Len(c)} : c \in MCLong}
MCOwn == {<<"PRIVATE", Entry("exact", <<"a b", "com">>)>>}

Vector(n, e) == [domain |-> n, expected |-> e]
MCNamed == Vector(<<"www", "uk", "com">>, <<"www", "uk", "com">>)
MCOfficial == {MCNamed, Vector(<<"www", "ck">>, <<"www", "ck">>)}
MCNames ==
  {<<odd, "com">> : odd \in Strange \union Overlong} \union [1 .. 2 -> {"uk", "com", "ck"}]
  \union {<<"www", "ck">>, <<"uk", "www", "ck">>, <<"www", "uk", "ck">>, <<"www", "uk", "com">>}
MCCases == MCOfficial \union {Vector(<<"uk", "com">>, None)}
=============================================================================
