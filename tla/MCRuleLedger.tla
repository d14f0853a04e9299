---------------------------- MODULE MCRuleLedger ----------------------------
(* Instance of RuleLedger for TLC: a sound policy and one for each way to  *)
(* differ from it.  A host pattern may begin with "*"; max_age -1 is none. *)
EXTENDS RuleLedger

MCHosts == [real |-> {<<"mx", "p">>}, mixed |-> {<<"mx", "p">>, <<"mx", "eu", "q">>}]

Sound ==
  [version |-> "STSv1", mode |-> "enforce", max_age |-> 31557600,
   mx |-> {<<"mx", "p">>, <<"*", "eu", "q">>}]

MCPolicyFile ==
  [sound      |-> Sound,
   wildcards  |-> [Sound EXCEPT !.mx = {<<"*", "p">>, <<"*", "q">>}],
   no_mx      |-> [Sound EXCEPT !.mx = {}],
   testing    |-> [Sound EXCEPT !.mode = "testing", !.max_age = 1],
   off        |-> [Sound EXCEPT !.mode = "none", !.mx = {}],
   no_mode    |-> [Sound EXCEPT !.mode = ""],
   no_version |-> [Sound EXCEPT !.version = ""],
   no_age     |-> [Sound EXCEPT !.max_age = -1],
   too_old    |-> [Sound EXCEPT !.max_age = 31557601]]
=============================================================================
