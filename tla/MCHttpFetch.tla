---------------------------- MODULE MCHttpFetch ----------------------------
(* Instance of HttpFetch for TLC: two hosts, one redirect followed, files  *)
(* of up to MaxLines lines, one of them longer than the cap.               *)
EXTENDS HttpFetch

CONSTANTS
  h1, h2,
  MaxLines   (* bound of the model                                        *)

Agent(a) == [kind |-> "agent", of |-> a]
Rule(k, p) == [kind |-> k, path |-> p]
SomeLines ==
  {Agent(Bot), Agent("*"), Rule("disallow", "/"), Rule("allow", "/"),
   Rule("disallow", "/x"), [kind |-> "noise"]}

(* Of the files longer than the cap, those that end in one rule.           *)
MCTexts ==
  UNION {[1 .. n -> SomeLines] : n \in 0 .. MaxLines - 1} \union
  {Append(text, Rule("disallow", "/")) : text \in [1 .. MaxLines - 1 -> SomeLines]}
=============================================================================
