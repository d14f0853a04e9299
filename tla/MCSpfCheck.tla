----------------------------- MODULE MCSpfCheck -----------------------------
(* Instance of SpfReceiver for TLC: the audited name d and two others, of  *)
(* which y looks like "all"; records that share, repeat, loop and dangle.  *)
EXTENDS SpfReceiver

CONSTANTS d, x, y

Mech == [kind |-> "mech", ptr |-> FALSE]
Ptr == [kind |-> "mech", ptr |-> TRUE]
Adorned == [kind |-> "adorned", ptr |-> FALSE]
Include(t) == [kind |-> "include", to |-> t]
Qualified(t) == [kind |-> "qualified", to |-> t]
Redirect(t) == [kind |-> "redirect", to |-> t, semi |-> FALSE, loud |-> FALSE]
RedirectSemi(t) == [Redirect(t) EXCEPT !.semi = TRUE]
RedirectLoud(t) == [Redirect(t) EXCEPT !.loud = TRUE]
All(q) == [kind |-> "all", q |-> q, loud |-> FALSE]
AllLoud(q) == [All(q) EXCEPT !.loud = TRUE]

MCRecords ==
  {<<Mech, All("-")>>, <<Include(x), AllLoud("~")>>, <<Include(y), All("-")>>,
   <<Include(x), Include(y)>>, <<Include(x), Include(x), All("+")>>,
   <<Redirect(x)>>, <<RedirectSemi(y)>>, <<Include(d), Mech>>,
   <<Qualified(y), Ptr, Redirect(d)>>, <<Include(y), Redirect(x)>>,
   <<All("?"), Redirect(y)>>, <<Mech, Adorned>>, <<RedirectLoud(x)>>}
=============================================================================
