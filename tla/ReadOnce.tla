------------------------------ MODULE ReadOnce -------------------------------
(***************************************************************************)
(* What the audit's DNS adapter promises its checks: within one run every  *)
(* key (normalized name and type) has at most one observation, every read  *)
(* of the key returns that observation, and the evidence ledger gains a    *)
(* row in the same step in which a scope is handed a failed observation.   *)
(***************************************************************************)
EXTENDS DnsAnswer

CONSTANTS Keys, Scopes, NoScope

VARIABLES
  observed,   (* the observation of each key, or Unread                    *)
  returned,   (* history of the run: the reads answered so far             *)
  ledger      (* <<scope, key>> rows: the scope consumed a failed key      *)

vars == <<observed, returned, ledger>>

Reads == [scope : Scopes \union {NoScope}, key : Keys, answer : Answers]

Init ==
  /\ observed = [k \in Keys |-> Unread]
  /\ returned = {}
  /\ ledger = {}

Observe(k) ==
  /\ observed[k] = Unread
  /\ \E a \in Answers : observed' = [observed EXCEPT ![k] = a]
  /\ UNCHANGED <<returned, ledger>>

Return(s, k) ==
  /\ observed[k] # Unread
  /\ returned' = returned \union
                   {[scope |-> s, key |-> k, answer |-> observed[k]]}
  /\ ledger' = ledger \union
                 (IF s # NoScope /\ Failed(observed[k]) THEN {<<s, k>>} ELSE {})
  /\ UNCHANGED observed

NewRun ==
  /\ observed' = [k \in Keys |-> Unread]
  /\ returned' = {}
  /\ ledger' = {}

Next ==
  \/ \E k \in Keys : Observe(k)
  \/ \E s \in Scopes \union {NoScope}, k \in Keys : Return(s, k)
  \/ NewRun

Spec == Init /\ [][Next]_vars
-----------------------------------------------------------------------------
(* README: "DNS reads are cached once per normalized name and type for the *)
(* audit, so the findings and their evidence ledger share one observation":*)
(* two reads of one key never disagree.                                    *)
OneObservation ==
  \A x, y \in returned : x.key = y.key => x.answer = y.answer

(* The rows a set of reads is to be charged with.                          *)
Charged(reads) ==
  { <<x.scope, x.key>> :
      x \in { y \in reads : y.scope # NoScope /\ Failed(y.answer) } }

(* The ledger names exactly the failed reads of the scopes that made them: *)
(* none is lost, whichever thread did the backend read, and none invented. *)
LedgerExact == ledger = Charged(returned)
=============================================================================
