------------------------------ MODULE DnsCache -------------------------------
(***************************************************************************)
(* audit.py's dig(): the single-flight, read-once DNS adapter the audit's  *)
(* worker threads share, on top of resolver.query (an lru_cache keyed by   *)
(* the name as the caller spelled it) and of the META side channel.  A     *)
(* step is one critical section of _trace_lock, or one call of the         *)
(* resolver made outside it.                                               *)
(***************************************************************************)
EXTENDS Resolver, Naturals

CONSTANTS
  Readers,    (* worker threads of the check pool and of the DKIM sweep    *)
  Keys,       (* normalized names and types                                *)
  KeyOf,      (* the key of each spelling                                  *)
  Scopes, NoScope,
  NoCall,
  MaxReads,   (* bound: reads of one thread in one run                     *)
  MaxRuns     (* bound: audits of one process                              *)

ASSUME CacheAssumption ==
  /\ KeyOf \in [Names -> Keys]
  /\ NoScope \notin Scopes
  /\ MaxReads \in Nat
  /\ MaxRuns \in Nat

VARIABLES
  pc,         (* where each thread is in dig()                             *)
  call,       (* the arguments and the evaluation scope of its call        *)
  got,        (* its locals rows and metadata                              *)
  cache,      (* _dns_cache                                                *)
  inflight,   (* _dns_inflight                                             *)
  ledger,     (* _dns_failures, as a set of <<scope, key>>                 *)
  memo,       (* resolver.query's lru_cache                                *)
  made,       (* reads each thread made in this run                        *)
  runs,       (* runs started                                              *)
  backendReads, (* history: backend calls per key in this run              *)
  returned    (* history: what the calls of this run returned              *)

vars == <<pc, call, got, cache, inflight, ledger, memo, META, made, runs,
          backendReads, returned>>

Calls == [name : Names, scope : Scopes \union {NoScope}]
Blank == [rows |-> Empty, meta |-> NoMeta]
Places == {"idle", "enter", "waiting", "query", "backend", "meta", "publish",
           "note"}

KeyRead(r) == KeyOf[call[r].name]
Goto(r, place) == pc' = [pc EXCEPT ![r] = place]

Init ==
  /\ pc = [r \in Readers |-> "idle"]
  /\ call = [r \in Readers |-> NoCall]
  /\ got = [r \in Readers |-> Blank]
  /\ cache = [k \in Keys |-> Unread]
  /\ inflight = {}
  /\ ledger = {}
  /\ memo = [n \in Names |-> Unread]
  /\ META = [n \in Names |-> NoMeta]
  /\ made = [r \in Readers |-> 0]
  /\ runs = 1
  /\ backendReads = [k \in Keys |-> 0]
  /\ returned = {}

(* A check, on thread r, calls dig(n) under its evaluation scope.          *)
Call(r, n, s) ==
  /\ pc[r] = "idle"
  /\ made[r] < MaxReads
  /\ made' = [made EXCEPT ![r] = @ + 1]
  /\ call' = [call EXCEPT ![r] = [name |-> n, scope |-> s]]
  /\ Goto(r, "enter")
  /\ UNCHANGED <<got, cache, inflight, ledger, memo, META, runs, backendReads,
                 returned>>

(* First critical section: wait, hit the cache, or claim the key.          *)
EnterWait(r) ==
  /\ pc[r] = "enter"
  /\ KeyRead(r) \in inflight
  /\ cache[KeyRead(r)] = Unread
  /\ Goto(r, "waiting")
  /\ UNCHANGED <<call, got, cache, inflight, ledger, memo, META, made, runs,
                 backendReads, returned>>

(* Mutant of EnterHit: the failure is charged only to the thread that did  *)
(* the backend read.                                                       *)
EnterHitUncharged(r) ==
  /\ pc[r] = "enter"
  /\ cache[KeyRead(r)] # Unread
  /\ returned' = returned \union
       {[scope |-> call[r].scope, key |-> KeyRead(r), answer |-> cache[KeyRead(r)]]}
  /\ call' = [call EXCEPT ![r] = NoCall]
  /\ Goto(r, "idle")
  /\ UNCHANGED <<got, cache, inflight, ledger, memo, META, made, runs, backendReads>>

EnterHit(r) ==
  /\ pc[r] = "enter"
  /\ cache[KeyRead(r)] # Unread
  /\ got' = [got EXCEPT ![r] = cache[KeyRead(r)]]
  /\ Goto(r, "note")
  /\ UNCHANGED <<call, cache, inflight, ledger, memo, META, made, runs,
                 backendReads, returned>>

(* Mutant of EnterClaim: no in-flight check, as with a plain cache.        *)
EnterClaimRacing(r) ==
  /\ pc[r] = "enter"
  /\ cache[KeyRead(r)] = Unread
  /\ inflight' = inflight \union {KeyRead(r)}
  /\ Goto(r, "query")
  /\ UNCHANGED <<call, got, cache, ledger, memo, META, made, runs, backendReads,
                 returned>>

EnterClaim(r) ==
  /\ pc[r] = "enter"
  /\ KeyRead(r) \notin inflight
  /\ cache[KeyRead(r)] = Unread
  /\ inflight' = inflight \union {KeyRead(r)}
  /\ Goto(r, "query")
  /\ UNCHANGED <<call, got, cache, ledger, memo, META, made, runs, backendReads,
                 returned>>

(* resolver.query: the memo answers, or the backend is called.             *)
QueryMemo(r) ==
  /\ pc[r] = "query"
  /\ memo[call[r].name] # Unread
  /\ got' = [got EXCEPT ![r] = [rows |-> memo[call[r].name], meta |-> NoMeta]]
  /\ Goto(r, "meta")
  /\ UNCHANGED <<call, cache, inflight, ledger, memo, META, made, runs,
                 backendReads, returned>>

QueryBackend(r) ==
  /\ pc[r] = "query"
  /\ memo[call[r].name] = Unread
  /\ backendReads' = [backendReads EXCEPT ![KeyRead(r)] = @ + 1]
  /\ Goto(r, "backend")
  /\ UNCHANGED <<call, got, cache, inflight, ledger, memo, META, made, runs,
                 returned>>

(* The backend answers: it records metadata, then query() memoizes rows.   *)
BackendAnswers(r, rows, status) ==
  /\ pc[r] = "backend"
  /\ Recorded(call[r].name, status)
  /\ memo' = [memo EXCEPT ![call[r].name] = rows]
  /\ got' = [got EXCEPT ![r] = [rows |-> rows, meta |-> NoMeta]]
  /\ Goto(r, "meta")
  /\ UNCHANGED <<call, cache, inflight, ledger, made, runs, backendReads,
                 returned>>

(* The backend refuses the name: no rows and no metadata.                  *)
BackendRefuses(r) ==
  /\ pc[r] = "backend"
  /\ memo' = [memo EXCEPT ![call[r].name] = Empty]
  /\ Goto(r, "meta")
  /\ UNCHANGED <<call, got, cache, inflight, ledger, META, made, runs,
                 backendReads, returned>>

(* The backend raises: nothing is memoized and dig() keeps LookupError.    *)
BackendRaises(r) ==
  /\ pc[r] = "backend"
  /\ got' = [got EXCEPT ![r] = LookupError]
  /\ Goto(r, "publish")
  /\ UNCHANGED <<call, cache, inflight, ledger, memo, META, made, runs,
                 backendReads, returned>>

ReadMeta(r) ==
  /\ pc[r] = "meta"
  /\ got' = [got EXCEPT ![r] = [rows |-> got[r].rows,
                                meta |-> META[call[r].name]]]
  /\ Goto(r, "publish")
  /\ UNCHANGED <<call, cache, inflight, ledger, memo, META, made, runs,
                 backendReads, returned>>

(* Mutant of Publish: the waiting threads are not notified.                *)
PublishSilently(r) ==
  /\ pc[r] = "publish"
  /\ cache' = [cache EXCEPT ![KeyRead(r)] = got[r]]
  /\ inflight' = inflight \ {KeyRead(r)}
  /\ Goto(r, "note")
  /\ UNCHANGED <<call, got, ledger, memo, META, made, runs, backendReads,
                 returned>>

(* Second critical section: cache the answer and wake every waiting thread.*)
Publish(r) ==
  /\ pc[r] = "publish"
  /\ cache' = [cache EXCEPT ![KeyRead(r)] = got[r]]
  /\ inflight' = inflight \ {KeyRead(r)}
  /\ pc' = [q \in Readers |-> IF q = r THEN "note"
                              ELSE IF pc[q] = "waiting" THEN "enter" ELSE pc[q]]
  /\ UNCHANGED <<call, got, ledger, memo, META, made, runs, backendReads,
                 returned>>

(* Mutant of Note: the ledger is charged for any answer without rows, as   *)
(* if an empty answer were a failed one.                                   *)
NoteUncharged(r) ==
  /\ pc[r] = "note"
  /\ ledger' = ledger \union
                 (IF call[r].scope # NoScope /\ got[r].rows = Empty
                  THEN {<<call[r].scope, KeyRead(r)>>} ELSE {})
  /\ returned' = returned \union
       {[scope |-> call[r].scope, key |-> KeyRead(r), answer |-> got[r]]}
  /\ call' = [call EXCEPT ![r] = NoCall]
  /\ got' = [got EXCEPT ![r] = Blank]
  /\ Goto(r, "idle")
  /\ UNCHANGED <<cache, inflight, memo, META, made, runs, backendReads>>

(* Third critical section: a failed answer is charged to the scope that    *)
(* consumed it, and the call returns.                                      *)
Note(r) ==
  /\ pc[r] = "note"
  /\ ledger' = ledger \union
                 (IF call[r].scope # NoScope /\ Failed(got[r])
                  THEN {<<call[r].scope, KeyRead(r)>>} ELSE {})
  /\ returned' = returned \union
       {[scope |-> call[r].scope, key |-> KeyRead(r), answer |-> got[r]]}
  /\ call' = [call EXCEPT ![r] = NoCall]
  /\ got' = [got EXCEPT ![r] = Blank]
  /\ Goto(r, "idle")
  /\ UNCHANGED <<cache, inflight, memo, META, made, runs, backendReads>>

Quiet == \A r \in Readers : pc[r] = "idle"

(* _reset_evaluation_trace, called before the pools of a run start; the    *)
(* resolver's own memo and metadata outlive the run.                       *)
NewRun ==
  /\ Quiet
  /\ runs < MaxRuns
  /\ runs' = runs + 1
  /\ cache' = [k \in Keys |-> Unread]
  /\ inflight' = {}
  /\ ledger' = {}
  /\ made' = [r \in Readers |-> 0]
  /\ backendReads' = [k \in Keys |-> 0]
  /\ returned' = {}
  /\ UNCHANGED <<pc, call, got, memo, META>>

(* dns_meta: the metadata a check consults after its read.                 *)
DnsMeta(n) == IF cache[KeyOf[n]] # Unread THEN cache[KeyOf[n]].meta ELSE META[n]

Step(r) ==
  \/ EnterWait(r) \/ EnterHit(r) \/ EnterClaim(r)
  \/ QueryMemo(r) \/ QueryBackend(r)
  \/ \E rows \in Rows, status \in Statuses : BackendAnswers(r, rows, status)
  \/ BackendRefuses(r) \/ BackendRaises(r)
  \/ ReadMeta(r) \/ Publish(r) \/ Note(r)

(* All bounded work is done: the process ends.                             *)
Finished ==
  /\ Quiet
  /\ \A r \in Readers : made[r] = MaxReads
  /\ runs >= MaxRuns
  /\ UNCHANGED vars

Next ==
  \/ \E r \in Readers, n \in Names, s \in Scopes \union {NoScope} : Call(r, n, s)
  \/ \E r \in Readers : Step(r)
  \/ NewRun
  \/ Finished

Spec == Init /\ [][Next]_vars

(* Threads run, and every backend call ends: dig has a timeout, its        *)
(* attempts are bounded.                                                   *)
FairSpec == Spec /\ \A r \in Readers : WF_vars(Step(r))
-----------------------------------------------------------------------------
TypeOK ==
  /\ pc \in [Readers -> Places]
  /\ call \in [Readers -> Calls \union {NoCall}]
  /\ \A r \in Readers : pc[r] # "idle" => call[r] \in Calls
  /\ got \in [Readers -> Answers]
  /\ cache \in [Keys -> Answers \union {Unread}]
  /\ inflight \in SUBSET Keys
  /\ ledger \in SUBSET (Scopes \X Keys)
  /\ memo \in [Names -> Rows \union {Unread}]
  /\ META \in [Names -> Metadata]
  /\ made \in [Readers -> 0 .. MaxReads]
  /\ runs \in Nat
  /\ backendReads \in [Keys -> Nat]
  /\ returned \in
       SUBSET [scope : Scopes \union {NoScope}, key : Keys, answer : Answers]

(* SPEC 1.11, "one DNS read per name/type": however many threads want a    *)
(* key at once, and however they spell it, the backend is asked once a run.*)
OneReadPerKey == \A k \in Keys : backendReads[k] <= 1

(* The rows and the response code kept together belong to one answer: no   *)
(* second lookup of the name slips between query() and meta().             *)
AnswerNotTorn ==
  \A k \in Keys : cache[k] # Unread =>
    \/ cache[k] = LookupError
    \/ \E n \in Names : /\ KeyOf[n] = k
                        /\ cache[k] = [rows |-> memo[n], meta |-> META[n]]

(* dns_meta, called after a read under any spelling of the name, describes *)
(* the very answer the read returned.                                      *)
MetaAgreesWithRead ==
  \A x \in returned : \A n \in Names :
    KeyOf[n] = x.key => DnsMeta(n) = x.answer.meta

(* A waiting thread waits for a thread that will publish its key and wake  *)
(* it: the wait in dig() cannot miss its notification.                     *)
Reading(r) == pc[r] \in {"query", "backend", "meta", "publish"}
WaiterHasReader ==
  \A r \in Readers : pc[r] = "waiting" =>
    \E q \in Readers : Reading(q) /\ KeyRead(q) = KeyRead(r)

RO == INSTANCE ReadOnce WITH observed <- cache

(* Two threads that read one key in a run are handed one observation.      *)
ReadsAgree == RO!OneObservation

(* The checks of an audit share one observation of a key, whole: read      *)
(* once, from one backend answer, handed to all, metadata included.        *)
SharedObservation ==
  /\ OneReadPerKey
  /\ AnswerNotTorn
  /\ ReadsAgree
  /\ MetaAgreesWithRead

(* _dns_failures holds a row for every scope that was handed a failed      *)
(* observation, the threads that only waited or hit the cache included.    *)
LedgerComplete == RO!LedgerExact

(* dig(), with its in-flight set, its memo below and its publication step, *)
(* implements the one-observation reads of ReadOnce.                       *)
ReadsOnce == RO!Spec

(* Every read a check starts is answered, whoever does the backend read:   *)
(* no waiting thread misses its wake-up.                                   *)
EveryReadReturns == \A r \in Readers : (pc[r] # "idle") ~> (pc[r] = "idle")
=============================================================================
