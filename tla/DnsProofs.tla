------------------------------ MODULE DnsProofs ------------------------------
(***************************************************************************)
(* Theorems of the DNS part, for any number of threads, names, keys,       *)
(* scopes, reads and runs, permits and attempts.                           *)
(* DnsCache: the inductive invariant says who owns a key.  While a thread  *)
(* reads the backend for a key, the key is in flight, uncached and no      *)
(* other thread's; from its publication on, the cached answer is the one   *)
(* every thread holds, every call returned and the ledger charged.         *)
(* DigBackend: a permit taken is held by exactly one running dig, and the  *)
(* codes of an unfinished lookup are all transient and as many as the      *)
(* attempts made, so that whatever ends it is explained.                   *)
(* The two share META: what DigBackend does to it and to the rows of a     *)
(* name is what DnsCache's one-step backend does.                          *)
(***************************************************************************)
EXTENDS DnsCache, DigBackend, FiniteSetTheorems, TLAPS

(* A thread reading a key holds it in flight, uncached, and alone.         *)
Owned ==
  /\ \A r \in Readers : Reading(r) =>
       KeyRead(r) \in inflight /\ cache[KeyRead(r)] = Unread
  /\ \A r, q \in Readers :
       Reading(r) /\ Reading(q) /\ KeyRead(r) = KeyRead(q) => r = q
  /\ \A k \in inflight : \E r \in Readers : Reading(r) /\ KeyRead(r) = k

(* The answer a thread is about to charge and return is the cached one.    *)
Delivered ==
  \A r \in Readers : pc[r] = "note" =>
    cache[KeyRead(r)] # Unread /\ got[r] = cache[KeyRead(r)]

(* Every answer returned in this run is still the cached one.              *)
Lasting == \A x \in returned : x.answer = cache[x.key]

(* The backend is asked by a thread that claimed the key, and once.        *)
Counted ==
  \A k \in Keys :
    /\ backendReads[k] <= 1
    /\ cache[k] = Unread =>
         \/ backendReads[k] = 0
         \/ \E r \in Readers : /\ pc[r] \in {"backend", "meta", "publish"}
                               /\ KeyRead(r) = k

(* The locals of a thread that reads the backend are what the resolver     *)
(* holds for the name it asked.                                            *)
Fetched ==
  \A r \in Readers :
    /\ pc[r] \in {"idle", "enter", "waiting", "query", "backend"} => got[r] = Blank
    /\ pc[r] = "meta" => got[r].rows = memo[call[r].name]
    /\ pc[r] = "publish" =>
         \/ got[r] = LookupError
         \/ got[r] = [rows |-> memo[call[r].name], meta |-> META[call[r].name]]

CacheInv ==
  /\ TypeOK
  /\ Owned
  /\ WaiterHasReader
  /\ Fetched
  /\ AnswerNotTorn
  /\ Delivered
  /\ Lasting
  /\ Counted
  /\ LedgerComplete

-----------------------------------------------------------------------------
LEMMA TypingStep == TypeOK /\ [Next]_vars => TypeOK'
<1>. SUFFICES ASSUME TypeOK, [Next]_vars
              PROVE  TypeOK'
  OBVIOUS
<1>. USE AnswerAssumption, CacheAssumption
     DEF TypeOK, Answers, Metadata, NoMeta, Blank, Places, Calls, Goto, KeyRead
<1>1. ASSUME NEW r \in Readers, NEW n \in Names,
              NEW s \in Scopes \union {NoScope}, Call(r, n, s)
      PROVE  TypeOK'
  BY <1>1 DEF Call
<1>2. ASSUME NEW r \in Readers, EnterWait(r)
      PROVE  TypeOK'
  BY <1>2 DEF EnterWait
<1>3. ASSUME NEW r \in Readers, EnterHit(r)
      PROVE  TypeOK'
  BY <1>3 DEF EnterHit
<1>4. ASSUME NEW r \in Readers, EnterClaim(r)
      PROVE  TypeOK'
  BY <1>4 DEF EnterClaim
<1>5. ASSUME NEW r \in Readers, QueryMemo(r)
      PROVE  TypeOK'
  BY <1>5 DEF QueryMemo
<1>6. ASSUME NEW r \in Readers, QueryBackend(r)
      PROVE  TypeOK'
  BY <1>6 DEF QueryBackend
<1>7. ASSUME NEW r \in Readers, NEW found \in Rows,
              NEW status \in Statuses, BackendAnswers(r, found, status)
      PROVE  TypeOK'
  BY <1>7 DEF BackendAnswers, Recorded, NormalizedMeta
<1>8. ASSUME NEW r \in Readers, BackendRefuses(r)
      PROVE  TypeOK'
  BY <1>8 DEF BackendRefuses
<1>9. ASSUME NEW r \in Readers, BackendRaises(r)
      PROVE  TypeOK'
  BY <1>9 DEF BackendRaises, LookupError
<1>10. ASSUME NEW r \in Readers, ReadMeta(r)
      PROVE  TypeOK'
  BY <1>10 DEF ReadMeta
<1>11. ASSUME NEW r \in Readers, Publish(r)
      PROVE  TypeOK'
  BY <1>11 DEF Publish
<1>12. ASSUME NEW r \in Readers, Note(r)
      PROVE  TypeOK'
  BY <1>12 DEF Note
<1>13. CASE NewRun
  BY <1>13 DEF NewRun, Quiet
<1>14. CASE Finished \/ UNCHANGED vars
  BY <1>14 DEF Finished, vars
<1>. QED
  BY <1>1, <1>2, <1>3, <1>4, <1>5, <1>6, <1>7, <1>8, <1>9, <1>10, <1>11, <1>12,
     <1>13, <1>14 DEF Next, Step

(* The adapter keeps its types for any number of threads: a check is never *)
(* handed something that is not an answer, such as an entry not yet read.  *)
THEOREM Typing == Spec => []TypeOK
<1>1. Init => TypeOK
  BY AnswerAssumption, CacheAssumption
     DEF Init, TypeOK, Answers, Metadata, NoMeta, Blank, Places, Calls
<1>. QED
  BY <1>1, TypingStep, PTL DEF Spec
-----------------------------------------------------------------------------
LEMMA ChargedAdd ==
  ASSUME NEW R, NEW x
  PROVE  RO!Charged(R \union {x}) =
           RO!Charged(R) \union
             (IF x.scope # NoScope /\ Failed(x.answer)
              THEN {<<x.scope, x.key>>} ELSE {})
<1>1. \A a : RO!Failed(a) = Failed(a)
  BY DEF RO!Failed, Failed, RO!NoStatus, NoStatus,
         RO!Authoritative, Authoritative
<1>2. CASE x.scope # NoScope /\ Failed(x.answer)
  BY <1>1, <1>2 DEF RO!Charged
<1>3. CASE ~(x.scope # NoScope /\ Failed(x.answer))
  BY <1>1, <1>3 DEF RO!Charged
<1>. QED
  BY <1>2, <1>3

LEMMA CacheInit == Init => CacheInv
<1>. SUFFICES ASSUME Init PROVE CacheInv
  OBVIOUS
<1>1. TypeOK
  BY AnswerAssumption, CacheAssumption
     DEF Init, TypeOK, Answers, Metadata, NoMeta, Blank, Places, Calls
<1>. QED
  BY <1>1 DEF Init, CacheInv, Owned, WaiterHasReader, Fetched,
              AnswerNotTorn, Delivered, Lasting, Counted, Reading,
              LedgerComplete, RO!LedgerExact, RO!Charged

LEMMA CacheStep == CacheInv /\ [Next]_vars => CacheInv'
<1>. SUFFICES ASSUME CacheInv, [Next]_vars
              PROVE  CacheInv'
  OBVIOUS
<1>. USE AnswerAssumption, CacheAssumption
<1>t. TypeOK /\ TypeOK'
  BY TypingStep DEF CacheInv
<1>. USE DEF CacheInv, TypeOK, Goto, KeyRead, Calls, Reading
<1>1. ASSUME NEW r \in Readers, NEW n \in Names,
              NEW s \in Scopes \union {NoScope}, Call(r, n, s)
      PROVE  CacheInv'
  <2>1. Owned'
    BY <1>t, <1>1 DEF Call, Owned
  <2>2. WaiterHasReader'
    BY <1>t, <1>1 DEF Call, Owned, WaiterHasReader
  <2>3. Fetched'
    BY <1>t, <1>1 DEF Call, Owned, Fetched
  <2>4. AnswerNotTorn'
    BY <1>t, <1>1 DEF Call, Owned, Fetched, AnswerNotTorn
  <2>5. Delivered'
    BY <1>t, <1>1 DEF Call, Owned, Delivered
  <2>6. Lasting'
    BY <1>t, <1>1 DEF Call, Owned, Delivered, Lasting
  <2>7. Counted'
    BY <1>t, <1>1 DEF Call, Owned, Counted
  <2>8. LedgerComplete'
    BY <1>t, <1>1 DEF Call, LedgerComplete, RO!LedgerExact
  <2>. QED
    BY <1>t, <2>1, <2>2, <2>3, <2>4, <2>5, <2>6, <2>7, <2>8
<1>2. ASSUME NEW r \in Readers, EnterWait(r)
      PROVE  CacheInv'
  <2>1. Owned'
    BY <1>t, <1>2 DEF EnterWait, Owned
  <2>2. WaiterHasReader'
    BY <1>t, <1>2 DEF EnterWait, Owned, WaiterHasReader
  <2>3. Fetched'
    BY <1>t, <1>2 DEF EnterWait, Owned, Fetched
  <2>4. AnswerNotTorn'
    BY <1>t, <1>2 DEF EnterWait, Owned, Fetched, AnswerNotTorn
  <2>5. Delivered'
    BY <1>t, <1>2 DEF EnterWait, Owned, Delivered
  <2>6. Lasting'
    BY <1>t, <1>2 DEF EnterWait, Owned, Delivered, Lasting
  <2>7. Counted'
    BY <1>t, <1>2 DEF EnterWait, Owned, Counted
  <2>8. LedgerComplete'
    BY <1>t, <1>2 DEF EnterWait, LedgerComplete, RO!LedgerExact
  <2>. QED
    BY <1>t, <2>1, <2>2, <2>3, <2>4, <2>5, <2>6, <2>7, <2>8
<1>3. ASSUME NEW r \in Readers, EnterHit(r)
      PROVE  CacheInv'
  <2>1. Owned'
    BY <1>t, <1>3 DEF EnterHit, Owned
  <2>2. WaiterHasReader'
    BY <1>t, <1>3 DEF EnterHit, Owned, WaiterHasReader
  <2>3. Fetched'
    BY <1>t, <1>3 DEF EnterHit, Owned, Fetched
  <2>4. AnswerNotTorn'
    BY <1>t, <1>3 DEF EnterHit, Owned, Fetched, AnswerNotTorn
  <2>5. Delivered'
    BY <1>t, <1>3 DEF EnterHit, Owned, Delivered
  <2>6. Lasting'
    BY <1>t, <1>3 DEF EnterHit, Owned, Delivered, Lasting
  <2>7. Counted'
    BY <1>t, <1>3 DEF EnterHit, Owned, Counted
  <2>8. LedgerComplete'
    BY <1>t, <1>3 DEF EnterHit, LedgerComplete, RO!LedgerExact
  <2>. QED
    BY <1>t, <2>1, <2>2, <2>3, <2>4, <2>5, <2>6, <2>7, <2>8
<1>4. ASSUME NEW r \in Readers, EnterClaim(r)
      PROVE  CacheInv'
  <2>1. Owned'
    BY <1>t, <1>4 DEF EnterClaim, Owned
  <2>2. WaiterHasReader'
    BY <1>t, <1>4 DEF EnterClaim, Owned, WaiterHasReader
  <2>3. Fetched'
    BY <1>t, <1>4 DEF EnterClaim, Owned, Fetched
  <2>4. AnswerNotTorn'
    BY <1>t, <1>4 DEF EnterClaim, Owned, Fetched, AnswerNotTorn
  <2>5. Delivered'
    BY <1>t, <1>4 DEF EnterClaim, Owned, Delivered
  <2>6. Lasting'
    BY <1>t, <1>4 DEF EnterClaim, Owned, Delivered, Lasting
  <2>7. Counted'
    BY <1>t, <1>4 DEF EnterClaim, Owned, Counted
  <2>8. LedgerComplete'
    BY <1>t, <1>4 DEF EnterClaim, LedgerComplete, RO!LedgerExact
  <2>. QED
    BY <1>t, <2>1, <2>2, <2>3, <2>4, <2>5, <2>6, <2>7, <2>8
<1>5. ASSUME NEW r \in Readers, QueryMemo(r)
      PROVE  CacheInv'
  <2>1. Owned'
    BY <1>t, <1>5 DEF QueryMemo, Owned
  <2>2. WaiterHasReader'
    BY <1>t, <1>5 DEF QueryMemo, Owned, WaiterHasReader
  <2>3. Fetched'
    BY <1>t, <1>5 DEF QueryMemo, Owned, Fetched
  <2>4. AnswerNotTorn'
    BY <1>t, <1>5 DEF QueryMemo, Owned, Fetched, AnswerNotTorn
  <2>5. Delivered'
    BY <1>t, <1>5 DEF QueryMemo, Owned, Delivered
  <2>6. Lasting'
    BY <1>t, <1>5 DEF QueryMemo, Owned, Delivered, Lasting
  <2>7. Counted'
    BY <1>t, <1>5 DEF QueryMemo, Owned, Counted
  <2>8. LedgerComplete'
    BY <1>t, <1>5 DEF QueryMemo, LedgerComplete, RO!LedgerExact
  <2>. QED
    BY <1>t, <2>1, <2>2, <2>3, <2>4, <2>5, <2>6, <2>7, <2>8
<1>6. ASSUME NEW r \in Readers, QueryBackend(r)
      PROVE  CacheInv'
  <2>1. Owned'
    BY <1>t, <1>6 DEF QueryBackend, Owned
  <2>2. WaiterHasReader'
    BY <1>t, <1>6 DEF QueryBackend, Owned, WaiterHasReader
  <2>3. Fetched'
    BY <1>t, <1>6 DEF QueryBackend, Owned, Fetched
  <2>4. AnswerNotTorn'
    BY <1>t, <1>6 DEF QueryBackend, Owned, Fetched, AnswerNotTorn
  <2>5. Delivered'
    BY <1>t, <1>6 DEF QueryBackend, Owned, Delivered
  <2>6. Lasting'
    BY <1>t, <1>6 DEF QueryBackend, Owned, Delivered, Lasting
  <2>7. Counted'
    BY <1>t, <1>6 DEF QueryBackend, Owned, Counted
  <2>8. LedgerComplete'
    BY <1>t, <1>6 DEF QueryBackend, LedgerComplete, RO!LedgerExact
  <2>. QED
    BY <1>t, <2>1, <2>2, <2>3, <2>4, <2>5, <2>6, <2>7, <2>8
<1>7. ASSUME NEW r \in Readers, NEW found \in Rows,
              NEW status \in Statuses, BackendAnswers(r, found, status)
      PROVE  CacheInv'
  <2>1. Owned'
    BY <1>t, <1>7 DEF BackendAnswers, Recorded, Owned
  <2>2. WaiterHasReader'
    BY <1>t, <1>7 DEF BackendAnswers, Recorded, Owned, WaiterHasReader
  <2>3. Fetched'
    <3>1. \A q \in Readers \ {r} :
            pc[q] \in {"meta", "publish"} => call[q].name # call[r].name
      BY <1>7 DEF BackendAnswers, Recorded, Owned
    <3>. QED
      BY <1>t, <1>7, <3>1 DEF BackendAnswers, Recorded, Fetched, Blank
  <2>4. AnswerNotTorn'
    <3>1. cache[KeyRead(r)] = Unread
      BY <1>7 DEF BackendAnswers, Recorded, Owned
    <3>2. \A m \in Names : cache[KeyOf[m]] # Unread =>
            memo'[m] = memo[m] /\ META'[m] = META[m]
      BY <1>t, <1>7, <3>1 DEF BackendAnswers, Recorded
    <3>3. cache' = cache
      BY <1>7 DEF BackendAnswers
    <3>. QED
      BY <3>2, <3>3 DEF AnswerNotTorn
  <2>5. Delivered'
    BY <1>t, <1>7 DEF BackendAnswers, Recorded, Owned, Delivered
  <2>6. Lasting'
    BY <1>t, <1>7 DEF BackendAnswers, Recorded, Owned, Delivered, Lasting
  <2>7. Counted'
    BY <1>t, <1>7 DEF BackendAnswers, Recorded, Owned, Counted
  <2>8. LedgerComplete'
    BY <1>t, <1>7 DEF BackendAnswers, Recorded, LedgerComplete, RO!LedgerExact
  <2>. QED
    BY <1>t, <2>1, <2>2, <2>3, <2>4, <2>5, <2>6, <2>7, <2>8
<1>8. ASSUME NEW r \in Readers, BackendRefuses(r)
      PROVE  CacheInv'
  <2>1. Owned'
    BY <1>t, <1>8 DEF BackendRefuses, Owned
  <2>2. WaiterHasReader'
    BY <1>t, <1>8 DEF BackendRefuses, Owned, WaiterHasReader
  <2>3. Fetched'
    <3>1. \A q \in Readers \ {r} :
            pc[q] \in {"meta", "publish"} => call[q].name # call[r].name
      BY <1>8 DEF BackendRefuses, Owned
    <3>. QED
      BY <1>t, <1>8, <3>1 DEF BackendRefuses, Fetched, Blank
  <2>4. AnswerNotTorn'
    <3>1. cache[KeyRead(r)] = Unread
      BY <1>8 DEF BackendRefuses, Owned
    <3>2. \A m \in Names : cache[KeyOf[m]] # Unread =>
            memo'[m] = memo[m] /\ META'[m] = META[m]
      BY <1>t, <1>8, <3>1 DEF BackendRefuses
    <3>3. cache' = cache
      BY <1>8 DEF BackendRefuses
    <3>. QED
      BY <3>2, <3>3 DEF AnswerNotTorn
  <2>5. Delivered'
    BY <1>t, <1>8 DEF BackendRefuses, Owned, Delivered
  <2>6. Lasting'
    BY <1>t, <1>8 DEF BackendRefuses, Owned, Delivered, Lasting
  <2>7. Counted'
    BY <1>t, <1>8 DEF BackendRefuses, Owned, Counted
  <2>8. LedgerComplete'
    BY <1>t, <1>8 DEF BackendRefuses, LedgerComplete, RO!LedgerExact
  <2>. QED
    BY <1>t, <2>1, <2>2, <2>3, <2>4, <2>5, <2>6, <2>7, <2>8
<1>9. ASSUME NEW r \in Readers, BackendRaises(r)
      PROVE  CacheInv'
  <2>1. Owned'
    BY <1>t, <1>9 DEF BackendRaises, Owned
  <2>2. WaiterHasReader'
    BY <1>t, <1>9 DEF BackendRaises, Owned, WaiterHasReader
  <2>3. Fetched'
    BY <1>t, <1>9 DEF BackendRaises, Owned, Fetched
  <2>4. AnswerNotTorn'
    BY <1>t, <1>9 DEF BackendRaises, Owned, Fetched, AnswerNotTorn
  <2>5. Delivered'
    BY <1>t, <1>9 DEF BackendRaises, Owned, Delivered
  <2>6. Lasting'
    BY <1>t, <1>9 DEF BackendRaises, Owned, Delivered, Lasting
  <2>7. Counted'
    BY <1>t, <1>9 DEF BackendRaises, Owned, Counted
  <2>8. LedgerComplete'
    BY <1>t, <1>9 DEF BackendRaises, LedgerComplete, RO!LedgerExact
  <2>. QED
    BY <1>t, <2>1, <2>2, <2>3, <2>4, <2>5, <2>6, <2>7, <2>8
<1>10. ASSUME NEW r \in Readers, ReadMeta(r)
      PROVE  CacheInv'
  <2>1. Owned'
    BY <1>t, <1>10 DEF ReadMeta, Owned
  <2>2. WaiterHasReader'
    BY <1>t, <1>10 DEF ReadMeta, Owned, WaiterHasReader
  <2>3. Fetched'
    BY <1>t, <1>10 DEF ReadMeta, Owned, Fetched
  <2>4. AnswerNotTorn'
    BY <1>t, <1>10 DEF ReadMeta, Owned, Fetched, AnswerNotTorn
  <2>5. Delivered'
    BY <1>t, <1>10 DEF ReadMeta, Owned, Delivered
  <2>6. Lasting'
    BY <1>t, <1>10 DEF ReadMeta, Owned, Delivered, Lasting
  <2>7. Counted'
    BY <1>t, <1>10 DEF ReadMeta, Owned, Counted
  <2>8. LedgerComplete'
    BY <1>t, <1>10 DEF ReadMeta, LedgerComplete, RO!LedgerExact
  <2>. QED
    BY <1>t, <2>1, <2>2, <2>3, <2>4, <2>5, <2>6, <2>7, <2>8
<1>11. ASSUME NEW r \in Readers, Publish(r)
      PROVE  CacheInv'
  <2>1. Owned'
    BY <1>t, <1>11 DEF Publish, Owned
  <2>2. WaiterHasReader'
    BY <1>t, <1>11 DEF Publish, Owned, WaiterHasReader
  <2>3. Fetched'
    BY <1>t, <1>11 DEF Publish, Owned, Fetched
  <2>4. AnswerNotTorn'
    BY <1>t, <1>11 DEF Publish, Owned, Fetched, AnswerNotTorn
  <2>5. Delivered'
    BY <1>t, <1>11 DEF Publish, Owned, Delivered
  <2>6. Lasting'
    BY <1>t, <1>11 DEF Publish, Owned, Delivered, Lasting
  <2>7. Counted'
    BY <1>t, <1>11 DEF Publish, Owned, Counted
  <2>8. LedgerComplete'
    BY <1>t, <1>11 DEF Publish, LedgerComplete, RO!LedgerExact
  <2>. QED
    BY <1>t, <2>1, <2>2, <2>3, <2>4, <2>5, <2>6, <2>7, <2>8
<1>12. ASSUME NEW r \in Readers, Note(r)
      PROVE  CacheInv'
  <2>1. Owned'
    BY <1>t, <1>12 DEF Note, Owned
  <2>2. WaiterHasReader'
    BY <1>t, <1>12 DEF Note, Owned, WaiterHasReader
  <2>3. Fetched'
    BY <1>t, <1>12 DEF Note, Owned, Fetched
  <2>4. AnswerNotTorn'
    BY <1>t, <1>12 DEF Note, Owned, Fetched, AnswerNotTorn
  <2>5. Delivered'
    BY <1>t, <1>12 DEF Note, Owned, Delivered
  <2>6. Lasting'
    BY <1>t, <1>12 DEF Note, Owned, Delivered, Lasting
  <2>7. Counted'
    BY <1>t, <1>12 DEF Note, Owned, Counted
  <2>8. LedgerComplete'
    <3>. DEFINE x == [scope |-> call[r].scope, key |-> KeyRead(r), answer |-> got[r]]
    <3>1. ledger = RO!Charged(returned)
      BY DEF LedgerComplete, RO!LedgerExact
    <3>2. /\ returned' = returned \union {x}
          /\ ledger' = ledger \union
               (IF x.scope # NoScope /\ Failed(x.answer)
                THEN {<<x.scope, x.key>>} ELSE {})
      BY <1>12 DEF Note
    <3>3. ledger' = RO!Charged(returned \union {x})
      <4>. HIDE DEF x
      <4>. QED  BY <3>1, <3>2, ChargedAdd, Zenon
    <3>. QED
      BY <3>2, <3>3 DEF LedgerComplete, RO!LedgerExact
  <2>. QED
    BY <1>t, <2>1, <2>2, <2>3, <2>4, <2>5, <2>6, <2>7, <2>8
<1>13. CASE NewRun
  BY <1>t, <1>13 DEF NewRun, Quiet, Owned, WaiterHasReader, Fetched,
        AnswerNotTorn, Delivered, Lasting, Counted,
        LedgerComplete, RO!LedgerExact, RO!Charged
<1>14. CASE Finished \/ UNCHANGED vars
  BY <1>t, <1>14 DEF Finished, vars, Owned, WaiterHasReader, Fetched,
        AnswerNotTorn, Delivered, Lasting, Counted,
        LedgerComplete, RO!LedgerExact
<1>. QED
  BY <1>1, <1>2, <1>3, <1>4, <1>5, <1>6, <1>7, <1>8, <1>9, <1>10, <1>11, <1>12,
     <1>13, <1>14 DEF Next, Step

THEOREM CacheInvariant == Spec => []CacheInv
  BY CacheInit, CacheStep, PTL DEF Spec

-----------------------------------------------------------------------------
(* One audit asks the backend for a key at most once, for any number of    *)
(* threads and any spellings of the name.                                  *)
THEOREM ReadOncePerKey == Spec => []OneReadPerKey
<1>1. CacheInv => OneReadPerKey
  BY DEF CacheInv, Counted, OneReadPerKey
<1>. QED
  BY <1>1, CacheInvariant, PTL

(* No thread waits for a key that nobody is about to publish: the wait of  *)
(* dig() cannot miss its notification.                                     *)
THEOREM NoMissedWakeUp == Spec => []WaiterHasReader
<1>1. CacheInv => WaiterHasReader
  BY DEF CacheInv
<1>. QED
  BY <1>1, CacheInvariant, PTL

(* Cached rows and metadata are those of one backend answer.               *)
THEOREM NeverTorn == Spec => []AnswerNotTorn
<1>1. CacheInv => AnswerNotTorn
  BY DEF CacheInv
<1>. QED
  BY <1>1, CacheInvariant, PTL

(* All the reads of a key in one audit are handed one observation.         *)
THEOREM ReadsShareObservation == Spec => []ReadsAgree
<1>1. CacheInv => ReadsAgree
  BY DEF CacheInv, Lasting, ReadsAgree, RO!OneObservation
<1>. QED
  BY <1>1, CacheInvariant, PTL

(* The evidence ledger holds exactly the failures the scopes were handed.  *)
THEOREM LedgerNeverLoses == Spec => []LedgerComplete
<1>1. CacheInv => LedgerComplete
  BY DEF CacheInv
<1>. QED
  BY <1>1, CacheInvariant, PTL

(* The metadata consulted after a read is that of the answer it returned.  *)
THEOREM MetadataOfTheRead == Spec => []MetaAgreesWithRead
<1>1. CacheInv => MetaAgreesWithRead
  BY AnswerAssumption, CacheAssumption
     DEF CacheInv, TypeOK, Lasting, MetaAgreesWithRead, DnsMeta
<1>. QED
  BY <1>1, CacheInvariant, PTL

(* The observation of a key is shared whole: one read, one backend answer, *)
(* the same for every check, metadata included.                            *)
THEOREM ObservationIsShared == Spec => []SharedObservation
BY ReadOncePerKey, NeverTorn, ReadsShareObservation, MetadataOfTheRead, PTL
   DEF SharedObservation

-----------------------------------------------------------------------------
LEMMA AbstractAnswers == RO!Answers = Answers
BY DEF RO!Answers, Answers, RO!Metadata, Metadata

LEMMA StepRefines == CacheInv /\ [Next]_vars => [RO!Next]_(RO!vars)
<1>. SUFFICES ASSUME CacheInv, [Next]_vars
              PROVE  [RO!Next]_(RO!vars)
  OBVIOUS
<1>. USE AnswerAssumption, CacheAssumption
     DEF CacheInv, TypeOK, KeyRead, Calls, Reading
<1>1. ASSUME NEW r \in Readers, Publish(r)
      PROVE  RO!Observe(KeyRead(r))
  BY <1>1, AbstractAnswers DEF Publish, Owned, RO!Observe
<1>2. ASSUME NEW r \in Readers, Note(r)
      PROVE  RO!Return(call[r].scope, KeyRead(r))
  <2>1. RO!Failed(got[r]) = Failed(got[r])
    BY DEF RO!Failed, Failed, RO!NoStatus, NoStatus,
           RO!Authoritative, Authoritative
  <2>. QED
    BY <1>2, <2>1 DEF Note, Delivered, RO!Return
<1>3. CASE NewRun
  BY <1>3 DEF NewRun, RO!NewRun, RO!Next
<1>4. ASSUME UNCHANGED <<cache, returned, ledger>>
      PROVE  UNCHANGED RO!vars
  BY <1>4 DEF RO!vars
<1>5. ASSUME NEW r \in Readers, Step(r)
      PROVE  \/ Publish(r) \/ Note(r)
             \/ UNCHANGED <<cache, returned, ledger>>
  BY <1>5 DEF Step, EnterWait, EnterHit, EnterClaim, QueryMemo, QueryBackend,
              BackendAnswers, BackendRefuses, BackendRaises, ReadMeta
<1>6. ASSUME NEW r \in Readers, NEW n \in Names,
             NEW s \in Scopes \union {NoScope}, Call(r, n, s)
      PROVE  UNCHANGED <<cache, returned, ledger>>
  BY <1>6 DEF Call
<1>7. CASE Finished \/ UNCHANGED vars
  BY <1>4, <1>7 DEF Finished, vars
<1>8. \A r \in Readers : Publish(r) => KeyRead(r) \in Keys
  BY DEF Publish
<1>9. \A r \in Readers : Note(r) =>
        KeyRead(r) \in Keys /\ call[r].scope \in Scopes \union {NoScope}
  BY DEF Note
<1>10. ASSUME NEW r \in Readers, Step(r)
       PROVE  [RO!Next]_(RO!vars)
  BY <1>1, <1>2, <1>4, <1>5, <1>8, <1>9, <1>10 DEF RO!Next
<1>. QED
  BY <1>3, <1>4, <1>6, <1>7, <1>10 DEF Next

(* dig() implements ReadOnce: publishing is the abstract observation,      *)
(* charging the ledger and returning is the abstract read.                 *)
THEOREM Refinement == Spec => ReadsOnce
<1>1. Init => RO!Init
  BY DEF Init, RO!Init
<1>. QED
  BY <1>1, StepRefines, CacheInvariant, PTL DEF Spec, ReadsOnce, RO!Spec

-----------------------------------------------------------------------------
LEMMA DigTypingStep == DigTypeOK /\ [DigNext]_digVars => DigTypeOK'
<1>. SUFFICES ASSUME DigTypeOK, [DigNext]_digVars
              PROVE  DigTypeOK'
  OBVIOUS
<1>. USE AnswerAssumption, BackendAssumption
     DEF DigTypeOK, Metadata, NoMeta, NormalizedMeta, Transient, Return, Looking,
         Running, ProbeQueries
<1>1. ASSUME NEW t \in Threads, NEW n \in Names, Refuse(t, n)
      PROVE  DigTypeOK'
  BY <1>1 DEF Refuse
<1>2. ASSUME NEW t \in Threads, NEW n \in Names, Lookup(t, n)
      PROVE  DigTypeOK'
  BY <1>2 DEF Lookup
<1>3. ASSUME NEW t \in Threads, NEW n \in Names, Probe(t, n)
      PROVE  DigTypeOK'
  BY <1>3 DEF Probe
<1>4. ASSUME NEW t \in Threads, Acquire(t)
      PROVE  DigTypeOK'
  BY <1>4 DEF Acquire
<1>5. ASSUME NEW t \in Threads, NEW status \in Statuses,
            Retry(t, status)
      PROVE  DigTypeOK'
  BY <1>5 DEF Retry
<1>6. ASSUME NEW t \in Threads, NEW status \in Statuses,
             NEW answer \in Rows, Answer(t, status, answer)
      PROVE  DigTypeOK'
  BY <1>6 DEF Answer, Recorded, Recorded
<1>7. ASSUME NEW t \in Threads, Wake(t)
      PROVE  DigTypeOK'
  BY <1>7 DEF Wake
<1>8. ASSUME NEW t \in Threads, GiveUp(t)
      PROVE  DigTypeOK'
  BY <1>8 DEF GiveUp
<1>9. ASSUME NEW t \in Threads, ProbeAcquire(t)
      PROVE  DigTypeOK'
  BY <1>9 DEF ProbeAcquire
<1>10. ASSUME NEW t \in Threads, ProbeNext(t)
      PROVE  DigTypeOK'
  BY <1>10 DEF ProbeNext
<1>11. ASSUME NEW t \in Threads, ProbeEnd(t)
      PROVE  DigTypeOK'
  BY <1>11 DEF ProbeEnd
<1>12. CASE DigFinished \/ UNCHANGED digVars
  BY <1>12 DEF DigFinished, digVars
<1>. QED
  BY <1>1, <1>2, <1>3, <1>4, <1>5, <1>6, <1>7,
     <1>8, <1>9, <1>10, <1>11, <1>12
     DEF DigNext, DigEnds, ProbeStep

(* Types hold for any number of threads; among them, no lookup makes more  *)
(* than Attempts attempts and no refused name ever reaches dig.            *)
THEOREM DigTyping == DigSpec => []DigTypeOK
<1>1. DigInit => DigTypeOK
  BY AnswerAssumption, BackendAssumption
     DEF DigInit, DigTypeOK, Metadata, NoMeta, Transient, Looking, ProbeQueries
<1>. QED
  BY <1>1, DigTypingStep, PTL DEF DigSpec

-----------------------------------------------------------------------------
Busy == {t \in Threads : Running(t)}

LEMMA BusyFinite == IsFiniteSet(Busy) /\ Cardinality(Busy) \in Nat
BY BackendAssumption, FS_Subset, FS_CardinalityType DEF Busy

(* One thread starts or stops a dig, and gives or takes one permit.        *)
LEMMA TakePermit ==
  ASSUME NEW t \in Threads, ~Running(t), Busy' = Busy \union {t},
         permits \in Nat, permits' = permits - 1, PermitsConserved
  PROVE  PermitsConserved'
<1>1. Cardinality(Busy \union {t}) = Cardinality(Busy) + 1
  BY BusyFinite, FS_AddElement DEF Busy
<1>. QED
  BY <1>1, BusyFinite, BackendAssumption DEF PermitsConserved, Busy

LEMMA GivePermit ==
  ASSUME NEW t \in Threads, Running(t), Busy' = Busy \ {t},
         permits \in Nat, permits' = permits + 1, PermitsConserved
  PROVE  PermitsConserved'
<1>1. Cardinality(Busy \ {t}) = Cardinality(Busy) - 1
  BY BusyFinite, FS_RemoveElement DEF Busy
<1>. QED
  BY <1>1, BusyFinite, BackendAssumption DEF PermitsConserved, Busy

LEMMA PermitsStep == DigTypeOK /\ PermitsConserved /\ [DigNext]_digVars => PermitsConserved'
<1>. SUFFICES ASSUME DigTypeOK, PermitsConserved, [DigNext]_digVars
              PROVE  PermitsConserved'
  OBVIOUS
<1>. USE DEF DigTypeOK, Running
<1>1. ASSUME NEW t \in Threads, Acquire(t) \/ ProbeAcquire(t)
      PROVE  PermitsConserved'
  <2>1. ~Running(t) /\ Busy' = Busy \union {t}
    BY <1>1 DEF Acquire, ProbeAcquire, Busy
  <2>2. permits \in Nat /\ permits' = permits - 1
    BY <1>1, BackendAssumption DEF Acquire, ProbeAcquire
  <2>. QED
    BY <2>1, <2>2, TakePermit
<1>2. ASSUME NEW t \in Threads, DigEnds(t) \/ ProbeNext(t) \/ ProbeEnd(t)
      PROVE  PermitsConserved'
  <2>1. Running(t) /\ Busy' = Busy \ {t}
    BY <1>2 DEF DigEnds, Retry, Answer, ProbeNext, ProbeEnd, Return, Busy
  <2>2. permits \in Nat /\ permits' = permits + 1
    BY <1>2, BackendAssumption DEF DigEnds, Retry, Answer, ProbeNext, ProbeEnd
  <2>. QED
    BY <2>1, <2>2, GivePermit
<1>3. ASSUME NEW t \in Threads, NEW n \in Names,
             Refuse(t, n) \/ Lookup(t, n) \/ Probe(t, n) \/ Wake(t) \/ GiveUp(t)
      PROVE  PermitsConserved'
  <2>1. permits' = permits /\ Busy' = Busy
    BY <1>3 DEF Refuse, Lookup, Probe, Wake, GiveUp, Return, Busy
  <2>. QED
    BY <2>1 DEF PermitsConserved, Busy
<1>4. CASE DigFinished \/ UNCHANGED digVars
  BY <1>4 DEF DigFinished, digVars, PermitsConserved
<1>5. ASSUME Names = {}
      PROVE  \A t \in Threads : ~Wake(t) /\ ~GiveUp(t)
  BY <1>5 DEF Wake, GiveUp
<1>. QED
  BY <1>1, <1>2, <1>3, <1>4, <1>5 DEF DigNext, ProbeStep

(* At most Permits dig processes run at once, for any number of threads,   *)
(* and no permit is lost or invented by a retry, a timeout or a probe.     *)
THEOREM PermitsNeverLeak == DigSpec => []PermitsConserved
<1>1. DigInit => PermitsConserved
  <2>. SUFFICES ASSUME DigInit PROVE PermitsConserved
    OBVIOUS
  <2>1. Busy = {}
    BY DEF DigInit, Busy, Running
  <2>2. PermitsConserved <=> permits + Cardinality(Busy) = Permits
    BY DEF PermitsConserved, Busy
  <2>. QED
    BY <2>1, <2>2, FS_EmptySet, BackendAssumption DEF DigInit
<1>. QED
  BY <1>1, DigTyping, PermitsStep, PTL DEF DigSpec

-----------------------------------------------------------------------------
(* A lookup under way belongs to one thread and is not finished; the codes *)
(* it saw are transient, one for every attempt made.                       *)
Unfinished ==
  /\ \A t, u \in Threads :
       Looking(t) /\ Looking(u) /\ asked[t] = asked[u] => t = u
  /\ \A t \in Threads : Looking(t) =>
       LET all == codes[asked[t]]
       IN  /\ rows[asked[t]] = Unread
           /\ \A i \in 1 .. Len(all) : all[i] \in Transient
           /\ Len(all) = IF at[t] = "sleeping" THEN attempt[t] + 1 ELSE attempt[t]
           /\ at[t] = "sleeping" => terminal[t] = all[Len(all)]
  /\ \A n \in Names : rows[n] = Unread /\ ~Asking(n) => codes[n] = <<>>

VerdictInv == DigTypeOK /\ Unfinished /\ VerdictExplained

(* A final code after transient ones explains an answer; transient codes   *)
(* for every attempt explain giving up.                                    *)
LEMMA FinalCode ==
  ASSUME NEW past \in Seq(Statuses), NEW s \in Statuses \ Transient, NEW answer,
         Len(past) < Attempts,
         \A i \in 1 .. Len(past) : past[i] \in Transient
  PROVE  Explains(Append(past, s), answer, NormalizedMeta(s, FALSE))
<1>. DEFINE all == Append(past, s)
<1>1. Len(all) = Len(past) + 1 /\ all[Len(all)] = s
  OBVIOUS
<1>2. \A i \in 1 .. Len(all) - 1 : all[i] \in Transient
  OBVIOUS
<1>3. NormalizedMeta(s, FALSE) = [status |-> s, error |-> s \notin Authoritative]
  BY DEF NormalizedMeta
<1>4. Len(all) \in 1 .. Attempts
  BY <1>1, BackendAssumption
<1>. HIDE DEF all
<1>5. Explains(all, answer, NormalizedMeta(s, FALSE))
  BY <1>1, <1>2, <1>3, <1>4 DEF Explains
<1>. QED
  BY <1>5 DEF all

LEMMA LastAttempt ==
  ASSUME NEW all \in Seq(Statuses), Len(all) = Attempts,
         \A i \in 1 .. Len(all) : all[i] \in Transient
  PROVE  Explains(all, Empty, NormalizedMeta(all[Len(all)], TRUE))
<1>. DEFINE last == all[Len(all)]
<1>1. last \in Transient /\ last \notin Authoritative
  BY BackendAssumption DEF Transient, Authoritative, NoStatus
<1>2. NormalizedMeta(last, TRUE) = [status |-> last, error |-> last \notin Authoritative]
  BY <1>1 DEF NormalizedMeta
<1>3. Len(all) \in 1 .. Attempts /\ Len(all) = Attempts
  BY BackendAssumption
<1>4. \A i \in 1 .. Len(all) - 1 : all[i] \in Transient
  BY <1>3, BackendAssumption
<1>. QED
  BY <1>2, <1>3, <1>4 DEF Explains

LEMMA VerdictStep == VerdictInv /\ [DigNext]_digVars => VerdictInv'
<1>. SUFFICES ASSUME VerdictInv, [DigNext]_digVars
              PROVE  VerdictInv'
  OBVIOUS
<1>. USE AnswerAssumption, BackendAssumption
<1>t. DigTypeOK /\ DigTypeOK'
  BY DigTypingStep DEF VerdictInv
<1>. USE DEF VerdictInv, DigTypeOK, Looking, Asking, Return
<1>1. ASSUME NEW t \in Threads, NEW n \in Names, Refuse(t, n)
      PROVE  VerdictInv'
  <2>1. Unfinished'
    BY <1>t, <1>1 DEF Refuse, Unfinished
  <2>2. VerdictExplained'
    BY <1>t, <1>1 DEF Refuse, Unfinished, VerdictExplained, Explained
  <2>. QED
    BY <1>t, <2>1, <2>2
<1>2. ASSUME NEW t \in Threads, NEW n \in Names, Lookup(t, n)
      PROVE  VerdictInv'
  <2>1. Unfinished'
    <3>1. codes[n] = <<>> /\ attempt[t] = 0
      BY <1>t, <1>2 DEF Lookup, Unfinished
    <3>2. \A u \in Threads : Looking(u) => asked[u] # n
      BY <1>2 DEF Lookup
    <3>3. \A u \in Threads : Looking(u)' <=> u = t \/ Looking(u)
      BY <1>t, <1>2 DEF Lookup
    <3>4. \A m \in Names : ~Asking(m)' => ~Asking(m)
      BY <1>t, <1>2 DEF Lookup
    <3>5. \A u, v \in Threads :
            Looking(u)' /\ Looking(v)' /\ asked'[u] = asked'[v] => u = v
      BY <1>t, <1>2, <3>2, <3>3 DEF Lookup, Unfinished
    <3>6. ASSUME NEW u \in Threads, Looking(u)'
          PROVE  /\ rows[asked'[u]] = Unread
                 /\ \A i \in 1 .. Len(codes[asked'[u]]) : codes[asked'[u]][i] \in Transient
                 /\ Len(codes[asked'[u]]) =
                      IF at'[u] = "sleeping" THEN attempt[u] + 1 ELSE attempt[u]
                 /\ at'[u] = "sleeping" => terminal[u] = codes[asked'[u]][Len(codes[asked'[u]])]
      <4>1. CASE u = t
        BY <1>t, <1>2, <3>1, <4>1 DEF Lookup
      <4>2. CASE u # t
        BY <1>t, <1>2, <3>3, <3>6, <4>2 DEF Lookup, Unfinished
      <4>. QED
        BY <4>1, <4>2
    <3>7. \A m \in Names : rows[m] = Unread /\ ~Asking(m)' => codes[m] = <<>>
      BY <3>4 DEF Unfinished
    <3>8. UNCHANGED <<rows, codes, terminal, attempt>>
      BY <1>2 DEF Lookup
    <3>. QED
      BY <3>5, <3>6, <3>7, <3>8 DEF Unfinished
  <2>2. VerdictExplained'
    BY <1>t, <1>2 DEF Lookup, Unfinished, VerdictExplained, Explained
  <2>. QED
    BY <1>t, <2>1, <2>2
<1>3. ASSUME NEW t \in Threads, NEW n \in Names, Probe(t, n)
      PROVE  VerdictInv'
  <2>1. Unfinished'
    BY <1>t, <1>3 DEF Probe, Unfinished
  <2>2. VerdictExplained'
    BY <1>t, <1>3 DEF Probe, Unfinished, VerdictExplained, Explained
  <2>. QED
    BY <1>t, <2>1, <2>2
<1>4. ASSUME NEW t \in Threads, Acquire(t)
      PROVE  VerdictInv'
  <2>1. Unfinished'
    BY <1>t, <1>4 DEF Acquire, Unfinished
  <2>2. VerdictExplained'
    BY <1>t, <1>4 DEF Acquire, Unfinished, VerdictExplained, Explained
  <2>. QED
    BY <1>t, <2>1, <2>2
<1>5. ASSUME NEW t \in Threads, NEW status \in Statuses,
            Retry(t, status)
      PROVE  VerdictInv'
  <2>1. Unfinished'
    BY <1>t, <1>5 DEF Retry, Unfinished
  <2>2. VerdictExplained'
    BY <1>t, <1>5 DEF Retry, Unfinished, VerdictExplained, Explained
  <2>. QED
    BY <1>t, <2>1, <2>2
<1>6. ASSUME NEW t \in Threads, NEW status \in Statuses,
             NEW answer \in Rows, Answer(t, status, answer)
      PROVE  VerdictInv'
  <2>1. Unfinished'
    BY <1>t, <1>6 DEF Answer, Recorded, Unfinished
  <2>2. VerdictExplained'
    <3>1. ASSUME NEW m \in Names, m # asked[t]
          PROVE  /\ rows'[m] = rows[m] /\ META'[m] = META[m]
                 /\ codes'[m] = codes[m]
      BY <1>t, <1>6, <3>1 DEF Answer, Recorded, Recorded
    <3>. DEFINE k == asked[t]
    <3>2. k \in Names \ BadNames /\ rows[k] = Unread /\ rows'[k] # Unread
      BY <1>t, <1>6 DEF Answer, Recorded, Unfinished
    <3>3. /\ codes[k] \in Seq(Statuses)
          /\ Len(codes[k]) < Attempts
          /\ \A i \in 1 .. Len(codes[k]) : codes[k][i] \in Transient
      BY <1>t, <1>6 DEF Answer, Recorded, Unfinished
    <3>4. /\ status \in Statuses \ Transient
          /\ codes'[k] = Append(codes[k], status)
          /\ META'[k] = NormalizedMeta(status, FALSE)
      BY <1>t, <1>6 DEF Answer, Recorded, Recorded
    <3>. HIDE DEF k
    <3>5. Explains(codes'[k], rows'[k], META'[k])
      <4>1. Explains(Append(codes[k], status), rows'[k],
                     NormalizedMeta(status, FALSE))
        BY <3>3, <3>4, FinalCode
      <4>. QED
        BY <3>4, <4>1
    <3>. USE DEF k
    <3>. SUFFICES ASSUME NEW m \in Names
                  PROVE  Explained(m)'
      BY DEF VerdictExplained
    <3>6. CASE m # k
      BY <3>1, <3>6 DEF VerdictExplained, Explained
    <3>7. CASE m = k
      BY <3>2, <3>5, <3>7 DEF Explained
    <3>. QED
      BY <3>6, <3>7
  <2>. QED
    BY <1>t, <2>1, <2>2
<1>7. ASSUME NEW t \in Threads, Wake(t)
      PROVE  VerdictInv'
  <2>1. Unfinished'
    BY <1>t, <1>7 DEF Wake, Unfinished
  <2>2. VerdictExplained'
    BY <1>t, <1>7 DEF Wake, Unfinished, VerdictExplained, Explained
  <2>. QED
    BY <1>t, <2>1, <2>2
<1>8. ASSUME NEW t \in Threads, GiveUp(t)
      PROVE  VerdictInv'
  <2>1. Unfinished'
    BY <1>t, <1>8 DEF GiveUp, Unfinished
  <2>2. VerdictExplained'
    <3>1. ASSUME NEW m \in Names, m # asked[t]
          PROVE  /\ rows'[m] = rows[m] /\ META'[m] = META[m]
                 /\ codes'[m] = codes[m]
      BY <1>t, <1>8, <3>1 DEF GiveUp
    <3>. DEFINE k == asked[t]
    <3>2. k \in Names \ BadNames /\ rows[k] = Unread /\ rows'[k] # Unread
      BY <1>t, <1>8 DEF GiveUp, Unfinished
    <3>3. /\ codes[k] \in Seq(Statuses)
          /\ Len(codes[k]) = Attempts
          /\ \A i \in 1 .. Len(codes[k]) : codes[k][i] \in Transient
      BY <1>t, <1>8 DEF GiveUp, Unfinished
    <3>4. /\ codes'[k] = codes[k] /\ rows'[k] = Empty
          /\ META'[k] = NormalizedMeta(codes[k][Len(codes[k])], TRUE)
      BY <1>t, <1>8 DEF GiveUp, Unfinished
    <3>. HIDE DEF k
    <3>5. Explains(codes'[k], rows'[k], META'[k])
      <4>1. Explains(codes[k], Empty, NormalizedMeta(codes[k][Len(codes[k])], TRUE))
        BY <3>3, LastAttempt
      <4>. QED
        BY <3>4, <4>1
    <3>. USE DEF k
    <3>. SUFFICES ASSUME NEW m \in Names
                  PROVE  Explained(m)'
      BY DEF VerdictExplained
    <3>6. CASE m # k
      BY <3>1, <3>6 DEF VerdictExplained, Explained
    <3>7. CASE m = k
      BY <3>2, <3>5, <3>7 DEF Explained
    <3>. QED
      BY <3>6, <3>7
  <2>. QED
    BY <1>t, <2>1, <2>2
<1>9. ASSUME NEW t \in Threads, ProbeAcquire(t)
      PROVE  VerdictInv'
  <2>1. Unfinished'
    BY <1>t, <1>9 DEF ProbeAcquire, Unfinished
  <2>2. VerdictExplained'
    BY <1>t, <1>9 DEF ProbeAcquire, Unfinished, VerdictExplained, Explained
  <2>. QED
    BY <1>t, <2>1, <2>2
<1>10. ASSUME NEW t \in Threads, ProbeNext(t)
      PROVE  VerdictInv'
  <2>1. Unfinished'
    BY <1>t, <1>10 DEF ProbeNext, Unfinished
  <2>2. VerdictExplained'
    BY <1>t, <1>10 DEF ProbeNext, Unfinished, VerdictExplained, Explained
  <2>. QED
    BY <1>t, <2>1, <2>2
<1>11. ASSUME NEW t \in Threads, ProbeEnd(t)
      PROVE  VerdictInv'
  <2>1. Unfinished'
    BY <1>t, <1>11 DEF ProbeEnd, Unfinished
  <2>2. VerdictExplained'
    BY <1>t, <1>11 DEF ProbeEnd, Unfinished, VerdictExplained, Explained
  <2>. QED
    BY <1>t, <2>1, <2>2
<1>12. CASE DigFinished \/ UNCHANGED digVars
  BY <1>t, <1>12 DEF DigFinished, digVars, Unfinished, VerdictExplained, Explained
<1>. QED
  BY <1>1, <1>2, <1>3, <1>4, <1>5, <1>6, <1>7,
     <1>8, <1>9, <1>10, <1>11, <1>12
     DEF DigNext, DigEnds, ProbeStep

LEMMA VerdictStart == DigInit => VerdictInv
<1>. SUFFICES ASSUME DigInit PROVE VerdictInv
  OBVIOUS
<1>1. DigTypeOK
  BY AnswerAssumption, BackendAssumption
     DEF DigInit, DigTypeOK, Metadata, NoMeta, Transient, Looking, ProbeQueries
<1>. QED
  BY <1>1 DEF DigInit, VerdictInv, Unfinished, VerdictExplained, Explained, Looking

LEMMA VerdictInvariant == DigSpec => []VerdictInv
BY VerdictStart, VerdictStep, PTL DEF DigSpec

(* Whatever a lookup leaves in META and returns is explained by the codes  *)
(* dig gave it, for any number of threads, permits and attempts.           *)
THEOREM VerdictsExplained == DigSpec => []VerdictExplained
<1>1. VerdictInv => VerdictExplained
  BY DEF VerdictInv
<1>. QED
  BY <1>1, VerdictInvariant, PTL

-----------------------------------------------------------------------------
(* One step of the backend as DnsCache has it: nothing it can see, or the  *)
(* end of one lookup, answered (BackendAnswers) or refused before dig sees *)
(* the name (BackendRefuses).                                              *)
Ended(n) == rows[n] = Unread /\ rows'[n] # Unread
BackendStep ==
  \/ UNCHANGED <<rows, META>>
  \/ \E n \in Names :
       /\ Ended(n)
       /\ \A m \in Names \ {n} : rows'[m] = rows[m]
       /\ IF n \in BadNames THEN rows'[n] = Empty /\ UNCHANGED META
          ELSE rows'[n] \in Rows /\ \E status \in Statuses : Recorded(n, status)

(* Retries, pauses and probes are invisible above: the adapter's model may *)
(* take a lookup for one answer with a final META entry, written once.     *)
THEOREM BackendIsOneStep == DigSpec => [][BackendStep]_digVars
<1>1. ASSUME VerdictInv, [DigNext]_digVars
      PROVE  [BackendStep]_digVars
  <2>. USE <1>1, AnswerAssumption, BackendAssumption DEF VerdictInv, DigTypeOK, Looking
  <2>1. ASSUME NEW t \in Threads, NEW n \in Names, Refuse(t, n)
        PROVE  BackendStep
    BY <2>1 DEF Refuse, BackendStep, Ended
  <2>2. ASSUME NEW t \in Threads, NEW status \in Statuses, NEW answer \in Rows,
               Answer(t, status, answer)
        PROVE  BackendStep
    <3>1. /\ asked[t] \in Names \ BadNames /\ rows[asked[t]] = Unread
          /\ rows' = [rows EXCEPT ![asked[t]] = answer] /\ Recorded(asked[t], status)
      BY <2>2 DEF Answer, Unfinished
    <3>. QED
      BY <3>1 DEF BackendStep, Ended
  <2>3. ASSUME NEW t \in Threads, GiveUp(t)
        PROVE  BackendStep
    <3>1. /\ asked[t] \in Names \ BadNames /\ rows[asked[t]] = Unread
          /\ rows' = [rows EXCEPT ![asked[t]] = Empty]
          /\ META' = [META EXCEPT ![asked[t]] = NormalizedMeta(terminal[t], TRUE)]
      BY <2>3 DEF GiveUp, Unfinished
    <3>2. terminal[t] \in Statuses /\ terminal[t] \notin Authoritative
      BY DEF Transient, Authoritative, NoStatus
    <3>3. NormalizedMeta(terminal[t], TRUE) = NormalizedMeta(terminal[t], FALSE)
      BY <3>2 DEF NormalizedMeta
    <3>. QED
      BY <3>1, <3>2, <3>3 DEF BackendStep, Ended, Recorded
  <2>4. ASSUME NEW t \in Threads,
               \/ \E n \in Names : Lookup(t, n) \/ Probe(t, n)
               \/ \E status \in Statuses : Retry(t, status)
               \/ Acquire(t) \/ Wake(t) \/ ProbeStep(t)
        PROVE  BackendStep
    BY <2>4 DEF Lookup, Probe, Acquire, Retry, Wake, ProbeStep, ProbeAcquire, ProbeNext,
                ProbeEnd, BackendStep
  <2>5. CASE DigFinished \/ UNCHANGED digVars
    BY <2>5 DEF DigFinished
  <2>. QED
    BY <2>1, <2>2, <2>3, <2>4, <2>5 DEF DigNext, DigEnds
<1>. QED
  BY <1>1, VerdictInvariant, PTL DEF DigSpec
=============================================================================
