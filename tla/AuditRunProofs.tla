---------------------------- MODULE AuditRunProofs ----------------------------
(***************************************************************************)
(* Theorems of AuditRun and of RuleLedger, the run and one of its checks.  *)
(* AuditRun, for any checks, programs and keys: a socket probe runs alone, *)
(* a connection left open is met by no other check, the ledger sees every  *)
(* failure that was consumed, and what is published does not depend on the *)
(* schedule.  The invariant: a check with a step under way is running, a   *)
(* check that is no sweep has made all its earlier steps, a check with an  *)
(* open connection is a socket check that runs or has raised, and the      *)
(* trace holds exactly the failed answers of the steps done.               *)
(* RuleLedger, for any MX hosts and policies: a conclusive rule is true,   *)
(* the ledger and the unconfirmed marks agree, and a run without a loss is *)
(* conclusive.  The invariant stands before its lemmas, below.             *)
(***************************************************************************)
EXTENDS AuditRun, RuleLedger, WellFoundedInduction, TLAPS

Shape ==
  /\ phase \in {"dns", "sockets", "published", "died"}
  /\ busy \in [Checks -> SUBSET Nat] /\ done \in [Checks -> SUBSET Nat]
  /\ \A c \in Checks : /\ busy[c] \subseteq Steps(c) /\ done[c] \subseteq Steps(c)
                       /\ busy[c] \cap done[c] = {}
  /\ answers \in [Keys -> {"unread", "fine", "gap", "failed"}]
  /\ failures \in Seq(Checks \X Keys)
  /\ returned \subseteq Checks /\ raised \subseteq Checks

Working ==
  /\ \A c \in Checks : busy[c] # {} => Running(c)
  /\ \A c \in Checks \ Sweeps : \A i \in busy[c] : 1..(i - 1) \subseteq done[c]

(* A connection left open is that of the socket check that runs, or of the *)
(* one that raised.                                                        *)
Held ==
  \A c \in left : c \in Checks /\ phase = "sockets" /\ (Running(c) \/ c \in raised)

Endings ==
  /\ returned \cap raised = {}
  /\ phase = "dns" => raised \subseteq Range(DnsChecks)
  /\ phase = "sockets" => Range(DnsChecks) \subseteq returned
  /\ \A c \in raised : phase = "sockets" =>
       \E n \in DOMAIN SocketChecks :
         SocketChecks[n] = c /\ \A m \in 1..(n - 1) : SocketChecks[m] \in returned
  /\ \A c \in returned : done[c] = Steps(c)

KeysOf(c, steps) == {Program[c][i] : i \in steps} \ {Socket}

Trace ==
  /\ \A c \in Checks : \A i \in done[c] :
       Program[c][i] # Socket => answers[Program[c][i]] # "unread"
  /\ Range(failures) =
       {f \in Checks \X Keys : f[2] \in KeysOf(f[1], done[f[1]]) /\ answers[f[2]] = "failed"}
  /\ phase = "published" => Checks \subseteq returned /\ evidence = Range(failures)

RunInv == Shape /\ Working /\ Held /\ Endings /\ Trace

LEMMA ConstantFacts ==
  /\ DnsChecks \in Seq(Checks) /\ SocketChecks \in Seq(Checks)
  /\ \A c \in Checks : /\ Program[c] \in Seq(Keys \union {Socket})
                       /\ Steps(c) = 1..Len(Program[c]) /\ Len(Program[c]) \in Nat
                       /\ \A i \in Steps(c) : i \in Nat /\ i > 0
                                              /\ Program[c][i] \in Keys \union {Socket}
  /\ \A n \in DOMAIN SocketChecks : n \in Nat /\ n > 0 /\ SocketChecks[n] \in Range(SocketChecks)
  /\ DOMAIN SocketChecks = 1..Len(SocketChecks) /\ Len(SocketChecks) \in Nat
  /\ Range(DnsChecks) \subseteq Checks /\ Range(SocketChecks) \subseteq Checks
  /\ Socket \notin Keys
<1>1. /\ DnsChecks \in Seq(Checks) /\ SocketChecks \in Seq(Checks) /\ Socket \notin Keys
      /\ Range(DnsChecks) \subseteq Checks /\ Range(SocketChecks) \subseteq Checks
      /\ Program \in [Checks -> Seq(Keys \union {Socket})]
  BY RunAssumption DEF Checks
<1>2. \A c \in Checks : /\ Program[c] \in Seq(Keys \union {Socket})
                       /\ Steps(c) = 1..Len(Program[c]) /\ Len(Program[c]) \in Nat
  BY <1>1 DEF Steps
<1>3. \A c \in Checks : \A i \in Steps(c) :
        i \in Nat /\ i > 0 /\ Program[c][i] \in Keys \union {Socket}
  BY <1>2
<1>4. DOMAIN SocketChecks = 1..Len(SocketChecks) /\ Len(SocketChecks) \in Nat
  BY <1>1
<1>5. \A n \in DOMAIN SocketChecks :
        n \in Nat /\ n > 0 /\ SocketChecks[n] \in Range(SocketChecks)
  BY <1>4 DEF Range
<1>. QED
  BY <1>1, <1>2, <1>3, <1>4, <1>5

(* The steps of the socket checks that run at a time are those of one.     *)
LEMMA OneSocketCheck ==
  ASSUME phase = "sockets", NEW c \in Checks, NEW d \in Checks,
         Running(c), Running(d)
  PROVE  c = d
<1>1. PICK n \in DOMAIN SocketChecks :
        SocketChecks[n] = c /\ \A m \in 1..(n - 1) : SocketChecks[m] \in returned
  BY DEF Running
<1>2. PICK k \in DOMAIN SocketChecks :
        SocketChecks[k] = d /\ \A m \in 1..(k - 1) : SocketChecks[m] \in returned
  BY DEF Running
<1>3. n \in Nat /\ k \in Nat /\ n > 0 /\ k > 0
  BY ConstantFacts
<1>4. ~(n < k)
  <2>1. SUFFICES ASSUME n < k PROVE FALSE
    OBVIOUS
  <2>2. n \in 1..(k - 1)
    BY <2>1, <1>3
  <2>. QED
    BY <2>2, <1>1, <1>2 DEF Running, Ended
<1>5. ~(k < n)
  <2>1. SUFFICES ASSUME k < n PROVE FALSE
    OBVIOUS
  <2>2. k \in 1..(n - 1)
    BY <2>1, <1>3
  <2>. QED
    BY <2>2, <1>1, <1>2 DEF Running, Ended
<1>. QED
  BY <1>1, <1>2, <1>3, <1>4, <1>5

(* Once a socket check has raised no check runs any more.                  *)
LEMMA NoneAfterRaise ==
  ASSUME Endings, phase = "sockets", NEW d \in raised, NEW c \in Checks
  PROVE  ~Running(c)
<1>1. SUFFICES ASSUME Running(c) PROVE FALSE
  OBVIOUS
<1>2. PICK n \in DOMAIN SocketChecks :
        SocketChecks[n] = c /\ \A m \in 1..(n - 1) : SocketChecks[m] \in returned
  BY <1>1 DEF Running
<1>3. PICK k \in DOMAIN SocketChecks :
        SocketChecks[k] = d /\ \A m \in 1..(k - 1) : SocketChecks[m] \in returned
  BY DEF Endings
<1>4. d \notin returned /\ c \notin returned /\ c # d
  BY <1>1 DEF Endings, Running, Ended
<1>5. n \in Nat /\ k \in Nat /\ n > 0 /\ k > 0
  BY ConstantFacts
<1>6. ~(n < k) /\ ~(k < n)
  <2>1. n < k => n \in 1..(k - 1)
    BY <1>5
  <2>2. k < n => k \in 1..(n - 1)
    BY <1>5
  <2>. QED
    BY <2>1, <2>2, <1>2, <1>3, <1>4
<1>. QED
  BY <1>2, <1>3, <1>4, <1>5, <1>6

LEMMA RangeAppend ==
  ASSUME NEW S, NEW s \in Seq(S), NEW e \in S
  PROVE  /\ Append(s, e) \in Seq(S)
         /\ Range(Append(s, e)) = Range(s) \union {e}
<1>1. /\ Append(s, e) \in Seq(S)
      /\ DOMAIN Append(s, e) = 1..(Len(s) + 1) /\ DOMAIN s = 1..Len(s)
      /\ Len(s) \in Nat
      /\ Append(s, e)[Len(s) + 1] = e
      /\ \A i \in 1..Len(s) : Append(s, e)[i] = s[i]
  OBVIOUS
<1>2. 1..(Len(s) + 1) = (1..Len(s)) \union {Len(s) + 1}
  BY <1>1
<1>. QED
  BY <1>1, <1>2 DEF Range

LEMMA InitRun == Init => RunInv
<1>. SUFFICES ASSUME Init PROVE RunInv
  OBVIOUS
<1>1. Range(failures) = {}
  BY DEF Init, Range
<1>. QED
  BY <1>1, ConstantFacts DEF Init, RunInv, Shape, Working, Held, Endings, Trace, KeysOf

-----------------------------------------------------------------------------
(* A check that is over, or a phase that is, has no step under way.        *)
LEMMA Idle ==
  ASSUME RunInv, NEW c \in Checks, ~Running(c)
  PROVE  busy[c] = {}
BY DEF RunInv, Working

(* What a check that ends a step leaves of the invariant, the trace apart. *)
LEMMA EndStep ==
  ASSUME RunInv, NEW c \in Checks, NEW i \in Steps(c), End(c, i),
         UNCHANGED <<phase, returned, raised>>
  PROVE  /\ Working' /\ Endings'
         /\ busy' \in [Checks -> SUBSET Nat] /\ done' \in [Checks -> SUBSET Nat]
         /\ \A d \in Checks : /\ busy'[d] \subseteq Steps(d) /\ done'[d] \subseteq Steps(d)
                              /\ busy'[d] \cap done'[d] = {}
<1>1. i \in Nat /\ i \in busy[c]
  BY ConstantFacts DEF End
<1>2. /\ busy' = [busy EXCEPT ![c] = busy[c] \ {i}]
      /\ done' = [done EXCEPT ![c] = done[c] \union {i}]
      /\ busy' \in [Checks -> SUBSET Nat] /\ done' \in [Checks -> SUBSET Nat]
  BY <1>1 DEF End, RunInv, Shape
<1>3. \A d \in Checks : /\ busy'[d] \subseteq busy[d] /\ done[d] \subseteq done'[d]
                        /\ d # c => done'[d] = done[d]
  BY <1>2 DEF RunInv, Shape
<1>4. \A d \in Checks : Running(d)' <=> Running(d)
  BY DEF Running, Ended
<1>5. Running(c) /\ c \notin returned
  BY <1>1 DEF RunInv, Working, Running, Ended
<1>6. Working'
  BY <1>3, <1>4 DEF RunInv, Working
<1>7. Endings'
  BY <1>3, <1>5 DEF RunInv, Shape, Endings, Steps
<1>8. \A d \in Checks : /\ busy'[d] \subseteq Steps(d) /\ done'[d] \subseteq Steps(d)
                        /\ busy'[d] \cap done'[d] = {}
  BY <1>2, <1>1 DEF RunInv, Shape
<1>. QED
  BY <1>2, <1>6, <1>7, <1>8

LEMMA BeginStep ==
  ASSUME RunInv, NEW c \in Checks, NEW i \in Steps(c), Begin(c, i)
  PROVE  RunInv'
<1>1. /\ busy' = [busy EXCEPT ![c] = busy[c] \union {i}]
      /\ UNCHANGED <<phase, done, left, answers, failures, returned, raised, evidence>>
      /\ i \in Nat /\ Running(c) /\ i \notin done[c]
      /\ c \in Sweeps \/ 1..(i - 1) \subseteq done[c]
  BY ConstantFacts DEF Begin
<1>2. Shape'
  BY <1>1 DEF RunInv, Shape, Steps
<1>3. \A d \in Checks : Running(d)' <=> Running(d)
  BY <1>1 DEF Running, Ended
<1>4. Working'
  BY <1>1, <1>3 DEF RunInv, Shape, Working
<1>5. Held'
  BY <1>1, <1>3 DEF RunInv, Held
<1>6. Endings' /\ Trace'
  BY <1>1 DEF RunInv, Endings, Trace, Steps, KeysOf, Range
<1>. QED
  BY <1>2, <1>4, <1>5, <1>6 DEF RunInv

LEMMA CloseStep ==
  ASSUME RunInv, NEW c \in Checks, NEW i \in Steps(c), Close(c, i)
  PROVE  RunInv'
<1>1. /\ End(c, i) /\ Program[c][i] = Socket
      /\ left' \subseteq left \union (Careless \cap {c})
      /\ UNCHANGED <<phase, answers, failures, returned, raised, evidence>>
  BY DEF Close
<1>2. Shape' /\ Working' /\ Endings'
  BY <1>1, EndStep DEF RunInv, Shape, Steps
<1>3. /\ \A d \in Checks \ {c} : done'[d] = done[d]
      /\ done'[c] = done[c] \union {i}
  BY <1>1 DEF End, RunInv, Shape
<1>4. \A d \in Checks : KeysOf(d, done'[d]) = KeysOf(d, done[d])
  BY <1>1, <1>3 DEF KeysOf
<1>5. Trace'
  <2>1. \A d \in Checks : \A j \in done'[d] :
          Program[d][j] # Socket => answers'[Program[d][j]] # "unread"
    BY <1>1, <1>3 DEF RunInv, Trace
  <2>2. Range(failures)' = {f \in Checks \X Keys :
          f[2] \in KeysOf(f[1], done'[f[1]]) /\ answers'[f[2]] = "failed"}
    BY <1>1, <1>4 DEF RunInv, Trace, Range
  <2>3. (phase = "published" => Checks \subseteq returned /\ evidence = Range(failures))'
    BY <1>1 DEF RunInv, Trace, Range
  <2>. QED
    BY <2>1, <2>2, <2>3 DEF Trace, KeysOf
<1>6. Held'
  <2>1. \A d \in Checks : Running(d)' <=> Running(d)
    BY <1>1 DEF Running, Ended
  <2>2. Running(c)
    BY <1>1 DEF End, RunInv, Working
  <2>3. c \in Careless => phase = "sockets"
    BY <2>2, RunAssumption DEF Running
  <2>. QED
    BY <1>1, <2>1, <2>2, <2>3 DEF RunInv, Held
<1>. QED
  BY <1>2, <1>5, <1>6 DEF RunInv

LEMMA ReadStep ==
  ASSUME RunInv, NEW c \in Checks, NEW i \in Steps(c),
         NEW answer \in {"fine", "gap", "failed"}, Read(c, i, answer)
  PROVE  RunInv'
<1>. DEFINE k == Program[c][i]
<1>1. /\ End(c, i) /\ k # Socket
      /\ answer = answers[k] \/ answers[k] = "unread"
      /\ answers' = [answers EXCEPT ![k] = answer]
      /\ failures' = IF answer = "failed" THEN Append(failures, <<c, k>>) ELSE failures
      /\ UNCHANGED <<phase, left, returned, raised, evidence>>
  BY DEF Read
<1>2. k \in Keys
  BY <1>1, ConstantFacts
<1>3. /\ answers' \in [Keys -> {"unread", "fine", "gap", "failed"}]
      /\ answers'[k] = answer
      /\ \A l \in Keys : l # k => answers'[l] = answers[l]
  BY <1>1, <1>2 DEF RunInv, Shape
<1>4. /\ failures' \in Seq(Checks \X Keys)
      /\ Range(failures') = Range(failures) \union
                            (IF answer = "failed" THEN {<<c, k>>} ELSE {})
  <2>1. failures \in Seq(Checks \X Keys) /\ <<c, k>> \in Checks \X Keys
    BY <1>2 DEF RunInv, Shape
  <2>2. /\ Append(failures, <<c, k>>) \in Seq(Checks \X Keys)
        /\ Range(Append(failures, <<c, k>>)) = Range(failures) \union {<<c, k>>}
    BY <2>1, RangeAppend
  <2>3. CASE answer = "failed"
    <3>1. failures' = Append(failures, <<c, k>>)
      BY <1>1, <2>3
    <3>. QED
      BY <3>1, <2>2, <2>3, Zenon
  <2>4. CASE answer # "failed"
    <3>1. failures' = failures
      BY <1>1, <2>4
    <3>2. Range(failures') = Range(failures) \union {}
      BY <3>1
    <3>. QED
      BY <3>1, <3>2, <2>1, <2>4
  <2>. QED
    BY <2>3, <2>4
<1>5. Working' /\ Endings' /\ Shape'
  BY <1>1, <1>3, <1>4, EndStep DEF RunInv, Shape, Steps
<1>6. /\ \A d \in Checks : d # c => done'[d] = done[d]
      /\ done'[c] = done[c] \union {i}
  BY <1>1 DEF End, RunInv, Shape
<1>7. /\ \A d \in Checks : d # c => KeysOf(d, done'[d]) = KeysOf(d, done[d])
      /\ KeysOf(c, done'[c]) = KeysOf(c, done[c]) \union {k}
  BY <1>1, <1>6 DEF KeysOf
<1>8. \A d \in Checks : \A l \in KeysOf(d, done[d]) : answers[l] # "unread" /\ l \in Keys
  BY ConstantFacts DEF RunInv, Shape, Trace, KeysOf
<1>9. \A d \in Checks : \A l \in KeysOf(d, done[d]) : answers'[l] = answers[l]
  BY <1>1, <1>3, <1>8
<1>10. \A d \in Checks : \A j \in done'[d] :
         Program[d][j] # Socket => answers'[Program[d][j]] # "unread"
  <2>1. SUFFICES ASSUME NEW d \in Checks, NEW j \in done'[d], Program[d][j] # Socket
                 PROVE  answers'[Program[d][j]] # "unread"
    OBVIOUS
  <2>2. Program[d][j] \in KeysOf(d, done'[d])
    BY <2>1 DEF KeysOf
  <2>. QED
    BY <2>2, <1>3, <1>7, <1>8, <1>9
<1>11. Range(failures)' = {f \in Checks \X Keys :
         f[2] \in KeysOf(f[1], done'[f[1]]) /\ answers'[f[2]] = "failed"}
  <2>1. Range(failures) = {f \in Checks \X Keys :
          f[2] \in KeysOf(f[1], done[f[1]]) /\ answers[f[2]] = "failed"}
    BY DEF RunInv, Trace
  <2>2. Range(failures)' = Range(failures')
    BY DEF Range
  <2>3. \A f \in Checks \X Keys :
          (f[2] \in KeysOf(f[1], done'[f[1]]) /\ answers'[f[2]] = "failed") <=>
          \/ f[2] \in KeysOf(f[1], done[f[1]]) /\ answers[f[2]] = "failed"
          \/ answer = "failed" /\ f = <<c, k>>
    <3>1. SUFFICES ASSUME NEW d \in Checks, NEW l \in Keys
                   PROVE (l \in KeysOf(d, done'[d]) /\ answers'[l] = "failed") <=>
                         \/ l \in KeysOf(d, done[d]) /\ answers[l] = "failed"
                         \/ answer = "failed" /\ d = c /\ l = k
      OBVIOUS
    <3>. QED
      BY <1>3, <1>7, <1>9
  <2>. QED
    BY <2>1, <2>2, <2>3, <1>2, <1>4
<1>12. (phase = "published" => Checks \subseteq returned /\ evidence = Range(failures))'
  <2>1. ~(phase = "published")
    BY <1>1 DEF End, RunInv, Working, Running
  <2>. QED
    BY <2>1, <1>1
<1>13. Trace'
  BY <1>10, <1>11, <1>12 DEF Trace, KeysOf
<1>14. Held'
  <2>1. \A d \in Checks : Running(d)' <=> Running(d)
    BY <1>1 DEF Running, Ended
  <2>. QED
    BY <1>1, <2>1 DEF RunInv, Held
<1>. QED
  BY <1>5, <1>13, <1>14 DEF RunInv

LEMMA ReturnStep ==
  ASSUME RunInv, NEW c \in Checks, Return(c)
  PROVE  RunInv'
<1>1. /\ returned' = returned \union {c} /\ done[c] = Steps(c) /\ Running(c)
      /\ left' = left \ {c}
      /\ UNCHANGED <<phase, busy, done, answers, failures, raised, evidence>>
  BY DEF Return
<1>2. busy[c] = {}
  BY <1>1 DEF RunInv, Shape
<1>3. Shape'
  BY <1>1 DEF RunInv, Shape, Steps
<1>4. \A d \in Checks : d # c /\ Running(d) => Running(d)'
  BY <1>1 DEF Running, Ended
<1>5. Working'
  BY <1>1, <1>2, <1>4 DEF RunInv, Working
<1>6. Endings'
  BY <1>1 DEF RunInv, Endings, Running, Ended, Steps
<1>7. Trace'
  BY <1>1 DEF RunInv, Trace, KeysOf, Range
<1>8. Held'
  BY <1>1, <1>4 DEF RunInv, Held
<1>. QED
  BY <1>3, <1>5, <1>6, <1>7, <1>8 DEF RunInv

LEMMA RaiseStep ==
  ASSUME RunInv, NEW c \in Checks, Raise(c)
  PROVE  RunInv'
<1>1. /\ raised' = raised \union {c} /\ busy[c] = {} /\ Running(c)
      /\ UNCHANGED <<phase, busy, done, left, answers, failures, returned, evidence>>
  BY DEF Raise
<1>2. Shape'
  BY <1>1 DEF RunInv, Shape, Steps
<1>3. \A d \in Checks : d # c /\ Running(d) => Running(d)'
  BY <1>1 DEF Running, Ended
<1>4. Working'
  BY <1>1, <1>3 DEF RunInv, Working
<1>5. Endings'
  BY <1>1 DEF RunInv, Endings, Running, Ended, Steps
<1>6. Trace'
  BY <1>1 DEF RunInv, Trace, KeysOf, Range
<1>7. Held'
  BY <1>1, <1>3 DEF RunInv, Held
<1>. QED
  BY <1>2, <1>4, <1>5, <1>6, <1>7 DEF RunInv

(* A phase ends only when nothing is under way.                            *)
LEMMA DrainStep == ASSUME RunInv, Drain PROVE RunInv'
<1>1. /\ phase = "dns" /\ phase' = "sockets" /\ Range(DnsChecks) \subseteq returned
      /\ UNCHANGED <<busy, done, left, answers, failures, returned, raised, evidence>>
  BY DEF Drain
<1>2. \A c \in Checks : busy[c] = {}
  <2>1. \A c \in Checks : ~Running(c)
    BY <1>1 DEF Running, Ended
  <2>. QED
    BY <2>1, Idle
<1>3. Shape'
  BY <1>1 DEF RunInv, Shape, Steps
<1>4. Working'
  BY <1>1, <1>2 DEF Working
<1>5. \A c \in raised : FALSE
  BY <1>1 DEF RunInv, Endings
<1>6. Endings'
  BY <1>1, <1>5 DEF RunInv, Endings, Steps
<1>7. Trace'
  BY <1>1 DEF RunInv, Trace, KeysOf, Range
<1>8. Held'
  BY <1>1 DEF RunInv, Held
<1>. QED
  BY <1>3, <1>4, <1>6, <1>7, <1>8 DEF RunInv

LEMMA DieStep == ASSUME RunInv, Die PROVE RunInv'
<1>1. /\ phase' = "died" /\ raised # {}
      /\ (phase = "dns" /\ \A c \in Range(DnsChecks) : Ended(c)) \/ phase = "sockets"
      /\ left' = {}
      /\ UNCHANGED <<busy, done, answers, failures, returned, raised, evidence>>
  BY DEF Die
<1>2. \A c \in Checks : ~Running(c)
  BY <1>1, NoneAfterRaise DEF RunInv, Running
<1>3. \A c \in Checks : busy[c] = {}
  BY <1>2, Idle
<1>4. Shape'
  BY <1>1 DEF RunInv, Shape, Steps
<1>5. Working' /\ Endings'
  BY <1>1, <1>3 DEF RunInv, Working, Endings, Steps
<1>6. Trace'
  BY <1>1 DEF RunInv, Trace, KeysOf, Range
<1>7. Held'
  BY <1>1 DEF Held
<1>. QED
  BY <1>4, <1>5, <1>6, <1>7 DEF RunInv

LEMMA PublishStep == ASSUME RunInv, Publish PROVE RunInv'
<1>1. /\ phase = "sockets" /\ phase' = "published" /\ Range(SocketChecks) \subseteq returned
      /\ evidence' = Range(failures)
      /\ UNCHANGED <<busy, done, left, answers, failures, returned, raised>>
  BY DEF Publish
<1>2. Checks \subseteq returned
  BY <1>1 DEF RunInv, Endings, Checks
<1>3. \A c \in Checks : busy[c] = {}
  BY <1>2, Idle DEF Running, Ended
<1>4. Shape'
  BY <1>1 DEF RunInv, Shape, Steps
<1>5. Working' /\ Endings'
  BY <1>1, <1>3 DEF RunInv, Working, Endings, Steps
<1>6. Trace'
  BY <1>1, <1>2 DEF RunInv, Trace, KeysOf, Range
<1>7. left = {}
  BY <1>2 DEF RunInv, Held, Endings, Running, Ended
<1>8. Held'
  BY <1>1, <1>7 DEF Held
<1>. QED
  BY <1>4, <1>5, <1>6, <1>8 DEF RunInv

LEMMA StutterStep == ASSUME RunInv, UNCHANGED vars PROVE RunInv'
<1>1. Shape' /\ Working' /\ Held' /\ Endings'
  BY DEF vars, RunInv, Shape, Working, Held, Endings, Running, Ended, Steps
<1>2. Trace'
  BY DEF vars, RunInv, Trace, KeysOf, Range
<1>. QED
  BY <1>1, <1>2 DEF RunInv

(* A step under way belongs to a check that runs in its phase, and the    *)
(* trace holds the failures of the steps done.                            *)
THEOREM Invariance == Spec => []RunInv
<1>1. RunInv /\ [Next]_vars => RunInv'
  <2>1. SUFFICES ASSUME RunInv, [Next]_vars PROVE RunInv'
    OBVIOUS
  <2>2. ASSUME NEW c \in Checks, Step(c) PROVE RunInv'
    BY <2>1, <2>2, BeginStep, CloseStep, ReadStep, ReturnStep DEF Step
  <2>3. ASSUME NEW c \in Checks, Raise(c) PROVE RunInv'
    BY <2>1, <2>3, RaiseStep
  <2>4. Finished \/ UNCHANGED vars => RunInv'
    BY <2>1, StutterStep DEF Finished
  <2>. QED
    BY <2>1, <2>2, <2>3, <2>4, DrainStep, DieStep, PublishStep DEF Next
<1>. QED
  BY InitRun, <1>1, PTL DEF Spec
-----------------------------------------------------------------------------
(* A socket probe runs alone and a connection it leaves open is met by no  *)
(* other check, whatever the checks read and in any schedule: the second   *)
(* phase starts after the last lookup of the pool, its checks run in turn, *)
(* and a check's connection goes with its local variables.                 *)
THEOREM SocketsAlone == Spec => []NoOverlap
<1>1. RunInv => \A c \in left : \A d \in Checks \ {c} : ~Running(d)
  BY OneSocketCheck, NoneAfterRaise DEF RunInv, Held
<1>2. RunInv => \A c \in left : \A d \in Checks \ {c} : busy[d] = {}
  BY <1>1, Idle
<1>3. ASSUME RunInv, NEW c \in Checks, NEW i \in busy[c], Program[c][i] = Socket
      PROVE  busy = [d \in Checks |-> IF d = c THEN {i} ELSE {}] /\ left \subseteq {c}
  <2>1. Running(c) /\ i \in Steps(c)
    BY <1>3 DEF RunInv, Working, Shape
  <2>2. c \notin Range(DnsChecks) /\ c \notin Sweeps
    BY <1>3, <2>1, RunAssumption DEF Steps, Range
  <2>3. phase = "sockets"
    BY <2>1, <2>2 DEF Running
  <2>4. \A d \in Checks : d # c => busy[d] = {}
    BY <1>3, <2>1, <2>3, OneSocketCheck, Idle
  <2>5. \A j \in busy[c] : j = i
    <3>1. SUFFICES ASSUME NEW j \in busy[c], j # i PROVE FALSE
      OBVIOUS
    <3>2. i \in Nat /\ j \in Nat /\ i > 0 /\ j > 0
      BY <1>3, ConstantFacts DEF RunInv, Shape
    <3>3. i \in 1..(j - 1) \/ j \in 1..(i - 1)
      BY <3>1, <3>2
    <3>4. 1..(i - 1) \subseteq done[c] /\ 1..(j - 1) \subseteq done[c]
      BY <1>3, <2>2 DEF RunInv, Working
    <3>. QED
      BY <3>3, <3>4, <1>3 DEF RunInv, Shape
  <2>6. busy[c] = {i}
    BY <1>3, <2>5
  <2>7. busy \in [Checks -> SUBSET Nat]
    BY <1>3 DEF RunInv, Shape
  <2>8. left \subseteq {c}
    BY <1>1, <1>3, <2>1
  <2>. QED
    BY <2>4, <2>6, <2>7, <2>8
<1>4. RunInv => NoOverlap
  BY <1>2, <1>3 DEF NoOverlap
<1>. QED
  BY <1>4, Invariance, PTL

(* The ledger of a published audit holds the failures its checks consumed, *)
(* all of them and no other.                                               *)
THEOREM LedgerAfterLastRead == Spec => []EvidenceComplete
<1>1. RunInv => EvidenceComplete
  <2>1. SUFFICES ASSUME RunInv, phase = "published"
                 PROVE  evidence = Consumed({"failed"})
    BY DEF EvidenceComplete
  <2>2. \A c \in Checks : done[c] = Steps(c)
    BY <2>1 DEF RunInv, Trace, Endings
  <2>3. \A c \in Checks : \A k \in Keys :
          k \in KeysOf(c, done[c]) <=> k \in Range(Program[c])
    BY <2>2, ConstantFacts DEF KeysOf, Range, Steps
  <2>4. evidence = {f \in Checks \X Keys :
          f[2] \in KeysOf(f[1], done[f[1]]) /\ answers[f[2]] = "failed"}
    BY <2>1 DEF RunInv, Trace
  <2>5. \A f \in Checks \X Keys : f[1] \in Checks /\ f[2] \in Keys
    OBVIOUS
  <2>. QED
    BY <2>3, <2>4, <2>5 DEF Consumed
<1>. QED
  BY <1>1, Invariance, PTL

-----------------------------------------------------------------------------
LEMMA Below == OpToRel(<, Nat) = {ss \in Nat \X Nat : ss[1] < ss[2]}
BY Zenon DEF OpToRel

(* A nonempty set of numbers has a least one.                              *)
LEMMA LeastIn ==
  ASSUME NEW S \in SUBSET Nat, S # {}
  PROVE  \E m \in S : \A y \in S : m <= y
<1>1. \E m \in S : \A y \in S : <<y, m>> \notin OpToRel(<, Nat)
  BY NatLessThanWellFounded, WFMin
<1>2. PICK m \in S : \A y \in S : <<y, m>> \notin {ss \in Nat \X Nat : ss[1] < ss[2]}
  BY <1>1, Below, Zenon
<1>3. \A y \in S : ~(<<y, m>>[1] < <<y, m>>[2])
  BY <1>2, Zenon
<1>. QED
  BY <1>3

(* Induction over the numbers: a set that holds zero and each successor of *)
(* its members holds them all.                                             *)
LEMMA Induction ==
  ASSUME NEW P, 0 \in P, \A n \in Nat : n \in P => n + 1 \in P
  PROVE  Nat \subseteq P
<1>1. SUFFICES ASSUME Nat \ P # {} PROVE FALSE
  OBVIOUS
<1>2. PICK m \in Nat \ P : \A y \in Nat \ P : m <= y
  BY <1>1, LeastIn
<1>3. m # 0 /\ m - 1 \in Nat /\ (m - 1) + 1 = m /\ ~(m <= m - 1)
  OBVIOUS
<1>. QED
  BY <1>2, <1>3

-----------------------------------------------------------------------------
(* FlattenSeq joins the sequences from the first to the last.              *)
Joins(ss, f, n) == f = [i \in 1..n |-> IF i = 1 THEN ss[i] ELSE f[i-1] \o ss[i]]

LEMMA JoinsExists == ASSUME NEW ss, NEW n \in Nat PROVE \E f : Joins(ss, f, n)
<1>. DEFINE P == {k \in Nat : \E f : Joins(ss, f, k)}
<1>1. 0 \in P
  <2>. DEFINE f == [i \in 1..0 |-> ss[i]]
  <2>1. f = [i \in 1..0 |-> IF i = 1 THEN ss[i] ELSE f[i-1] \o ss[i]]
    OBVIOUS
  <2>2. Joins(ss, f, 0)
    BY <2>1, Zenon DEF Joins
  <2>. QED
    BY <2>2
<1>2. ASSUME NEW k \in Nat, k \in P
      PROVE  k + 1 \in P
  <2>1. PICK f : Joins(ss, f, k)
    BY <1>2
  <2>. DEFINE new == IF k + 1 = 1 THEN ss[k + 1] ELSE f[k] \o ss[k + 1]
  <2>. DEFINE g == [i \in 1..(k + 1) |-> IF i = k + 1 THEN new ELSE f[i]]
  <2>2. \A i \in 1..k : f[i] = IF i = 1 THEN ss[i] ELSE f[i-1] \o ss[i]
    BY <2>1, Zenon DEF Joins
  <2>3. \A i \in 1..(k + 1) : g[i] = IF i = 1 THEN ss[i] ELSE g[i-1] \o ss[i]
    <3>1. \A i \in 1..k : i # k + 1 /\ i \in 1..(k + 1) /\ (i # 1 => i - 1 \in 1..k)
      OBVIOUS
    <3>2. k + 1 \in 1..(k + 1) /\ (k + 1) - 1 = k /\ (k + 1 # 1 => k \in 1..k)
      OBVIOUS
    <3>3. \A i \in 1..(k + 1) : i = k + 1 \/ i \in 1..k
      OBVIOUS
    <3>. HIDE DEF new
    <3>4. \A i \in 1..k : g[i] = f[i]
      BY <3>1
    <3>5. g[k + 1] = new
      BY <3>2
    <3>. HIDE DEF g
    <3>6. \A i \in 1..k : i # 1 => g[i-1] = f[i-1]
      BY <3>1, <3>4
    <3>7. k + 1 # 1 => g[(k + 1) - 1] = f[k]
      BY <3>2, <3>4
    <3>8. new = IF k + 1 = 1 THEN ss[k + 1] ELSE g[(k + 1) - 1] \o ss[k + 1]
      BY <3>7 DEF new
    <3>9. \A i \in 1..k : g[i] = IF i = 1 THEN ss[i] ELSE g[i-1] \o ss[i]
      BY <2>2, <3>4, <3>6
    <3>. QED
      BY <3>3, <3>5, <3>8, <3>9
  <2>4. g = [i \in 1..(k + 1) |-> g[i]]
    OBVIOUS
  <2>. HIDE DEF g
  <2>5. g = [i \in 1..(k + 1) |-> IF i = 1 THEN ss[i] ELSE g[i-1] \o ss[i]]
    BY <2>3, <2>4
  <2>6. Joins(ss, g, k + 1)
    BY <2>5, Zenon DEF Joins
  <2>. QED
    BY <2>6
<1>. HIDE DEF P
<1>3. Nat \subseteq P
  BY <1>1, <1>2, Induction
<1>. QED
  BY <1>3 DEF P

LEMMA FlattenIs ==
  ASSUME NEW ss, Len(ss) \in Nat \ {0}
  PROVE  \E f : /\ FlattenSeq(ss) = f[Len(ss)]
                /\ f[1] = ss[1]
                /\ \A i \in 2..Len(ss) : f[i] = f[i-1] \o ss[i]
<1>. DEFINE f == CHOOSE f : Joins(ss, f, Len(ss))
<1>1. Joins(ss, f, Len(ss))
  BY JoinsExists, Zenon
<1>2. FlattenSeq(ss) = f[Len(ss)]
  <2>1. Len(ss) # 0
    OBVIOUS
  <2>. QED
    BY <2>1, Zenon DEF FlattenSeq, Joins
<1>. HIDE DEF f
<1>3. f = [i \in 1..Len(ss) |-> IF i = 1 THEN ss[i] ELSE f[i-1] \o ss[i]]
  BY <1>1, Zenon DEF Joins
<1>4. f[1] = ss[1] /\ \A i \in 2..Len(ss) : f[i] = f[i-1] \o ss[i]
  <2>1. 1 \in 1..Len(ss) /\ \A i \in 2..Len(ss) : i \in 1..Len(ss) /\ i # 1
    OBVIOUS
  <2>2. \A i \in 1..Len(ss) : f[i] = IF i = 1 THEN ss[i] ELSE f[i-1] \o ss[i]
    BY <1>3, Zenon
  <2>. QED
    BY <2>1, <2>2
<1>. QED
  BY <1>2, <1>4

(* A sequence that follows a relation.                                     *)
Follows(s, R) == \A m, n \in DOMAIN s : m < n => <<s[m], s[n]>> \in R

LEMMA Joined ==
  ASSUME NEW S, NEW s \in Seq(S), NEW t \in Seq(S)
  PROVE  /\ s \o t \in Seq(S)
         /\ Range(s \o t) = Range(s) \union Range(t)
         /\ s # <<>> => s \o t # <<>> /\ (s \o t)[1] = s[1]
         /\ s = <<>> => s \o t = t
         /\ t = <<>> => s \o t = s
<1>. DEFINE u == s \o t
            p == Len(s)
            q == Len(t)
<1>1. /\ u \in Seq(S) /\ p \in Nat /\ q \in Nat
      /\ DOMAIN s = 1..p /\ DOMAIN t = 1..q /\ DOMAIN u = 1..(p + q)
      /\ \A i \in 1..(p + q) : u[i] = IF i <= p THEN s[i] ELSE t[i - p]
      /\ (s = <<>> <=> p = 0) /\ (t = <<>> <=> q = 0) /\ (u = <<>> <=> p + q = 0)
  OBVIOUS
<1>2. s = <<>> => s \o t = t
  OBVIOUS
<1>3. t = <<>> => s \o t = s
  OBVIOUS
<1>. HIDE DEF u, p, q
<1>4. /\ \A i \in 1..p : i \in 1..(p + q) /\ i <= p
      /\ \A i \in 1..q : p + i \in 1..(p + q) /\ ~(p + i <= p) /\ (p + i) - p = i
      /\ \A i \in 1..(p + q) : i \in 1..p \/ (~(i <= p) /\ i - p \in 1..q)
  BY <1>1
<1>5. (\A i \in 1..p : u[i] = s[i]) /\ (\A i \in 1..q : u[p + i] = t[i])
  BY <1>1, <1>4
<1>6. Range(u) = Range(s) \union Range(t)
  <2>1. \A x \in Range(s) : x \in Range(u)
    BY <1>1, <1>4, <1>5 DEF Range
  <2>2. ASSUME NEW x \in Range(t) PROVE x \in Range(u)
    <3>1. PICK i \in 1..q : x = t[i]
      BY <1>1, <2>2 DEF Range
    <3>2. p + i \in DOMAIN u /\ u[p + i] = x
      BY <1>1, <1>4, <1>5, <3>1
    <3>. QED
      BY <3>2 DEF Range
  <2>3. ASSUME NEW x \in Range(u) PROVE x \in Range(s) \union Range(t)
    <3>1. PICK i \in 1..(p + q) : x = u[i]
      BY <1>1, <2>3 DEF Range
    <3>2. CASE i \in 1..p
      BY <1>1, <1>5, <3>1, <3>2 DEF Range
    <3>3. CASE ~(i <= p) /\ i - p \in 1..q
      <4>1. x = t[i - p]
        BY <1>1, <3>1, <3>3
      <4>. QED
        BY <1>1, <3>3, <4>1 DEF Range
    <3>. QED
      BY <1>4, <3>2, <3>3
  <2>. QED
    BY <2>1, <2>2, <2>3
<1>7. s # <<>> => u # <<>> /\ u[1] = s[1]
  <2>1. SUFFICES ASSUME p # 0 PROVE p + q # 0 /\ 1 \in 1..p
    BY <1>1, <1>5
  <2>. QED
    BY <1>1, <2>1
<1>. QED
  BY <1>1, <1>2, <1>3, <1>6, <1>7 DEF u

LEMMA JoinedFollows ==
  ASSUME NEW S, NEW s \in Seq(S), NEW t \in Seq(S), NEW R,
         Follows(s, R), Follows(t, R), \A x \in Range(s), y \in Range(t) : <<x, y>> \in R
  PROVE  Follows(s \o t, R)
<1>. DEFINE u == s \o t
            p == Len(s)
            q == Len(t)
<1>1. /\ p \in Nat /\ q \in Nat
      /\ DOMAIN s = 1..p /\ DOMAIN t = 1..q /\ DOMAIN u = 1..(p + q)
      /\ \A i \in 1..(p + q) : u[i] = IF i <= p THEN s[i] ELSE t[i - p]
  OBVIOUS
<1>. HIDE DEF u, p, q
<1>2. SUFFICES ASSUME NEW m \in 1..(p + q), NEW n \in 1..(p + q), m < n
               PROVE  <<u[m], u[n]>> \in R
  BY <1>1 DEF Follows, u
<1>3. \A i \in 1..(p + q) : i \in 1..p \/ (~(i <= p) /\ i - p \in 1..q)
  BY <1>1
<1>4. CASE m \in 1..p /\ n \in 1..p
  BY <1>1, <1>2, <1>4 DEF Follows
<1>5. CASE m \in 1..p /\ ~(n <= p) /\ n - p \in 1..q
  <2>1. u[n] = t[n - p] /\ u[m] = s[m]
    BY <1>1, <1>5
  <2>2. s[m] \in Range(s) /\ t[n - p] \in Range(t)
    BY <1>1, <1>5 DEF Range
  <2>. QED
    BY <2>1, <2>2
<1>6. CASE ~(m <= p) /\ m - p \in 1..q /\ ~(n <= p) /\ n - p \in 1..q
  <2>1. u[n] = t[n - p] /\ u[m] = t[m - p] /\ m - p < n - p
    BY <1>1, <1>2, <1>6
  <2>. QED
    BY <1>1, <1>6, <2>1 DEF Follows
<1>7. ~(~(m <= p) /\ n \in 1..p)
  BY <1>1, <1>2
<1>. QED
  BY <1>3, <1>4, <1>5, <1>6, <1>7

(* What FlattenSeq keeps: the members, the order, and the first of them.   *)
LEMMA Flattened ==
  ASSUME NEW S, NEW ss \in Seq(Seq(S)), NEW R
  PROVE  /\ FlattenSeq(ss) \in Seq(S)
         /\ \A x : x \in Range(FlattenSeq(ss)) <=> \E n \in DOMAIN ss : x \in Range(ss[n])
         /\ /\ \A n \in DOMAIN ss : Follows(ss[n], R)
            /\ \A m, n \in DOMAIN ss : m < n =>
                 \A x \in Range(ss[m]), y \in Range(ss[n]) : <<x, y>> \in R
            => Follows(FlattenSeq(ss), R)
         /\ \A n \in DOMAIN ss : ss[n] # <<>> /\ (\A m \in 1..(n - 1) : ss[m] = <<>>) =>
              FlattenSeq(ss) # <<>> /\ FlattenSeq(ss)[1] = ss[n][1]
<1>. DEFINE N == Len(ss)
            F0 == FlattenSeq(ss)
<1>1. N \in Nat /\ DOMAIN ss = 1..N /\ \A i \in 1..N : ss[i] \in Seq(S)
  OBVIOUS
<1>2. CASE N = 0
  <2>1. FlattenSeq(ss) = ss
    BY <1>2, Zenon DEF FlattenSeq
  <2>2. ss = <<>>
    BY <1>1, <1>2
  <2>3. /\ <<>> \in Seq(S) /\ DOMAIN <<>> = {}
    OBVIOUS
  <2>. QED
    BY <2>1, <2>2, <2>3 DEF Range, Follows
<1>3. CASE N # 0
  <2>1. PICK f : /\ FlattenSeq(ss) = f[N] /\ f[1] = ss[1]
                 /\ \A i \in 2..N : f[i] = f[i-1] \o ss[i]
    BY <1>1, <1>3, FlattenIs
  <2>. DEFINE Ordered == /\ \A n \in 1..N : Follows(ss[n], R)
                         /\ \A m, n \in 1..N : m < n =>
                              \A x \in Range(ss[m]), y \in Range(ss[n]) : <<x, y>> \in R
              Whole(i) == /\ f[i] \in Seq(S)
                          /\ \A x : x \in Range(f[i]) <=> \E n \in 1..i : x \in Range(ss[n])
                          /\ Ordered => Follows(f[i], R)
                          /\ \A n \in 1..i : ss[n] # <<>> /\ (\A m \in 1..(n - 1) : ss[m] = <<>>)
                               => f[i] # <<>> /\ f[i][1] = ss[n][1]
                          /\ (\A n \in 1..i : ss[n] = <<>>) => f[i] = <<>>
  <2>2. Whole(1)
    <3>1. 1 \in 1..N /\ \A n \in 1..1 : n = 1
      BY <1>1, <1>3
    <3>. QED
      BY <1>1, <2>1, <3>1
  <2>3. ASSUME NEW i \in 1..(N - 1), Whole(i)
        PROVE  Whole(i + 1)
    <3>1. i \in Nat /\ i + 1 \in 2..N /\ i + 1 \in 1..N /\ (i + 1) - 1 = i
      BY <1>1
    <3>2. f[i + 1] = f[i] \o ss[i + 1]
      BY <2>1, <3>1
    <3>3. \A n : n \in 1..(i + 1) <=> n \in 1..i \/ n = i + 1
      BY <3>1
    <3>4. ss[i + 1] \in Seq(S) /\ f[i] \in Seq(S)
      BY <1>1, <2>3, <3>1
    <3>5. f[i + 1] \in Seq(S) /\ Range(f[i + 1]) = Range(f[i]) \union Range(ss[i + 1])
      BY <3>2, <3>4, Joined
    <3>6. \A x : x \in Range(f[i + 1]) <=> \E n \in 1..(i + 1) : x \in Range(ss[n])
      BY <2>3, <3>3, <3>5
    <3>7. ASSUME Ordered PROVE Follows(f[i + 1], R)
      <4>1. Follows(f[i], R) /\ Follows(ss[i + 1], R)
        BY <2>3, <3>1, <3>7
      <4>2. ASSUME NEW x \in Range(f[i]), NEW y \in Range(ss[i + 1]) PROVE <<x, y>> \in R
        <5>1. PICK n \in 1..i : x \in Range(ss[n])
          BY <2>3, <4>2
        <5>2. n \in 1..N /\ n < i + 1
          BY <1>1, <3>1
        <5>. QED
          BY <3>1, <3>7, <4>2, <5>1, <5>2
      <4>. QED
        BY <3>2, <3>4, <4>1, <4>2, JoinedFollows
    <3>8. (\A n \in 1..(i + 1) : ss[n] = <<>>) => f[i + 1] = <<>>
      BY <2>3, <3>2, <3>3, <3>4, Joined
    <3>9. ASSUME NEW n \in 1..(i + 1), ss[n] # <<>>, \A m \in 1..(n - 1) : ss[m] = <<>>
          PROVE  f[i + 1] # <<>> /\ f[i + 1][1] = ss[n][1]
      <4>1. CASE n \in 1..i
        <5>1. f[i] # <<>> /\ f[i][1] = ss[n][1]
          BY <2>3, <3>9, <4>1
        <5>2. f[i] # <<>> => f[i] \o ss[i + 1] # <<>> /\ (f[i] \o ss[i + 1])[1] = f[i][1]
          BY <3>4, Joined, Zenon
        <5>. QED
          BY <3>2, <5>1, <5>2
      <4>2. CASE n = i + 1
        <5>1. f[i] = <<>>
          BY <2>3, <3>1, <3>9, <4>2
        <5>2. f[i] = <<>> => f[i] \o ss[i + 1] = ss[i + 1]
          BY <3>4, Joined, Zenon
        <5>3. f[i + 1] = ss[i + 1]
          BY <3>2, <5>1, <5>2
        <5>. QED
          BY <3>9, <4>2, <5>3
      <4>. QED
        BY <3>3, <4>1, <4>2
    <3>. QED
      BY <3>5, <3>6, <3>7, <3>8, <3>9
  <2>. HIDE DEF Whole
  <2>. DEFINE P == {k \in Nat : k + 1 <= N => Whole(k + 1)}
  <2>4. 0 \in P
    BY <2>2
  <2>5. ASSUME NEW k \in Nat, k \in P PROVE k + 1 \in P
    <3>1. SUFFICES ASSUME (k + 1) + 1 <= N PROVE Whole((k + 1) + 1)
      OBVIOUS
    <3>2. k + 1 \in 1..(N - 1) /\ Whole(k + 1)
      BY <1>1, <2>5, <3>1
    <3>. QED
      BY <2>3, <3>1, <3>2
  <2>. HIDE DEF P
  <2>6. Nat \subseteq P
    BY <2>4, <2>5, Induction
  <2>7. Whole(N)
    <3>1. N - 1 \in Nat /\ (N - 1) + 1 = N
      BY <1>1, <1>3
    <3>2. N - 1 \in P
      BY <2>6, <3>1
    <3>3. Whole((N - 1) + 1)
      BY <1>1, <3>1, <3>2 DEF P
    <3>. QED
      BY <3>1, <3>3
  <2>. QED
    BY <1>1, <2>1, <2>7 DEF Whole
<1>. QED
  BY <1>2, <1>3

(* A selection keeps the order of the list.                                *)
LEMMA Selected ==
  ASSUME NEW S, NEW list \in Seq(S), NEW set, NEW R
  PROVE  /\ Kept(list, set) \in Seq(set)
         /\ \A x : x \in Range(Kept(list, set)) <=> x \in Range(list) /\ x \in set
         /\ (\A m, n \in DOMAIN list :
               m < n /\ list[m] \in set /\ list[n] \in set => <<list[m], list[n]>> \in R)
            => Follows(Kept(list, set), R)
         /\ \A n \in DOMAIN list :
              list[n] \in set /\ (\A m \in 1..(n - 1) : list[m] \notin set) =>
                Kept(list, set) # <<>> /\ Kept(list, set)[1] = list[n]
<1>. DEFINE ss == [n \in DOMAIN list |-> IF list[n] \in set THEN <<list[n]>> ELSE <<>>]
<1>1. /\ DOMAIN list = 1..Len(list) /\ Len(list) \in Nat
      /\ \A n \in 1..Len(list) : list[n] \in S
  OBVIOUS
<1>2. \A x \in set : /\ <<x>> \in Seq(set) /\ <<x>> # <<>> /\ <<x>>[1] = x
                     /\ DOMAIN <<x>> = {1}
  OBVIOUS
<1>3. <<>> \in Seq(set) /\ DOMAIN <<>> = {}
  OBVIOUS
<1>4. \A n \in 1..Len(list) : ss[n] \in Seq(set)
  BY <1>1, <1>2, <1>3
<1>5. ss \in Seq(Seq(set)) /\ DOMAIN ss = 1..Len(list)
  BY <1>1, <1>4
<1>6. \A n \in 1..Len(list) : ss[n] = IF list[n] \in set THEN <<list[n]>> ELSE <<>>
  BY <1>1
<1>7. Kept(list, set) = FlattenSeq(ss)
  BY Zenon DEF Kept
<1>. HIDE DEF ss
<1>8. \A n \in 1..Len(list) : \A x : x \in Range(ss[n]) <=> x = list[n] /\ list[n] \in set
  <2>1. SUFFICES ASSUME NEW n \in 1..Len(list), NEW x
                 PROVE  x \in Range(ss[n]) <=> x = list[n] /\ list[n] \in set
    OBVIOUS
  <2>2. CASE list[n] \in set
    <3>1. ss[n] = <<list[n]>> 
      BY <1>1, <1>6, <2>2
    <3>2. DOMAIN ss[n] = {1} /\ ss[n][1] = list[n]
      BY <1>2, <3>1
    <3>. QED
      BY <2>2, <3>2 DEF Range
  <2>3. CASE list[n] \notin set
    <3>1. ss[n] = <<>>
      BY <1>6, <2>3
    <3>. QED
      BY <1>3, <2>3, <3>1 DEF Range
  <2>. QED
    BY <2>2, <2>3
<1>9. \A n \in 1..Len(list) : Follows(ss[n], R)
  <2>1. \A n \in 1..Len(list) : DOMAIN ss[n] \subseteq {1}
    BY <1>1, <1>2, <1>3, <1>6
  <2>. QED
    BY <2>1 DEF Follows
<1>10. \A n \in 1..Len(list) : /\ list[n] \in set => ss[n] # <<>> /\ ss[n][1] = list[n]
                               /\ list[n] \notin set => ss[n] = <<>>
  BY <1>1, <1>2, <1>6
<1>11. FlattenSeq(ss) \in Seq(set)
  BY <1>5, Flattened, Zenon
<1>12. \A x : x \in Range(FlattenSeq(ss)) <=> x \in Range(list) /\ x \in set
  <2>1. \A x : x \in Range(FlattenSeq(ss)) <=> \E n \in DOMAIN ss : x \in Range(ss[n])
    BY <1>5, Flattened, Zenon
  <2>2. \A x : x \in Range(list) <=> \E n \in 1..Len(list) : x = list[n]
    BY <1>1 DEF Range
  <2>. QED
    BY <1>5, <1>8, <2>1, <2>2
<1>13. ASSUME \A m, n \in DOMAIN list :
                m < n /\ list[m] \in set /\ list[n] \in set => <<list[m], list[n]>> \in R
       PROVE  Follows(FlattenSeq(ss), R)
  <2>1. \A m, n \in DOMAIN ss : m < n =>
          \A x \in Range(ss[m]), y \in Range(ss[n]) : <<x, y>> \in R
    BY <1>1, <1>5, <1>8, <1>13 DEF Follows
  <2>2. \A n \in DOMAIN ss : Follows(ss[n], R)
    BY <1>5, <1>9
  <2>. QED
    BY <1>5, <2>1, <2>2, Flattened, Zenon
<1>14. ASSUME NEW n \in DOMAIN list, list[n] \in set, \A m \in 1..(n - 1) : list[m] \notin set
       PROVE  FlattenSeq(ss) # <<>> /\ FlattenSeq(ss)[1] = list[n]
  <2>1. n \in DOMAIN ss /\ ss[n] # <<>> /\ ss[n][1] = list[n]
    BY <1>1, <1>5, <1>10, <1>14
  <2>2. \A m \in 1..(n - 1) : m \in 1..Len(list)
    BY <1>1
  <2>3. \A m \in 1..(n - 1) : ss[m] = <<>>
    BY <1>10, <1>14, <2>2
  <2>4. FlattenSeq(ss) # <<>> /\ FlattenSeq(ss)[1] = ss[n][1]
    BY <1>5, <2>1, <2>3, Flattened, Zenon
  <2>. QED
    BY <2>1, <2>4
<1>. QED
  BY <1>7, <1>11, <1>12, <1>13, <1>14

LEMMA KeptSame ==
  ASSUME NEW list, NEW set, NEW other, \A n \in DOMAIN list : list[n] \in set <=> list[n] \in other
  PROVE  Kept(list, set) = Kept(list, other)
<1>1. [n \in DOMAIN list |-> IF list[n] \in set THEN <<list[n]>> ELSE <<>>]
      = [n \in DOMAIN list |-> IF list[n] \in other THEN <<list[n]>> ELSE <<>>]
  OBVIOUS
<1>. QED
  BY <1>1, Zenon DEF Kept

-----------------------------------------------------------------------------
Findings == Checks \X Keys
AllChecks == DnsChecks \o SocketChecks

(* A finding's place in the audit: its check's, then its step's.           *)
InPlace ==
  {p \in Findings \X Findings :
     \/ Place(p[1])[2] < Place(p[2])[2]
     \/ Place(p[1])[2] = Place(p[2])[2] /\ Place(p[1])[3] < Place(p[2])[3]}

InOrder == {p \in Findings \X Findings : Before(Place(p[1]), Place(p[2]))}

(* The findings that the answers call for, of one check and of all.        *)
Due(c, given) ==
  {f \in Findings : /\ f[1] = c /\ f[2] \in Range(Program[c])
                    /\ given[f[2]] \in {"gap", "failed"}}

LEMMA Listing ==
  /\ AllChecks \in Seq(Checks) /\ Range(AllChecks) = Checks
  /\ DOMAIN AllChecks = 1..Len(AllChecks) /\ Len(AllChecks) \in Nat
  /\ \A m, n \in DOMAIN AllChecks : AllChecks[m] = AllChecks[n] => m = n
<1>. DEFINE p == Len(DnsChecks)
            q == Len(SocketChecks)
<1>1. /\ DnsChecks \in Seq(Checks) /\ SocketChecks \in Seq(Checks)
      /\ Range(DnsChecks) \cap Range(SocketChecks) = {}
  BY RunAssumption
<1>2. /\ p \in Nat /\ q \in Nat /\ DOMAIN DnsChecks = 1..p /\ DOMAIN SocketChecks = 1..q
      /\ AllChecks \in Seq(Checks) /\ DOMAIN AllChecks = 1..(p + q) /\ Len(AllChecks) = p + q
      /\ \A i \in 1..(p + q) :
           AllChecks[i] = IF i <= p THEN DnsChecks[i] ELSE SocketChecks[i - p]
  BY <1>1 DEF AllChecks
<1>3. Range(AllChecks) = Checks
  BY <1>1, Joined DEF AllChecks, Checks
<1>. HIDE DEF p, q
<1>4. ASSUME NEW m \in 1..(p + q), NEW n \in 1..(p + q), AllChecks[m] = AllChecks[n]
      PROVE  m = n
  <2>1. \A i \in 1..(p + q) : i \in 1..p \/ (~(i <= p) /\ i - p \in 1..q)
    BY <1>2
  <2>2. \A i \in 1..p : AllChecks[i] = DnsChecks[i] /\ DnsChecks[i] \in Range(DnsChecks)
    BY <1>2 DEF Range
  <2>3. \A i \in 1..(p + q) : ~(i <= p) /\ i - p \in 1..q =>
          AllChecks[i] = SocketChecks[i - p] /\ SocketChecks[i - p] \in Range(SocketChecks)
    BY <1>2 DEF Range
  <2>4. CASE m \in 1..p /\ n \in 1..p
    BY <1>2, <1>4, <2>2, <2>4, OnceAssumption DEF IsInjective
  <2>5. CASE ~(m <= p) /\ m - p \in 1..q /\ ~(n <= p) /\ n - p \in 1..q
    <3>1. SocketChecks[m - p] = SocketChecks[n - p]
      BY <1>4, <2>3, <2>5
    <3>2. \A i, j \in 1..q : SocketChecks[i] = SocketChecks[j] => i = j
      BY <1>2, OnceAssumption DEF IsInjective
    <3>3. m - p = n - p
      BY <2>5, <3>1, <3>2
    <3>. QED
      BY <1>2, <3>3
  <2>. QED
    BY <1>1, <1>4, <2>1, <2>2, <2>3, <2>4, <2>5
<1>. QED
  BY <1>2, <1>3, <1>4

(* The place of a finding is where its check is listed and where its       *)
(* program names its key.                                                  *)
LEMMA PlaceIs ==
  ASSUME NEW m \in DOMAIN AllChecks, NEW c, c = AllChecks[m],
         NEW i \in Steps(c), NEW k, k = Program[c][i], k # Socket
  PROVE  /\ <<c, k>> \in Findings
         /\ Place(<<c, k>>) = <<Severity[<<c, k>>], m, i>>
<1>1. c \in Checks
  BY Listing DEF Range
<1>2. k \in Keys
  BY <1>1, ConstantFacts
<1>3. (CHOOSE n \in DOMAIN AllChecks : AllChecks[n] = c) = m
  BY Listing
<1>4. (CHOOSE j \in Steps(c) : Program[c][j] = k) = i
  BY <1>1, OnceAssumption DEF Steps
<1>5. Place(<<c, k>>) =
        <<Severity[<<c, k>>], CHOOSE n \in DOMAIN AllChecks : AllChecks[n] = c,
          CHOOSE j \in Steps(c) : Program[c][j] = k>>
  BY DEF Place, AllChecks
<1>. QED
  BY <1>1, <1>2, <1>3, <1>4, <1>5 DEF Findings

LEMMA SameCheck ==
  ASSUME NEW c \in Checks, NEW f \in Findings, f[1] = c, f[2] \in Range(Program[c])
  PROVE  \E m \in DOMAIN AllChecks, i \in Steps(c) :
           /\ AllChecks[m] = c /\ f = <<c, Program[c][i]>>
           /\ Place(f) = <<Severity[f], m, i>> /\ m \in Nat /\ i \in Nat
<1>1. PICK i \in Steps(c) : Program[c][i] = f[2]
  BY DEF Range, Steps
<1>2. PICK m \in DOMAIN AllChecks : AllChecks[m] = c
  BY Listing DEF Range
<1>3. f = <<c, f[2]>> /\ f[2] \in Keys /\ f[2] # Socket
  BY ConstantFacts DEF Findings
<1>4. m \in Nat /\ i \in Nat
  BY Listing, ConstantFacts
<1>. QED
  BY <1>1, <1>2, <1>3, <1>4, PlaceIs

LEMMA LocalIs ==
  ASSUME NEW c \in Checks, NEW given
  PROVE  /\ Local(c, given) \in Seq(Findings)
         /\ \A f : f \in Range(Local(c, given)) <=> f \in Due(c, given)
         /\ Follows(Local(c, given), InPlace)
<1>. DEFINE list == [i \in Steps(c) |-> <<c, Program[c][i]>>]
            set == {f \in Findings : given[f[2]] \in {"gap", "failed"}}
            S == Checks \X (Keys \union {Socket})
<1>1. Local(c, given) = Kept(list, set)
  BY Zenon DEF Local, Findings
<1>2. /\ Steps(c) = 1..Len(Program[c]) /\ Len(Program[c]) \in Nat
      /\ \A i \in Steps(c) : i \in Nat /\ Program[c][i] \in Keys \union {Socket}
  BY ConstantFacts
<1>3. list \in Seq(S) /\ DOMAIN list = Steps(c) /\ \A i \in Steps(c) : list[i] = <<c, Program[c][i]>>
  BY <1>2
<1>4. set \subseteq Findings
  OBVIOUS
<1>. HIDE DEF list, S
<1>5. ASSUME NEW m \in DOMAIN list, NEW n \in DOMAIN list, m < n, list[m] \in set, list[n] \in set
      PROVE  <<list[m], list[n]>> \in InPlace
  <2>1. PICK k \in DOMAIN AllChecks : AllChecks[k] = c
    BY Listing DEF Range
  <2>2. list[m] \in Findings /\ list[n] \in Findings
    BY <1>4, <1>5
  <2>3. Program[c][m] # Socket /\ Program[c][n] # Socket
    BY <1>3, <1>5, <2>2, ConstantFacts DEF Findings
  <2>4. /\ Place(list[m]) = <<Severity[list[m]], k, m>>
        /\ Place(list[n]) = <<Severity[list[n]], k, n>>
    <3>1. m \in Steps(c) /\ n \in Steps(c)
      BY <1>3, <1>5
    <3>2. /\ Place(<<c, Program[c][m]>>) = <<Severity[<<c, Program[c][m]>>], k, m>>
          /\ Place(<<c, Program[c][n]>>) = <<Severity[<<c, Program[c][n]>>], k, n>>
      BY <2>1, <2>3, <3>1, PlaceIs
    <3>. QED
      BY <1>3, <3>1, <3>2
  <2>. QED
    BY <1>5, <2>2, <2>4 DEF InPlace
<1>. HIDE DEF set
<1>6. /\ Kept(list, set) \in Seq(set)
      /\ \A f : f \in Range(Kept(list, set)) <=> f \in Range(list) /\ f \in set
      /\ Follows(Kept(list, set), InPlace)
  BY <1>3, <1>5, Selected, Zenon
<1>7. ASSUME NEW f PROVE (f \in Range(list) /\ f \in set) <=> f \in Due(c, given)
  <2>1. f \in set <=> f \in Findings /\ given[f[2]] \in {"gap", "failed"}
    BY DEF set
  <2>2. ASSUME f \in Findings
        PROVE  f \in Range(list) <=> f[1] = c /\ f[2] \in Range(Program[c])
    <3>1. f = <<f[1], f[2]>>
      BY <2>2 DEF Findings
    <3>2. f \in Range(list) <=> \E i \in Steps(c) : f = <<c, Program[c][i]>>
      BY <1>3 DEF Range
    <3>3. f[2] \in Range(Program[c]) <=> \E i \in Steps(c) : f[2] = Program[c][i]
      BY DEF Range, Steps
    <3>. QED
      BY <3>1, <3>2, <3>3
  <2>. QED
    BY <2>1, <2>2 DEF Due
<1>8. Kept(list, set) \in Seq(Findings)
  BY <1>4, <1>6
<1>. QED
  BY <1>1, <1>6, <1>7, <1>8

LEMMA ListedIs ==
  ASSUME \A c \in Checks : bucket[c] = Local(c, answers)
  PROVE  /\ Listed \in Seq(Findings)
         /\ \A f : f \in Range(Listed) <=> \E c \in Checks : f \in Due(c, answers)
         /\ Follows(Listed, InPlace)
<1>. DEFINE ss == [n \in DOMAIN AllChecks |-> bucket[AllChecks[n]]]
<1>1. Listed = FlattenSeq(ss)
  BY Zenon DEF Listed, AllChecks
<1>2. \A n \in DOMAIN AllChecks : AllChecks[n] \in Checks
  BY Listing DEF Range
<1>3. \A n \in DOMAIN AllChecks : ss[n] = Local(AllChecks[n], answers)
  BY <1>2
<1>4. ss \in Seq(Seq(Findings)) /\ DOMAIN ss = DOMAIN AllChecks
  <2>1. \A n \in DOMAIN AllChecks : bucket[AllChecks[n]] \in Seq(Findings)
    BY <1>2, LocalIs
  <2>2. DOMAIN AllChecks = 1..Len(AllChecks) /\ Len(AllChecks) \in Nat
    BY Listing
  <2>. QED
    BY <2>1, <2>2
<1>. HIDE DEF ss
<1>5. \A f : \A n \in DOMAIN ss : f \in Range(ss[n]) <=> f \in Due(AllChecks[n], answers)
  BY <1>2, <1>3, <1>4, LocalIs
<1>6. \A n \in DOMAIN ss : Follows(ss[n], InPlace)
  BY <1>2, <1>3, <1>4, LocalIs
<1>7. ASSUME NEW m \in DOMAIN ss, NEW n \in DOMAIN ss, m < n,
             NEW x \in Range(ss[m]), NEW y \in Range(ss[n])
      PROVE  <<x, y>> \in InPlace
  <2>1. x \in Due(AllChecks[m], answers) /\ y \in Due(AllChecks[n], answers)
    BY <1>5, <1>7
  <2>2. /\ x \in Findings /\ x[1] = AllChecks[m] /\ x[2] \in Range(Program[AllChecks[m]])
        /\ y \in Findings /\ y[1] = AllChecks[n] /\ y[2] \in Range(Program[AllChecks[n]])
    BY <2>1 DEF Due
  <2>3. Place(x)[2] = m
    <3>1. PICK k \in DOMAIN AllChecks, i \in Steps(AllChecks[m]) :
            AllChecks[k] = AllChecks[m] /\ Place(x) = <<Severity[x], k, i>>
      BY <1>2, <1>4, <1>7, <2>2, SameCheck
    <3>. QED
      BY <1>4, <1>7, <3>1, Listing
  <2>4. Place(y)[2] = n
    <3>1. PICK k \in DOMAIN AllChecks, i \in Steps(AllChecks[n]) :
            AllChecks[k] = AllChecks[n] /\ Place(y) = <<Severity[y], k, i>>
      BY <1>2, <1>4, <1>7, <2>2, SameCheck
    <3>. QED
      BY <1>4, <1>7, <3>1, Listing
  <2>. QED
    BY <1>7, <2>2, <2>3, <2>4 DEF InPlace
<1>8. FlattenSeq(ss) \in Seq(Findings) /\ Follows(FlattenSeq(ss), InPlace)
      /\ \A f : f \in Range(FlattenSeq(ss)) <=> \E n \in DOMAIN ss : f \in Range(ss[n])
  BY <1>4, <1>6, <1>7, Flattened, Zenon
<1>9. \A f : f \in Range(FlattenSeq(ss)) <=> \E c \in Checks : f \in Due(c, answers)
  <2>1. \A c \in Checks : \E n \in DOMAIN AllChecks : AllChecks[n] = c
    BY Listing DEF Range
  <2>2. \A f : (\E n \in DOMAIN ss : f \in Range(ss[n])) <=>
               \E n \in DOMAIN AllChecks : f \in Due(AllChecks[n], answers)
    BY <1>4, <1>5
  <2>. QED
    BY <1>2, <1>8, <2>1, <2>2
<1>. QED
  BY <1>1, <1>8, <1>9

LEMMA SortedIs ==
  ASSUME NEW list \in Seq(Findings), Follows(list, InPlace)
  PROVE  /\ Sorted(list) \in Seq(Findings)
         /\ \A f : f \in Range(Sorted(list)) <=> f \in Range(list)
         /\ Follows(Sorted(list), InOrder)
<1>. DEFINE of(n) == {f \in Findings : Severity[f] = n - 1}
            ss == [n \in 1..6 |-> Kept(list, of(n))]
<1>1. Sorted(list) = FlattenSeq(ss)
  BY Zenon DEF Sorted, Findings
<1>2. \A n \in 1..6 : of(n) \subseteq Findings
  OBVIOUS
<1>3. \A f \in Findings : Severity[f] \in 0..5 /\ Place(f)[1] = Severity[f]
  BY RunAssumption DEF Findings, Ranks, Place
<1>4. \A m \in DOMAIN list : list[m] \in Findings
  OBVIOUS
<1>5. ASSUME NEW n \in 1..6
      PROVE  /\ Kept(list, of(n)) \in Seq(Findings)
             /\ \A f : f \in Range(Kept(list, of(n))) <=> f \in Range(list) /\ f \in of(n)
             /\ Follows(Kept(list, of(n)), InOrder)
  <2>1. \A k, l \in DOMAIN list : k < l /\ list[k] \in of(n) /\ list[l] \in of(n) =>
          <<list[k], list[l]>> \in InOrder
    <3>1. SUFFICES ASSUME NEW x \in Findings, NEW y \in Findings, <<x, y>> \in InPlace,
                          Severity[x] = n - 1, Severity[y] = n - 1
                   PROVE  <<x, y>> \in InOrder
      BY <1>4 DEF Follows
    <3>. QED
      BY <1>3, <3>1 DEF InPlace, InOrder, Before
  <2>. HIDE DEF of
  <2>2. /\ Kept(list, of(n)) \in Seq(of(n))
        /\ \A f : f \in Range(Kept(list, of(n))) <=> f \in Range(list) /\ f \in of(n)
        /\ Follows(Kept(list, of(n)), InOrder)
    BY <2>1, Selected, Zenon
  <2>. QED
    BY <1>2, <2>2
<1>6. ss \in Seq(Seq(Findings)) /\ DOMAIN ss = 1..6 /\ \A n \in 1..6 : ss[n] = Kept(list, of(n))
  <2>. HIDE DEF of
  <2>. QED
    BY <1>5
<1>. HIDE DEF ss
<1>7. ASSUME NEW m \in 1..6, NEW n \in 1..6, m < n, NEW x \in Range(ss[m]), NEW y \in Range(ss[n])
      PROVE  <<x, y>> \in InOrder
  <2>1. x \in of(m) /\ y \in of(n)
    BY <1>5, <1>6, <1>7
  <2>2. /\ x \in Findings /\ Severity[x] = m - 1
        /\ y \in Findings /\ Severity[y] = n - 1
    BY <2>1
  <2>. QED
    BY <1>3, <1>7, <2>2 DEF InOrder, Before
<1>8. \A n \in DOMAIN ss : Follows(ss[n], InOrder)
  BY <1>5, <1>6
<1>9. FlattenSeq(ss) \in Seq(Findings) /\ Follows(FlattenSeq(ss), InOrder)
      /\ \A f : f \in Range(FlattenSeq(ss)) <=> \E n \in DOMAIN ss : f \in Range(ss[n])
  <2>1. \A m, n \in DOMAIN ss : m < n =>
          \A x \in Range(ss[m]), y \in Range(ss[n]) : <<x, y>> \in InOrder
    BY <1>6, <1>7
  <2>. QED
    BY <1>6, <1>8, <2>1, Flattened, Zenon
<1>10. \A f : f \in Range(FlattenSeq(ss)) <=> f \in Range(list)
  <2>1. \A f \in Range(list) : f \in Findings
    BY <1>4 DEF Range
  <2>2. \A f \in Findings : Severity[f] + 1 \in 1..6 /\ f \in of(Severity[f] + 1)
    BY <1>3
  <2>3. \A f : \A n \in 1..6 : f \in Range(ss[n]) <=> f \in Range(list) /\ f \in of(n)
    BY <1>5, <1>6
  <2>. HIDE DEF of
  <2>. QED
    BY <1>6, <1>9, <2>1, <2>2, <2>3
<1>. QED
  BY <1>1, <1>9, <1>10

LEMMA ReasonIs ==
  \/ /\ inconclusive_reason = NoReason
     /\ \A n \in DOMAIN Critical : answers[Critical[n]] # "failed"
  \/ \E n \in DOMAIN Critical :
       /\ inconclusive_reason = Critical[n] /\ answers[Critical[n]] = "failed"
       /\ \A m \in 1..(n - 1) : answers[Critical[m]] # "failed"
<1>. DEFINE set == {k \in Keys : answers[k] = "failed"}
            failed == Kept(Critical, set)
<1>1. inconclusive_reason = IF failed = <<>> THEN NoReason ELSE failed[1]
  BY Zenon DEF inconclusive_reason
<1>2. /\ Critical \in Seq(Keys) /\ DOMAIN Critical = 1..Len(Critical) /\ Len(Critical) \in Nat
      /\ \A n \in DOMAIN Critical : Critical[n] \in Keys
  BY RunAssumption
<1>3. \A n \in DOMAIN Critical : Critical[n] \in set <=> answers[Critical[n]] = "failed"
  BY <1>2
<1>. HIDE DEF set
<1>4. /\ failed \in Seq(set)
      /\ \A x : x \in Range(failed) <=> x \in Range(Critical) /\ x \in set
      /\ \A n \in DOMAIN Critical :
           Critical[n] \in set /\ (\A m \in 1..(n - 1) : Critical[m] \notin set) =>
             failed # <<>> /\ failed[1] = Critical[n]
  BY <1>2, Selected, Zenon
<1>. HIDE DEF failed
<1>. DEFINE N == {n \in DOMAIN Critical : Critical[n] \in set}
<1>5. CASE N = {}
  <2>1. \A x : x \notin Range(failed)
    BY <1>4, <1>5 DEF Range
  <2>2. failed = <<>>
    <3>1. SUFFICES ASSUME failed # <<>> PROVE FALSE
      OBVIOUS
    <3>2. 1 \in DOMAIN failed
      BY <1>4, <3>1
    <3>. QED
      BY <2>1, <3>2 DEF Range
  <2>. QED
    BY <1>1, <1>3, <1>5, <2>2
<1>6. CASE N # {}
  <2>1. N \in SUBSET Nat
    BY <1>2
  <2>2. PICK n \in N : \A m \in N : n <= m
    BY <1>6, <2>1, LeastIn
  <2>3. \A m \in 1..(n - 1) : m \in DOMAIN Critical /\ ~(n <= m)
    BY <1>2
  <2>4. \A m \in 1..(n - 1) : Critical[m] \notin set
    BY <2>2, <2>3
  <2>5. failed # <<>> /\ failed[1] = Critical[n]
    BY <1>4, <2>4
  <2>. QED
    BY <1>1, <1>3, <2>3, <2>4, <2>5
<1>. QED
  BY <1>5, <1>6

-----------------------------------------------------------------------------
(* A check that returned wrote what its reads call for, and no later read  *)
(* changes that; what was published is put together from it.               *)
Written ==
  /\ DOMAIN bucket = Checks
  /\ \A c \in returned : bucket[c] = Local(c, answers)
  /\ phase = "published" =>
       Checks \subseteq returned /\ F = Sorted(Listed) /\ reason = inconclusive_reason

LEMMA WrittenInit == Init => Written
BY DEF Init, Written

LEMMA WrittenStep == RunInv /\ Written /\ [Next]_vars => Written'
<1>. SUFFICES ASSUME RunInv, Written, [Next]_vars
              PROVE  Written'
  OBVIOUS
<1>1. ASSUME UNCHANGED <<answers, bucket, returned>>, phase' # "published"
      PROVE  Written'
  BY <1>1 DEF Written, Local
<1>2. \A c \in Checks : Running(c) => phase \in {"dns", "sockets"}
  BY DEF Running
<1>3. \A c \in Checks : \A i \in busy[c] : phase \in {"dns", "sockets"}
  BY <1>2 DEF RunInv, Working
<1>4. ASSUME NEW c \in Checks, NEW i \in Steps(c), Begin(c, i) \/ Close(c, i)
      PROVE  Written'
  BY <1>1, <1>2, <1>3, <1>4 DEF Begin, Close, End
<1>5. ASSUME NEW c \in Checks, NEW i \in Steps(c), NEW answer \in {"fine", "gap", "failed"},
             Read(c, i, answer)
      PROVE  Written'
  <2>. DEFINE k == Program[c][i]
  <2>1. /\ phase' # "published" /\ UNCHANGED <<bucket, returned>>
        /\ answer = answers[k] \/ answers[k] = "unread"
        /\ answers' = [answers EXCEPT ![k] = answer]
    BY <1>3, <1>5 DEF Read, End
  <2>2. \A l \in Keys : answers[l] # "unread" => answers'[l] = answers[l]
    BY <2>1 DEF RunInv, Shape
  <2>3. ASSUME NEW d \in returned PROVE Local(d, answers') = Local(d, answers)
    <3>. DEFINE list == [j \in Steps(d) |-> <<d, Program[d][j]>>]
                was == {f \in Checks \X Keys : answers[f[2]] \in {"gap", "failed"}}
                is == {f \in Checks \X Keys : answers'[f[2]] \in {"gap", "failed"}}
    <3>1. d \in Checks /\ done[d] = Steps(d)
      BY <2>3 DEF RunInv, Shape, Endings
    <3>2. \A j \in Steps(d) : Program[d][j] # Socket => answers[Program[d][j]] # "unread"
      BY <3>1 DEF RunInv, Trace
    <3>3. \A n \in DOMAIN list : list[n] \in is <=> list[n] \in was
      BY <2>2, <3>1, <3>2, ConstantFacts
    <3>. HIDE DEF list, was, is
    <3>4. Kept(list, is) = Kept(list, was)
      BY <3>3, KeptSame
    <3>. QED
      BY <3>4 DEF Local, list, was, is
  <2>. QED
    BY <2>1, <2>3 DEF Written
<1>6. ASSUME NEW c \in Checks, Return(c)
      PROVE  Written'
  <2>1. /\ Running(c) /\ returned' = returned \union {c}
        /\ bucket' = [bucket EXCEPT ![c] = Local(c, answers)]
        /\ UNCHANGED <<phase, answers>>
    BY <1>6 DEF Return
  <2>2. DOMAIN bucket' = Checks /\ bucket'[c] = Local(c, answers)
        /\ \A d \in Checks : d # c => bucket'[d] = bucket[d]
    BY <2>1 DEF Written
  <2>3. \A d : Local(d, answers') = Local(d, answers)
    BY <2>1
  <2>4. phase' # "published" /\ returned \subseteq Checks
    BY <1>2, <2>1 DEF RunInv, Shape
  <2>. QED
    BY <2>1, <2>2, <2>3, <2>4 DEF Written
<1>7. ASSUME NEW c \in Checks, Raise(c)
      PROVE  Written'
  BY <1>1, <1>2, <1>7 DEF Raise
<1>8. CASE Drain \/ Die
  BY <1>1, <1>8 DEF Drain, Die
<1>9. CASE Publish
  <2>1. /\ phase = "sockets" /\ Range(SocketChecks) \subseteq returned
        /\ F' = Sorted(Listed) /\ reason' = inconclusive_reason
        /\ UNCHANGED <<answers, bucket, returned>>
    BY <1>9 DEF Publish
  <2>2. Checks \subseteq returned
    BY <2>1 DEF RunInv, Endings, Checks
  <2>. QED
    BY <2>1, <2>2 DEF Written, Listed, inconclusive_reason
<1>10. CASE Finished \/ UNCHANGED vars
  <2>1. UNCHANGED vars
    BY <1>10 DEF Finished
  <2>. QED
    BY <2>1 DEF vars, Written, Listed, inconclusive_reason
<1>. QED
  BY <1>4, <1>5, <1>6, <1>7, <1>8, <1>9, <1>10 DEF Next, Step

(* What an audit publishes is a function of what it observed, whatever the *)
(* schedule: the findings its answers call for, all of them, by severity,  *)
(* then in the order of the checks and of their reads, and the first       *)
(* critical lookup that failed.                                            *)
THEOREM OutputIsReproducible == Spec => []Reproducible
<1>1. RunInv /\ Written => Reproducible
  <2>. SUFFICES ASSUME RunInv, Written, phase = "published"
                PROVE  /\ Range(F) = Consumed({"gap", "failed"})
                       /\ \A m, n \in DOMAIN F : m < n => Before(Place(F[m]), Place(F[n]))
                       /\ \/ /\ reason = NoReason
                             /\ \A n \in DOMAIN Critical : answers[Critical[n]] # "failed"
                          \/ \E n \in DOMAIN Critical :
                               /\ reason = Critical[n] /\ answers[Critical[n]] = "failed"
                               /\ \A m \in 1..(n - 1) : answers[Critical[m]] # "failed"
    BY DEF Reproducible
  <2>1. /\ \A c \in Checks : bucket[c] = Local(c, answers)
        /\ F = Sorted(Listed) /\ reason = inconclusive_reason
    BY DEF Written
  <2>2. /\ Listed \in Seq(Findings)
        /\ \A f : f \in Range(Listed) <=> \E c \in Checks : f \in Due(c, answers)
        /\ Follows(Listed, InPlace)
    BY <2>1, ListedIs
  <2>3. /\ \A f : f \in Range(F) <=> f \in Range(Listed)
        /\ Follows(F, InOrder)
    BY <2>1, <2>2, SortedIs
  <2>4. Range(F) = Consumed({"gap", "failed"})
    <3>1. \A f : f \in Consumed({"gap", "failed"}) <=> \E c \in Checks : f \in Due(c, answers)
      BY DEF Consumed, Due, Findings
    <3>. QED
      BY <2>2, <2>3, <3>1
  <2>5. \A m, n \in DOMAIN F : m < n => Before(Place(F[m]), Place(F[n]))
    BY <2>3 DEF Follows, InOrder
  <2>. QED
    BY <2>1, <2>4, <2>5, ReasonIs
<1>2. Spec => []Written
  BY WrittenInit, WrittenStep, Invariance, PTL DEF Spec
<1>. QED
  BY <1>1, <1>2, Invariance, PTL
-----------------------------------------------------------------------------
(***************************************************************************)
(* RuleLedger.  The invariant: what was seen of an input is what is there, *)
(* or an absence if the read was lost, and the three traces hold exactly   *)
(* the losses of the reads made; a check reports once nothing is due.      *)
(***************************************************************************)
(* The inputs of each scope.                                               *)
LEMMA MineIs ==
  /\ Mine("tls_rpt") = {"mx", "smtp_tls"}
  /\ Mine("bimi") = {"bimi"}
  /\ Mine("mta_sts") = {"mx", "mta_sts", "policy_a", "policy_aaaa", "policy_doc"}
  /\ Mine("transport") = {"mx", "mx_a", "mx_aaaa", "tlsa"}
  /\ Mine("mx") = {"mx"}
  /\ Mine("rdns") = {"mx", "mx_a", "ptr", "ptr_a"}
  /\ Mine("dnssec") = {"dnskey", "probe"}
  /\ Mine("caa") = {"caa"}
  /\ Mine("reputation") = {"rdap_a", "rdap_aaaa", "rdap_doc"}
  /\ Mine("aibots") = {"a", "aaaa", "robots_doc"}
BY DEF Mine, Range, InputsOf

(* The ten scopes.                                                         *)
LEMMA ScopesAre ==
  Scopes = {"tls_rpt", "bimi", "mta_sts", "transport", "mx", "rdns", "dnssec", "caa",
            "reputation", "aibots"}
BY DEF Scopes, InputsOf

(* No input holds what marks one that was not read.                        *)
LEMMA NeverUnread ==
  ASSUME NEW s \in Scopes, NEW k \in Mine(s)
  PROVE  "unread" \notin Contents(k)
<1>1. k \in {"mx", "smtp_tls", "bimi", "mta_sts", "policy_a", "policy_aaaa", "policy_doc",
             "mx_a", "mx_aaaa", "tlsa", "ptr", "ptr_a", "dnskey", "probe", "caa",
             "rdap_a", "rdap_aaaa", "rdap_doc", "a", "aaaa", "robots_doc"}
  BY MineIs, ScopesAre
<1>2. CASE k \in Addresses
  BY <1>2 DEF Contents, Addresses
<1>3. CASE k = "policy_doc"
  BY <1>3, FilesAssumption DEF Contents, Addresses
<1>. QED
  BY <1>1, <1>2, <1>3 DEF Contents, Addresses

(* What a read gives, and how it is charged.                               *)
Good(k) == outcome[k] = "answered" /\ (k = "probe" => capable)
Got(k) == IF Good(k) THEN world[k] ELSE "none"
IsRead(k) == seen[k] # "unread"

(* The behavior is of one check, one world and one way for reads to end.   *)
Chosen ==
  /\ scope \in Scopes /\ capable \in BOOLEAN
  /\ world \in Worlds(scope) /\ outcome \in EndingsOf(scope)

(* The traces hold the losses of the reads made.                           *)
Traced ==
  /\ DOMAIN seen = Mine(scope)
  /\ \A k \in Mine(scope) : IsRead(k) => seen[k] = Got(k)
  /\ dns_failures = {k \in Mine(scope) \ (Documents \union {"probe"}) : IsRead(k) /\ ~Good(k)}
  /\ http_failures = {k \in Mine(scope) \cap Documents : IsRead(k) /\ ~Good(k)}
  /\ probe_failure = ("probe" \in Mine(scope) /\ IsRead("probe") /\ ~Good("probe"))

AllRead == \A i \in DOMAIN InputsOf[scope] : ~IsDue(i)

(* A check reports when nothing is due; the ledger follows from the traces.*)
TracedInv ==
  /\ Chosen /\ Traced
  /\ stage \in {"reading", "reported", "published"}
  /\ stage # "reading" => AllRead /\ reported = FindingsOf(scope, seen, Lost)
  /\ stage = "published" =>
       /\ ledger = [r \in RuleOf[scope] |-> _rule_evaluation(r)]
       /\ unconfirmed = mark_unconfirmed_findings

(* Nothing is read at first and nothing is charged.                        *)
LEMMA TracedInit == LedgerInit => TracedInv
<1>. SUFFICES ASSUME LedgerInit
              PROVE  TracedInv
  OBVIOUS
<1>1. scope \in Scopes /\ world \in Worlds(scope) /\ outcome \in EndingsOf(scope)
      /\ capable \in BOOLEAN /\ stage = "reading"
  BY DEF LedgerInit
<1>2. seen = [k \in Mine(scope) |-> "unread"]
  BY DEF LedgerInit
<1>3. \A k \in Mine(scope) : ~IsRead(k)
  BY <1>2 DEF IsRead
<1>4. dns_failures = {} /\ http_failures = {} /\ probe_failure = FALSE
  BY DEF LedgerInit
<1>5. Traced
  BY <1>2, <1>3, <1>4 DEF Traced
<1>. QED
  BY <1>1, <1>5 DEF TracedInv, Chosen

(* A read leaves its mark, and what a good one gives is a content.         *)
LEMMA GotIsRead ==
  ASSUME Chosen, NEW k \in Mine(scope)
  PROVE  Got(k) # "unread" /\ (Good(k) => world[k] \in Contents(k))
<1>1. world[k] \in Contents(k)
  BY DEF Chosen, Worlds
<1>. QED
  BY <1>1, NeverUnread DEF Chosen, Got

(* What only the world, the endings and the scope decide.                  *)
LEMMA SameInputs ==
  ASSUME UNCHANGED inputs
  PROVE  /\ Chosen' = Chosen /\ Mine(scope)' = Mine(scope) /\ Lost' = Lost
         /\ \A k : Good(k)' = Good(k) /\ Got(k)' = Got(k)
<1>1. scope' = scope /\ world' = world /\ outcome' = outcome /\ capable' = capable
  BY DEF inputs
<1>2. Mine(scope)' = Mine(scope)
  BY <1>1 DEF Mine
<1>3. \A k : Good(k)' = Good(k) /\ Got(k)' = Got(k)
  BY <1>1 DEF Good, Got
<1>. QED
  BY <1>1, <1>2, <1>3 DEF Chosen, Lost, Mine

(* A read of one more input, charged where it belongs.                     *)
LEMMA OneRead ==
  ASSUME Chosen, Traced, NEW k \in Mine(scope), UNCHANGED inputs,
         seen' = [seen EXCEPT ![k] = Got(k)], ~IsRead(k),
         dns_failures' = IF Good(k) \/ k \in Documents \union {"probe"} THEN dns_failures
                         ELSE dns_failures \union {k},
         http_failures' = IF Good(k) \/ k \notin Documents THEN http_failures
                          ELSE http_failures \union {k},
         probe_failure' = IF k = "probe" THEN ~Good(k) ELSE probe_failure
  PROVE  Traced'
<1>1. DOMAIN seen = Mine(scope) /\ Got(k) # "unread"
  BY GotIsRead DEF Traced
<1>2. Mine(scope)' = Mine(scope) /\ \A l : Good(l)' = Good(l) /\ Got(l)' = Got(l)
  BY SameInputs
<1>3. /\ DOMAIN seen' = Mine(scope)
      /\ \A l \in Mine(scope) : seen'[l] = IF l = k THEN Got(k) ELSE seen[l]
  BY <1>1
<1>4. \A l \in Mine(scope) : IsRead(l)' <=> IsRead(l) \/ l = k
  BY <1>1, <1>3 DEF IsRead
<1>5. \A l \in Mine(scope) : IsRead(l)' => seen'[l] = Got(l)'
  BY <1>2, <1>3, <1>4 DEF Traced
<1>6. dns_failures' =
        {l \in Mine(scope) \ (Documents \union {"probe"}) : IsRead(l)' /\ ~Good(l)}
  BY <1>4 DEF Traced
<1>7. http_failures' = {l \in Mine(scope) \cap Documents : IsRead(l)' /\ ~Good(l)}
  BY <1>4 DEF Traced
<1>8. probe_failure' = ("probe" \in Mine(scope) /\ IsRead("probe")' /\ ~Good("probe"))
  <2>1. CASE k = "probe"
    BY <1>4, <2>1
  <2>2. CASE k # "probe"
    <3>1. "probe" \in Mine(scope) => (IsRead("probe")' <=> IsRead("probe"))
      BY <1>4, <2>2
    <3>. QED
      BY <2>2, <3>1 DEF Traced
  <2>. QED
    BY <2>1, <2>2
<1>. QED
  BY <1>2, <1>3, <1>5, <1>6, <1>7, <1>8 DEF Traced

(* The next read is an input of the scope that was not read.               *)
LEMMA ReadsMine ==
  ASSUME NEW k, Reads(k)
  PROVE  k \in Mine(scope) /\ ~IsRead(k)
BY DEF Reads, Mine, Range, IsDue, IsRead

(* Dig, Fetch and Probe charge one read; Report and PublishLedger read     *)
(* nothing.                                                                *)
LEMMA TracedStep == TracedInv /\ [LedgerNext]_ledgerVars => TracedInv'
<1>. SUFFICES ASSUME TracedInv, [LedgerNext]_ledgerVars
              PROVE  TracedInv'
  OBVIOUS
<1>0. Chosen /\ Traced
  BY DEF TracedInv
<1>1. ASSUME NEW k \in Inputs, Dig(k)
      PROVE  TracedInv'
  <2>1. /\ UNCHANGED inputs /\ Reads(k) /\ k \notin Documents \union {"probe"}
        /\ stage' = "reading"
    BY <1>1 DEF Dig
  <2>2. Got(k) = (IF outcome[k] = "answered" THEN world[k] ELSE "none")
        /\ (Good(k) <=> outcome[k] = "answered")
    BY <2>1 DEF Got, Good
  <2>3. Traced'
    BY <1>0, <1>1, <2>1, <2>2, ReadsMine, OneRead DEF Dig, See
  <2>. QED
    BY <1>0, <2>1, <2>3, SameInputs DEF TracedInv
<1>2. ASSUME NEW k \in Inputs, Fetch(k)
      PROVE  TracedInv'
  <2>1. /\ UNCHANGED inputs /\ Reads(k) /\ k \in Documents /\ k # "probe"
        /\ stage' = "reading"
    BY <1>2 DEF Fetch, Documents
  <2>2. Got(k) = (IF outcome[k] = "answered" THEN world[k] ELSE "none")
        /\ (Good(k) <=> outcome[k] = "answered")
    BY <2>1 DEF Got, Good
  <2>3. Traced'
    BY <1>0, <1>2, <2>1, <2>2, ReadsMine, OneRead DEF Fetch, See
  <2>. QED
    BY <1>0, <2>1, <2>3, SameInputs DEF TracedInv
<1>3. CASE Probe
  <2>1. UNCHANGED inputs /\ Reads("probe") /\ stage' = "reading" /\ "probe" \notin Documents
    BY <1>3 DEF Probe, Documents
  <2>2. Got("probe") = (IF capable /\ outcome["probe"] = "answered" THEN world["probe"]
                                                                      ELSE "none")
        /\ (Good("probe") <=> capable /\ outcome["probe"] = "answered")
    BY DEF Got, Good
  <2>3. Traced'
    BY <1>0, <1>3, <2>1, <2>2, ReadsMine, OneRead DEF Probe
  <2>. QED
    BY <1>0, <2>1, <2>3, SameInputs DEF TracedInv
<1>4. ASSUME UNCHANGED <<inputs, seen, trace>>
      PROVE  Chosen' /\ Traced' /\ AllRead' = AllRead
             /\ FindingsOf(scope, seen, Lost)' = FindingsOf(scope, seen, Lost)
             /\ Lost' = Lost
  <2>1. /\ scope' = scope /\ world' = world /\ outcome' = outcome /\ capable' = capable
        /\ seen' = seen /\ dns_failures' = dns_failures /\ http_failures' = http_failures
        /\ probe_failure' = probe_failure
    BY <1>4 DEF inputs, trace
  <2>2. Traced'
    BY <1>0, <1>4, <2>1, SameInputs DEF Traced, IsRead
  <2>3. AllRead' = AllRead
    BY <2>1 DEF AllRead, IsDue, Wanted, Public, Answers
  <2>. QED
    BY <1>0, <1>4, <2>1, <2>2, <2>3, SameInputs
<1>5. CASE Report
  <2>1. /\ UNCHANGED <<inputs, seen, trace>> /\ AllRead /\ stage' = "reported"
        /\ reported' = FindingsOf(scope, seen, Lost)
    BY <1>5 DEF Report, AllRead
  <2>. QED
    BY <1>4, <2>1 DEF TracedInv
<1>6. CASE PublishLedger
  <2>1. /\ UNCHANGED <<inputs, seen, trace>> /\ stage' = "published" /\ stage = "reported"
        /\ reported' = reported
        /\ ledger' = [r \in RuleOf[scope] |-> _rule_evaluation(r)]
        /\ unconfirmed' = mark_unconfirmed_findings
    BY <1>6 DEF PublishLedger
  <2>2. AllRead /\ reported = FindingsOf(scope, seen, Lost)
    BY <2>1 DEF TracedInv
  <2>3. mark_unconfirmed_findings' = mark_unconfirmed_findings
    BY <1>4, <2>1 DEF mark_unconfirmed_findings
  <2>4. \A r : _rule_evaluation(r)' = _rule_evaluation(r)
    BY <2>1 DEF _rule_evaluation, inputs, trace
  <2>5. scope' = scope
    BY <2>1 DEF inputs
  <2>6. [r \in RuleOf[scope] |-> _rule_evaluation(r)]' =
          [r \in RuleOf[scope] |-> _rule_evaluation(r)]
    BY <2>4, <2>5
  <2>. QED
    BY <1>4, <2>1, <2>2, <2>3, <2>6 DEF TracedInv
<1>7. CASE UNCHANGED ledgerVars
  <2>1. /\ UNCHANGED <<inputs, seen, trace>> /\ stage' = stage /\ reported' = reported
        /\ ledger' = ledger /\ unconfirmed' = unconfirmed
    BY <1>7 DEF ledgerVars, published
  <2>2. mark_unconfirmed_findings' = mark_unconfirmed_findings
    BY <1>4, <2>1 DEF mark_unconfirmed_findings
  <2>3. \A r : _rule_evaluation(r)' = _rule_evaluation(r)
    BY <2>1 DEF _rule_evaluation, inputs, trace
  <2>4. scope' = scope
    BY <2>1 DEF inputs
  <2>5. [r \in RuleOf[scope] |-> _rule_evaluation(r)]' =
          [r \in RuleOf[scope] |-> _rule_evaluation(r)]
    BY <2>3, <2>4
  <2>. QED
    BY <1>4, <2>1, <2>2, <2>5 DEF TracedInv
<1>. QED
  BY <1>1, <1>2, <1>3, <1>5, <1>6, <1>7 DEF LedgerNext, LedgerFinished

(* The invariant holds in every behavior.                                  *)
LEMMA TracedInvariant == LedgerSpec => []TracedInv
BY TracedInit, TracedStep, PTL DEF LedgerSpec

(* The DNSSEC probe is made when the DNSKEY lookup failed.                 *)
ProbeInv == "probe" \in Mine(scope) /\ IsRead("probe") => outcome["dnskey"] = "failed"

(* Only Probe reads the probe, and only when it is wanted.                 *)
LEMMA ProbeStep == TracedInv /\ ProbeInv /\ [LedgerNext]_ledgerVars => ProbeInv'
<1>. SUFFICES ASSUME TracedInv, ProbeInv, [LedgerNext]_ledgerVars
              PROVE  ProbeInv'
  OBVIOUS
<1>0. Chosen /\ DOMAIN seen = Mine(scope)
  BY DEF TracedInv, Traced
<1>1. ASSUME NEW k \in Inputs, k # "probe", See(k), UNCHANGED inputs
      PROVE  ProbeInv'
  <2>1. "probe" \in Mine(scope) => seen'["probe"] = seen["probe"]
    BY <1>0, <1>1 DEF See
  <2>. QED
    BY <1>1, <2>1, SameInputs DEF ProbeInv, IsRead, inputs
<1>2. CASE Probe
  <2>1. Wanted("probe") /\ UNCHANGED inputs
    BY <1>2 DEF Probe, Reads, IsDue
  <2>2. outcome["dnskey"] = "failed"
    BY <2>1 DEF Wanted, PolicyHost, Range
  <2>. QED
    BY <2>1, <2>2 DEF ProbeInv, inputs
<1>3. ASSUME UNCHANGED <<inputs, seen>>
      PROVE  ProbeInv'
  BY <1>3, SameInputs DEF ProbeInv, IsRead, inputs
<1>4. ASSUME NEW k \in Inputs, Dig(k) \/ Fetch(k)
      PROVE  k # "probe" /\ See(k) /\ UNCHANGED inputs
  BY <1>4 DEF Dig, Fetch, Documents
<1>. QED
  BY <1>1, <1>2, <1>3, <1>4
     DEF LedgerNext, LedgerFinished, Report, PublishLedger, ledgerVars

(* The probe is not made at first.                                         *)
LEMMA ProbeInit == LedgerInit => ProbeInv
BY DEF LedgerInit, ProbeInv, IsRead

(* A check that reported read every input it wanted.                       *)
LEMMA ReadWhenWanted ==
  ASSUME TracedInv, stage # "reading", NEW k \in Mine(scope), Wanted(k)
  PROVE  IsRead(k)
<1>1. PICK i \in DOMAIN InputsOf[scope] : InputsOf[scope][i] = k
  BY DEF Mine, Range
<1>. QED
  BY <1>1 DEF TracedInv, AllRead, IsDue, IsRead

(* The inputs a loss of which leaves a row in _dns_failures.               *)
Row(k) == k \notin Documents \union {"probe"}

(* A rule's own inputs, those whose failure would deny that it is          *)
(* conclusive.                                                             *)
Counted(r, k) ==
  /\ k \in Mine(scope)
  /\ \/ Row(k) /\ Source(r, k)
     \/ k \in Documents /\ r \in UsesHttp

(* What a conclusive rule counts was seen as it is.                        *)
LEMMA SeenAsItIs ==
  ASSUME TracedInv, stage = "published", NEW r \in RuleOf[scope],
         ledger[r] = "conclusive", NEW k, Counted(r, k), Wanted(k)
  PROVE  k \in Mine(scope) /\ seen[k] = world[k] /\ k \notin Lost /\ world[k] \in Contents(k)
<1>1. k \in Mine(scope) /\ IsRead(k)
  BY ReadWhenWanted DEF Counted
<1>2. dns_failures = {l \in Mine(scope) : Row(l) /\ IsRead(l) /\ ~Good(l)}
      /\ http_failures = {l \in Mine(scope) \cap Documents : IsRead(l) /\ ~Good(l)}
      /\ seen[k] = Got(k) /\ Chosen
  BY <1>1 DEF TracedInv, Traced, Row
<1>3. _rule_evaluation(r) = "conclusive"
  BY DEF TracedInv
<1>4. Good(k)
  BY <1>1, <1>2, <1>3 DEF Counted, _rule_evaluation
<1>. QED
  BY <1>1, <1>2, <1>4, GotIsRead DEF Got, Good, Lost

(* EvidenceIsConclusive: a run in which every read was answered, absences  *)
(* and refusals by the address guard included, is conclusive.              *)
THEOREM AnsweredRunIsConclusive == LedgerSpec => []EvidenceIsConclusive
<1>1. TracedInv => EvidenceIsConclusive
  <2>. SUFFICES ASSUME TracedInv, stage = "published", capable,
                       \A k \in Mine(scope) : outcome[k] = "answered",
                       NEW r \in RuleOf[scope]
                PROVE  ledger[r] = "conclusive"
    BY DEF EvidenceIsConclusive
  <2>1. \A k \in Mine(scope) : Good(k)
    BY DEF Good
  <2>2. dns_failures = {} /\ http_failures = {} /\ probe_failure = FALSE
    BY <2>1 DEF TracedInv, Traced
  <2>. QED
    BY <2>2 DEF TracedInv, _rule_evaluation
<1>. QED
  BY <1>1, TracedInvariant, PTL

(* The rules that have something to be marked by.                          *)
Marked == {"transport.no_mx", "mta_sts.missing", "tls_rpt.missing", "bimi.missing",
           "dnssec.missing", "caa.missing"}

(* The table of mark_unconfirmed_findings, rule by rule.                   *)
LEMMA DependenciesAre ==
  /\ \A r \in Rules \ Marked : Dependencies[r] = {}
  /\ \A s \in Scopes : RuleOf[s] \subseteq Rules
  /\ Marked \subseteq Rules
  /\ Dependencies["transport.no_mx"] = {"mx"} /\ Dependencies["mta_sts.missing"] = {"mx"}
  /\ Dependencies["tls_rpt.missing"] = {"mx", "smtp_tls"}
  /\ Dependencies["bimi.missing"] = {"bimi"} /\ Dependencies["caa.missing"] = {"caa"}
  /\ Dependencies["dnssec.missing"] = {"dnskey"}
<1>1. \A s \in Scopes : RuleOf[s] \subseteq Rules
  BY DEF Rules
<1>2. Marked \subseteq Rules
  <2>1. "transport.no_mx" \in RuleOf["transport"] /\ "mta_sts.missing" \in RuleOf["mta_sts"]
        /\ "tls_rpt.missing" \in RuleOf["tls_rpt"] /\ "bimi.missing" \in RuleOf["bimi"]
        /\ "dnssec.missing" \in RuleOf["dnssec"] /\ "caa.missing" \in RuleOf["caa"]
    BY DEF RuleOf
  <2>. QED
    BY <1>1, <2>1, ScopesAre DEF Marked
<1>. QED
  BY <1>1, <1>2 DEF Dependencies, Marked

(* The scope a marked rule is reported in.                                 *)
LEMMA MarkedScope ==
  ASSUME NEW s \in Scopes, NEW v, NEW lost, NEW r \in FindingsOf(s, v, lost)
  PROVE  /\ r \in RuleOf[s]
         /\ r = "transport.no_mx" => s = "transport"
         /\ r = "mta_sts.missing" => s = "mta_sts" /\ v["mx"] # "null" /\ "mta_sts" \notin lost
         /\ r = "tls_rpt.missing" => s = "tls_rpt" /\ v["mx"] # "null"
         /\ r = "bimi.missing" => s = "bimi"
         /\ r = "dnssec.missing" => s = "dnssec"
         /\ r = "caa.missing" => s = "caa"
<1>1. CASE s = "mta_sts"
  <2>1. r \in MtaSts(v, lost)
    BY <1>1 DEF FindingsOf
  <2>. QED
    BY <1>1, <2>1 DEF MtaSts, MtaStsPolicy, RuleOf
<1>2. CASE s = "transport"
  BY <1>2 DEF FindingsOf, Transport, RuleOf
<1>3. CASE s = "rdns"
  BY <1>3 DEF FindingsOf, ReverseDns, RuleOf
<1>4. CASE s = "dnssec"
  BY <1>4 DEF FindingsOf, Dnssec, RuleOf
<1>5. CASE s = "reputation"
  BY <1>5 DEF FindingsOf, DomainAge, RuleOf
<1>6. CASE s = "aibots"
  BY <1>6 DEF FindingsOf, AiBots, RuleOf
<1>7. CASE s = "tls_rpt"
  BY <1>7 DEF FindingsOf, TlsRpt, RuleOf
<1>8. CASE s \in {"bimi", "mx", "caa"}
  BY <1>8 DEF FindingsOf, Bimi, MxHygiene, Caa, RuleOf
<1>. QED
  BY <1>1, <1>2, <1>3, <1>4, <1>5, <1>6, <1>7, <1>8, ScopesAre

(* What denies a marked rule is among the lookups it is marked by, if no   *)
(* name was refused.                                                       *)
LEMMA DeniedByItsOwn ==
  ASSUME TracedInv, ProbeInv, stage = "published", NEW r \in reported \cap Marked
  PROVE  /\ r \in RuleOf[scope]
         /\ \A k \in Dependencies[r] \cap Lost : _rule_evaluation(r) = "failed"
         /\ (capable /\ \A k \in Mine(scope) : outcome[k] # "refused")
              /\ _rule_evaluation(r) = "failed" => Dependencies[r] \cap Lost # {}
<1>0. /\ scope \in Scopes /\ r \in FindingsOf(scope, seen, Lost)
      /\ dns_failures = {l \in Mine(scope) : Row(l) /\ IsRead(l) /\ ~Good(l)}
      /\ probe_failure = ("probe" \in Mine(scope) /\ IsRead("probe") /\ ~Good("probe"))
      /\ Lost = {l \in Mine(scope) : outcome[l] = "failed"}
  BY DEF TracedInv, Traced, Row, Chosen, Lost
<1>1. r \in RuleOf[scope]
  BY <1>0, MarkedScope
<1>2. \A k \in Mine(scope) : outcome[k] \in Outcomes(k)
  BY DEF TracedInv, Chosen, EndingsOf
<1>3. ASSUME NEW k \in Dependencies[r] \cap Lost
      PROVE  _rule_evaluation(r) = "failed"
  <2>1. Row(k) /\ Wanted(k) /\ Source(r, k)
    BY <1>0, <1>3, MarkedScope, DependenciesAre
       DEF Marked, Row, Documents, Wanted, Source, RuleOf, PolicyHost, Range
  <2>2. k \in Mine(scope) /\ IsRead(k) /\ ~Good(k)
    BY <1>0, <1>3, <2>1, ReadWhenWanted DEF Good
  <2>. QED
    BY <1>0, <2>1, <2>2 DEF _rule_evaluation
<1>4. ASSUME capable, \A k \in Mine(scope) : outcome[k] # "refused",
             _rule_evaluation(r) = "failed"
      PROVE  Dependencies[r] \cap Lost # {}
  <2>1. r \notin UsesHttp
    BY DEF Marked, UsesHttp, RuleOf
  <2>2. \A k \in Mine(scope) : Row(k) /\ ~Good(k) => k \in Lost
    BY <1>0, <1>2, <1>4 DEF Row, Good, Outcomes
  <2>3. CASE r \in RuleOf["dnssec"] /\ probe_failure
    <3>1. r = "dnssec.missing" /\ scope = "dnssec" /\ outcome["dnskey"] = "failed"
      BY <1>0, <2>3, MarkedScope DEF Marked, RuleOf, ProbeInv
    <3>. QED
      BY <1>0, <3>1, DependenciesAre, MineIs
  <2>4. ASSUME NEW k \in dns_failures, Source(r, k)
        PROVE  Dependencies[r] \cap Lost # {}
    <3>1. k \in Mine(scope) /\ Row(k) /\ k \in Lost
      BY <1>0, <2>2
    <3>2. k \in Dependencies[r]
      BY <1>0, <2>4, <3>1, MarkedScope, DependenciesAre, MineIs
         DEF Marked, Source, RuleOf, Row
    <3>. QED
      BY <3>1, <3>2
  <2>. QED
    BY <1>4, <2>1, <2>3, <2>4 DEF _rule_evaluation
<1>. QED
  BY <1>1, <1>3, <1>4

(* DisclosuresAgree: a marked finding is never conclusive, and an absence  *)
(* that is not conclusive is marked, unless a name was refused or there is *)
(* no probe.                                                               *)
THEOREM DisclosuresNeverDisagree == LedgerSpec => []DisclosuresAgree
<1>1. TracedInv /\ ProbeInv => DisclosuresAgree
  <2>. SUFFICES ASSUME TracedInv, ProbeInv, stage = "published", NEW r \in reported
                PROVE  /\ r \in unconfirmed => ledger[r] = "failed"
                       /\ /\ Dependencies[r] # {} /\ ledger[r] = "failed"
                          /\ capable /\ \A k \in Mine(scope) : outcome[k] # "refused"
                          => r \in unconfirmed
    BY DEF DisclosuresAgree
  <2>1. r \in RuleOf[scope] /\ RuleOf[scope] \subseteq Rules
    BY MarkedScope, DependenciesAre DEF TracedInv, Chosen
  <2>2. ledger[r] = _rule_evaluation(r)
        /\ (r \in unconfirmed <=> Dependencies[r] \cap Lost # {})
    BY <2>1 DEF TracedInv, mark_unconfirmed_findings
  <2>3. CASE r \in Marked
    BY <2>2, <2>3, DeniedByItsOwn
  <2>4. CASE r \notin Marked
    BY <2>1, <2>2, <2>4, DependenciesAre
  <2>. QED
    BY <2>3, <2>4
<1>. QED
  BY <1>1, TracedInvariant, TracedInit, TracedStep, ProbeInit, ProbeStep, PTL DEF LedgerSpec

(* A rule of the ledger that is called conclusive.                         *)
Concluded(r) ==
  /\ TracedInv /\ stage = "published"
  /\ r \in RuleOf[scope] \cap Evaluated /\ ledger[r] = "conclusive"

(* The rule is reported exactly when it would be with nothing lost.        *)
Agrees(r) == r \in FindingsOf(scope, seen, Lost) <=> r \in Truth

(* One input a concluded rule counts, as the check saw it.                 *)
Settled(k) ==
  /\ k \in Mine(scope) /\ k \notin Lost
  /\ seen[k] = world[k] /\ world[k] \in Contents(k)

(* An input that is wanted and counted is settled.                         *)
LEMMA Settles ==
  ASSUME NEW r, Concluded(r), NEW k, Counted(r, k), Wanted(k)
  PROVE  Settled(k)
BY SeenAsItIs DEF Concluded, Settled

(* When an input is read, and which inputs are DNS rows.                   *)
LEMMA WantedWhen ==
  /\ \A k \in {"mx", "bimi", "dnskey", "caa", "a", "aaaa"} : Wanted(k)
  /\ \A k \in {"smtp_tls", "mta_sts"} : seen["mx"] # "null" => Wanted(k)
  /\ \A k \in {"mx_a", "tlsa"} : Real(seen["mx"]) => Wanted(k)
  /\ seen["mx_a"] \notin {"none", "unread"} => Wanted("ptr")
  /\ seen["ptr"] = "name" => Wanted("ptr_a")
BY DEF Wanted, PolicyHost, Range

LEMMA RowsAre ==
  \A k \in {"mx", "bimi", "dnskey", "caa", "a", "aaaa", "smtp_tls", "mta_sts", "tlsa",
             "mx_a", "ptr", "ptr_a", "policy_a", "policy_aaaa"} : Row(k)
BY DEF Row, Documents

(* So is the MX, wherever it counts.                                       *)
LEMMA SettledMx ==
  ASSUME NEW r, Concluded(r), "mx" \in Mine(scope), Source(r, "mx")
  PROVE  Settled("mx") /\ world["mx"] \in {"none", "null", "real", "mixed"}
<1>1. Counted(r, "mx") /\ Wanted("mx")
  BY WantedWhen, RowsAre DEF Counted
<1>2. Settled("mx")
  BY <1>1, Settles
<1>. QED
  BY <1>2 DEF Settled, Contents, Addresses

(* The addresses of a host, as seen and as they are.                       *)
LEMMA SamePublic ==
  ASSUME NEW k, NEW l, Settled(k), Settled(l)
  PROVE  Public(seen, <<k, l>>) = Public(world, <<k, l>>)
BY DEF Settled, Public, Answers

(* The rules of the scope tls_rpt that the claim is about.                 *)
LEMMA TlsRptAgrees ==
  ASSUME NEW r, Concluded(r), scope = "tls_rpt"
  PROVE  Agrees(r)
<1>1. r \in {"tls_rpt.missing", "tls_rpt.no_rua"} /\ Mine(scope) = {"mx", "smtp_tls"}
  BY MineIs DEF Concluded, Evaluated, RuleOf
<1>2. Settled("mx")
  BY <1>1, SettledMx DEF Source, RuleOf
<1>3. CASE seen["mx"] = "null"
  BY <1>2, <1>3 DEF Agrees, Truth, FindingsOf, TlsRpt, Settled
<1>4. CASE seen["mx"] # "null"
  <2>1. Counted(r, "smtp_tls") /\ Wanted("smtp_tls")
    BY <1>1, <1>4, WantedWhen, RowsAre DEF Counted, Source, RuleOf
  <2>2. Settled("smtp_tls")
    BY <2>1, Settles
  <2>. QED
    BY <1>2, <1>4, <2>2 DEF Agrees, Truth, FindingsOf, TlsRpt, Settled
<1>. QED
  BY <1>3, <1>4

(* The scopes that read one record.                                        *)
LEMMA OneRecordAgrees ==
  ASSUME NEW r, Concluded(r), scope \in {"bimi", "mx", "caa"}
  PROVE  Agrees(r)
<1>1. Mine(scope) = {scope}
  BY MineIs
<1>2. Counted(r, scope) /\ Wanted(scope)
  BY <1>1, WantedWhen, RowsAre DEF Concluded, Counted, Source, RuleOf
<1>3. Settled(scope)
  BY <1>2, Settles
<1>. QED
  BY <1>3 DEF Agrees, Truth, FindingsOf, Bimi, MxHygiene, Caa, Settled

(* Without an MX there is no TLSA record to lose.                          *)
LEMMA TransportAgrees ==
  ASSUME NEW r, Concluded(r), scope = "transport"
  PROVE  Agrees(r)
<1>1. r \in RuleOf["transport"] /\ Mine(scope) = {"mx", "mx_a", "mx_aaaa", "tlsa"}
  BY MineIs DEF Concluded
<1>2. Settled("mx") /\ world["mx"] \in {"none", "null", "real", "mixed"}
  BY <1>1, SettledMx DEF Source, RuleOf
<1>3. CASE ~Real(seen["mx"])
  BY <1>2, <1>3 DEF Agrees, Truth, FindingsOf, Transport, Settled, Real
<1>4. CASE Real(seen["mx"]) /\ r \in {"transport.no_mx", "transport.null_mx"}
  BY <1>2, <1>4 DEF Agrees, Truth, FindingsOf, Transport, Settled, Real
<1>5. CASE Real(seen["mx"]) /\ r \notin {"transport.no_mx", "transport.null_mx"}
  <2>1. Counted(r, "tlsa") /\ Wanted("tlsa")
    BY <1>1, <1>5, WantedWhen, RowsAre DEF Counted, Source, RuleOf
  <2>2. Settled("tlsa")
    BY <2>1, Settles
  <2>. QED
    BY <1>2, <1>5, <2>2 DEF Agrees, Truth, FindingsOf, Transport, Settled, Real
<1>. QED
  BY <1>3, <1>4, <1>5

(* Each read of the chain is wanted by what the one before it gave.        *)
LEMMA ReverseDnsAgrees ==
  ASSUME NEW r, Concluded(r), scope = "rdns"
  PROVE  Agrees(r)
<1>1. r \in {"transport.ptr_missing", "transport.ptr_not_fcrdns"}
      /\ Mine(scope) = {"mx", "mx_a", "ptr", "ptr_a"}
  BY MineIs DEF Concluded, RuleOf
<1>2. Settled("mx")
  BY <1>1, SettledMx DEF Source, RuleOf
<1>3. \A k \in {"mx_a", "ptr"} : Counted(r, k)
  BY <1>1, WantedWhen, RowsAre DEF Counted, Source, RuleOf
<1>4. CASE ~Real(seen["mx"])
  BY <1>2, <1>4 DEF Agrees, Truth, FindingsOf, ReverseDns, Settled
<1>5. CASE Real(seen["mx"])
  <2>1. Wanted("mx_a")
    BY <1>5 DEF Wanted, PolicyHost, Range
  <2>2. Settled("mx_a") /\ world["mx_a"] \in {"none", "public", "private"}
    <3>1. Settled("mx_a")
      BY <1>3, <2>1, Settles
    <3>. QED
      BY <3>1 DEF Settled, Contents, Addresses
  <2>3. CASE seen["mx_a"] = "none"
    BY <1>2, <2>2, <2>3 DEF Agrees, Truth, FindingsOf, ReverseDns, Settled
  <2>4. CASE seen["mx_a"] # "none"
    <3>1. Wanted("ptr")
      BY <2>2, <2>4 DEF Wanted, PolicyHost, Range, Settled
    <3>2. Settled("ptr") /\ world["ptr"] \in {"none", "name"}
      <4>1. Settled("ptr")
        BY <1>3, <3>1, Settles
      <4>. QED
        BY <4>1 DEF Settled, Contents, Addresses
    <3>3. CASE seen["ptr"] = "none" \/ r = "transport.ptr_missing"
      BY <1>1, <1>2, <2>2, <2>4, <3>2, <3>3 DEF Agrees, Truth, FindingsOf, ReverseDns, Settled
    <3>4. CASE seen["ptr"] = "name" /\ r = "transport.ptr_not_fcrdns"
      <4>1. Counted(r, "ptr_a") /\ Wanted("ptr_a")
        BY <1>1, <3>4, WantedWhen, RowsAre DEF Counted, Source, RuleOf
      <4>2. Settled("ptr_a")
        BY <4>1, Settles
      <4>. QED
        BY <1>2, <2>2, <2>4, <3>2, <3>4, <4>2 DEF Agrees, Truth, FindingsOf, ReverseDns, Settled
    <3>. QED
      BY <1>1, <3>2, <3>3, <3>4 DEF Settled
  <2>. QED
    BY <2>3, <2>4
<1>. QED
  BY <1>4, <1>5

(* A probe is no part of the truth of a zone whose DNSKEY was answered.    *)
LEMMA DnssecAgrees ==
  ASSUME NEW r, Concluded(r), scope = "dnssec"
  PROVE  Agrees(r)
<1>1. r \in RuleOf["dnssec"] /\ Mine(scope) = {"dnskey", "probe"}
  BY MineIs DEF Concluded
<1>2. Counted(r, "dnskey") /\ Wanted("dnskey")
  BY <1>1, WantedWhen, RowsAre DEF Counted, Source, RuleOf
<1>3. Settled("dnskey")
  BY <1>2, Settles
<1>. QED
  BY <1>3 DEF Agrees, Truth, FindingsOf, Dnssec, Settled

(* The document counts when the host is public, the host always.           *)
LEMMA AiBotsAgrees ==
  ASSUME NEW r, Concluded(r), scope = "aibots"
  PROVE  Agrees(r)
<1>1. r \in RuleOf["aibots"] /\ Mine(scope) = {"a", "aaaa", "robots_doc"}
  BY MineIs DEF Concluded
<1>2. \A k \in {"a", "aaaa"} : Counted(r, k) /\ Wanted(k)
  BY <1>1, WantedWhen, RowsAre DEF Counted, Source, RuleOf
<1>3. Settled("a") /\ Settled("aaaa")
  BY <1>2, Settles
<1>4. Public(seen, Domain) = Public(world, Domain)
  BY <1>3, SamePublic DEF Domain
<1>5. CASE ~Public(seen, Domain)
  BY <1>4, <1>5 DEF Agrees, Truth, FindingsOf, AiBots
<1>6. CASE Public(seen, Domain)
  <2>1. Counted(r, "robots_doc") /\ Wanted("robots_doc")
    BY <1>1, <1>6 DEF Counted, Row, Documents, UsesHttp, Wanted, PolicyHost, Range
  <2>2. Settled("robots_doc")
    BY <2>1, Settles
  <2>. QED
    BY <1>4, <1>6, <2>2 DEF Agrees, Truth, FindingsOf, AiBots, Settled
<1>. QED
  BY <1>5, <1>6

(* The rules of the policy document, of a domain that announces one.       *)
LEMMA PolicyAgrees ==
  ASSUME NEW r, Concluded(r), scope = "mta_sts", r \in UsesHttp,
         Settled("mx"), Settled("mta_sts"), seen["mta_sts"] = "sts"
  PROVE  MtaStsPolicy(seen) = MtaStsPolicy(world)
<1>1. Mine(scope) = {"mx", "mta_sts", "policy_a", "policy_aaaa", "policy_doc"}
  BY MineIs
<1>2. \A k \in {"policy_a", "policy_aaaa"} : Counted(r, k) /\ Wanted(k)
  <2>1. \A k \in {"policy_a", "policy_aaaa"} : Wanted(k)
    BY DEF Wanted, PolicyHost, Range
  <2>2. \A k : Source(r, k)
    BY DEF Concluded, UsesHttp, Source, RuleOf, Evaluated
  <2>. QED
    BY <1>1, <2>1, <2>2 DEF Counted, Row, Documents
<1>3. Settled("policy_a") /\ Settled("policy_aaaa")
  BY <1>2, Settles
<1>4. Public(seen, PolicyHost) = Public(world, PolicyHost)
  BY <1>3, SamePublic DEF PolicyHost
<1>5. CASE ~Public(seen, PolicyHost)
  BY <1>4, <1>5 DEF MtaStsPolicy
<1>6. CASE Public(seen, PolicyHost)
  <2>1. Counted(r, "policy_doc") /\ Wanted("policy_doc")
    BY <1>1, <1>6 DEF Counted, Row, Documents, Wanted, PolicyHost, Range
  <2>2. Settled("policy_doc")
    BY <2>1, Settles
  <2>. QED
    BY <1>4, <1>6, <2>2 DEF MtaStsPolicy, Settled
<1>. QED
  BY <1>5, <1>6

(* The policy counts when the record announces one.                        *)
LEMMA MtaStsAgrees ==
  ASSUME NEW r, Concluded(r), scope = "mta_sts"
  PROVE  Agrees(r)
<1>1. r \in RuleOf["mta_sts"]
      /\ Mine(scope) = {"mx", "mta_sts", "policy_a", "policy_aaaa", "policy_doc"}
  BY MineIs DEF Concluded
<1>2. Settled("mx")
  BY <1>1, SettledMx DEF Source, RuleOf
<1>3. FindingsOf(scope, seen, Lost) = MtaSts(seen, Lost) /\ Truth = MtaSts(world, {})
  BY DEF FindingsOf, Truth
<1>4. \A v : MtaStsPolicy(v) \subseteq UsesHttp
  BY DEF MtaStsPolicy, UsesHttp
<1>5. CASE seen["mx"] = "null"
  BY <1>2, <1>3, <1>5 DEF Agrees, MtaSts, Settled
<1>6. CASE seen["mx"] # "null" /\ r = "mta_sts.not_applicable"
  BY <1>2, <1>3, <1>4, <1>6 DEF Agrees, MtaSts, Settled, UsesHttp, RuleOf
<1>7. CASE seen["mx"] # "null" /\ r # "mta_sts.not_applicable"
  <2>1. Counted(r, "mta_sts") /\ Wanted("mta_sts")
    BY <1>1, <1>7, WantedWhen, RowsAre DEF Counted, Source, RuleOf
  <2>2. Settled("mta_sts") /\ world["mta_sts"] \in {"none", "sts"}
    <3>1. Settled("mta_sts")
      BY <2>1, Settles
    <3>. QED
      BY <3>1 DEF Settled, Contents, Addresses
  <2>3. CASE seen["mta_sts"] = "none"
    BY <1>2, <1>3, <1>7, <2>2, <2>3 DEF Agrees, MtaSts, Settled
  <2>4. CASE seen["mta_sts"] = "sts"
    <3>1. MtaSts(seen, Lost) = MtaStsPolicy(seen) /\ MtaSts(world, {}) = MtaStsPolicy(world)
      BY <1>2, <1>7, <2>2, <2>4 DEF MtaSts, Settled
    <3>2. CASE r \in UsesHttp
      BY <1>2, <1>3, <2>2, <2>4, <3>1, <3>2, PolicyAgrees DEF Agrees
    <3>3. CASE r \notin UsesHttp
      BY <1>3, <1>4, <3>1, <3>3 DEF Agrees
    <3>. QED
      BY <3>2, <3>3
  <2>. QED
    BY <2>2, <2>3, <2>4 DEF Settled
<1>. QED
  BY <1>5, <1>6, <1>7

(* ConclusiveIsTrue: a conclusive rule is reported exactly when the        *)
(* published records and documents make it true, whatever was lost.        *)
THEOREM ConclusiveRulesAreTrue == LedgerSpec => []ConclusiveIsTrue
<1>1. TracedInv => ConclusiveIsTrue
  <2>. SUFFICES ASSUME TracedInv, stage = "published", NEW r \in RuleOf[scope] \cap Evaluated,
                       ledger[r] = "conclusive"
                PROVE  r \in reported <=> r \in Truth
    BY DEF ConclusiveIsTrue
  <2>1. Concluded(r) /\ scope \in Scopes /\ reported = FindingsOf(scope, seen, Lost)
    BY DEF Concluded, TracedInv, Chosen
  <2>2. scope # "reputation"
    BY DEF Evaluated
  <2>3. Agrees(r)
    BY <2>1, <2>2, ScopesAre, TlsRptAgrees, OneRecordAgrees, TransportAgrees, ReverseDnsAgrees,
       DnssecAgrees, AiBotsAgrees, MtaStsAgrees
  <2>. QED
    BY <2>1, <2>3 DEF Agrees
<1>. QED
  BY <1>1, TracedInvariant, PTL
=============================================================================
