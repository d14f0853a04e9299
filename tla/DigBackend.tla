----------------------------- MODULE DigBackend ------------------------------
(***************************************************************************)
(* resolver.py's default backend: each lookup spawns dig up to Attempts    *)
(* times, a counting semaphore caps the dig processes that run at once and *)
(* is free while a thread sleeps before a retry, and the META side channel *)
(* keeps the response code a lookup ended with.  query_dnssec_probe shares *)
(* the semaphore but neither retries nor records.  The single-flight       *)
(* adapter above (DnsCache) and query's memo call the backend for a name   *)
(* from one thread at a time and at most once.                             *)
(***************************************************************************)
EXTENDS Resolver, Integers, Sequences, FiniteSets

CONSTANTS
  Threads,    (* callers: audit workers and the DKIM sweep's pool          *)
  BadNames,   (* those the argument guard refuses                          *)
  ProbeNames, (* names probed for DNSSEC                                   *)
  Permits,    (* _DIG_SEM: 4 in the code                                   *)
  Attempts,   (* 3 in the code                                             *)
  NoName

ProbeQueries == 4   (* two resolvers, checking enabled and disabled        *)
Transient == {"SERVFAIL", "REFUSED", NoStatus}

ASSUME BackendAssumption ==
  /\ IsFiniteSet(Threads)
  /\ BadNames \subseteq Names
  /\ ProbeNames \subseteq Names
  /\ NoName \notin Names
  /\ Permits \in Nat \ {0}
  /\ Attempts \in Nat \ {0}

VARIABLES
  at,         (* idle, acquire, running, sleeping, and those of a probe    *)
  asked,      (* the name of the thread's lookup or probe                  *)
  attempt,    (* the loop variable; for a probe, the queries it completed  *)
  terminal,   (* terminal_status                                           *)
  permits,    (* free permits of _DIG_SEM                                  *)
  rows,       (* rows a finished lookup returned, Unread before            *)
  probed,     (* names whose probe evidence is memoized                    *)
  codes       (* history: the response codes dig gave for each name        *)

digVars == <<at, asked, attempt, terminal, permits, META, rows, probed, codes>>

Looking(t) == at[t] \in {"acquire", "running", "sleeping"}
Running(t) == at[t] \in {"running", "probing"}
Asking(n) == \E t \in Threads : Looking(t) /\ asked[t] = n

DigInit ==
  /\ at = [t \in Threads |-> "idle"]
  /\ asked = [t \in Threads |-> NoName]
  /\ attempt = [t \in Threads |-> 0]
  /\ terminal = [t \in Threads |-> NoStatus]
  /\ permits = Permits
  /\ META = [n \in Names |-> NoMeta]
  /\ rows = [n \in Names |-> Unread]
  /\ probed = {}
  /\ codes = [n \in Names |-> <<>>]

Return(t) ==
  /\ at' = [at EXCEPT ![t] = "idle"]
  /\ asked' = [asked EXCEPT ![t] = NoName]
  /\ attempt' = [attempt EXCEPT ![t] = 0]
  /\ terminal' = [terminal EXCEPT ![t] = NoStatus]

(* The guard refuses a name dig must not see: no rows, and no metadata.    *)
Refuse(t, n) ==
  /\ at[t] = "idle"
  /\ n \in BadNames
  /\ rows[n] = Unread
  /\ rows' = [rows EXCEPT ![n] = Empty]
  /\ UNCHANGED <<at, asked, attempt, terminal, permits, META, probed, codes>>

Lookup(t, n) ==
  /\ at[t] = "idle"
  /\ n \notin BadNames
  /\ rows[n] = Unread /\ ~Asking(n)
  /\ at' = [at EXCEPT ![t] = "acquire"]
  /\ asked' = [asked EXCEPT ![t] = n]
  /\ UNCHANGED <<attempt, terminal, permits, META, rows, probed, codes>>

(* with _DIG_SEM: blocks while no permit is free.                          *)
Acquire(t) ==
  /\ at[t] = "acquire"
  /\ permits > 0
  /\ permits' = permits - 1
  /\ at' = [at EXCEPT ![t] = "running"]
  /\ UNCHANGED <<asked, attempt, terminal, META, rows, probed, codes>>

(* Mutant of Retry: the pause is inside the with block, and the permit of  *)
(* the failed attempt is never given back.                                 *)
RetryHolding(t, status) ==
  /\ at[t] = "running"
  /\ status \in Transient
  /\ terminal' = [terminal EXCEPT ![t] = status]
  /\ codes' = [codes EXCEPT ![asked[t]] = Append(@, status)]
  /\ at' = [at EXCEPT ![t] = "sleeping"]
  /\ UNCHANGED <<asked, attempt, permits, META, rows, probed>>

(* dig ends with a code to retry, or does not run or times out: the permit *)
(* is released before the pause.                                           *)
Retry(t, status) ==
  /\ at[t] = "running"
  /\ status \in Transient
  /\ permits' = permits + 1
  /\ terminal' = [terminal EXCEPT ![t] = status]
  /\ codes' = [codes EXCEPT ![asked[t]] = Append(@, status)]
  /\ at' = [at EXCEPT ![t] = "sleeping"]
  /\ UNCHANGED <<asked, attempt, META, rows, probed>>

(* dig ends with any other code: it is final, authoritative or not.        *)
Answer(t, status, answer) ==
  /\ at[t] = "running"
  /\ status \notin Transient
  /\ permits' = permits + 1
  /\ codes' = [codes EXCEPT ![asked[t]] = Append(@, status)]
  /\ Recorded(asked[t], status)
  /\ rows' = [rows EXCEPT ![asked[t]] = answer]
  /\ Return(t)
  /\ UNCHANGED probed

(* Mutant: the exhausted lookup is returned as an empty answer without     *)
(* recording its failure.                                                  *)
GiveUpUnrecorded(t) ==
  /\ at[t] = "sleeping"
  /\ attempt[t] + 1 = Attempts
  /\ rows' = [rows EXCEPT ![asked[t]] = Empty]
  /\ Return(t)
  /\ UNCHANGED <<permits, META, probed, codes>>

(* After the pause, the next attempt or, past the last one, the recorded   *)
(* failure with the code of the last attempt.                              *)
Wake(t) ==
  /\ at[t] = "sleeping"
  /\ attempt[t] + 1 < Attempts
  /\ attempt' = [attempt EXCEPT ![t] = @ + 1]
  /\ at' = [at EXCEPT ![t] = "acquire"]
  /\ UNCHANGED <<asked, terminal, permits, META, rows, probed, codes>>

GiveUp(t) ==
  /\ at[t] = "sleeping"
  /\ attempt[t] + 1 = Attempts
  /\ META' = [META EXCEPT ![asked[t]] = NormalizedMeta(terminal[t], TRUE)]
  /\ rows' = [rows EXCEPT ![asked[t]] = Empty]
  /\ Return(t)
  /\ UNCHANGED <<permits, probed, codes>>

(* query_dnssec_probe: ProbeQueries queries in turn, each under a permit.  *)
Probe(t, n) ==
  /\ at[t] = "idle"
  /\ n \in ProbeNames \ (probed \union BadNames)
  /\ at' = [at EXCEPT ![t] = "probe"]
  /\ asked' = [asked EXCEPT ![t] = n]
  /\ UNCHANGED <<attempt, terminal, permits, META, rows, probed, codes>>

ProbeAcquire(t) ==
  /\ at[t] = "probe"
  /\ permits > 0
  /\ permits' = permits - 1
  /\ at' = [at EXCEPT ![t] = "probing"]
  /\ UNCHANGED <<asked, attempt, terminal, META, rows, probed, codes>>

(* Mutant of ProbeNext: the queries done are not counted.                  *)
ProbeNextForever(t) ==
  /\ at[t] = "probing"
  /\ permits' = permits + 1
  /\ at' = [at EXCEPT ![t] = "probe"]
  /\ UNCHANGED <<asked, attempt, terminal, META, rows, probed, codes>>

ProbeNext(t) ==
  /\ at[t] = "probing"
  /\ attempt[t] + 1 < ProbeQueries
  /\ permits' = permits + 1
  /\ attempt' = [attempt EXCEPT ![t] = @ + 1]
  /\ at' = [at EXCEPT ![t] = "probe"]
  /\ UNCHANGED <<asked, terminal, META, rows, probed, codes>>

ProbeEnd(t) ==
  /\ at[t] = "probing"
  /\ attempt[t] + 1 = ProbeQueries
  /\ permits' = permits + 1
  /\ probed' = probed \union {asked[t]}
  /\ Return(t)
  /\ UNCHANGED <<META, rows, codes>>

ProbeStep(t) == ProbeAcquire(t) \/ ProbeNext(t) \/ ProbeEnd(t)

DigEnds(t) ==
  \/ \E status \in Statuses : Retry(t, status)
  \/ \E status \in Statuses, answer \in Rows : Answer(t, status, answer)

DigFinished ==
  /\ \A t \in Threads : at[t] = "idle"
  /\ \A n \in Names : rows[n] # Unread
  /\ ProbeNames \ BadNames \subseteq probed
  /\ UNCHANGED digVars

DigNext ==
  \/ \E t \in Threads, n \in Names : Refuse(t, n) \/ Lookup(t, n) \/ Probe(t, n)
  \/ \E t \in Threads : \/ Acquire(t) \/ DigEnds(t) \/ Wake(t) \/ GiveUp(t)
                        \/ ProbeStep(t)
  \/ DigFinished

DigSpec == DigInit /\ [][DigNext]_digVars

(* dig ends: it has its own tries and a timeout kills it.  A pause ends.   *)
(* Nothing promises which waiting thread the semaphore wakes, only that a  *)
(* free permit does not stay unclaimed for ever.                           *)
FairDigSpec ==
  /\ DigSpec
  /\ \A t \in Threads :
       /\ WF_digVars(DigEnds(t)) /\ WF_digVars(Wake(t)) /\ WF_digVars(GiveUp(t))
       /\ WF_digVars(ProbeNext(t)) /\ WF_digVars(ProbeEnd(t))
  /\ WF_digVars(\E t \in Threads : Acquire(t) \/ ProbeAcquire(t))
-----------------------------------------------------------------------------
DigTypeOK ==
  /\ at \in [Threads -> {"idle", "acquire", "running", "sleeping", "probe",
                          "probing"}]
  /\ asked \in [Threads -> Names \union {NoName}]
  /\ \A t \in Threads : at[t] # "idle" => asked[t] \in Names \ BadNames
  /\ attempt \in [Threads -> Nat]
  /\ \A t \in Threads : IF at[t] = "idle" THEN attempt[t] = 0
                         ELSE IF Looking(t) THEN attempt[t] < Attempts
                         ELSE attempt[t] < ProbeQueries
  /\ terminal \in [Threads -> Transient \intersect Statuses]
  /\ permits \in Nat
  /\ META \in [Names -> Metadata]
  /\ rows \in [Names -> Rows \union {Unread}]
  /\ probed \in SUBSET Names
  /\ codes \in [Names -> Seq(Statuses)]

(* resolver.py: "a semaphore caps the in-flight queries".  Every permit is *)
(* either free or held by a thread whose dig is running; none leaks on a   *)
(* retry, a timeout or a probe, and a sleeping thread holds none.          *)
PermitsConserved ==
  permits + Cardinality({t \in Threads : Running(t)}) = Permits

(* The codes dig gave explain what a lookup left: only a final code ends   *)
(* the attempts early, and an exhausted lookup is an error with the last   *)
(* code and no rows.                                                       *)
Explains(all, answer, meta) ==
  LET last == all[Len(all)]
  IN  /\ Len(all) \in 1 .. Attempts
      /\ \A i \in 1 .. Len(all) - 1 : all[i] \in Transient
      /\ meta = [status |-> last, error |-> last \notin Authoritative]
      /\ last \in Transient => Len(all) = Attempts /\ answer = Empty

(* An unfinished or refused lookup has left no metadata.                   *)
Explained(n) ==
  IF rows[n] = Unread \/ n \in BadNames
  THEN META[n] = NoMeta
  ELSE Explains(codes[n], rows[n], META[n])

(* resolver.py: "the backend reads dig's rcode and retries the transient   *)
(* failures while trusting a real NOERROR/NXDOMAIN empty".  Whatever META  *)
(* holds is explained by the codes dig gave, however the lookups and the   *)
(* DNSSEC probes interleave.                                               *)
VerdictExplained == \A n \in Names : Explained(n)

(* A lookup or probe that has begun ends: threads that sleep between their *)
(* attempts do not keep the others from the permits.                       *)
LookupEnds == \A t \in Threads : (at[t] # "idle") ~> (at[t] = "idle")
=============================================================================
