------------------------------- MODULE AuditRun -------------------------------
(***************************************************************************)
(* main() of audit.py: the DNS checks run at once in a pool that is fully  *)
(* drained, then the checks that open sockets run one at a time, then the  *)
(* findings are put together in a fixed order and the failures of the run  *)
(* are looked up.  A check is the program of the reads and socket probes   *)
(* it makes.  Reads go through the one-observation cache of ReadOnce,      *)
(* which DnsCache implements.                                              *)
(***************************************************************************)
EXTENDS Integers, Sequences, SequencesExt

CONSTANTS
  DnsChecks,    (* dns_checks, in order                                    *)
  SocketChecks, (* socket_checks, in order                                 *)
  Sweeps,       (* checks that make their reads in a pool: dkim            *)
  Careless,     (* checks whose probe passes over an exception with its    *)
                (* connection open: transport                              *)
  Keys, Socket,
  Program,      (* the keys a check reads and the sockets it opens         *)
  Severity,     (* place in order of the finding a check makes of a key    *)
  Critical      (* the critical lookups, in order of precedence            *)

Checks == Range(DnsChecks) \union Range(SocketChecks)

(* order: critical, high, medium, low, pass, any other.                    *)
Ranks == 0..5

ASSUME RunAssumption ==
  /\ DnsChecks \in Seq(Checks) /\ SocketChecks \in Seq(Checks)
  /\ Range(DnsChecks) \cap Range(SocketChecks) = {}
  /\ Sweeps \subseteq Range(DnsChecks) /\ Careless \subseteq Range(SocketChecks)
  /\ Program \in [Checks -> Seq(Keys \union {Socket})]
  /\ Socket \notin Keys
  /\ \A c \in Range(DnsChecks) : Socket \notin Range(Program[c])
  /\ Severity \in [Checks \X Keys -> Ranks]
  /\ Critical \in Seq(Keys)

(* A check is listed once, and its program names a key where it reads it   *)
(* first: a later read of the key returns the observation of the first.    *)
ASSUME OnceAssumption ==
  /\ IsInjective(DnsChecks) /\ IsInjective(SocketChecks)
  /\ \A c \in Checks : \A i, j \in DOMAIN Program[c] :
       Program[c][i] = Program[c][j] /\ Program[c][i] # Socket => i = j

VARIABLES
  phase,
  busy, done,   (* steps of each program under way and completed           *)
  left,         (* checks that hold a connection their probe left open     *)
  answers,      (* the observations of the run, by key                     *)
  failures,     (* _dns_failures: <<scope, key>>, in the order of arrival  *)
  returned, raised,   (* how the checks ended                              *)
  bucket,       (* the list of findings each check wrote                   *)
  F,            (* the findings published                                  *)
  reason,       (* inconclusive_reason: a failed key, or NoReason          *)
  evidence      (* the failures _rule_evaluation saw                       *)

NoReason == "none"
vars == <<phase, busy, done, left, answers, failures, returned, raised, bucket, F,
          reason, evidence>>

Steps(c) == DOMAIN Program[c]
Ended(c) == c \in returned \union raised

Init ==
  /\ phase = "dns"
  /\ busy = [c \in Checks |-> {}] /\ done = [c \in Checks |-> {}] /\ left = {}
  /\ answers = [k \in Keys |-> "unread"]
  /\ failures = <<>>
  /\ returned = {} /\ raised = {}
  /\ bucket = [c \in Checks |-> <<>>]
  /\ F = <<>> /\ reason = NoReason /\ evidence = {}

(* The check runs: in the pool with the other DNS checks, or when the      *)
(* socket checks before it have returned.                                  *)
Running(c) ==
  /\ ~Ended(c)
  /\ \/ phase = "dns" /\ c \in Range(DnsChecks)
     \/ /\ phase = "sockets"
        /\ \E n \in DOMAIN SocketChecks :
             /\ SocketChecks[n] = c
             /\ \A m \in 1..(n - 1) : SocketChecks[m] \in returned

(* A check makes its steps in turn; a sweep has several under way.         *)
Begin(c, i) ==
  /\ Running(c)
  /\ i \in Steps(c) \ (busy[c] \union done[c])
  /\ c \in Sweeps \/ 1..(i - 1) \subseteq done[c]
  /\ busy' = [busy EXCEPT ![c] = @ \union {i}]
  /\ UNCHANGED <<phase, done, left, answers, failures, returned, raised, bucket, F,
                 reason, evidence>>

End(c, i) ==
  /\ i \in busy[c]
  /\ busy' = [busy EXCEPT ![c] = @ \ {i}]
  /\ done' = [done EXCEPT ![c] = @ \union {i}]

(* Mutants of Read: a failed read is made again until it is answered; only *)
(* the thread that asked the resolver is charged.                          *)
ReadUntilAnswered(c, i, answer) ==
  /\ i \in busy[c]
  /\ busy' = [busy EXCEPT ![c] = @ \ {i}]
  /\ done' = [done EXCEPT ![c] = IF answer = "failed" THEN @ ELSE @ \union {i}]
  /\ Program[c][i] # Socket
  /\ LET k == Program[c][i] IN
       /\ answer = answers[k] \/ answers[k] = "unread"
       /\ answers' = [answers EXCEPT ![k] = answer]
  /\ UNCHANGED <<phase, left, failures, returned, raised, bucket, F, reason, evidence>>

ReadCharged(c, i, answer) ==
  /\ End(c, i)
  /\ Program[c][i] # Socket
  /\ LET k == Program[c][i] IN
       /\ answer = answers[k] \/ answers[k] = "unread"
       /\ answers' = [answers EXCEPT ![k] = answer]
       /\ failures' = IF answer = "failed" /\ answers[k] = "unread"
                      THEN Append(failures, <<c, k>>) ELSE failures
  /\ UNCHANGED <<phase, left, returned, raised, bucket, F, reason, evidence>>

(* dig(): the first read of a key fixes its answer; a failed one is        *)
(* charged to every check that reads it.                                   *)
Read(c, i, answer) ==
  /\ End(c, i)
  /\ Program[c][i] # Socket
  /\ LET k == Program[c][i] IN
       /\ answer = answers[k] \/ answers[k] = "unread"
       /\ answers' = [answers EXCEPT ![k] = answer]
       /\ failures' = IF answer = "failed" THEN Append(failures, <<c, k>>)
                                           ELSE failures
  /\ UNCHANGED <<phase, left, returned, raised, bucket, F, reason, evidence>>

(* A socket probe ends: its connection is closed, or never came to be, or  *)
(* the exchange failed and "except Exception: pass" goes on with the       *)
(* connection open, held by a local variable of the check.                 *)
Close(c, i) ==
  /\ End(c, i)
  /\ Program[c][i] = Socket
  /\ \/ left' = left
     \/ c \in Careless /\ left' = left \union {c}
  /\ UNCHANGED <<phase, answers, failures, returned, raised, bucket, F, reason,
                 evidence>>

(* The members of a list that belong to a set, in the order of the list.   *)
Kept(list, set) ==
  FlattenSeq([n \in DOMAIN list |-> IF list[n] \in set THEN <<list[n]>> ELSE <<>>])

(* The findings a check makes of what it read: a failed read looks empty.  *)
Local(c, seen) ==
  Kept([i \in Steps(c) |-> <<c, Program[c][i]>>],
       {f \in Checks \X Keys : seen[f[2]] \in {"gap", "failed"}})

(* Mutant of Return: the checks append to one shared list.                 *)
ReturnShared(c) ==
  /\ Running(c)
  /\ done[c] = Steps(c)
  /\ returned' = returned \union {c}
  /\ bucket' = [bucket EXCEPT ![DnsChecks[1]] = @ \o Local(c, answers)]
  /\ left' = left \ {c}
  /\ UNCHANGED <<phase, busy, done, answers, failures, raised, F, reason, evidence>>

(* _run: each check writes its own list.  Its local variables go, and a    *)
(* connection they held is closed.                                         *)
Return(c) ==
  /\ Running(c)
  /\ done[c] = Steps(c)
  /\ returned' = returned \union {c}
  /\ bucket' = [bucket EXCEPT ![c] = Local(c, answers)]
  /\ left' = left \ {c}
  /\ UNCHANGED <<phase, busy, done, answers, failures, raised, F, reason, evidence>>

(* A check raises, between two steps; the traceback keeps its variables.   *)
Raise(c) ==
  /\ Running(c)
  /\ busy[c] = {}
  /\ raised' = raised \union {c}
  /\ UNCHANGED <<phase, busy, done, left, answers, failures, returned, bucket, F,
                 reason, evidence>>

(* Mutant of Drain: the second phase starts with the first check back.     *)
DrainFirst ==
  /\ phase = "dns"
  /\ \E c \in Range(DnsChecks) : c \in returned
  /\ phase' = "sockets"
  /\ UNCHANGED <<busy, done, left, answers, failures, returned, raised, bucket, F,
                 reason, evidence>>

(* The pool has waited for all of its checks.                              *)
Drain ==
  /\ phase = "dns"
  /\ Range(DnsChecks) \subseteq returned
  /\ phase' = "sockets"
  /\ UNCHANGED <<busy, done, left, answers, failures, returned, raised, bucket, F,
                 reason, evidence>>

(* The exception of a check ends main(), once the pool it ran in is done.  *)
Die ==
  /\ raised # {}
  /\ \/ phase = "dns" /\ \A c \in Range(DnsChecks) : Ended(c)
     \/ phase = "sockets"
  /\ phase' = "died"
  /\ left' = {}
  /\ UNCHANGED <<busy, done, answers, failures, returned, raised, bucket, F, reason,
                 evidence>>

(* Findings in the order of the checks, then stably by severity.           *)
Listed == FlattenSeq([n \in DOMAIN (DnsChecks \o SocketChecks) |->
                        bucket[(DnsChecks \o SocketChecks)[n]]])

Sorted(list) ==
  FlattenSeq([n \in 1..6 |-> Kept(list, {f \in Checks \X Keys : Severity[f] = n - 1})])

(* critical_lookup_failures, inconclusive_state.                           *)
inconclusive_reason ==
  LET failed == Kept(Critical, {k \in Keys : answers[k] = "failed"})
  IN  IF failed = <<>> THEN NoReason ELSE failed[1]

Publish ==
  /\ phase = "sockets"
  /\ Range(SocketChecks) \subseteq returned
  /\ F' = Sorted(Listed)
  /\ reason' = inconclusive_reason
  /\ evidence' = Range(failures)
  /\ phase' = "published"
  /\ UNCHANGED <<busy, done, left, answers, failures, returned, raised, bucket>>

Finished == phase \in {"published", "died"} /\ UNCHANGED vars

Step(c) ==
  \/ \E i \in Steps(c) : \/ Begin(c, i) \/ Close(c, i)
                         \/ \E answer \in {"fine", "gap", "failed"} : Read(c, i, answer)
  \/ Return(c)

Next ==
  \/ \E c \in Checks : Step(c) \/ Raise(c)
  \/ Drain \/ Die \/ Publish
  \/ Finished

Spec == Init /\ [][Next]_vars

(* Lookups and socket probes have timeouts, and main() goes on.            *)
FairSpec ==
  Spec /\ \A c \in Checks : WF_vars(Step(c)) /\ WF_vars(Drain \/ Die \/ Publish)
-----------------------------------------------------------------------------
TypeOK ==
  /\ phase \in {"dns", "sockets", "published", "died"}
  /\ busy \in [Checks -> SUBSET Nat] /\ done \in [Checks -> SUBSET Nat]
  /\ \A c \in Checks : /\ busy[c] \union done[c] \subseteq Steps(c)
                       /\ busy[c] \cap done[c] = {}
  /\ left \subseteq Checks
  /\ answers \in [Keys -> {"unread", "fine", "gap", "failed"}]
  /\ failures \in Seq(Checks \X Keys)
  /\ returned \subseteq Checks /\ raised \subseteq Checks
  /\ bucket \in [Checks -> Seq(Checks \X Keys)]
  /\ F \in Seq(Checks \X Keys)
  /\ reason \in Keys \union {NoReason}
  /\ evidence \subseteq Checks \X Keys

(* "Running them serially means no check's socket connect overlaps another *)
(* check's `dig`": while a socket probe runs nothing else is under way,    *)
(* neither a lookup of any thread nor another probe, and a connection that *)
(* a failed probe left open is met by no other check, though its own may   *)
(* still read (check_transport looks the TLSA record up).                  *)
NoOverlap ==
  /\ \A c \in Checks : \A i \in busy[c] : Program[c][i] = Socket =>
       /\ busy = [d \in Checks |-> IF d = c THEN {i} ELSE {}]
       /\ left \subseteq {c}
  /\ \A c \in left : \A d \in Checks \ {c} : busy[d] = {}

(* "Each check writes its own list -> deterministic reassembly": what is   *)
(* published is a function of what was observed, not of the schedule: the  *)
(* findings of every check, by severity, ties in the order of the checks   *)
(* and of their programs.                                                  *)
Place(f) ==
  LET n == CHOOSE m \in DOMAIN (DnsChecks \o SocketChecks) :
             (DnsChecks \o SocketChecks)[m] = f[1]
      i == CHOOSE j \in Steps(f[1]) : Program[f[1]][j] = f[2]
  IN  <<Severity[f], n, i>>

Before(p, q) ==
  \/ p[1] < q[1]
  \/ p[1] = q[1] /\ p[2] < q[2]
  \/ p[1] = q[1] /\ p[2] = q[2] /\ p[3] < q[3]

Consumed(kinds) ==
  {f \in Checks \X Keys :
     f[2] \in Range(Program[f[1]]) /\ answers[f[2]] \in kinds}

Reproducible ==
  phase = "published" =>
    /\ Range(F) = Consumed({"gap", "failed"})
    /\ \A m, n \in DOMAIN F : m < n => Before(Place(F[m]), Place(F[n]))
    /\ \/ /\ reason = NoReason
          /\ \A n \in DOMAIN Critical : answers[Critical[n]] # "failed"
       \/ \E n \in DOMAIN Critical :
            /\ reason = Critical[n] /\ answers[Critical[n]] = "failed"
            /\ \A m \in 1..(n - 1) : answers[Critical[m]] # "failed"

(* The ledger is taken after every read: no failure that a check consumed, *)
(* first or after another check, is missing from it, and none is invented. *)
EvidenceComplete ==
  phase = "published" => evidence = Consumed({"failed"})

(* The audit ends: it publishes, or a check's exception ends it.           *)
Ends == <>(phase \in {"published", "died"})
=============================================================================
