# A verification project for the amino deliverability audit

`audit.py` benchmarks the e-mail posture of a domain. It reads public DNS and a few HTTPS
documents from a pool of threads, turns what it read into findings, and says of each of
56 rules whether the evidence for it was complete. Its central promise is about failure:
"Failure is not evidence that a policy is missing" (README.md of the repository). A lookup
that was lost, repeated, raced or read twice must never come out as a fact about the
domain. This project models the parts of the program that keep that promise, checks them
with TLC on small instances, and proves the properties that matter most with TLAPS.

`audit.py`, `resolver.py`, `batch_score.py` and `verify.py` below are the files of
`src/amino-deliverability-audit/skills/amino-deliverability-audit/scripts/`; `generate.py`,
`freshness.py` and the canaries are those of `src/public-suffix/`.

## 1. The system

| Component | State it keeps | Operations | What makes it correct |
|---|---|---|---|
| Read-once DNS adapter, `audit.py` 112-204 | `_dns_cache`, `_dns_inflight`, `_dns_failures` under `_trace_lock`; a thread-local scope | `dig`, `query_fresh`, `dns_meta`, `_evaluation_scope`, `_reset_evaluation_trace` | one backend read and one observation per name and type in a run; rows and response code of one answer; each failure charged to every scope that consumed it; no missed wake-up |
| dig backend, `resolver.py` | `_DIG_SEM`, `_META`, the memos of `query` and of the probe | `_dig_backend`, `query_dnssec_probe`, `meta`, `set_backend` | permits are conserved; the semaphore is free during a back-off; exhaustion is recorded, never an authoritative empty answer |
| DKIM sweep, `audit.py` 427-493, 919-944 | first weak key, first unusable key, testing flag, across batches | `dkim_candidates`, `dkim_lookup`, `check_dkim` | the result of the concurrent batches is the sequential one; early exit; a lost selector lookup is disclosed |
| DMARC discovery, `audit.py` 954-1001 | records seen above the registrable domain | `discover_dmarc` | at most eight queries; the answer of the PSL-bounded rule of `conformance/SPEC.md`; no policy from above the root without `psd=y` |
| DMARC check, `audit.py` 1004-1063, 1072-1221 | none | `dmarc_domain_exists`, `_dmarc_policy_for_existence`, `check_dmarc` | protection never overstated; a conclusive rule is true of what is published |
| Evidence ledger, `audit.py` 63-110, 218-281, 512-597 | `_dns_failures`, `_http_failures`, `_dnssec_probe_failure` | `_rule_evaluation`, `mark_unconfirmed_findings`, `critical_lookup_failures` | "conclusive" means the reported rule is true; the two disclosures agree |
| Audit run, `audit.py` 1954-2042 | buckets, the pool, the order of phases | `main`, `_run` | a socket probe runs alone, and a connection left open meets no other check; the output does not depend on the schedule; the ledger snapshot is complete; the run ends |
| SPF evaluation, `audit.py` 600-612, 738-842 | one `seen` set per count, one per redirect chain | `count_spf_lookups`, `is_void`, `effective_terminator`, `check_spf` | a reported excess is one a receiver meets; cycles end; failures are not void |
| Address guard and documents, `audit.py` 333-376, 1296-1334, 1561-1608, 1694-1760 | none | `host_public_ips_with_state`, `_http_get`, `_fetch_mta_sts_policy`, `_robots_blocks_ai_bots` | fetched only when every address is public; each hop is vetted; a loss is recorded at whatever hop; the read ends |
| Other checks, `audit.py` 1337-1550, 1623-1813 | an `observations` map | MTA-STS, TLS-RPT, BIMI, transport, MX, DNSSEC, RDAP, robots, reverse DNS, CAA | covered by the ledger's properties |
| Registrable domain, `audit.py` 649-735 | the pinned list, three sets | `org_base` | exceptions over exact and wildcard rules |
| Presentation, `audit.py` 40-57, 284-306, 1815-1951 | tables | `priority`, `action`, `lane_for_finding` | none a schedule can break |
| Batch scorer, `batch_score.py` | one row per domain | `resolves`, `score`, `disp`, `lane_gaps` | NR is a domain that does not exist; a gap that is none is disclosed |
| Verifier, `verify.py` | none | `independent`, its own terminator and count | agrees with the scanner on the same answers, up to the named differences |
| Public suffix pipeline, `src/public-suffix/` | artifact, provenance, shipping copy, the one alarm issue | generate, verify, vectors, canaries, freshness | what is merged is one whole list, and what its provenance says is true, as far as no hand set it; the merged lookup is the PSL's; a stale pin is noticed |

How they interact. `main()` resets the trace, then runs eight DNS checks in one pool. Each
check runs under an evaluation scope of its own; the DKIM check opens a second pool, whose
threads set the scope again because a thread does not inherit it. Every read goes through
`dig`, which asks `resolver.query` at most once per key; `query` is memoized and calls the
backend, a `dig` process under a semaphore of four. When the pool has drained, four more
checks run one after the other: they read DNS and open sockets. Findings are put together
by check, sorted by severity, and the failures charged on the way become the ledger, the
"inconclusive" verdict and the "unconfirmed" marks.

Apart from an audit, `batch_score.py` calls the same lookups for a list of domains and
`verify.py` derives its buckets again; and a maintainer regenerates the pinned public suffix
list, which a gate checks before a merge and a weekly workflow watches after it.

The hard parts are the ones a fixture hardly reaches: which thread asks first and who waits for
it, what a failed read looks like to code that only tests for emptiness, state carried from one
candidate, ancestor or include to the next, two tables that have to say the same thing, a
semaphore held or freed around a sleep, a redirect that loses its guard, a stream that ends
early, a run that dies between two writes. `PROJECT.json` lists them as hazards, each at its
line, with the properties that cover it.

## 2. Modules

| Module | Models | Kind |
|---|---|---|
| `DnsAnswer` | what an answer is: rows, response code, error bit (`normalized_meta`, `NoMeta`, `LookupError`) | constants shared by the DNS modules |
| `ReadOnce` | what the adapter promises: one observation per key and run, failures charged to whoever consumed them | abstract specification |
| `DnsCache` | `dig`, `dns_meta`, the memo of `query`, the trace reset | detailed; implements `ReadOnce` |
| `DigBackend` | `_dig_backend`, `_dig_dnssec_probe`, `query_dnssec_probe`, `_DIG_SEM`, `_META` | detailed |
| `Resolver` | the names a backend serves, `_META` and what a recorded entry looks like | definitions shared by `DnsCache` and `DigBackend` |
| `DkimSweep` | `dkim_lookup`, `_dkim_probe`, `check_dkim` | detailed, compared with a sequential scan |
| `DmarcWalk` | `discover_dmarc` | detailed, compared with the rule of `conformance/SPEC.md` (RFC 9989's walk, bounded by the PSL) |
| `DmarcPolicy` | existence, choice of tag, rule reported | abstract: what a public suffix's policy gives |
| `DmarcCheck` | `check_dmarc` whole: relationship, findings, report destinations, its ledger filters and marks | detailed; extends and implements `DmarcPolicy` |
| `DkimCandidates` | `dkim_candidates`, the order of the selectors | function, used by the instance of `DkimSweep` |
| `SpfCheck` | `check_spf`, `count_spf_lookups`, `is_void`, `effective_terminator`, `spf_qualifier` | detailed |
| `SpfReceiver` | what a receiver and `verify.py` find in the same records | reference definitions over `SpfCheck`; the recursions are functions of the depth left |
| `OneDocument` | what an HTTPS read promises: one ending, losses charged | abstract specification |
| `HttpFetch` | the guard, `_http_get`, `_fetch_mta_sts_policy`, the robots.txt groups | detailed; implements `OneDocument` |
| `BatchScore` | a row of `batch_score.py`, and the buckets of `verify.py` | detailed, compared with the row without losses |
| `PublicSuffix` | `org_base`, the lookup of the vectors, the old fallback | functions, compared with publicsuffix.org's algorithm |
| `PslPipeline` | `generate.py`, the copy, the gate, the merge, `freshness.py` and its workflow | detailed, over `PublicSuffix` |
| `RuleLedger` | the reads, findings and disclosures of the ten scopes without recursion | detailed |
| `AuditRun` | `main` over checks given as programs of reads and sockets | composition, over `ReadOnce`'s reads |
| `MC*` | instances for TLC | |
| `DnsProofs` | `DnsCache` and `DigBackend` | theorems |
| `DmarcProofs` | `DmarcWalk`, `DmarcPolicy` and `DmarcCheck` | theorems |
| `SpfProofs` | `SpfCheck` and `SpfReceiver` | theorems |
| `AuditRunProofs` | `AuditRun` and `RuleLedger` | theorems |
| `DkimSweepProofs`, `HttpFetchProofs`, `BatchScoreProofs`, `PslProofs` | the module they extend | theorems |

### State and actions

**DnsCache.** A step of a thread is one critical section of `_trace_lock`, or one call made
outside it. The first section is `EnterWait`, `EnterHit` or `EnterClaim`; the calls outside
the lock are `QueryMemo` or `QueryBackend`, the backend's answer, refusal or exception, and
`ReadMeta`; then `Publish` (second section, which notifies) and `Note` (third section). A
waiting thread that is notified goes back to the loop's test. `NewRun` is
`_reset_evaluation_trace`: it clears the adapter and leaves the memo below it. `KeyOf` is
the adapter's normalization; the memo is keyed by the name as spelled, which is why the
model has spellings and keys.

**DigBackend.** One loop of attempts per thread: `Acquire` a permit, run dig, `DigEnds`
with an answer, a timeout or a retry, `Wake` from the back-off, `GiveUp`. A probe takes and
gives a permit for each of its four queries and does not retry.

**DkimSweep.** The candidates are those of `dkim_candidates` for the providers seen in MX and
SPF rows, or for none. The probes of a batch end in any order (`answered` is a set of
positions); the scan of the batch goes in candidate order and stops at the first good key;
the next batch starts only if there was none. What DNS holds (`record`) and which lookups
fail (`failing`) are chosen at the start and stay: the adapter below gives one observation.

**DmarcWalk.** A name and its ancestors are told apart by their number of labels. The
registrable domain is any suffix of at least two labels, or none, as `org_base` can give.

**DmarcCheck.** `Discover` is the contract of the walk: without a lost lookup it finds the
relationship the records establish, with one it may find another. Then each branch of
`check_dmarc` is an action; the public suffix branch is `Existence` and `PublicSuffix`, whose
effect on the variables of `DmarcPolicy` are that module's own actions.

**SpfCheck.** A record is a sequence of terms; an include or redirect names its target, so the
published records are a graph. `Record` is the apex lookup, `Hop` one round of
`effective_terminator`; the recursion of `count_spf_lookups` is a `stack` of frames with the
`seen`, `n` and `voids` that all branches share: `Follow` counts a term, judges its target void
or not and may enter it, `Return` pops. `seen` is marked when a record is entered, and the
depth is tested before it. `AllLike` are the host names that the pattern for `all` takes for
one. A term is told apart as far as the code's spelling tests do: an "adorned" mechanism
(`+mx`, `~exists:host`, `a/24`) and a "qualified" include match none of the prefixes that
`count_spf_lookups` looks for, and cost a receiver a lookup all the same; `all` in capitals is
found by the scanner's pattern and not by `verify.py`'s, `redirect=` in capitals is counted by
both and followed to a terminator by neither. The recursion stands on Python's own stack: a
walk that grew past `StackLimit` would raise, with no verdict. The host names in `a:`, `mx:`
and `exists:` are not modelled, since neither the scanner nor the verifier resolves them.

**RuleLedger.** A behavior follows one check: the order of its reads and the condition for
each are the code's; a read is answered, failed, refused by the name guard or, for a
document, refused by the server. `FindingsOf` is what the check reports of what it saw, and
the same operator applied to what is published is the truth it is compared with. An MTA-STS
policy is a record with version, mode, age and host patterns, judged as the code's grammar
judges it and matched against the MX hosts label by label.

**HttpFetch.** `Guard` resolves both address families through the run's cache and refuses, or
lets `Connect` happen; `Recv` takes what the server sends, `EndOfRead` tests size and end of
stream; `Fail` may strike at the connection or at any recv; `Redirect` goes back to the guard
with one hop less to spend. `EndsEarly` is an empty recv before the end of the reply, as after
an early FIN or a ragged end of TLS: what arrived becomes the reply, its head or its location
cut short too, and nothing is charged, since no length is compared. `served` keeps what the
host has, `cut` that the stream ended before it. A document is a sequence of lines, cut at the
line the last recv reached.

**BatchScore.** `Probe` and `Decide` are `resolves`; what the domain publishes and which
lookups are lost are chosen when scoring starts. `Score` fills the nine buckets, `PrintRow`
derives cells, lane counts and the reason. The DKIM selectors are looked up one by one: some
for every domain, the others when the MX or the SPF record names their provider, so that a lost
selector, or a lost record that names the provider, leaves another selector's weak key as the
domain's. A policy above the name may be a public suffix's, whose `sp` or `np` is picked by the
existence lookup; where the third probe was made, that lookup repeats it and is lost just when
the probe was. "include" stands for the lookups of the SPF targets and "ancestor" for those of
the walk: when one of them is lost, part of what they hold may still be seen (`targets`,
`walked`). `independent` is written out from `verify.py` and shares no definition with `score`
but the order of the DKIM candidates, which the code shares.

**PslPipeline.** A file is an artifact of a version with its rows, or `Torn`. `Generate` reads
a reply of the server, which may be cut anywhere, or a local file, which may be a list that is
not out, with the day it is given or finds, and refuses what does not parse; the two writes are
`WriteArtifact` and `WriteProvenance`, a `Crash` comes before or within one; `Ship` is the copy
beside `audit.py`. `Edit` changes one file: rows of the artifact or of the copy, what the
provenance says (digest, counts, source, time), the code, or the vectors; several edits make
the consistent ones that the gate cannot see. `hands` is the history of what in the provenance
was not left to the generator and the server, and the properties are stated relative to it.
`course` is the bound of the instance: the runs, edits, versions and days so far, in order
(`Happens`). `Merge` needs the whole gate. `Freshness` is the weekly workflow, `Publish` a new
list upstream.

**AuditRun.** A check is a sequence of keys and sockets. `Begin` and `End` bracket a step,
so that overlap is visible; a sweep has several steps under way. `Close` ends a socket probe;
of a check that passes over an exception (`check_transport`) the connection may stay open
(`left`) while the check goes on to its next read, until its local variables go with `Return`
or with the process. `Raise` ends a check between two steps; `Die` ends the run when the pool
has drained.

## 3. Runs

| Run | Instance | Shows |
|---|---|---|
| `dns_cache` | 3 threads, one read each of one key under two spellings; two audits over one memo; fair | one answer for all, rows and metadata of one read; ledger exact; refines `ReadOnce`; every call returns |
| `dig_backend` | 3 threads, 2 permits, 2 attempts, two names, a refused name, a probe; fair | permits conserved; verdicts explained by the codes; lookups and probes end |
| `dkim_sweep` | 4 candidates with a known provider, 3 without, batches of 2, every key layout, every set of failures | sequential result, early exit, disclosures agree, exact when the ledger is clean |
| `dmarc_walk` | up to 5 labels, 4 queries, every placement of records, failures and root | the answer of the PSL-bounded rule; true when nothing was lost |
| `dmarc_check` | every relationship, `p`, `sp`, `np`, own record and destination; every loss | protection never overstated; a conclusive rule is true |
| `spf_check` | 3 names, 13 records, every ending of every lookup; all caps 1; fair | ends on every graph; voids are real; excesses are the receiver's, and on trees of unadorned mechanisms none is missed; conclusive is true; verifier agrees |
| `spf_all_qualifier` | the same | finding 1 |
| `rule_ledger` | every content and every ending of every input of ten scopes | a conclusive rule is true; disclosures agree; a run without a loss is conclusive |
| `http_fetch` | three kinds of read, 2 hosts, 1 redirect, cap of 4 lines, recvs of up to 2, files of up to 4, streams that end anywhere; fair | hops vetted; refines `OneDocument`; robots finding true of the file unless its stream ended early; the read ends |
| `batch_score` | worlds with up to two aspects out of the ordinary, two selectors (one of a provider), at most two lookups lost | NR, gaps, dashes and reasons against the row without losses; verifier agrees but for the named differences |
| `psl_pipeline` | 3 versions, one with a malformed rule; every course of three runs of `generate.py`, edits of any of five parts, versions and days, and some of four and five; pins valid on their day; fair | the merged list is one snapshot, and true what no hand set; the merged lookup is the PSL's, or its vectors are right; staleness is raised |
| `audit_run` | three pooled checks (one a sweep), two serial ones, six keys; fair | socket probes run alone, a connection left open meets no other check; output and reason a function of the answers; ledger complete; the run ends |

Why the bounds are enough. *Threads*: a race on a key needs a reader and a waiter; the third
thread waits for a second notification or finds the cache. *Runs*: the second audit meets the
memo of the first, under the other spelling too. *Permits and attempts*: with two permits and
three threads one waits while another sleeps; two attempts give a first, which backs off, and a
last, which does not. *Candidates*: four in batches of two give a full batch before the exit,
and three a short last batch. *Labels*: with four queries in place of eight, a name of five
labels is longer than the walk and jumps over an ancestor; the code's own numbers only make the
same cases longer, and the proofs are for any cap. *Includes*: three names give self-inclusion,
cycles of two, a shared target and a dangling one; caps of 1 make each limit both met and
passed within the graph. *Redirects and recvs*: one redirect followed leaves a second that is
not; a file with its head is one line longer than the cap, so that it is read whole or cut
depending on the packets; a stream may end at any line of it. *Losses of a row*: one lookup
behind a bucket and a critical one elsewhere; two selectors give one that is always probed and
one that a provider's record calls for; two unusual aspects are one that a bucket depends on
and one that changes how it is read. *Versions and courses*: one version is what the pin is,
one has other rules, one is refused; each may be given as a file before it is out. Three events
are enough to break a file and repair its digest and counts, after a run or not, or to alter
the code and weaken the vectors or add the row that hides it; crashes, torn copies, merges,
fresh starts and freshness checks are not bounded. The longer courses are three runs around a
version and a day, and edits after runs or a version. *Checks*: two checks that share a key, a
sweep with two probes and two socket checks of which one reads after its probe are every kind
of step the program has. *Policies*: a sound one and one for each way to differ from it, served
to a domain with one or two MX hosts. Nothing else in `RuleLedger`, and nothing in
`DmarcCheck`, is bounded: their data are finite and enumerated whole.

The data behind a decision are small sets: a record is "none", "weak", "rua", "covers" and
so on, as far as the code tells it apart. Response codes that the code treats alike are
represented once.

### Fairness

Liveness is checked under weak fairness, and only of what the code or its schedule makes
happen.

- `EveryReadReturns` and `LookupEnds`: threads of a `ThreadPoolExecutor` run; a `dig` process
  has a timeout and is waited for; the number of attempts is bounded; a back-off is a
  `time.sleep`. A permit is taken by *some* waiting thread when one is free: fairness is on
  the choice, not on each thread, since a Python semaphore does not promise an order. It is
  enough because each name is looked up once. Fairness is not assumed of the start of a
  call: a check may stop asking.
- `Ends` (`AuditRun`): a check that runs goes on through its program, and `main` goes on when
  its pool has ended; `Raise` is possible and never owed.
- `CheckEnds` (`SpfCheck`): the check is sequential, so its next step comes. That there are
  finitely many is what the property says.
- `FetchEnds` (`HttpFetch`): the socket timeout applies to each `recv`, so a `recv` returns
  data, returns nothing at the end of the stream, or fails; a slow server may hold the serial
  phase for as many recvs as the cap allows, and no longer. Failure is never owed.
- `StaleIsRaised` (`PslPipeline`): the workflow is scheduled every week. Nothing is assumed of
  the maintainer, who may close the issue at any time, or of the server.

## 4. Proofs

Every theorem holds for all values of the constants, under the named assumptions of the
module that declares them. TLC evaluates them in the runs.

| Assumption | What it says | Why the code justifies it |
|---|---|---|
| `AnswerAssumption`, `CacheAssumption` | there are rows and codes; a spelling has one key | `dig` lowers the name and strips the final dot |
| `BackendAssumption` | finitely many threads, at least one permit and one attempt | `max_workers`, `BoundedSemaphore(4)`, the loop's range |
| `SweepAssumption` | candidates are distinct, a batch is not empty | `dkim_candidates` removes repetitions; the batch size is a literal |
| `WalkAssumption` | two queries at least | the cap is eight |
| `SpfAssumption` | finitely many names; records are sequences of terms; the depth cap is below the stack's limit | type of the data; 12 and Python's 1000 |
| `CapAssumption` | the lookup limit is no more than the depth cap | 10 (RFC 7208) and 12, literals |
| `FilesAssumption` | "none" and "unread" are not names of policies | they stand for the absence of a document |
| `FetchAssumption` | a cap and a chunk that are not zero; an empty file may be served | literals; a server may |
| `ScoreAssumption` | selectors are not other lookups; a domain with a provider in its MX has one, a reported DMARC record is one; the number of losses is a number | type of the data; the number is a bound of the instance, any in the proofs |
| `LabelAssumption`, `PipelineAssumption` | types; there is a version; vector #22, which the canary names, is official and has a domain; a section must have a rule | literals of `generate.py` (131) and of the canary |
| `ProbeAssumption` | of the probes that are not DNS names, one is no rule of a version, nor below a wildcard of it | `ex ample.com` and its kind are not in a list of DNS names, and `*.com` is no rule |
| `PinnedAssumption` | the list pinned at the start is a version of upstream that passes the gate | the repository's state at this commit |
| `RunAssumption` | the DNS checks open no socket; a check that may leave a connection open is a socket check | the lists in `main`; 1451-1467 |
| `OnceAssumption` | a check is listed once; its program names a key where it first reads it | the lists in `main`; a later read repeats the observation (`ReadsShareObservation`) |

**How data are reasoned about.** The prover has no induction rule that it can apply to an
operator, and it does not look into `RECURSIVE` operators or into `SelectSeq`. The library
does state that "<" on the naturals is well founded and that a well-founded set has a least
member. From these two, `Induction` in three of the modules shows that a *set* of numbers that
has 0 and is closed under successor has them all, and each induction below is about a set:
that a recursive function of sequences exists and satisfies its equation (`ReadingExists`,
`JoinsExists`), and then what it returns for every input (`ReadingKnows`, `Joined`). Where a
model is reasoned about it recurses by functions of this kind only, its own or `FlattenSeq`'s.

- **`DnsProofs`**, the adapter: `Typing`, `ReadOncePerKey`, `NoMissedWakeUp`, `NeverTorn`,
  `ReadsShareObservation`, `MetadataOfTheRead`, and of the four `ObservationIsShared`;
  `LedgerNeverLoses`; and `Refinement` (`Spec => ReadsOnce`). None of these is inductive
  alone: that a key is read once needs that a key being read is in flight, uncached and in
  the hands of one thread (`Owned`); that reads agree needs that the cached answer is what a
  thread between its publication and its return holds, and what every returned call got.
  `CacheInv` is their conjunction; its step lemma goes action by action. In the refinement,
  publication is the abstract observation, the return of a call is the abstract consumption,
  and every other step stutters.
- **`DnsProofs`**, the backend: `PermitsNeverLeak` counts the running digs;
  `VerdictsExplained` needs that the codes of an unfinished lookup are all transient and as
  many as the attempts it made, so that whatever ends it explains the metadata.
  `BackendIsOneStep` joins the two halves: of all the steps of `DigBackend`, with its retries,
  pauses, permits and probes, what the adapter can see is nothing, or the end of one lookup
  with one final entry of `_META` (`Recorded`, the definition `DnsCache` itself uses for its
  one-step backend).
- **`DkimSweepProofs`**: `BatchesAreSequential`, `EarlyExit`, `ChannelsAgree`,
  `NoisyOrExact`. The invariant says of the scanned prefix that it has no good key and that
  the kept keys are the first of their kind, whatever the order of the probes; a second one
  says which failures have been charged.
- **`DmarcProofs`**, the walk: `EightQueries`, `WalkFollowsRfc`, `CleanLedgerIsTrue`,
  `RootIsRespected`. The invariant describes the ancestors passed; `Determined` says that
  every publication that agrees with the answers read gives the same verdict, which is what
  makes a clean ledger conclusive though most names were never read.
- **`DmarcProofs`**, the policy and the check: `FailureNeverOverstates`, `AuthorityDecides`;
  then `CheckRefinesPolicy` (`CheckSpec => Spec`), which carries both over to the whole check
  (`CheckNeverOverstates`), and `LedgerTellsTheTruth`. The invariant of the last one says how
  what was found depends on what was lost: without a loss it is what applies.
  `DmarcCheck` does not walk, it assumes a contract of the walk (`MayFind`, `MayLose`);
  `WalkKeepsContract` proves that `DmarcWalk` keeps it, for names of any length and every set
  of losses, so that the results about the check hold over the walk that the code makes. It
  needs `OwnFirst`: an ancestor is asked only after the own name showed nothing.
- **`SpfProofs`**, the walk: `Typing`, `WalkIsAcyclic`, `NoFailureIsVoid`, for include graphs of
  any size. `PathInv` joins the types, that a count is begun of a name with a record only, and
  that the names on the stack have records, are seen, distinct and no more than the cap allows;
  entering a name needs that it was not seen, which is why it cannot be on the path. `Judged`
  says that a name counted as void looked void and had its TXT record read, so that a refusal
  is in the ledger.
- **`SpfProofs`**, the verdict: `VerdictIsTheReceivers`, `ConclusiveFindingsAreTrue`,
  `VerifierCountsTheSame`. The receiver and the verifier recurse through the graph as far as a
  depth allows; `CostIs` and `CountIs` prove that these recursive functions exist and satisfy
  their equations, and the walk is compared with them step by step:
  - `ChainInv` says how far along the redirects `effective_terminator` is (`Chain`), and that no
    name before had a qualifier; so the terminator is what the code's pattern finds along the
    published chain (`Scanned`, by `SameTerminator`). The verifier's own pattern finds the same
    where no `all` is in capitals (`SameEnd`), and a receiver's grammar does where no host name
    looks like `all` (`SameAll`); the receiver's chain is the scanner's where no `redirect=` is
    in capitals (`SameChain`).
  - `BalanceInv` is the accounting of the limit: what the walk has counted and what the receiver
    still charges the frames on the stack for (`Rests`) is no more than the receiver's cost,
    since a seen set, a spelling that is not counted and a lost lookup only hide cost; on a tree
    of unadorned mechanisms without a loss it is all of it.
    Once the count exceeds the limit the cost does, and from there the depth cap may cut.
  - `LedgerInv` says that the counters are the numbers of places passed, and `ReachInv` that
    they are places below the audited name. At the end of a walk without a loss, and not over
    the cap, the names seen are closed under include and redirect: so they are all the names
    below (`CountsAreTrue`), which makes a conclusive rule true.
  - `ResumesInv` says that the walk is a point within the verifier's recursion: for each frame
    there is an accumulator with which the verifier's call on that name began, and finishing
    each call gives the value with which its caller goes on (`Resumes`). It needs that no
    redirect ends in a semicolon. With one, the two walks see different names, and the bound is
    a count: the verifier counts terms of names below the audited one, each once
    (`VerifierCounts`), and the scanner within its limit counts them all.
- **`HttpFetchProofs`**: `Typing`, `EveryHopIsVetted`, `Refinement` (`Spec => FetchOnce`), for
  redirect chains of any length. `OnItsWay` says that the host about to be connected to was
  vetted and how many were visited; `InReply` that no more was received than the reply has, so
  that the document handed over is a prefix of it; a reply that ends early is one of the
  replies the invariant is about (`RepliesArrive`, `CutArrives`). The addresses of a host do
  not change once resolved, which keeps the vetting of earlier hops true. `RobotsFindingIsTrue`
  is about the file: `CheckInv` says that a document handed over without a charge, of a stream
  that did not end early, is the one served, cut at the cap at most, and `RobotsAreRead` that
  `_robots_blocks_ai_bots` finds of any file, of any length and order of lines, what RFC 9309
  says of it. `Knows` is the invariant of the parser: after i lines, which agents each group
  has, whether the last line was one of a run of agents, and which rules for "/" each agent has
  so far are the ones that `Governs` gives for the first i lines.
- **`BatchScoreProofs`**: `ExistingIsScored`, `GapsAreConfirmed`, `FalseGapsAreDisclosed`,
  `InboundDashIsNullMx`, `VerifierMostlyAgrees`: all the properties of a row, for any number of
  lost lookups (the run has two). `BatchInv` says that a scored row is `score` of what was
  seen, that a domain that exists never answered a probe with NXDOMAIN, and that NR is decided
  of no such domain; `SeenAsItIs`, that what no loss touches is seen as it is. Each bucket is
  then compared with its value without losses, DKIM over the selectors that are candidates in
  either case. The verifier's four-way DKIM state is the scanner's (`SameKeys`); the other
  buckets are compared expression by expression.
- **`PslProofs`**: `LookupIsPsl`, `MergedIsOneSnapshot`, `MergedLookup`. `LookupIsPsl` is about
  the algorithm: for every list without malformed rules and every name, `org_base`, with its
  three sets and its scan over the suffixes, gives what publicsuffix.org's algorithm defines.
  `MergedIsOneSnapshot` holds for any list of versions and any interleaving of generation,
  given times, local files, crash, copy, edit and merge: `PslInv` says that a run of
  `generate.py` is at work on one whole version that is out or was given as a file, that a
  provenance is torn or describes one in every field that no hand has set, that rows of an
  artifact come from one version and from a maintainer, and that main was let in with the
  digest of its artifact. Only the digest makes an artifact whole, so the claim about it ends
  when the digest is set by hand; a reply cut short loses its last line, the end marker
  (`LinesAre`, `LastLine`). `MergedLookup` adds that the gate passed what is merged
  (`GateInv`). Of a form of the code that has a canary this gives a vector, a probe or a
  differential that it fails (`CanariesReject`); the lenient one answers a probe wrongly only
  if the probe is no rule, which a row added under a new digest can undo. Of `audit.py` as it
  is, `LookupIsPsl` gives the answer for every name. Of any other form nothing more is claimed
  than that the merged vectors are right and pass: a code that ignores exceptions may be merged
  with vectors that never ask for one.
- **`AuditRunProofs`**: `SocketsAlone`, `LedgerAfterLastRead`. A step under way belongs to a
  check that is running; a check that is no sweep has made its earlier steps, so it has one
  step under way; a connection left open is held by the socket check that is running, or by one
  that raised, after which none runs (`Held`, `NoneAfterRaise`); the trace holds exactly the
  failed answers of the steps done; and the published phase is reached only when every check
  has returned. `OutputIsReproducible`: `Written` says that the list of a returned check is a
  function of the answers it read (`Local`), which later answers do not change (`KeptSame`).
  The rest is about sequences: what `FlattenSeq` and the selection `Kept` keep, their members
  and their order (`Flattened`, `JoinedFollows`, `Selected`), from which the published list has
  the findings the answers call for, each before the next by severity, check and read
  (`SortedIs`), and the reason is the first critical lookup that failed (`ReasonIs`).
- **`AuditRunProofs`**, the ledger of one check: `ConclusiveRulesAreTrue`,
  `DisclosuresNeverDisagree`, `AnsweredRunIsConclusive`, for any MX hosts and policies.
  `TracedInv` says that what was seen of an input is what is there, or an absence if the read
  was lost, that the three traces hold exactly the losses of the reads made, and that a check
  reports when nothing is due; so every input that what was seen calls for was read
  (`ReadWhenWanted`). Of a conclusive rule, an input that its filter counts was therefore seen
  as it is (`Settles`), and each scope is followed along its reads: either the check stopped
  where the published data stop it too, or the next input is wanted, counted and settled. That
  the two disclosures agree needs one more fact, that the DNSSEC probe is made after a lost
  DNSKEY lookup only (`ProbeInv`).

Proved and not among the properties of a run, because the run's own properties contain or
outgrow them, or because they join two modules that are run apart: the type invariants,
`QueryCap` and `NoPolicyAcrossRoot` of the walk, `KnownIsExact` of the policy,
`WaiterHasReader` and the parts of `SharedObservation`, `WalkContract`, `BackendStep` and the
operator lemma `LookupIsPsl`.

Only model-checked: the liveness properties (`EveryReadReturns`, `LookupEnds`, `Ends`,
`CheckEnds`, `FetchEnds`, `StaleIsRaised`), since the prover has no rule for fairness. Every
other property of a passing run is stated by a theorem.

## 5. What the work found

With a run:

1. `spf_all_qualifier` (`audit.py` 775). The pattern for the `all` mechanism matches anywhere
   in the record, so that a host name with a label that ends in "all", as in
   `include:small.example`, is read as a bare `all` with the qualifier "+". A record that ends
   in `-all` is then reported as permissive, and a redirect is not followed. The docstring
   speaks of the `all` mechanism. The terminator part of `ReceiverAgrees` leaves such host
   names out; everything else in the run includes them.

Seen in the code while modelling, in the models as the code has it, and kept out of the
properties by the exceptions named here:

2. `audit.py` 753-756: a mechanism with a qualifier (`+mx`, `~exists:host`,
   `?include:host`) or a prefix length (`a/24`) matches none of the spellings that are counted,
   and a qualified include is not entered; a receiver pays for each. A record beyond the ten
   lookups is then reported as within them, against the docstring at 736-738. The part of
   `ReceiverAgrees` about trees leaves such mechanisms out; everything else includes them.
3. `public-suffix/verify.py` 25: `src/public-suffix/README.md` (18-19) says that a hand edit of
   the provenance breaks the offline gate. The gate compares the digest and the counts with the
   files beside them, and the recorded source and fetch time with nothing: an edit of these
   passes, and so does an edit of artifact, copy, digest and counts together.
   `MergedIsSnapshot` says what is true until a hand sets which field.
4. `audit.py` 485: the testing flag of a weak DKIM result is the disjunction over all weak keys
   scanned, while the key reported is the first; the docstring (457) says it is the surfaced
   key's. `SameAsSequential` has the code's rule on both sides.
5. `audit.py` 992: the organizational record below a `psd=y` record is looked for among the
   names walked. For a name longer than the walk whose registrable domain has eight labels it
   was never read, though `conformance/SPEC.md` 185-187 gives it precedence.
6. `audit.py` 230: when `rdap.org` cannot be resolved nothing is fetched, no HTTP failure is
   recorded, the DNS rows of the scope are dropped, and the two reputation rules are
   conclusive; the repository's README (72-73) promises that an entry is conclusive or names
   the failure. `Evaluated` in `RuleLedger` leaves the two rules out.
7. `audit.py` 1402: `conformance/SPEC.md` 82 says that `tls_rpt.present` reads `_smtp._tls`
   only; the code reads the MX first and skips the record under a null MX. `Evaluated` leaves
   this rule out.
8. `audit.py` 635: `confirm_txt` describes its retries as bypassing the cache; they go through
   the run's own cache, which repeats the first observation (`SharedObservation`).
9. `audit.py` 792: `redirect=` is counted in any case (751) and followed to the terminator in
   lower case only, so that a record with `REDIRECT=` is reported without an `all`. The
   terminator part of `ReceiverAgrees` has the exception.
10. `audit.py` 1466: an exception after the connection to the MX is passed over without closing
    it, and it stays open while the TLSA record is looked up. It is the check's own lookup;
    `NoOverlap` says that no other check meets it.
11. `audit.py` 1583-1608: a document cut at the cap, a stream that the peer ends early and a
    redirect chain longer than is followed are answers without a failure, so that the rules on
    them are conclusive. An empty recv ends the read wherever it comes, in TLS too, where the
    socket does not report a missing closure; Content-Length is not read. `ConclusiveIsTrue` of
    `HttpFetch` speaks of documents that fit and arrive whole.
12. `batch_score.py` 137: "Count only confirmed N cells", while a bucket whose lookup was lost
    is N; the row is disclosed as unconfirmed only when one of three critical lookups failed. So
    the loss of the selector with the good key, of an SPF target, or of the existence lookup
    that picks a public suffix's `sp` or `np` prints an N that is none, with nothing beside it.
    `ConfirmedGap` and `FalseGapDisclosed` say what does hold.
13. `batch_score.py` 85: the scorer's pattern for `p=` minds the case and also matches inside
    `sp=`: `P=reject` is scored as not enforced, and `P=none; sp=reject` as enforced.
    `verify.py` (134) ignores the case.
14. `verify.py` 43 looks for `all` in lower case only, `audit.py` 775 in any case: on `-ALL` the
    two part. `verify.py` 80 follows a redirect target with the ";" that a record may have after
    it, as `eff_term` (60) and `audit.py` (762) do not: the name so spelled publishes nothing,
    and the counts differ; over the limit, where the depth cap cuts one of the two walks first,
    the verifier's can be the higher one. The two properties named `VerifierAgrees` have the
    exceptions.

## 6. Not modelled, and why

- **Presentation and wording.** `priority`, `action`, lanes, effort, titles: tables over text,
  with no state that a schedule or a failure can reach.
- **Text to data.** The parsing of dig output, of a DKIM key (the model has its class), of RFC
  syntax in a DMARC record, and of RDAP's JSON. The MTA-STS and robots.txt grammars are
  modelled, at the level of lines and fields.
- **Order of reasons in the ledger.** The text of an entry names the first failure charged;
  with a concurrent sweep that depends on the schedule (`audit.py` 263). The models say
  whether an entry is conclusive, and `Reproducible` covers the reason of the whole run.
- **Injected backends** (`set_backend`, `cache_clear`) and the argument handling of `main`.
- **Severities** of single findings, the choice of the primary MX and the bytes of STARTTLS.
- **Data-dependent reads in `AuditRun`.** A check there reads a fixed program. Which reads an
  answer leads to is in `RuleLedger`, `SpfCheck`, `DkimSweep`, `DmarcWalk` and `HttpFetch`.
- **Concurrent runs of the freshness workflow**, which has no concurrency group: the model has
  one issue and one run at a time.
- **The conformance harness, report builders, FAQ and parity generators, JavaScript runners**:
  they run once, compare and print, and the engine the last ones call is not in the
  repository. Fixtures and tests were read as statements of intent.

## 7. Plan

Done, in the order of how much of the program's promise hangs on the part: the adapter and its
abstract specification, the backend, the sweep, the walk and the policy, the ledger, the run;
then the SPF walk and its comparison with a receiver and the verifier, the whole DMARC check,
the HTTPS reads, the batch scorer, the public suffix pipeline. Left:

1. *Composition*: the contracts are proved (`BackendIsOneStep`, `WalkKeepsContract`); what is
   left is `AuditRun`'s reads as those of `ReadOnce`.
2. *Ledger*: the order of the reasons in an entry, once the text is specified to have one.
