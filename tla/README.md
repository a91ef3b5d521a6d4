# A verification project for the LLM-SLO eBPF toolkit

TLA+ models of the toolkit's concurrent core, of the gates and the correlation
built on it and of the demo service it observes, the TLC runs that check them on
small instances, and theorems about them that TLAPS checks for every value of
the constants. `PROJECT.json` lists the components, runs, hazards, theorems and,
for every definition, the source lines it stands for. Paths below are relative
to the repository's root.

Run everything from this directory:

    tlc -workers 2 -config MCAgent.cfg MCAgent
    tlc -workers 2 -config MCKernelProbe.cfg MCKernelProbe
    tlc -workers 2 -config MCProbePipeline.cfg MCProbePipeline
    tlc -workers 2 -config MCDelivery.cfg MCDelivery
    tlc -workers 2 -config MCRetryStorm.cfg MCRetryStorm
    tlc -workers 2 -config MCReleaseGate.cfg MCReleaseGate
    tlc -workers 2 -config MCSpanBatch.cfg MCSpanBatch
    tlc -workers 2 -config MCServing.cfg MCServing
    tlc -workers 2 -config MCBenchmark.cfg MCBenchmark
    tlc -workers 2 -config MCAgentBudget.cfg MCAgent        (a violation)
    tlc -workers 2 -config MCKernelDNS.cfg MCKernelProbe    (a violation)
    tlc -workers 2 -config MCCDGateRules.cfg MCServing      (a violation)
    tlapm AgentProofs.tla
    tlapm KernelProofs.tla
    tlapm PipelineProofs.tla
    tlapm DeliveryProofs.tla
    tlapm ReleaseGateProofs.tla
    tlapm AnalysisProofs.tla
    tlapm ServingProofs.tla
    tlapm FiniteTheorems.tla

## 1. The system

The toolkit runs one agent per Kubernetes node. eBPF programs measure kernel
latencies; user space turns their records into probe events, correlates them
with the spans of LLM requests, attributes incidents to a fault domain and feeds
release and deployment gates.

| Part | State it keeps | Operations | Talks to |
|---|---|---|---|
| eBPF programs (`ebpf/c`) | one start map and one ring buffer per program | start hook, end hook or tracepoint | the kernel's tasks before it, the ring's reader after it |
| collector pipeline (`pkg/collector/ringbuf.go`, `probe_manager.go`) | registered specs; readers, two channels, one goroutine per reader | `Register`, `DisableProbe`, `DetachAll`, `CheckOverhead`, `RingBufReaders`; `AddReader`, `Start`, `readLoop` | the programs' rings, the receiver of `Events()`, one context |
| agent (`cmd/agent`) | metrics, output writers, limiter, generator, guard | `emitOne`, the streaming and the counted loop, the hello callback, shutdown | everything below, in one process |
| hello tracer (`pkg/collector/hello_tracer.go`) | two tickers | `Start` | the agent's hello callback |
| signals (`pkg/signals`) | the generator's enabled set | `SetSignals`, `DisableHighestCost`, `Generate` | the agent's tick |
| safety (`pkg/safety`) | one second and one count; one CPU sample | `Allow`, `Evaluate` | called from both goroutines, and from the tick |
| webhook (`pkg/webhook`) | none | `Send`: three attempts with backoff | an HTTP receiver |
| correlation (`pkg/correlation`, `pkg/otel/processor/ebpfcorrelator`) | per key, the times of recent retransmits | `Match`, `Record`, `IsStorm`, `EnrichAttributes`, `ProcessBatch` | spans and probe events |
| attribution (`pkg/attribution`, `cmd/attributor`) | none | Bayesian and rule-based ranking, coverage and accuracy | files |
| release gate (`pkg/releasegate`, `cmd/m5gate`) | none in memory; two reports on disk | baseline, overhead, variance and significance checks | directories of benchmark runs |
| CD gate, prerequisite checker, configuration (`pkg/cdgate`, `pkg/prereq`, `pkg/toolkitcfg`, `cmd/sloctl`) | none | three Prometheus queries, nine checks of a host, exit codes | Prometheus, `/proc`, a YAML file |
| demo service (`demo/rag-service`, with `pkg/slo`) | shared histograms and counters; one handler per request | `handleChat`, streamed and whole responses | its clients, llama.cpp, Prometheus |
| benchmark tools (`cmd/faultreplay`, `cmd/benchgen`, `pkg/benchmark`, `pkg/faultreplay`) | a sample file, six artifacts | replay, attribute, write | files |
| schemas (`pkg/schema`, `cmd/schemavalidate`) | none | `ValidateAgainstSchema` | files |
| GPU sampler, BCC fallback | a sampler loop; a child process | `Start`, `Stop` | NVML, `bcc` |
| load and fault tools, runner scripts | none | file generators; registration loop | files, GitHub |

### What is hard, and what makes each part correct

*eBPF programs.* Hooks of different keys interleave; an operation may never meet
its end hook; a key is reused by another task; map and ring have limits; a
program is attached while operations are under way. Correct means: a reported
interval is that of the operation that ended, once, in order, and the map does
not fill with entries nobody will delete.

*Collector pipeline.* The kernel, the manager's callers, one goroutine per
reader, a receiver that may stop, and a context. A send on a closed channel
panics, a blocked send keeps `Start` from returning, and a closed reader must
not be listed. Correct means: per-probe order without duplicates, loss only where
the design allows it, and a way out.

*Agent.* Two goroutines put events through one limiter, one drop counter and one
output; a failed SLO event ends the process and a failed probe event must not;
the governor shrinks the enabled set while events of it are produced; nobody
waits for the hello goroutine at the end. Correct means: every probe event is
written or counted once, no event of a shed signal goes out, signals go in the
documented order, output records are whole, ticks end and the process ends.

*Webhook delivery.* An answer lost, late or of the wrong kind after the receiver
has acted; requests given up that arrive later; some incidents delivered and
others not. Correct means: what `Send` and the exit status report is what
happened, incidents arrive in order and a bounded number of times, a refusal is
final, and the whole takes bounded time.

*Retry storm detector.* Goroutines share it under a mutex, but the times they pass
were taken before, so calls prune the window in an order of their own. Correct
means: no event a verdict needs is forgotten, and what an old event behind a
younger one can add to a verdict is bounded.

*Correlation.* Signals come late, twice, more than the fanout allows, with zero
times or exactly on the edge of a window, for spans that have attributes already;
and the labelled evaluation that guards the quality of the joins is a second
implementation of the decision. Correct means: no signal goes unaccounted, closer
is never weaker, what an earlier batch found stays, and the evaluation measures
what the processor does.

*Release gate.* Many files, any of which may be missing, damaged, of another run
or of too few samples; ties, tiny samples and zero baselines in the statistics;
two reports written one after the other. Correct means: a pass has evidence
behind it, a regression that every request shows blocks, and exit status and
reports agree.

*Demo service and CD gate.* Concurrent handlers put a request into a histogram
and into a counter in two steps, on several ways out, while clients leave, the
backend fails and the clock is set back; scrapes see all of it; the gate asks a
Prometheus that may be away, have no data, or have only a NaN. Correct means: a
request's label is what its client got, the two series agree up to what is in
flight, and the gate's exit status is what its queries were answered.

*Attribution and benchmark.* Values exactly on a threshold; absence counted as
evidence; six artifacts of one run computed in separate passes over the samples
and written over those of an earlier run, with failing writes. Correct means: an
injected fault is found, evidence never works against the domain it is for, the
artifacts agree, and the last one vouches for the others.

## 2. The modules

| Module | Models | Kind |
|---|---|---|
| `Signals` | `pkg/signals`: the lists, the start-up choice, the shedding order | operators, extended by `Agent` |
| `RateLimiter` | `safety.RateLimiter` | state and operators, extended by `Agent` |
| `EventFate` | an event that enters leaves once, written or dropped | abstract specification |
| `Agent` | `cmd/agent` with the hello tracer, guard and output writers | state machine |
| `AgentProofs` | theorems about `Agent` | proofs |
| `KernelProbe` | the nine signal programs of `ebpf/c`, with map and ring | state machine |
| `KernelProofs` | theorems about `KernelProbe` | proofs |
| `ProbeRing` | a BPF ring buffer: numbered records, a full ring loses the new one, the oldest is taken first | abstract specification |
| `LossyFeed` | per-source order, no duplicate, loss allowed | abstract specification |
| `ProbePipeline` | `ProbeManager` and `RingBufConsumer`, the kernel's rings and the receiver | state machine |
| `PipelineProofs` | theorems about `ProbePipeline` | proofs |
| `Delivery` | `webhook.Exporter.Send`, `cmd/attributor` around it, the network and a receiver | state machine |
| `DeliveryProofs` | theorems about `Delivery` | proofs |
| `RetryStorm` | `correlation.RetryStormDetector` | state machine |
| `ReleaseStats` | the statistics of `pkg/releasegate`, in exact integers | operators, extended by `ReleaseGate` |
| `ReleaseGate` | `cmd/m5gate` with `pkg/releasegate` | state machine |
| `ReleaseGateProofs` | theorems about `ReleaseGate` | proofs |
| `Correlation` | `Match`, `EnrichAttributes`, `EnrichDNS`, `DecomposeRetrieval`, the labelled evaluation | operators, extended by `SpanBatch` |
| `SpanBatch` | `ProcessBatch`, called again with late and repeated signals | state machine |
| `RagService` | `demo/rag-service`: concurrent chat requests and their metrics | state machine, composed by `Serving` |
| `Sloctl` | `cmd/sloctl` with `pkg/cdgate`, `pkg/prereq`, `pkg/toolkitcfg` | state machine, composed by `Serving` |
| `Serving` | the two, and a Prometheus between them | composition |
| `ServingProofs` | theorems about `Serving` | proofs |
| `Attribution` | `pkg/attribution` | operators, extended by `Benchmark` |
| `Benchmark` | `cmd/faultreplay`, then `cmd/benchgen`, and the file between them | state machine |
| `AnalysisProofs` | theorems about `SpanBatch`, `RetryStorm` and `Benchmark` | proofs |
| `FiniteTheorems` | sums over finite sets, places in an order, powers of two | lemmas for the proofs |
| `MCAgent`, `MCKernelProbe`, `MCProbePipeline`, `MCDelivery`, `MCRetryStorm`, `MCReleaseGate`, `MCSpanBatch`, `MCServing`, `MCBenchmark` | values of the constants for TLC | model checking |

Operators whose name holds an underscore and a description, such as
`Update_NoExist`, stand before the definition they are a mutated form of; no
specification uses them. Putting one in the place of its original makes TLC
report the property `PROJECT.json` pairs it with, which shows that the property
can fail.

### Agent

A step is what a goroutine does between two points at which the other one may
run: a call into the shared limiter, a validation, taking the output's mutex,
encoding under it. `pc` names the point, `job` the event in hand, `stamp` the
time its events carry. The path `RateLimit`, `Validate`, `LockOutput`, `Encode`
is one definition for both goroutines, as the code of `emitOne` and of the hello
callback is the same up to the time they pass; SLO events enter it at
`Validate`, because the code does not ask the limiter for them. `AfterFailure`
is where the two differ from SLO events: the former are dropped and counted, the
latter end the process with `log.Fatal`'s status.

`config` is chosen once and holds what the flags and the file decide: event
kind, output, capability mode, configured and disabled signals, `--count`, the hello
tracer, the guard and a scenario that `BuildSyntheticSample` knows or not. Only the
jsonl output has a file for `Close` to close, so that a late hello event fails on it
and still goes out on the others. A `Send` is the single step `PostAttribution`: it
holds the tick for as long as `Delivery`'s `SendBounded` says, and the clock and the
hello goroutine may go on before and after it.
`Evaluate` is the whole of `OverheadGuard.Evaluate`: it keeps its previous
sample on an error, only stores the first one and reports "over" from the second
on; which of these happens is a free choice, as the CPU times are the kernel's.
`Die` is `os.Exit`: nothing deferred runs and the other goroutine stays where it
is. The metrics server only reads metrics. A second SIGINT after the context is
cancelled, which the runtime then handles by killing the process, is left out.
`HelloTargets` is how many commands `sanitizeTargets` leaves. An empty selection
means "all signals" to `SetSignals` (`generator.go:58`), so a start-up that
disables every signal it would have enables all of them (`main.go:681`); the
model does the same, and `EnabledSetIsOne` holds with it.

### KernelProbe

One program is attached, its records going to its own ring. All nine programs
have one of three shapes, and `ToolkitPrograms` says which: a start hook and an
end hook around an operation, the two UDP hooks of the DNS program, and a single
tracepoint. An end hook is two steps, the part up to `bpf_ringbuf_reserve` and
`Submit`, because other CPUs reserve and submit between them and the reader
waits for a reserved record. `Update` follows `BPF_ANY`. `phase = "outer"` in an
initial state is an operation that was under way when the program was attached.
A nested connect is `tcp_v6_connect` calling `tcp_v4_connect` for a mapped
address, with both pairs of hooks on the same key. `Abandon` is a task that dies
in the operation. The `sched_wakeup` of a task that is queued or running already
begins its wait anew (`restarts`): of the nine programs only `runqueue_delay` has a
start hook that fires again without another operation. One unit of the clock is as long as the program's threshold.

A full ring refuses the new record, where `docs/ARCHITECTURE.md:322` has the oldest
event dropped.

Left out: kretprobes that the kernel misses when all instances are in use; two
block requests of one sector in flight at once, which would share a key; and
what a record contains beyond its interval. (`cpu_steal.bpf.c:15-17` fills the
value of `cpu_steal_pct` with nanoseconds of waiting, and `ringbuf.go:213-217`
passes it on; the model has no units.)

### ProbePipeline

`probes` is the manager's map, `accepted` and `detached` record which specs went
in and which `closeProbe` has closed, `again` which of the closed ones a caller has
registered once more. `CheckOverhead` is two steps, since the
guard is asked before the mutex is taken. The consumer has one `loop` state per
reader for the places `readLoop` can be at: the poll of the context, the blocked
`Read`, and the `select` between the send and the context. `Start`,
`CloseReaders`, `CloseEvents` and `CloseDone` are `Start`'s body, cut where other
goroutines see the difference. `Produce` is the kernel side in one step; its
detail is `KernelProbe`. The two meet in `ProbeRing`, which both are proved to
implement: what `ProbePipeline` assumes of a probe's ring is what `KernelProbe`
keeps. `KernelProbe`'s reader also waits for a record that is reserved and not yet
submitted; `ProbeRing` says nothing of when a record is taken, so that wait is in
`KernelProbe` alone. A record that does not decode is `ReadRecord`'s second
disjunct.

`Register` may be called with any spec at any time, as `probe_manager.go:60-71` looks
at nothing but the signal: also with one that is registered, or that `closeProbe` has
closed, which is then listed with its closed reader. That is the caller's doing, and
`RegisteredOrDetached` allows a closed probe in the registry for no other reason. Of
`AddReader` one thing is assumed: each reader is passed to it once, before `Start`. A
reader added after `Start` copied the list is never read and never
closed (`ringbuf.go:94`), which the code makes plain and the model does not
repeat. Another remark of this kind: a probe closed by the manager leaves
`readLoop` going round without pause, as the context is its only way out
(`ringbuf.go:136`). A second `Register` for a signal forgets the first spec
without closing it (`probe_manager.go:69`): the model does that too, and
`RegisteredOrDetached` says that nothing else is ever forgotten. `AttachAll`
only logs, `Mode` and `EnabledSignals` only read.

### Delivery

The process is `cmd/attributor`, whose main goroutine is the only one: `pc` is
its place, `settings` its webhook flags, `current` the prediction of its loop.
Within `Send`, `attempt` is the loop variable, `Post` and `ReadAnswer` are the
two halves of `doPost`, between which time passes and the network and the
receiver move; `left` counts the seconds to the client's timeout or the end of a
backoff. `SendReturns` is what the loop of `main` does with the result.

The network may lose a request or deliver it late, also after the sender has
given it up, tries again, works on a later incident or has exited. The receiver
acts on an incident before it answers with a status below 400, does not act when
it answers 4xx, and does either before a 5xx. An answer reaches the sender only
while it waits for that request; a lost answer is a connection that breaks or a
timeout after the request was received.

Left out: the payloads (for each format a function of the attribution, and
marshalling cannot fail after the predictions were written in the same way), the
signature, redirects, and a request that Go's transport repeats by itself on a
stale connection. `docs/guides/webhook-integration.md` derives PagerDuty severity
and Opsgenie priority from the burn rate alone, the code from confidence and burn
rate (`pagerduty.go:29-32`, `opsgenie.go:24-32`); the model has no payloads, so
no run shows it.

### RetryStorm

Each operation holds the mutex from its first to its last line and is one step.
`Record` and `Query` (`IsStorm` and `Count`, which compute one thing and return
it as a verdict or a number) carry a time between the clock and `MaxLag` before
it. `Start` is the loop variable of `pruneOld` at its end. `recorded` keeps all
times since the last `Reset`, so that the properties can compare the buckets with
what a detector without pruning would know.

The comment on `IsStorm` (`retry_storm.go:62`) promises a count "within the
window ending at now". The detector keeps that exactly when times never go back
(`MaxLag = 0`). With a lag, an event older than the window stays while a younger
one stands before it, and an event later than `now` counts; `VerdictsBetweenWindows`
(`NoStormMissed` and `NoStaleStorm`) says how far the verdict can then be from the count. No program of
the repository calls the detector yet, so the lag is a parameter.

### ReleaseGate

`pc` is the place in `m5gate`'s `main`: `Normalize`, the four gates in the code's
order, the two reports. A gate is the set of what it may return (`EvaluateBaseline`
and so on), as the bootstrap's generator and the file system leave it a choice;
`Stage` applies it: an error ends the run with status 1 and the reports of an
earlier run in place, a failure does not. `files` is what the directories hold:
run directories of a scenario or its root, CSV and JSON lines that may be
unreadable, garbled or blank, and a manifest.

`ReleaseStats` multiplies the comparisons out, so quantiles, the coefficient of
variation, the Mann-Whitney z score, Cliff's delta and the percentages are exact;
what the rounding of floats does exactly at a limit is not modelled. `Sorted`
says what `sort.Float64s` leaves at each place (how many samples are below it and how
many not above it), not how, because the provers have no definition of a sort. The
bootstrap's interval is what its resamples can give (`CIAboveZero`); fewer than
ten iterations give the interval (0, 0).

Remarks from the translation, which no run needs: the p value is two-sided and
the delta is taken without its sign, so a candidate whose tail alone is slower
can fail though most of its requests are faster; with fewer than ten iterations
the significance gate cannot fail at all; `docs/benchmarking/methodology.md:87` calls
too few samples "inconclusive rather than failing", where the gate fails (as the
tests have it); a baseline quantile of zero makes the regression 0 percent
(`gate.go:514-517`), so a regression over a baseline with a zero is never seen, and
`ClearRegressionBlocks` leaves such a baseline out; and `:94` says that the candidate "must not match" the baseline's
source, which the gate notes and lets pass.

### Correlation and SpanBatch

`Match` is translated tier by tier; a zero time or an empty identity matches
nothing. `EnrichAttributes` is declarative: the candidates' order is a count of
those before one (`place`), and the attribute is the greatest of old and new
values. `ProcessBatch` starts a call of the code, `ProcessSpan` is one turn of its
loop, and the caller gives the enriched spans again with the next delivery, as a
collector does with late signals. `EnrichDNS` and the evaluation are operators
that `EvaluatorPredictsEnrichment` compares with the processor's decision.

Remarks: the confidence attribute is the last batch's, so a late, weaker signal
lowers it while its value is only joined; equal signals crowd others out under
the fanout. `EnrichDNS` and `ProcessBatch` have no callers outside their tests.

### RagService, Sloctl and Serving

A chat handler is cut where another goroutine, the clock or its client can come
between: the retrieval, the generation, each event written, the times calculated
and recorded, the counter. `chat[c]` is what the handler knows and what its client
got. Times are wall-clock ticks, because `UTC()` strips the monotonic part of
every time the handler takes, so that a clock set back shows: `slo.Calculate` then
refuses the times of a response that was streamed in full, and the request is
counted as an error. A write to a client that has gone may fail or vanish in a
buffer, and both are choices.

`Sloctl` is a process that runs one command and is reaped: usage errors, `version`,
the CD gate, the prerequisite check. `RunCDGateCheck` decodes a file over the
defaults, normalises and lets flags override; `Query` and `QueryFails` are one
turn of the gate's loop, `Conclude` is fail-open, the printing of the verdict and the
exit status. A float64 is an integer or one of three model values, for NaN and the
infinities: `ParseFloat` accepts their names, so that a flag, the YAML file and
Prometheus can all bring one in. Every comparison with NaN is false. A verdict
that holds an infinity cannot be printed as JSON: `MarshalIndent` fails and the command
ends with 1 (`cdgate.go:99-103`), whatever fail-open says.

`Serving` composes them over what they share, the service's metrics as Prometheus
scraped them: `Scrape` takes the histogram, `Quantile95` is `histogram_quantile`
over the increase between the range's ends, `Ask` is an answered, an empty or a
failed query. Prometheus is external. Its two other metrics come from recording
rules or from nowhere.

Remarks: requests refused with 405 are counted nowhere; a stream that breaks off
has the status 200; a gate threshold at or above the last finite bucket (2000 ms)
can never be exceeded, and one between two bounds can be by interpolation alone;
`-config` with one dash is read for a warning and then not used; a time-out of
zero fails every query, and fail-open makes it exit 0; an infinite value over its threshold with `--output json`
exits 1 without a report, and would be a pass with `--output text` if a later query
failed; an output mode that does
not exist is noticed after the evaluation, with status 2.

### Attribution and Benchmark

Likelihoods are in twentieths and weights are integers; the header of
`Attribution` says why that decides as the floats do. `Benchmark` is the
Makefile's two steps: `Replay` and `Encode` write the sample file line by line,
`Load` reads it (or builds samples), `ValidateAgainstSchema` and six writes in the
code's order follow. A write may fail and leave the old file, or an empty or torn
one; a CSV writer's deferred `Flush` cannot report it, so a run may end with 0 and
a lost CSV file, which is why `ProvenanceVouches` does not promise the CSV files.
A sample may expect any number of domains; the coverage is kept as one fraction for
each sample, which the code adds up as floats.

Remarks: for the `provider_throttle` profile the Bayesian winner is
`provider_error`, with the injected domain second (`bayesian.go:64` says that the
likelihoods follow the generator's thresholds), so the property is about
coverage; neither tool writes signals into its samples, so with them the engine
falls back to the label and accuracy is 1 by construction; a replay that fails
leaves a prefix that `benchgen` takes for the whole.

## 3. The runs

| Run | Shows | States |
|---|---|---|
| `agent` | all properties of `Agent` under six start-up settings | about 272 000 |
| `agent_budget` | the budget is exceeded when the hello tracer is a second caller | violation |
| `kernel` | all properties of `KernelProbe` for each of the nine programs | about 327 000 |
| `kernel_dns` | the DNS interval does not cover the answer | violation |
| `pipeline` | all properties of `ProbePipeline`, with the refinement of `LossyFeed` | about 1 339 000 |
| `delivery` | all properties of `Delivery` under six sets of webhook flags | about 211 000 |
| `storm` | all properties of `RetryStorm` for two pods | about 194 000 |
| `release_gate` | all properties of `ReleaseGate`, over many samples and many defects of files | about 104 000 |
| `spans` | all properties of `SpanBatch`, at every edge of every window | about 28 000 |
| `serving` | all properties of the service, the Prometheus and `sloctl` together | about 5 955 000 |
| `cdgate_rules` | fail-open lets a violation pass that the gate has seen | violation |
| `attribution` | all properties of `Benchmark`, over all 4096 sets of elevated signals | about 687 000 |

### Properties

`Agent`: `SoleCallerBudget` (one caller never exceeds the budget of a second),
`ShedInCostOrder`, `EnabledSetIsOne` (the gauges show what the generator has, and
no event of a shed signal is on its way), `ExclusiveOutput` (an action property),
`KeepsEventFate` (refinement: every probe event is written or dropped once),
`TickCompletes` and `ShutdownCompletes` (liveness).

`KernelProbe`: `SpanIsReal` (no reported interval begins with another
operation), `OneRecordPerOperation`, `SlotsAccounted`, `FifoDelivery`,
`RecordsReachReader` (liveness).

`ProbePipeline`: `NoSendAfterClose`, `LossAtCancelOnly`, `RegisteredOrDetached`,
`KeepsFeedOrder` (refinement), `StartReturns` (liveness).

`Delivery`: `DeliveredInOrder`, `RefusalIsFinal`, `ExitTellsErrors`, `SendBounded`
(the seconds of one `Send`, and how often the receiver acts on an incident),
`RunEnds` (liveness).

`RetryStorm`: `VerdictsBetweenWindows` (the two sides of a verdict),
`ForgetsOnlyThePast`.

`ReleaseGate`: `ClearRegressionBlocks` (no statistic hides a regression that every
request shows), `PassNeedsEvidence`, `RanksAgreeWithPairs` (the rank sum and the
pair count agree, whatever the ties), `ExitMatchesReports`.

`SpanBatch`: `DebugAccounts` (the four counts and the joins add up, through the
merge), `CloserNeverWeaker`, `EvaluatorPredictsEnrichment`, `LateSignalsOnlyAdd`
(an action property: nothing is taken back, and a repeated delivery changes
nothing).

`Serving`: `OutcomeIsJustified`, `HistogramBrackets` (histogram and counter differ by
what is in flight), `ExitTellsOutcome`, `BlockedBySlowRequest` (a TTFT violation
means that some request was that slow).

`Benchmark`: `ReportsAgree`, `ProvenanceVouches`, `InjectedFaultCovered`,
`MoreEvidenceKeepsWinner`.

### Bounds, and why they are enough

*Agent.* A limit of one event per second makes every second event of a second
meet the limiter; two ticks let the guard's second reading shed a signal and the
next tick see it; three signals leave one to shed and one to keep; `MaxHello = 2`
gives the hello goroutine a first tick and a later one; one fault reaches each
failure path from every point; the clock runs past the hello interval, so that
the goroutines can carry different seconds. The six configurations cover both
goroutines, each alone, each kind of event and of output, the counted and the streaming loop,
the degraded mode with everything disabled, the guard off, and an unknown
scenario. The step rules are per event, and the theorems of section 5 do not
depend on these bounds.

*KernelProbe.* Two keys and a map for one of them meet a full map; a ring of two
meets a full ring, and a reserved record in front of a submitted one; four
attempts meet a record after a lost one and a second end hook after a refused
one; three clock values give intervals below and at the threshold.

*ProbePipeline.* Two probes of one allowed signal, so that the second `Register` may
overwrite the first, a second allowed signal that has no probe and comes first in
the disable order, and a probe of a refused signal; rings and channel of one
record and two records for each probe already block a sender, fill a ring, put
two records of one probe on their way at once and race a close.

*Delivery.* Two incidents let requests of the first arrive among those of the
second; three attempts are the code's `MaxRetry`, with both of its backoffs; a
timeout of two seconds lets an answer come before it, at it and after it. The six
sets of flags reach each branch of `main`.

*RetryStorm.* A window of two with a lag of one and a clock up to five let records
arrive in both orders on both sides of a cutoff and leave the window; three
records per pod put a stale one behind a younger one with a threshold of two. The
two pods are symmetric.

*ReleaseGate.* Samples of two reruns over four values and a baseline over three
give ties within and across the sides, overlaps of every kind, both signs of the
difference and both powers of the test; iterations of nine and ten stand on both
sides of the bootstrap's limit, and a variation limit is met and missed. A second
family puts each listed defect of a file in one place of two scenarios, with six
states of the manifest and flags at, above and below their defaults. Gates look at
a scenario at a time, so that a third adds nothing.

*SpanBatch.* Windows of 1, 2, 4 and 6 around a span at 7 with times from 0 to 14
reach each edge from both sides; two rounds give a batch before and after, late
and repeated; up to four signals meet a fanout of one, two and three; the
thresholds stand between, and exactly at, the confidences of the tiers.

*Serving.* Two clients, one streaming up to two tokens and one that does not, are in each other's
way at every place; a tick of 800 ms puts the default threshold on a bucket's
bound; a recording rule gives a number or an infinity, thresholds are numbers or minus
infinity, and an empty range gives a NaN; the clock moves a tick and is set back once,
one client at a time has closed; two scrapes make a rate. The command lines reach each command, default and
named files, each output mode and a time-out of zero.

*Benchmark.* Every set of elevated signals, each value exactly on its threshold or
just below it; each pair of fault profiles with one and several expected domains;
files that are missing, empty, torn or refused by the schema; two failures of the
file system.

### Fairness

`Agent`: `WF(MainStep)` and `WF(HelloStep)`, the Go scheduler running both
goroutines. Firing tickers, passing time and arriving signals are not fair, and
`SelectTicker` and `HelloTicker` stay outside. A writer that holds the mutex is
always able to go on, so weak fairness on the other goroutine suffices.
`KernelProbe`: `WF(Read)`, the consumer's goroutine, and `WF(Submit(k))`, since a
hook that has begun runs to its end. Tasks, the clock and `Detach` are free.
`ProbePipeline`: `WF(StartStep)` and `WF(ReadLoop(s))`. Nothing is assumed of the
receiver, the manager's callers, the cancellation or the kernel; `StartReturns`
holds with a receiver that has stopped for good.
`Delivery`: time passes, the client's timeout fires, and the process takes its own
steps. Nothing is assumed of the network and the receiver; `ReadAnswer` needs no
fairness, as the timeout ends every wait.
The other modules state safety only and assume no fairness: `m5gate` and
`ProcessBatch` are loops over their input (their runs switch the deadlock check
off because the program ends), and what `Serving` waits for is a client, a clock or
a network that nobody has to provide.

## 4. Findings

Each is the single property of a violation run; `PROJECT.json` quotes the lines.

- `agent_budget`: the limiter resets on *any* other second, also an earlier one,
  and its two callers carry times of different seconds.
- `kernel_dns`: the program is attached at the entry of `udp_recvmsg`, where its
  header and the architecture say `kretprobe`.
- `cdgate_rules`: two of the gate's three metrics are exported by no program of the
  repository, so a reachable Prometheus has no answer for them, `Query` calls that an
  error, and fail-open, on by default, turns a TTFT violation already found into a
  pass, where the architecture lets any exceeded threshold fail the gate and
  `--fail-open` is for a Prometheus that cannot be reached.

Places where a document and the code disagree and which have no run of their own, as
the model has the code's behaviour and the document's would be a constant or a payload:

- `docs/guides/webhook-integration.md:117` promises "Up to 3 delivery attempts with
  exponential backoff (1s, 2s, 4s)". `Send` sleeps before each attempt but the first
  (`exporter.go:71-74`), so that three attempts have two backoffs, of 1 s and 2 s. The
  4 s never pass. `SendBounded` states the code's sum, `2^(MaxRetry - 1) - 1` seconds.
- The same guide derives severities and priorities from the burn rate alone (section 2,
  Delivery).
- `docs/ARCHITECTURE.md:322` has the oldest event of a full ring dropped, where the new
  one is refused (section 2, KernelProbe).
- `docs/benchmarking/methodology.md:87` and `:94` speak of the significance gate's small
  samples and of the candidate's source otherwise than the code (section 2,
  ReleaseGate).
- The comment on `IsStorm` (`retry_storm.go:62`) holds for callers whose times never go
  back (section 2, RetryStorm).

## 5. What is proved

The theorems hold for every value of the constants that satisfies the
assumptions in the modules (`AgentAssumption`, `LimitAssumption`,
`KernelAssumption`, `PipelineAssumption`, `DeliveryAssumption`,
`StormAssumption`, `GateAssumption`, `CorrelationAssumption`, `BatchAssumption`,
`RagAssumption`, `CtlAssumption`, `ServingAssumption`, `BenchAssumption`), which TLC
also evaluates in the runs. They say what the inputs are: `sloctl`'s thresholds and what
a Prometheus rule gives are float64 values, NaN and the infinities included, the other
flags integers, TTFTs and times are numbers, a batch's attributes are what signals
measure (`Measured`), a kernel release without a number is 0.

Every safety property a run checks is a theorem here, but for two of `Benchmark`.
**AgentProofs.** `TypeCorrect` is the type invariant. `EventsAccounted` needs the
strengthening `JobInv`, which ties the event in hand to the goroutine's place:
without it nothing says that the event an `Encode` step finishes was counted when
it entered. `BudgetHolds` strengthens `SoleCallerBudget` by `ClockInv`: the
limiter's second never runs ahead of the caller's time, later seconds have
admitted nothing, and the stored count is what its second has admitted.
`ShedsInOrder` (the cost order) and `GovernorHolds` (the gauges and
`NoShedSignalInFlight`) rest on `Governed`, which adds `ShedInv`: outside the path of an
event no event of the tick is left, so that shedding takes none away, and the gauges
are behind the generator only until they are published. `ImplementsEventFate` maps each step to a step or a stutter of
the abstract specification, from `DropAccounting` and `JobInv`.
`OutputExclusive` follows from the mutex invariant that the goroutine encoding
is the one that holds `writer`.

`TicksComeNearer` is the safety half of `TickCompletes` and `ShutdownCompletes`.
`MainWork` says how far the main goroutine is from the end of its tick: the rank of
its place in the order the code visits them, five for every signal of the tick still
to be emitted, and what is left of the tick's SLO events. `MainGoesOn` is that every
step of the main goroutine makes it less, begins the next tick or ends the process, and
that nobody else's step changes it. `MainMoves` is about the places where a guard could
be false for good: the mutex is free or held by a hello callback that is encoding, and a
tick with signals left has a first one (`FirstExists`). `TicksBounded` bounds the ticks
by `--count`, or by the model's `MaxTicks` in streaming mode, where `select` may still
choose the ticker after the context is cancelled. The proof needs `JobInv`, `ShedInv`
and `PlaceInv`: the main goroutine stays on its places, and who holds the mutex encodes.

**KernelProofs.** `SpansAreReal` needs `StartInv`: an entry of the start map
carries the time of the key's latest operation, because the update replaces
(`BPF_ANY`) and the end hook deletes. `SlotsHeldByOperations` is inductive as it
stands. `ReportedOnce` is strengthened by `ReportInv`: while an entry is there,
or the innermost hooks have not ended, the operation has not reported; without it
a nested connect could be counted by both of its end hooks. `DeliveredInOrder`
adds that the last record taken is not beyond the attempts, which a new record's
place depends on.

`ImplementsProbeRing` and `ImplementsLossyFeed` are the two refinements: as a ring, a
program and its reader are `ProbeRing`, with the reserved records in their place; as
a source, they are a `LossyFeed` of one. `RecordsComeNearer` is the safety half of
`RecordsReachReader`. `Work(n)` counts, for record `n`, the waiting records up to
it, and once more those that are not submitted; no step makes it more, reading or submitting one of them makes it less (`ComesNearer`), and as long
as the record is there the front of the ring can move (`FrontMoves`): it can be read, or
a hook holds it and can submit it. The last is what `ReservedStay` gives, with `HoldInv`:
the reserved records of the ring are those that hooks under way hold, one each.

**PipelineProofs.** `SendsEndBeforeClose` strengthens `NoSendAfterClose` by
`CloseInv`: only readers in `Start`'s copy have a goroutine, so waiting for those
is waiting for all. `StartComesNearer` is the safety half of `StartReturns`: with
`JoinInv` (a `Start` that waits has seen the context end, and none of its finitely many
readers is open) no goroutine goes round its loop again, so that each of their steps
takes from `JoinWork`, nobody else's adds to it (`ReturnComesNearer`), and each of them
has a step whatever its ring holds and whether anybody receives (`NobodyBlocks`).
`RingsImplementProbeRing` says that each probe's buffer is the abstract ring, whoever
registers, sheds, starts, closes and cancels. `RegistryConsistent` assumes nothing of the
callers of the manager: `Register` may bring any spec at any time, and the theorem says
that a closed one is listed only when `Register` brought it again since it was closed. Its
`RegistryInv` adds that a spec is registered under its own signal, so that what a
`Register` overwrites is of the signal of the spec it brings. `ImplementsLossyFeed` rests on `OrderInv`: the records of a probe
lie in the order of their numbers on the whole way from the ring through the
goroutine's hand and the channel to the receiver. `LossBounded` needs `LossInv`, which
says more than the property: what a goroutine has not passed on is in its hand, one
that has not ended has lost nothing, and it ends only after the context. Each step
is shown to lose no record (`LosesNone`), or to be the one that gives up a send.

**DeliveryProofs.** `TypeCorrect` carries `PlaceInv`, that a prediction has no
outcome before its `Send` returns, which the types need to know that a request
names an incident. `OrderHolds` strengthens `DeliveredInOrder` by `OrderInv`:
nothing of a later prediction is on the wire or acted on, and a good answer waiting
to be read was given after acting on the current one. `RefusalsFinal` and
`ExitHonest` both follow from `ResultInv`, which says for every place of the loop
which predictions have an outcome and that a strict run still going has no
undelivered one; the counter is shown to grow with the set of undelivered
incidents, whose cardinality it is. `SendIsBounded` has two inductive halves.
`SecondsInv` bounds the seconds spent and left at each place by `Budget`, the
timeouts and backoffs of the attempts so far, which doubles along with the backoff
(`PowersDouble`). `RequestsInv` bounds, for each incident, the times it was acted on
plus its requests still on the wire by the attempts made; a request given up and
delivered late is why both have to be counted.
`RunComesNearer` is the safety half of `RunEnds`. `RunWork` adds up the steps left at the
place, the seconds and steps that this `Send` can still take (from `Budget`) and
`SendCost` for every prediction to come. Every step of the process and every second it
waits takes from it or ends the run, no step of the network or the receiver touches it
(`EndComesNearer`); it is a number throughout (`EndMoves`), and no clock
that is waited for runs below zero (`LeftInv`).

**AnalysisProofs, the processor.** `SignalsAccounted` is carried by `BatchInv`, the types
of the batch and of the counters. Its heart is `SpanAccounts`: for one span the
supported signals, the matched, the candidates and the kept are a chain of subsets,
so that the four differences of cardinalities and the number kept add up to the
signals. `CloserIsNotWeaker` needs no history: `CloserMatch` follows from the windows
being convex around the span (`WindowsAreConvex`): what is in a window stays in it
when it comes closer, so no tier is lost.

`LateOnlyAdds` is about any number of deliveries and rests on `LateInv`: what a call
returns is *settled* for its signals, that is, enriching it again with them changes
nothing, and the next call begins with it. `EnrichIs` is the lemma that makes this
provable: it takes the fanout's choice out of `EnrichAttributes` and leaves which
signals were kept and that each attribute is the greatest of what was there and
what came. `Added`, `AddedAgain` and `Decomposed` then follow, the last because the
kernel's share is a sum of attributes that only grow. The property is stated from
the second call on: the first may be given spans that were never enriched.

`EvaluatorPredicts` compares two implementations of one decision. `AloneIs` says what
`EnrichAttributes` does with a single signal, `NameDoesNotMatter` that the decision
does not look at the signal's name, and `PerfectReport` that the evaluator's four
counts over a data set labelled by the processor have no error in them.

**AnalysisProofs, retry storms.** `StartStops` shows that the counting definition of
`Start` is the first event not before the cutoff, from the cardinality of an initial
interval (`InitialIndices`). `KeptIsRecent` is the heart: a pruned sequence is the
last part of what was recorded, what went is older than the window at the clock,
and, because no record is further behind an earlier one than the lag (`Arrivals`),
what stays is at most twice the lag older. `AnswerInv` carries this to the verdict,
and `VerdictsBetween` turns it into the two inequalities between cardinalities.

**AnalysisProofs, the benchmark.** `ProvenanceIsLast` rests on `BundleInv`: the artifacts
before the one at hand are not old, and those of them whose writing can fail the run
are new. The property alone is not inductive, as it says nothing about a run that
has not come to `provenance.json`. `ArtifactsAgree` adds `LinesInv`, what a sample file
may hold at any moment of a replay, and `ContentInv`: what an artifact of this run
holds was computed from the samples, which nobody changes after they are loaded.
The numbers then agree by counting: the predictions are the classes of the matrix's
keys (`ClassesCounted`, `MatrixCounts`), and a sample with a partial hit adds a fraction
above zero to the coverage (`FoundIs`, `CoverageCounts`), whatever number of domains it
expects.

**ReleaseGateProofs.** `ExitHonest` is inductive with `ReportsInv`, which says for
every place which reports are still the old ones. `NoPassWithoutEvidence` rests on
`VerdictInv`: a verdict "pass" means that its gate could return it for the flags
and files in force, and status 0 means four of them. `EvidenceBehindPass` then reads
the evidence out of the gates' conditions, for any number of scenarios, runs and
lines: a gate that passes is one none of whose files is bad, and the overhead and the
significance gate between them read every run directory.

`RanksTellOfPairs` is the identity between the Mann-Whitney statistic and Cliff's
delta, ties included: twice the rank of a value is the number of points below it plus
that of points not above it (`RankOfBoth`), both are sums over the two samples
(`HitsOfBoth`), the pairs within one sample cancel (`SidesSwap`), and the pairs across are
counted once by rows and once as a set (`RowsCounted`, from `PairsCounted`).

`RegressionIsSeen` shows that a regression of every request passes none of the four
conditions of the gate. For the quantiles, `QuantileBetween` puts an interpolated
quantile between two samples. For the effect size, all pairs point one way. For the
test, `ApartTested` writes it out for samples that do not overlap, `TiesBounded` shows
that ties only lower the spread (`ApartSignificant`), and `PowerGrows` that the power
which the smallest samples have is kept by larger ones. `ConfigInv` says that the
gates read the normalised flags. The bootstrap's choice, whatever it is, has only
positive differences to choose from.

**ServingProofs.** `OutcomesJustified` rests on `RagInv`. `Place` says for every place of
the handler what has been written, so that the last token of a stream is known to
be the last; `Timed` says that the times taken are in order and not in the future
unless the clock was set back, so that `slo.Calculate` refuses nothing for another
reason. Each action is a lemma about one handler, and `Local` puts it back among
the others.

`HistogramHolds` sharpens the bracket to `HistInv`: the histogram is at least what is
counted as ok and what is recorded and not yet counted, and at most what is counted
and what is past its calculation. `Effects` sorts all steps of a handler into three
kinds, those that record, those that count and those that are quiet for both.

`ExitTells` follows `sloctl` with `CtlInv`: while a gate runs, its result tells what it
was answered so far, its violations are the answers over their thresholds, with both
values, so that an infinity in one shows; a process that is not a gate has no answers. `BlamesSlowRequest`
needs all of it and `PromInv`, that what was scraped was once the histogram, which
only grows: a quantile over a bucket's bound lies in a later bucket that increased
between the scrapes (`QuantileIs`, `OverTheBound`), so some handler observed a TTFT in
it (`HistTyped`).

**FiniteTheorems.** The community modules' sums are folds, that is, recursive
functions over the subsets of a set. What they compute would be shown by induction,
whose theorem takes an operator that the provers cannot instantiate. The lemmas go
round it: a set of subsets that go wrong has a smallest member (`Smallest`, from the
well-foundedness of strict inclusion between finite sets), and taking one element out
of that one gives a smaller one. So `SumsExist` shows that the recursive function
exists, `TotalStep` and `TotalWithout` what a sum is, and `TotalSum`, `TotalBetween`,
`TotalOfParts`, `PairsCounted` and `ClassesCounted` what the proofs need. `PowersDouble`
comes the same way round, from the number of subsets of `1..n` (`PowerOfTwo`).

What the proofs corrected: `TooHigh` compared the number that stands for a NaN with
the threshold, which a negative threshold is below, where the code's comparison is
false; `LateSignalsOnlyAdd` claimed that a repeated delivery changes nothing from the
first call on, though a first call without signals may add the sum of the parts a
span came with; `ClearRegressionBlocks` had no exception for a baseline of zero. None
of TLC's instances had such values; the code was read again for each, and the
properties now say what it does.

The liveness properties are proved as far as they are about single steps. For each
there is a measure that the steps under fairness lower and no other step raises, and
an invariant about the waits on the way: `TicksComeNearer`, `RecordsComeNearer`,
`StartComesNearer` and `RunComesNearer`, for every value of the constants. What is left
to TLC is the last step of the argument, that an enabled step under fairness is taken.

Only model-checked:

- the liveness properties `TickCompletes`, `ShutdownCompletes`, `RecordsReachReader`,
  `StartReturns` and `RunEnds` themselves, which need fairness and ENABLED;
- `InjectedFaultCovered` and `MoreEvidenceKeepsWinner`. They are about one table of
  likelihoods, not about every value of a constant: a verdict depends on the set of
  elevated signals alone, and the run goes through all 4096 of them, so that a proof
  would repeat the arithmetic of a finite case.

Type correctness and `DropAccounting` are no invariants of the runs, as the theorems
`TypeCorrect` and `EventsAccounted` state them for all constants.

## 6. Not modelled, and what could follow

Not modelled at all:

- `hello_sys_enter_write.bpf.c` and `minimal.bpf.c`, which have no state;
- `cmd/collector`, the agent's loop without the parts goroutines share;
- `cmd/schemavalidate`, `cmd/loadgen`, `cmd/faultinject` and the `main` of
  `cmd/correlationeval`, which read flags and write or check files in a row (what
  correlationeval measures is in `Correlation`);
- the GPU sampler, whose NVML client is a stub, and the BCC fallback: no command
  starts them;
- shell scripts, manifests and dashboards.

Left out of modelled parts: OTLP encoding and the webhook payloads, the JSON schemas
themselves, `NormalizeSample`'s numbers, `slo.Aggregate` (used by its tests only), the
evidence lists of a prediction, corpus and traces of the demo service, and the
rounding of floats where a value lies exactly on a limit.

Hazards that no property covers are listed with their reason in `PROJECT.json`: two
block requests that share a start entry, a reader added after `Start`, a reader
closed under its loop, and the growth of the retry storm
detector's map.

What could follow: block requests that share a key in `KernelProbe`, and the
collector's loop as an instance of `Agent`'s counted mode.
