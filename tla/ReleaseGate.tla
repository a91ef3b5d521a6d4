----------------------------- MODULE ReleaseGate -----------------------------
(***************************************************************************)
(* cmd/m5gate with pkg/releasegate: four gates over the files of a         *)
(* benchmark, in a fixed order.  The first error ends the run before any   *)
(* report is written; otherwise the two reports are written one after the  *)
(* other, and either write may fail.  Measurements are whole numbers, and  *)
(* comparisons are exact (see ReleaseStats).                               *)
(***************************************************************************)
EXTENDS Integers, Sequences, FiniteSets, SequencesExt, ReleaseStats

CONSTANTS
  Inputs,        (* the flags and the files a run may find: [flags, files]    *)
  Crit,          (* SignificanceAlpha in thousandths -> 100 * its z squared   *)
  Garbled,       (* a number or a line that does not parse                    *)
  Blank          (* a blank line                                              *)

Manifests == {"absent", "unstatable", "unreadable", "garbled", "same", "other"}
IsSequence(s) == s \in Seq({ s[i] : i \in DOMAIN s })
Listings(fs) ==
  { fs.candidate[s] : s \in DOMAIN fs.candidate } \cup { fs.baseline[s] : s \in DOMAIN fs.baseline }

VARIABLES
  input,         (* the flags and the files, which do not change              *)
  cfg,           (* the normalised Config                                     *)
  pc,            (* the stage that runs next                                  *)
  verdict,       (* gate -> "none", "pass" or "fail"                          *)
  json, md,      (* the reports on disk: "old", "partial", "pass" or "fail"   *)
  exit           (* the exit status, -1 while the process runs                *)

vars == <<input, cfg, pc, verdict, json, md, exit>>

Gates == {"baseline", "overhead", "variance", "significance"}
files == input.files
Scenarios == DOMAIN files.candidate

Init ==
  /\ input \in Inputs
  /\ cfg = input.flags
  /\ pc = "normalize"
  /\ verdict = [g \in Gates |-> "none"]
  /\ json = "old" /\ md = "old"
  /\ exit = -1

Defaults == [overhead |-> 3, tenths |-> 1, minRuns |-> 3, regression |-> 5,
             alpha |-> 50, iterations |-> 1000, minSamples |-> 30, cliffs |-> 147]

NormalizeConfig(flags) ==
  [f \in DOMAIN flags |->
     IF f \in DOMAIN Defaults /\ (flags[f] <= 0 \/ (f = "alpha" /\ flags[f] >= 1000))
       THEN Defaults[f] ELSE flags[f]]

(* The run directories of a scenario, or its root when it holds samples. *)
DiscoverRuns(listing) ==
  IF listing.runs # << >> THEN listing.runs ELSE listing.root
Unlistable(listing) == listing.dir = "unreadable"

(* A row with another number of fields than the header makes the whole     *)
(* file unreadable, so no row is too short for its columns.                *)
BadOverhead(csv) ==
  \/ ~csv.readable \/ csv.rows = << >> \/ "collector_cpu_pct" \notin csv.header
  \/ \E i \in DOMAIN csv.rows : csv.rows[i].cpu = Garbled
LoadCollectorCPUSamples(csv) ==
  [i \in DOMAIN csv.rows |->
     [csv.rows[i] EXCEPT !.node = IF "node" \in csv.header /\ @ # "" THEN @ ELSE "unknown"]]

(* A line of raw samples is a record [ttft, tps, err] unless it is blank   *)
(* or garbled, which its ttft says.                                        *)
LoadRawSamples(raw) == SelectSeq(raw.lines, LAMBDA l : l.ttft # Blank)
BadRaw(raw) ==
  \/ ~raw.readable \/ \E i \in DOMAIN raw.lines : raw.lines[i].ttft = Garbled
  \/ LoadRawSamples(raw) = << >>
Extract(samples, field) == [i \in DOMAIN samples |-> samples[i][field]]

LoadSamplesFromRuns(runs) ==
  FlattenSeq([i \in DOMAIN runs |-> LoadRawSamples(runs[i].raw)])
TTFTs(listing) == Extract(LoadSamplesFromRuns(DiscoverRuns(listing)), "ttft")

GateAssumption ==
  /\ Garbled \in Int /\ Blank \in Int /\ Garbled < 0 /\ Blank < 0
  /\ \A in \in Inputs :
       /\ in.files.manifest \in Manifests
       /\ DOMAIN in.files.candidate \subseteq DOMAIN in.files.baseline
       /\ DOMAIN Defaults \subseteq DOMAIN in.flags /\ \A f \in DOMAIN Defaults : in.flags[f] \in Int
       /\ Crit[NormalizeConfig(in.flags).alpha] \in Nat
       /\ \A l \in Listings(in.files) :
            IsSequence(l.runs) /\ IsSequence(l.root) /\ TTFTs(l) \in Seq(Int)
ASSUME GateAssumption

(* ------------------------------- the gates ------------------------------ *)
(* Each is the set of what it may return: "pass", "fail" or "error".        *)

Verdict(pass) == IF pass THEN "pass" ELSE "fail"

EvaluateBaseline ==
  IF files.manifest \in {"unstatable", "unreadable", "garbled"} THEN {"error"}
  ELSE {Verdict(files.manifest # "absent" \/ ~cfg.requireManifest)}

OverheadPass(samples, limit) ==
  LET of(node) == Extract(SelectSeq(samples, LAMBDA s : s.node = node), "cpu")
  IN  /\ \A node \in { samples[i].node : i \in DOMAIN samples } :
           Quantile(of(node), 95) <= 100 * limit
      /\ MeanWithin(Extract(samples, "cpu"), limit)

EvaluateOverhead ==
  LET runs(s) == DiscoverRuns(files.candidate[s])
      csvs == FlattenSeq([s \in Scenarios |->
                [i \in DOMAIN runs(s) |-> runs(s)[i].overhead]])
  IN  IF \E s \in Scenarios : \/ Unlistable(files.candidate[s]) \/ runs(s) = << >>
                              \/ \E i \in DOMAIN runs(s) : BadOverhead(runs(s)[i].overhead)
      THEN {"error"}
      ELSE {Verdict(OverheadPass(FlattenSeq([i \in DOMAIN csvs |->
              LoadCollectorCPUSamples(csvs[i])]), cfg.overhead))}

VariancePass(runs) ==
  LET samples(i) == LoadRawSamples(runs[i].raw)
      ttft == [i \in DOMAIN runs |-> Quantile(Extract(samples(i), "ttft"), 95)]
      tps == [i \in DOMAIN runs |-> Quantile(Extract(samples(i), "tps"), 50)]
      err == [i \in DOMAIN runs |->      (* means, of up to 4 samples, times 12 *)
                (12 \div Len(samples(i))) * Total(Extract(samples(i), "err"))]
  IN  \A values \in {ttft, tps, err} : VariationWithin(values, cfg.tenths)

EvaluateVariance ==
  LET runs(s) == DiscoverRuns(files.candidate[s])
      rerun == { s \in Scenarios : Len(runs(s)) >= cfg.minRuns }
  IN  IF \/ \E s \in Scenarios : Unlistable(files.candidate[s])
         \/ \E s \in rerun : \E i \in DOMAIN runs(s) : BadRaw(runs(s)[i].raw)
      THEN {"error"}
      ELSE {Verdict(rerun = Scenarios /\ \A s \in Scenarios : VariancePass(runs(s)))}

Enough(c, b) == Len(c) >= cfg.minSamples /\ Len(b) >= cfg.minSamples

(* c and b are the candidate's and the baseline's TTFTs; ci, whether the   *)
(* lower end of the bootstrap interval is above zero.                      *)
Regresses(c, b, ci) ==
  /\ RegressionAbove(Quantile(c, 95), Quantile(b, 95), cfg.regression)
  /\ Significant(c, b, Crit[cfg.alpha])
  /\ ci
  /\ Practical(c, b, cfg.cliffs)

EvaluateSignificance_Inconclusive ==
  { Verdict(\A s \in Scenarios :
      LET c == TTFTs(files.candidate[s]) b == TTFTs(files.baseline[s])
      IN  Enough(c, b) => \A ci \in CIAboveZero(c, b, cfg.iterations) : ~Regresses(c, b, ci)) }
EvaluateSignificance ==
  LET bad(listing) ==
        LET runs == DiscoverRuns(listing)
        IN  Unlistable(listing) \/ runs = << >> \/ \E i \in DOMAIN runs : BadRaw(runs[i].raw)
      Outcomes(s) ==
        LET c == TTFTs(files.candidate[s]) b == TTFTs(files.baseline[s])
        IN  { Verdict(Enough(c, b) /\ ~Regresses(c, b, ci)) :
                ci \in CIAboveZero(c, b, cfg.iterations) }
  IN  IF \E s \in Scenarios : bad(files.candidate[s]) \/ bad(files.baseline[s])
      THEN {"error"}
      ELSE (IF \A s \in Scenarios : "pass" \in Outcomes(s) THEN {"pass"} ELSE {})
           \cup (IF \E s \in Scenarios : "fail" \in Outcomes(s) THEN {"fail"} ELSE {})

(* ------------------------------- m5gate main ---------------------------- *)

Normalize ==
  /\ pc = "normalize" /\ pc' = "baseline"
  /\ cfg' = NormalizeConfig(cfg)
  /\ UNCHANGED <<input, verdict, json, md, exit>>

Exit(status) == pc' = "done" /\ exit' = status

(* An error of a gate ends the run; a failed gate does not. *)
Stage(gate, outcomes, next) ==
  /\ pc = gate
  /\ \E o \in outcomes :
       \/ o = "error" /\ Exit(1) /\ UNCHANGED verdict
       \/ o # "error" /\ pc' = next /\ verdict' = [verdict EXCEPT ![gate] = o]
                      /\ UNCHANGED exit
  /\ UNCHANGED <<input, cfg, json, md>>

Baseline == Stage("baseline", EvaluateBaseline, "overhead")
Overhead == Stage("overhead", EvaluateOverhead, "variance")
Variance == Stage("variance", EvaluateVariance, "significance")
Significance == Stage("significance", EvaluateSignificance, "json")

Pass == \A g \in Gates : verdict[g] = "pass"

(* A write that fails leaves the old file, or a truncated one. *)
WriteJSON ==
  /\ pc = "json"
  /\ \/ json' = Verdict(Pass) /\ pc' = "md" /\ UNCHANGED exit
     \/ json' \in {json, "partial"} /\ Exit(1)
  /\ UNCHANGED <<input, cfg, verdict, md>>

WriteMarkdown_ErrorIgnored ==
  /\ pc = "md"
  /\ md' \in {md, "partial", Verdict(Pass)}
  /\ Exit(IF Pass THEN 0 ELSE 1)
  /\ UNCHANGED <<input, cfg, verdict, json>>
WriteMarkdown ==
  /\ pc = "md"
  /\ \/ md' = Verdict(Pass) /\ Exit(IF Pass THEN 0 ELSE 1)
     \/ md' \in {md, "partial"} /\ Exit(1)
  /\ UNCHANGED <<input, cfg, verdict, json>>

Next ==
  Normalize \/ Baseline \/ Overhead \/ Variance \/ Significance
    \/ WriteJSON \/ WriteMarkdown
Spec == Init /\ [][Next]_vars

(* ------------------------------ properties ------------------------------ *)

Pairs == { <<TTFTs(files.candidate[s]), TTFTs(files.baseline[s])>> : s \in Scenarios }

(* The significance test can see what it is asked for: samples of the      *)
(* least size that do not overlap at all are significant.                  *)
Powered ==
  LET m == cfg.minSamples
  IN  cfg.iterations >= 10 /\ cfg.cliffs <= 1000
      /\ Significant([i \in 1..m |-> m + i], [i \in 1..m |-> i], Crit[cfg.alpha])

(* No statistic hides a regression that every request shows: when each     *)
(* candidate TTFT is above each baseline TTFT by more than the limit, and  *)
(* the test has the power to see it, m5gate does not exit with 0, whatever *)
(* the quantiles, the ties, the resamples and the other gates say.  (The   *)
(* percentage of a baseline of 0 is taken as 0, so the baseline must not   *)
(* have a TTFT of 0 for this to hold.)                                     *)
ClearRegressionBlocks ==
  exit = 0 /\ Powered =>
    \A p \in Pairs : \E i \in DOMAIN p[1], j \in DOMAIN p[2] :
      p[2][j] <= 0 \/ 100 * (p[1][i] - p[2][j]) <= cfg.regression * p[2][j]

(* A pass stands on evidence: when m5gate exits with 0, every scenario had *)
(* its reruns, each with both files whole, and enough samples on both      *)
(* sides; a missing or damaged file never counts as nothing to complain of. *)
PassNeedsEvidence ==
  exit = 0 =>
    /\ cfg.requireManifest => files.manifest \in {"same", "other"}
    /\ \A s \in Scenarios :
         LET c == DiscoverRuns(files.candidate[s]) b == DiscoverRuns(files.baseline[s])
             whole(r) == r.raw.readable
                         /\ \A i \in DOMAIN r.raw.lines : r.raw.lines[i].ttft # Garbled
         IN  /\ Len(c) >= cfg.minRuns /\ Len(b) >= 1
             /\ \A i \in DOMAIN c : whole(c[i]) /\ c[i].overhead.readable
             /\ \A i \in DOMAIN b : whole(b[i])
             /\ Enough(TTFTs(files.candidate[s]), TTFTs(files.baseline[s]))

(* The rank sum and the pair count tell the same story: 2 * u1 is nx * ny  *)
(* plus the difference Cliff's delta counts, however many values are equal. *)
RanksAgreeWithPairs ==
  pc = "normalize" =>
    \A p \in Pairs :
      TwiceU1(p[1], p[2]) - Len(p[1]) * Len(p[2]) = PairDifference(p[1], p[2])

(* The exit status is 0 exactly when both reports on disk are whole, of    *)
(* this run, and say that it passed; a report of an earlier run, or half   *)
(* of one, never goes with a 0.                                            *)
ExitMatchesReports ==
  exit # -1 => (exit = 0 <=> json = "pass" /\ md = "pass")
=============================================================================
