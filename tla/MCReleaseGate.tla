---------------------------- MODULE MCReleaseGate ----------------------------
(***************************************************************************)
(* Two families of inputs.  Numbers: one scenario, whole files, all        *)
(* samples of two reruns and of a baseline over a few values.  Files: two  *)
(* scenarios of fixed numbers, with every listed defect in one place, and  *)
(* flags at and below their defaults.                                      *)
(***************************************************************************)
EXTENDS ReleaseGate

MCGarbled == -1
MCBlank == -2
MCCrit == [a \in {50, 100} |-> IF a = 50 THEN 384 ELSE 271]

Line(t) == [ttft |-> t, tps |-> 1 + (t % 3), err |-> t]
Raw(ts) == [readable |-> TRUE, lines |-> [i \in DOMAIN ts |-> Line(ts[i])]]
Csv(cpus) ==
  [readable |-> TRUE, header |-> {"node", "collector_cpu_pct"},
   rows |-> [i \in DOMAIN cpus |-> [node |-> IF i % 2 = 1 THEN "n" ELSE "", cpu |-> cpus[i]]]]
Run(csv, raw) == [overhead |-> csv, raw |-> raw]
Listing(runs) == [dir |-> "ok", runs |-> runs, root |-> << >>]
Flags ==
  [requireManifest |-> FALSE, overhead |-> 3, tenths |-> 9, minRuns |-> 2, regression |-> 10,
   alpha |-> 100, iterations |-> 10, minSamples |-> 4, cliffs |-> 500]

Halves == { s \in [1..2 -> {10, 11, 13, 20}] : s[1] <= s[2] }
Bases == { s \in [1..4 -> {10, 11, 18}] : \A i \in 1..3 : s[i] <= s[i + 1] }
Numbers ==
  { [flags |-> [Flags EXCEPT !.iterations = n, !.tenths = v],
     files |-> [manifest |-> "other",
                candidate |-> <<Listing(<<Run(Csv(<<2, 3>>), Raw(a)), Run(Csv(<<3, 2, 1>>), Raw(b))>>)>>,
                baseline |-> <<Listing(<<Run(Csv(<<2>>), Raw(base))>>)>>]] :
      a \in Halves, b \in Halves, base \in Bases, n \in {9, 10}, v \in {1, 9} }

Good == Run(Csv(<<3, 2>>), Raw(<<10, 11>>))
Lines(ls) == [Good EXCEPT !.raw.lines = ls]
GoodListing == Listing(<<Good, Good>>)
Runs ==
  {Good, Lines(<<Line(10), [Line(1) EXCEPT !.ttft = MCBlank], Line(11)>>),
   Lines(<<Line(10), [Line(1) EXCEPT !.ttft = MCGarbled], Line(11)>>), Lines(<< >>),
   [Good EXCEPT !.raw.readable = FALSE], [Good EXCEPT !.overhead.readable = FALSE],
   [Good EXCEPT !.overhead.header = {"node"}], [Good EXCEPT !.overhead.rows = << >>],
   [Good EXCEPT !.overhead.header = {"collector_cpu_pct"}],
   Run(Csv(<<4, 2>>), Good.raw), Run(Csv(<<2, 4, 2>>), Good.raw),
   Run(Csv(<<MCGarbled>>), Good.raw)}
CandidateListings ==
  { Listing(<<Good, r>>) : r \in Runs } \cup
  { Listing(<<Good>>), Listing(<< >>), [Listing(<< >>) EXCEPT !.dir = "unreadable"],
    [Listing(<< >>) EXCEPT !.root = <<Good>>] }
Files ==
  { [flags |-> f,
     files |-> [manifest |-> m, candidate |-> <<GoodListing, c>>, baseline |-> <<GoodListing, b>>]] :
      m \in {"absent", "unstatable", "unreadable", "garbled", "same", "other"},
      c \in CandidateListings, b \in { l \in CandidateListings : l.runs = << >> \/ l.runs[1] = Good },
      f \in {Flags, [Flags EXCEPT !.requireManifest = TRUE],
             [Flags EXCEPT !.minRuns = 1, !.minSamples = 2],
             [Flags EXCEPT !.overhead = 0, !.alpha = 1000, !.minRuns = 0, !.minSamples = 0]} }

MCInputs == Numbers \cup Files
=============================================================================
