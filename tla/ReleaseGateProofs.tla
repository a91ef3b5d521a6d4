-------------------------- MODULE ReleaseGateProofs --------------------------
(***************************************************************************)
(* What the release gate guarantees for every set of inputs: any number of *)
(* scenarios, reruns and samples, any flags and any defect of the files.   *)
(* The first half is about which file was looked at when; the second is    *)
(* about what the statistics compute, for samples of any length.           *)
(***************************************************************************)
EXTENDS ReleaseGate, FiniteTheorems

Places ==
  {"normalize", "baseline", "overhead", "variance", "significance", "json", "md", "done"}

(* The reports on disk are of the earlier run until they are written, and  *)
(* the exit status is set by the step that ends the run, from both.        *)
ReportsInv ==
  /\ pc \in Places
  /\ pc # "done" => exit = -1 /\ md = "old"
  /\ pc \notin {"md", "done"} => json = "old"
  /\ pc = "md" => json = Verdict(Pass)
  /\ pc = "done" => exit \in {0, 1} /\ (exit = 0 <=> json = "pass" /\ md = "pass")

(* A verdict was reached from the flags and files in force, and the exit   *)
(* status of 0 from four verdicts.                                         *)
VerdictInv ==
  /\ input \in Inputs
  /\ pc \in Places
  /\ verdict \in [Gates -> {"none", "pass", "fail"}]
  /\ pc = "normalize" => \A g \in Gates : verdict[g] = "none"
  /\ verdict["baseline"] = "pass" => "pass" \in EvaluateBaseline
  /\ verdict["overhead"] = "pass" => "pass" \in EvaluateOverhead
  /\ verdict["variance"] = "pass" => "pass" \in EvaluateVariance
  /\ verdict["significance"] = "pass" => "pass" \in EvaluateSignificance
  /\ pc # "done" => exit = -1
  /\ exit = 0 => Pass

(* ------------------------------- the reports ---------------------------- *)

LEMMA Verdicts == ASSUME NEW P PROVE Verdict(P) \in {"pass", "fail"} /\ (Verdict(P) = "pass" <=> P)
BY DEF Verdict

LEMMA ReportsInit == Init => ReportsInv
BY DEF Init, ReportsInv, Places

LEMMA ReportsStep == ReportsInv /\ [Next]_vars => ReportsInv'
<1> SUFFICES ASSUME ReportsInv, [Next]_vars PROVE ReportsInv'
  OBVIOUS
<1>1. CASE Normalize
  BY <1>1 DEF Normalize, ReportsInv, Places
<1>2. ASSUME NEW gate \in Gates, NEW outcomes, NEW next \in Places \ {"normalize", "md", "done"},
             Stage(gate, outcomes, next)
      PROVE  ReportsInv'
  BY <1>2 DEF Stage, Exit, ReportsInv, Places, Gates
<1>3. CASE Baseline \/ Overhead \/ Variance \/ Significance
  BY <1>2, <1>3 DEF Baseline, Overhead, Variance, Significance, Places, Gates
<1>4. CASE WriteJSON
  <2>1. Verdict(Pass)' = Verdict(Pass)
    BY <1>4 DEF WriteJSON, Pass, Verdict
  <2>2. QED
    BY <1>4, <2>1 DEF WriteJSON, Exit, ReportsInv, Places
<1>5. CASE WriteMarkdown
  <2>1. Verdict(Pass) = "pass" <=> Pass
    BY Verdicts
  <2>2. QED
    BY <1>5, <2>1 DEF WriteMarkdown, Exit, ReportsInv, Places
<1>6. CASE UNCHANGED vars
  <2>1. Verdict(Pass)' = Verdict(Pass)
    BY <1>6 DEF vars, Pass, Verdict
  <2>2. QED
    BY <1>6, <2>1 DEF vars, ReportsInv
<1>7. QED
  BY <1>1, <1>3, <1>4, <1>5, <1>6 DEF Next

(* Whatever fails, m5gate ends with 0 exactly when both reports on disk    *)
(* are of this run, whole, and say that it passed (main, 65-87).           *)
THEOREM ExitHonest == Spec => []ExitMatchesReports
<1>1. ReportsInv => ExitMatchesReports
  BY DEF ReportsInv, ExitMatchesReports
<1>2. QED
  BY ReportsInit, ReportsStep, <1>1, PTL DEF Spec

(* ------------------------------ the verdicts ---------------------------- *)

LEMMA FilesStay ==
  ASSUME UNCHANGED <<input, cfg>>
  PROVE  /\ EvaluateBaseline' = EvaluateBaseline /\ EvaluateOverhead' = EvaluateOverhead
         /\ EvaluateVariance' = EvaluateVariance /\ EvaluateSignificance' = EvaluateSignificance
<1>1. EvaluateBaseline' = EvaluateBaseline
  BY DEF EvaluateBaseline, files
<1>2. EvaluateOverhead' = EvaluateOverhead
  BY DEF EvaluateOverhead, files, Scenarios
<1>3. EvaluateVariance' = EvaluateVariance
  BY DEF EvaluateVariance, VariancePass, files, Scenarios
<1>4. EvaluateSignificance' = EvaluateSignificance
  BY DEF EvaluateSignificance, Enough, Regresses, files, Scenarios
<1>5. QED
  BY <1>1, <1>2, <1>3, <1>4

LEMMA VerdictInit == Init => VerdictInv
BY DEF Init, VerdictInv, Places, Gates, Pass

LEMMA VerdictStep == VerdictInv /\ [Next]_vars => VerdictInv'
<1> SUFFICES ASSUME VerdictInv, [Next]_vars PROVE VerdictInv'
  OBVIOUS
<1>1. CASE Normalize
  <2>1. verdict' = verdict /\ exit' = exit /\ input' = input /\ pc' = "baseline" /\ pc = "normalize"
    BY <1>1 DEF Normalize
  <2>2. \A g \in Gates : verdict'[g] = "none"
    BY <2>1 DEF VerdictInv
  <2>3. QED
    BY <2>1, <2>2 DEF VerdictInv, Places, Gates
<1>2. ASSUME NEW g \in Gates, NEW next \in Places \ {"normalize", "md", "done"},
             Stage(g, IF g = "baseline" THEN EvaluateBaseline
                      ELSE IF g = "overhead" THEN EvaluateOverhead
                      ELSE IF g = "variance" THEN EvaluateVariance
                      ELSE EvaluateSignificance, next)
      PROVE  VerdictInv'
  <2>1. UNCHANGED <<input, cfg>> /\ pc = g /\ pc # "normalize" /\ exit = -1
    BY <1>2 DEF Stage, Gates, VerdictInv
  <2>2. PICK o : /\ o \in IF g = "baseline" THEN EvaluateBaseline
                          ELSE IF g = "overhead" THEN EvaluateOverhead
                          ELSE IF g = "variance" THEN EvaluateVariance
                          ELSE EvaluateSignificance
                 /\ \/ o = "error" /\ pc' = "done" /\ exit' = 1 /\ verdict' = verdict
                    \/ o # "error" /\ pc' = next /\ verdict' = [verdict EXCEPT ![g] = o] /\ exit' = exit
    BY <1>2 DEF Stage, Exit
  <2>3. CASE o = "error"
    BY <2>1, <2>2, <2>3, FilesStay DEF VerdictInv, Places
  <2>4. CASE o # "error"
    <3>1. o \in {"pass", "fail"}
      BY <2>2, <2>4, Verdicts
         DEF EvaluateBaseline, EvaluateOverhead, EvaluateVariance, EvaluateSignificance
    <3>2. pc' = next /\ verdict' = [verdict EXCEPT ![g] = o] /\ exit' = -1
      BY <2>1, <2>2, <2>4
    <3>3. verdict' \in [Gates -> {"none", "pass", "fail"}] /\ input' \in Inputs /\ pc' \in Places
      BY <2>1, <3>1, <3>2 DEF VerdictInv
    <3>4. \A h \in Gates : verdict'[h] = IF h = g THEN o ELSE verdict[h]
      BY <3>2 DEF VerdictInv
    <3>5. QED
      BY <2>1, <2>2, <3>2, <3>3, <3>4, FilesStay DEF VerdictInv, Places, Gates
  <2>5. QED
    BY <2>3, <2>4
<1>3. CASE Baseline \/ Overhead \/ Variance \/ Significance
  BY <1>2, <1>3 DEF Baseline, Overhead, Variance, Significance, Places, Gates
<1>4. CASE WriteJSON \/ WriteMarkdown
  <2>1. UNCHANGED <<input, cfg, verdict>> /\ pc \in {"json", "md"} /\ pc' \in {"md", "done"}
    BY <1>4 DEF WriteJSON, WriteMarkdown, Exit
  <2>2. Pass' = Pass
    BY <2>1 DEF Pass
  <2>3. (pc' # "done" => exit' = -1) /\ (exit' = 0 => Pass)
    BY <1>4 DEF WriteJSON, WriteMarkdown, Exit, VerdictInv
  <2>4. QED
    BY <2>1, <2>2, <2>3, FilesStay DEF VerdictInv, Places
<1>5. CASE UNCHANGED vars
  <2>1. Pass' = Pass
    BY <1>5 DEF vars, Pass
  <2>2. UNCHANGED <<input, cfg, verdict, pc, exit>>
    BY <1>5 DEF vars
  <2>3. QED
    BY <2>1, <2>2, FilesStay DEF VerdictInv
<1>6. QED
  BY <1>1, <1>3, <1>4, <1>5 DEF Next

(* ------------------------------ the evidence ---------------------------- *)

(* DiscoverRuns gives a sequence of run directories. *)
LEMMA RunsAreListed ==
  ASSUME input \in Inputs, NEW s \in Scenarios
  PROVE  /\ IsSequence(DiscoverRuns(files.candidate[s]))
         /\ IsSequence(DiscoverRuns(files.baseline[s]))
<1>1. files.candidate[s] \in Listings(files) /\ files.baseline[s] \in Listings(files)
  BY GateAssumption DEF GateAssumption, Listings, Scenarios, files
<1>2. \A l \in Listings(files) : IsSequence(l.runs) /\ IsSequence(l.root)
  BY GateAssumption DEF GateAssumption, files
<1>3. QED
  BY <1>1, <1>2 DEF DiscoverRuns

LEMMA WholeFile ==
  ASSUME NEW raw, ~BadRaw(raw)
  PROVE  raw.readable /\ \A i \in DOMAIN raw.lines : raw.lines[i].ttft # Garbled
BY DEF BadRaw

LEMMA EvidenceBehindPass ==
  ASSUME VerdictInv, Pass
  PROVE  /\ cfg.requireManifest => files.manifest \in {"same", "other"}
         /\ \A s \in Scenarios :
              LET c == DiscoverRuns(files.candidate[s]) b == DiscoverRuns(files.baseline[s])
                  whole(r) == r.raw.readable
                              /\ \A i \in DOMAIN r.raw.lines : r.raw.lines[i].ttft # Garbled
              IN  /\ Len(c) >= cfg.minRuns /\ Len(b) >= 1
                  /\ \A i \in DOMAIN c : whole(c[i]) /\ c[i].overhead.readable
                  /\ \A i \in DOMAIN b : whole(b[i])
                  /\ Enough(TTFTs(files.candidate[s]), TTFTs(files.baseline[s]))
<1>1. /\ "pass" \in EvaluateBaseline /\ "pass" \in EvaluateOverhead
      /\ "pass" \in EvaluateVariance /\ "pass" \in EvaluateSignificance /\ input \in Inputs
  BY DEF VerdictInv, Pass, Gates
<1>2. cfg.requireManifest => files.manifest \in {"same", "other"}
  <2>1. files.manifest \in Manifests
    BY <1>1, GateAssumption DEF GateAssumption, files
  <2>2. files.manifest \notin {"unstatable", "unreadable", "garbled"}
    BY <1>1 DEF EvaluateBaseline
  <2>3. files.manifest # "absent" \/ ~cfg.requireManifest
    BY <1>1, <2>2, Verdicts DEF EvaluateBaseline
  <2>4. QED
    BY <2>1, <2>2, <2>3 DEF Manifests
<1>3. ASSUME NEW s \in Scenarios
      PROVE  \A i \in DOMAIN DiscoverRuns(files.candidate[s]) :
               DiscoverRuns(files.candidate[s])[i].overhead.readable
  BY <1>1 DEF EvaluateOverhead, BadOverhead
<1>4. ASSUME NEW s \in Scenarios
      PROVE  /\ Len(DiscoverRuns(files.candidate[s])) >= cfg.minRuns
             /\ \A i \in DOMAIN DiscoverRuns(files.candidate[s]) :
                  ~BadRaw(DiscoverRuns(files.candidate[s])[i].raw)
  BY <1>1, <1>4, Verdicts DEF EvaluateVariance
<1>5. ASSUME NEW s \in Scenarios
      PROVE  /\ DiscoverRuns(files.baseline[s]) # << >>
             /\ \A i \in DOMAIN DiscoverRuns(files.baseline[s]) :
                  ~BadRaw(DiscoverRuns(files.baseline[s])[i].raw)
             /\ Enough(TTFTs(files.candidate[s]), TTFTs(files.baseline[s]))
  BY <1>1, Verdicts DEF EvaluateSignificance
<1>6. ASSUME NEW s \in Scenarios
      PROVE  Len(DiscoverRuns(files.baseline[s])) >= 1
  <2>1. IsSequence(DiscoverRuns(files.baseline[s])) /\ DiscoverRuns(files.baseline[s]) # << >>
    BY <1>1, <1>5, RunsAreListed
  <2>2. QED
    BY <2>1 DEF IsSequence
<1>7. QED
  BY <1>2, <1>3, <1>4, <1>5, <1>6, WholeFile

(* When m5gate ends with 0, every gate has looked at every file it needs   *)
(* and none of them was missing or damaged (Evaluate, 140-195).            *)
THEOREM NoPassWithoutEvidence == Spec => []PassNeedsEvidence
<1>1. VerdictInv => PassNeedsEvidence
  BY EvidenceBehindPass DEF PassNeedsEvidence, VerdictInv
<1>2. QED
  BY VerdictInit, VerdictStep, <1>1, PTL DEF Spec

(* ------------------------- counting, rank by rank ----------------------- *)

(* The points of a sequence with a value in V. *)
Hits(xs, V) == Cardinality({ i \in DOMAIN xs : xs[i] \in V })
BelowSet(v) == { u \in Int : u < v }
UpToSet(v) == { u \in Int : u <= v }

(* The indices of a sequence of numbers. *)
LEMMA DomainIs ==
  ASSUME NEW xs \in Seq(Int)
  PROVE  /\ DOMAIN xs = 1..Len(xs) /\ Len(xs) \in Nat /\ \A i \in DOMAIN xs : xs[i] \in Int
         /\ IsFiniteSet(DOMAIN xs) /\ Cardinality(DOMAIN xs) = Len(xs)
<1>1. DOMAIN xs = 1..Len(xs) /\ Len(xs) \in Nat /\ \A i \in DOMAIN xs : xs[i] \in Int
  OBVIOUS
<1>2. IsFiniteSet(1..Len(xs)) /\ Cardinality(1..Len(xs)) = Len(xs)
  BY <1>1, FS_Interval
<1>3. QED
  BY <1>1, <1>2

(* Below and UpTo count hits, which are numbers. *)
LEMMA CountsAreHits ==
  ASSUME NEW xs \in Seq(Int), NEW v
  PROVE  /\ Below(xs, v) = Hits(xs, BelowSet(v)) /\ UpTo(xs, v) = Hits(xs, UpToSet(v))
         /\ Below(xs, v) \in Nat /\ UpTo(xs, v) \in Nat
<1>1. /\ { i \in DOMAIN xs : xs[i] < v } = { i \in DOMAIN xs : xs[i] \in BelowSet(v) }
      /\ { i \in DOMAIN xs : xs[i] <= v } = { i \in DOMAIN xs : xs[i] \in UpToSet(v) }
  BY DomainIs DEF BelowSet, UpToSet
<1>2. IsFiniteSet({ i \in DOMAIN xs : xs[i] < v }) /\ IsFiniteSet({ i \in DOMAIN xs : xs[i] <= v })
  <2>1. { i \in DOMAIN xs : xs[i] < v } \in SUBSET DOMAIN xs /\ { i \in DOMAIN xs : xs[i] <= v } \in SUBSET DOMAIN xs
    OBVIOUS
  <2>2. QED
    BY <2>1, DomainIs, FS_Subset
<1>3. QED
  BY <1>1, <1>2, FS_CardinalityType DEF Below, UpTo, Hits

(* The points of two sequences, one after the other. *)
LEMMA HitsOfBoth ==
  ASSUME NEW xs \in Seq(Int), NEW ys \in Seq(Int), NEW V
  PROVE  Hits(xs \o ys, V) = Hits(xs, V) + Hits(ys, V)
<1> DEFINE n == Len(xs)
           A == { i \in DOMAIN xs : xs[i] \in V }
           B == { j \in DOMAIN ys : ys[j] \in V }
           C == { n + j : j \in B }
           g == [j \in B |-> n + j]
           both == { i \in DOMAIN (xs \o ys) : (xs \o ys)[i] \in V }
<1>1. IsFiniteSet(A) /\ IsFiniteSet(B)
  <2>1. A \in SUBSET DOMAIN xs /\ B \in SUBSET DOMAIN ys
    OBVIOUS
  <2> HIDE DEF A, B
  <2>2. QED
    BY <2>1, DomainIs, FS_Subset
<1>2. A \subseteq 1..n /\ B \subseteq 1..Len(ys) /\ n \in Nat /\ Len(ys) \in Nat
  OBVIOUS
<1>3. IsFiniteSet(C) /\ Cardinality(C) = Cardinality(B)
  <2> HIDE DEF n, B
  <2>1. g \in [B -> C] /\ (\A j \in B : g[j] = n + j) /\ \A p \in C : \E j \in B : g[j] = p
    OBVIOUS
  <2> HIDE DEF g, C
  <2>2. \A j, k \in B : g[j] = g[k] => j = k
    BY <1>2, <2>1
  <2>3. g \in Bijection(B, C)
    BY <2>1, <2>2 DEF Bijection, Injection, Surjection, IsInjective
  <2>4. QED
    BY <1>1, <2>3, FS_Bijection DEF ExistsBijection
<1>4. both = A \cup C
  <2>1. DOMAIN (xs \o ys) = 1..(n + Len(ys))
    OBVIOUS
  <2>2. \A i \in 1..n : (xs \o ys)[i] = xs[i]
    OBVIOUS
  <2>3. \A j \in 1..Len(ys) : (xs \o ys)[n + j] = ys[j]
    OBVIOUS
  <2>4. ASSUME NEW i \in both PROVE i \in A \cup C
    <3>1. CASE i <= n
      BY <2>1, <2>2, <3>1
    <3>2. CASE ~(i <= n)
      <4>1. i - n \in 1..Len(ys) /\ i = n + (i - n)
        BY <2>1, <3>2
      <4>2. (xs \o ys)[i] = ys[i - n]
        BY <2>3, <4>1
      <4>3. i - n \in B
        BY <4>1, <4>2
      <4>4. QED
        BY <4>1, <4>3
    <3>3. QED
      BY <3>1, <3>2
  <2>5. A \subseteq both
    BY <2>1, <2>2
  <2>6. C \subseteq both
    BY <2>1, <2>3
  <2>7. QED
    BY <2>4, <2>5, <2>6
<1>5. A \cap C = {}
  BY <1>2
<1> HIDE DEF A, B, C, both
<1>6. Cardinality(A \cup C) = Cardinality(A) + Cardinality(C) - Cardinality(A \cap C)
  BY <1>1, <1>3, FS_Union
<1>7. Cardinality(A \cap C) = 0 /\ Cardinality(A) \in Nat /\ Cardinality(C) \in Nat
  BY <1>1, <1>3, <1>5, FS_EmptySet, FS_CardinalityType
<1>8. Cardinality(both) = Cardinality(A) + Cardinality(B)
  BY <1>3, <1>4, <1>6, <1>7
<1>9. QED
  BY <1>8 DEF Hits, A, B, both

(* What is above is not up to, in pairs of indices. *)
Lower(xs, ys) == { p \in (DOMAIN xs) \X (DOMAIN ys) : xs[p[1]] < ys[p[2]] }
Higher(xs, ys) == { p \in (DOMAIN xs) \X (DOMAIN ys) : xs[p[1]] > ys[p[2]] }

LEMMA PairSets ==
  ASSUME NEW xs \in Seq(Int), NEW ys \in Seq(Int)
  PROVE  /\ IsFiniteSet(Lower(xs, ys)) /\ IsFiniteSet(Higher(xs, ys))
         /\ Cardinality(Lower(xs, ys)) \in Nat /\ Cardinality(Higher(xs, ys)) \in Nat
<1>1. IsFiniteSet((DOMAIN xs) \X (DOMAIN ys))
  BY DomainIs, FS_Product
<1>2. Lower(xs, ys) \in SUBSET ((DOMAIN xs) \X (DOMAIN ys)) /\ Higher(xs, ys) \in SUBSET ((DOMAIN xs) \X (DOMAIN ys))
  BY DEF Lower, Higher
<1>3. QED
  BY <1>1, <1>2, FS_Subset, FS_CardinalityType

(* A pair that is lower from one side is higher from the other. *)
LEMMA SidesSwap ==
  ASSUME NEW xs \in Seq(Int), NEW ys \in Seq(Int)
  PROVE  Cardinality(Lower(xs, ys)) = Cardinality(Higher(ys, xs))
<1> DEFINE g == [p \in Lower(xs, ys) |-> <<p[2], p[1]>>]
<1>1. g \in [Lower(xs, ys) -> Higher(ys, xs)]
  <2>1. ASSUME NEW p \in Lower(xs, ys) PROVE <<p[2], p[1]>> \in Higher(ys, xs)
    <3>1. p[1] \in DOMAIN xs /\ p[2] \in DOMAIN ys /\ xs[p[1]] < ys[p[2]]
      BY DEF Lower
    <3>2. xs[p[1]] \in Int /\ ys[p[2]] \in Int
      BY <3>1, DomainIs
    <3>3. QED
      BY <3>1, <3>2 DEF Higher
  <2>2. QED
    BY <2>1
<1>2. \A p, q \in Lower(xs, ys) : g[p] = g[q] => p = q
  <2>1. \A p \in Lower(xs, ys) : p = <<p[1], p[2]>>
    BY DEF Lower
  <2>2. QED
    BY <2>1
<1>3. \A q \in Higher(ys, xs) : \E p \in Lower(xs, ys) : g[p] = q
  <2>1. ASSUME NEW q \in Higher(ys, xs) PROVE \E p \in Lower(xs, ys) : g[p] = q
    <3>1. q = <<q[1], q[2]>> /\ q[1] \in DOMAIN ys /\ q[2] \in DOMAIN xs /\ ys[q[1]] > xs[q[2]]
      BY DEF Higher
    <3>2. xs[q[2]] \in Int /\ ys[q[1]] \in Int
      BY <3>1, DomainIs
    <3>3. <<q[2], q[1]>> \in Lower(xs, ys)
      BY <3>1, <3>2 DEF Lower
    <3>4. QED
      BY <3>1, <3>3
  <2>2. QED
    BY <2>1
<1>4. g \in Bijection(Lower(xs, ys), Higher(ys, xs))
  <2> HIDE DEF g
  <2>1. QED
    BY <1>1, <1>2, <1>3 DEF Bijection, Injection, Surjection, IsInjective
<1>5. QED
  BY <1>4, PairSets, FS_Bijection DEF ExistsBijection

(* The points of ys below those of xs, summed over xs, are the pairs where xs is higher; *)
(* the points up to them are all pairs but those where xs is lower.        *)
LEMMA RowsCounted ==
  ASSUME NEW xs \in Seq(Int), NEW ys \in Seq(Int)
  PROVE  /\ SumFunctionOnSet([i \in DOMAIN xs |-> Below(ys, xs[i])], DOMAIN xs) = Cardinality(Higher(xs, ys))
         /\ SumFunctionOnSet([i \in DOMAIN xs |-> UpTo(ys, xs[i])], DOMAIN xs)
              = Len(xs) * Len(ys) - Cardinality(Lower(xs, ys))
<1> DEFINE S == DOMAIN xs   T == DOMAIN ys
           a == [i \in S |-> Below(ys, xs[i])]
           b == [i \in S |-> UpTo(ys, xs[i])]
           rest == (S \X T) \ Lower(xs, ys)
<1>1. IsFiniteSet(S) /\ IsFiniteSet(T) /\ Cardinality(S) = Len(xs) /\ Cardinality(T) = Len(ys)
  BY DomainIs
<1>2. ASSUME NEW i \in S, NEW j \in T PROVE xs[i] \in Int /\ ys[j] \in Int
  BY DomainIs
<1>3. \A i \in S : a[i] = Cardinality(RowOf(Higher(xs, ys), T, i))
  <2>1. ASSUME NEW i \in S PROVE { j \in T : ys[j] < xs[i] } = RowOf(Higher(xs, ys), T, i)
    BY <1>2 DEF Higher, RowOf
  <2>2. \A i \in S : a[i] = Cardinality({ j \in T : ys[j] < xs[i] })
    BY DEF Below
  <2>3. QED
    BY <2>1, <2>2
<1>4. \A i \in S : b[i] = Cardinality(RowOf(rest, T, i))
  <2>1. ASSUME NEW i \in S PROVE { j \in T : ys[j] <= xs[i] } = RowOf(rest, T, i)
    <3>1. ASSUME NEW j \in T PROVE ys[j] <= xs[i] <=> <<i, j>> \in rest
      BY <1>2 DEF Lower
    <3> HIDE DEF rest
    <3>2. QED
      BY <3>1 DEF RowOf
  <2>2. \A i \in S : b[i] = Cardinality({ j \in T : ys[j] <= xs[i] })
    BY DEF UpTo
  <2> HIDE DEF rest, b
  <2>3. QED
    BY <2>1, <2>2
<1>5. Higher(xs, ys) \subseteq S \X T /\ Lower(xs, ys) \subseteq S \X T
  BY DEF Higher, Lower
<1> HIDE DEF a, b, rest, S, T
<1>6. SumFunctionOnSet(a, S) = Cardinality(PairsOf(Higher(xs, ys), S, T))
  BY <1>1, <1>3, PairsCounted
<1>7. SumFunctionOnSet(b, S) = Cardinality(PairsOf(rest, S, T))
  BY <1>1, <1>4, PairsCounted
<1>8. PairsOf(Higher(xs, ys), S, T) = Higher(xs, ys) /\ PairsOf(rest, S, T) = (S \X T) \ Lower(xs, ys)
  BY <1>5 DEF rest, PairsOf
<1>9. Cardinality((S \X T) \ Lower(xs, ys)) = Len(xs) * Len(ys) - Cardinality(Lower(xs, ys))
  <2>1. IsFiniteSet(S \X T) /\ Cardinality(S \X T) = Len(xs) * Len(ys)
    <3>1. IsFiniteSet(S \X T) /\ Cardinality(S \X T) = Cardinality(S) * Cardinality(T)
      BY <1>1, FS_Product
    <3>2. QED
      BY <1>1, <3>1
  <2>2. Cardinality((S \X T) \ Lower(xs, ys)) = Cardinality(S \X T) - Cardinality((S \X T) \cap Lower(xs, ys))
    BY <2>1, FS_Difference
  <2>3. (S \X T) \cap Lower(xs, ys) = Lower(xs, ys)
    BY <1>5
  <2>4. QED
    BY <2>1, <2>2, <2>3
<1>10. QED
  BY <1>6, <1>7, <1>8, <1>9 DEF a, b, S, T

(* A rank among all points is a rank among each of the two samples. *)
LEMMA RankOfBoth ==
  ASSUME NEW xs \in Seq(Int), NEW ys \in Seq(Int), NEW v
  PROVE  /\ Below(xs \o ys, v) = Below(xs, v) + Below(ys, v)
         /\ UpTo(xs \o ys, v) = UpTo(xs, v) + UpTo(ys, v)
<1>1. xs \o ys \in Seq(Int)
  OBVIOUS
<1>2. Below(xs \o ys, v) = Hits(xs \o ys, BelowSet(v)) /\ UpTo(xs \o ys, v) = Hits(xs \o ys, UpToSet(v))
  BY <1>1, CountsAreHits
<1>3. /\ Hits(xs \o ys, BelowSet(v)) = Hits(xs, BelowSet(v)) + Hits(ys, BelowSet(v))
      /\ Hits(xs \o ys, UpToSet(v)) = Hits(xs, UpToSet(v)) + Hits(ys, UpToSet(v))
  BY HitsOfBoth
<1>4. QED
  BY <1>2, <1>3, CountsAreHits

(* mannWhitneyPValue's rank sum and CliffsDelta's pair count agree. *)
LEMMA RanksAgree ==
  ASSUME NEW xs \in Seq(Int), NEW ys \in Seq(Int)
  PROVE  TwiceU1(xs, ys) - Len(xs) * Len(ys) = PairDifference(xs, ys)
<1> DEFINE S == DOMAIN xs
           n == Len(xs)   m == Len(ys)
           a == [i \in S |-> Below(xs, xs[i])]   b == [i \in S |-> UpTo(xs, xs[i])]
           c == [i \in S |-> Below(ys, xs[i])]   d == [i \in S |-> UpTo(ys, xs[i])]
           ab == [i \in S |-> a[i] + b[i]]       cd == [i \in S |-> c[i] + d[i]]
           abcd == [i \in S |-> ab[i] + cd[i]]   one == [i \in S |-> 1]
           rank == [i \in S |-> TwiceRank(xs \o ys, xs[i])]
           sum(f) == SumFunctionOnSet(f, S)
<1>1. IsFiniteSet(S) /\ Cardinality(S) = n /\ n \in Nat /\ m \in Nat
  BY DomainIs
<1>2. \A i \in S : a[i] \in Int /\ b[i] \in Int /\ c[i] \in Int /\ d[i] \in Int
  <2>1. \A i \in S : /\ Below(xs, xs[i]) \in Nat /\ UpTo(xs, xs[i]) \in Nat
                     /\ Below(ys, xs[i]) \in Nat /\ UpTo(ys, xs[i]) \in Nat
    BY CountsAreHits
  <2>2. QED
    BY <2>1
<1>3. \A i \in S : ab[i] = a[i] + b[i] /\ cd[i] = c[i] + d[i] /\ abcd[i] = ab[i] + cd[i] /\ one[i] = 1
  OBVIOUS
<1>4. \A i \in S : rank[i] = abcd[i] + one[i]
  <2>1. ASSUME NEW i \in S PROVE TwiceRank(xs \o ys, xs[i]) = a[i] + c[i] + 1 + (b[i] + d[i])
    BY RankOfBoth DEF TwiceRank
  <2>2. \A i \in S : rank[i] = a[i] + c[i] + 1 + (b[i] + d[i])
    BY <2>1
  <2> HIDE DEF a, b, c, d, ab, cd, abcd, one, rank, S
  <2>3. ASSUME NEW i \in S PROVE rank[i] = abcd[i] + one[i]
    <3>1. abcd[i] = a[i] + b[i] + (c[i] + d[i]) /\ one[i] = 1
      BY <1>3
    <3>2. QED
      BY <1>2, <2>2, <3>1
  <2>4. QED
    BY <2>3
<1>5. /\ sum(a) = Cardinality(Higher(xs, xs)) /\ sum(b) = n * n - Cardinality(Lower(xs, xs))
      /\ sum(c) = Cardinality(Higher(xs, ys)) /\ sum(d) = n * m - Cardinality(Lower(xs, ys))
  BY RowsCounted
<1>6. SumFunction(rank) = sum(rank)
  BY DEF SumFunction
<1>7. PairDifference(xs, ys) = Cardinality(Higher(xs, ys)) - Cardinality(Lower(xs, ys))
  BY DEF PairDifference, Higher, Lower
<1>8. TwiceU1(xs, ys) = sum(rank) - n * (n + 1)
  BY <1>6 DEF TwiceU1
<1> HIDE DEF a, b, c, d, ab, cd, abcd, one, rank, S
<1>9. sum(ab) = sum(a) + sum(b)
  BY <1>1, <1>2, <1>3, TotalSum
<1>10. sum(cd) = sum(c) + sum(d)
  BY <1>1, <1>2, <1>3, TotalSum
<1>11. \A i \in S : ab[i] \in Int /\ cd[i] \in Int /\ abcd[i] \in Int /\ one[i] \in Int
  <2>1. ASSUME NEW i \in S PROVE ab[i] \in Int /\ cd[i] \in Int /\ one[i] \in Int
    <3>1. a[i] + b[i] \in Int /\ c[i] + d[i] \in Int
      BY <1>2
    <3>2. QED
      BY <1>3, <3>1
  <2>2. ASSUME NEW i \in S PROVE abcd[i] \in Int
    <3>1. ab[i] + cd[i] \in Int
      BY <2>1
    <3>2. QED
      BY <1>3, <3>1
  <2>3. QED
    BY <2>1, <2>2
<1>12. sum(abcd) = sum(ab) + sum(cd)
  BY <1>1, <1>3, <1>11, TotalSum
<1>13. sum(rank) = sum(abcd) + sum(one)
  BY <1>1, <1>4, <1>11, TotalSum
<1>14. sum(one) = n
  <2>1. 1 \in Int /\ \A i \in S : one[i] \in Int /\ 1 <= one[i] /\ one[i] <= 1
    BY <1>3
  <2>2. 1 * Cardinality(S) <= sum(one) /\ sum(one) <= 1 * Cardinality(S) /\ sum(one) \in Int
    BY <1>1, <2>1, TotalBetween, TotalIsInt
  <2>3. QED
    BY <1>1, <2>2
<1>15. Cardinality(Lower(xs, xs)) = Cardinality(Higher(xs, xs))
  BY SidesSwap
<1>16. /\ Cardinality(Higher(xs, xs)) \in Nat /\ Cardinality(Higher(xs, ys)) \in Nat
       /\ Cardinality(Lower(xs, ys)) \in Nat
  BY PairSets
<1>17. n * n \in Int /\ n * m \in Int /\ n * (n + 1) = n * n + n
  BY <1>1
<1> DEFINE h == Cardinality(Higher(xs, xs))   g == Cardinality(Higher(xs, ys))   l == Cardinality(Lower(xs, ys))
<1>18. sum(rank) = h + (n * n - h) + (g + (n * m - l)) + n
  BY <1>5, <1>9, <1>10, <1>12, <1>13, <1>14, <1>15
<1> HIDE DEF h, g, l, n, m
<1>19. sum(rank) = n * n + n * m + n + g - l
  BY <1>1, <1>16, <1>17, <1>18 DEF h, g, l
<1>20. sum(rank) - n * (n + 1) - n * m = g - l
  BY <1>1, <1>16, <1>17, <1>19 DEF h, g, l
<1>21. QED
  BY <1>7, <1>8, <1>20 DEF h, g, l, n, m

(* Inputs have measurements that are numbers. *)
LEMMA SamplesAreNumbers ==
  ASSUME input \in Inputs, NEW s \in Scenarios
  PROVE  TTFTs(files.candidate[s]) \in Seq(Int) /\ TTFTs(files.baseline[s]) \in Seq(Int)
<1>1. files.candidate[s] \in Listings(files) /\ files.baseline[s] \in Listings(files)
  BY GateAssumption DEF GateAssumption, Listings, Scenarios, files
<1>2. \A l \in Listings(files) : TTFTs(l) \in Seq(Int)
  BY GateAssumption DEF GateAssumption, files
<1>3. QED
  BY <1>1, <1>2

(* mannWhitneyPValue's rank sum and CliffsDelta's count of pairs agree on  *)
(* the samples of every scenario, however many values are equal.           *)
THEOREM RanksTellOfPairs == Spec => []RanksAgreeWithPairs
<1>1. VerdictInv => RanksAgreeWithPairs
  <2> SUFFICES ASSUME input \in Inputs, NEW p \in Pairs
               PROVE  TwiceU1(p[1], p[2]) - Len(p[1]) * Len(p[2]) = PairDifference(p[1], p[2])
    BY DEF VerdictInv, RanksAgreeWithPairs
  <2>1. PICK s \in Scenarios : p = <<TTFTs(files.candidate[s]), TTFTs(files.baseline[s])>>
    BY DEF Pairs
  <2>2. p[1] \in Seq(Int) /\ p[2] \in Seq(Int)
    BY <2>1, SamplesAreNumbers
  <2>3. QED
    BY <2>2, RanksAgree
<1>2. QED
  BY VerdictInit, VerdictStep, <1>1, PTL DEF Spec

(* ----------------------- products and inequalities ---------------------- *)

(* Products, and what they keep of an order. *)
LEMMA Products == \A a, b \in Nat : a * b \in Nat
OBVIOUS

LEMMA Times ==
  ASSUME NEW a \in Int, NEW b \in Int, NEW k \in Nat, a <= b
  PROVE  a * k <= b * k
OBVIOUS

LEMMA TimesStrictly ==
  ASSUME NEW a \in Int, NEW b \in Int, NEW k \in Nat \ {0}
  PROVE  a < b <=> a * k < b * k
OBVIOUS

LEMMA SquareOfLess ==
  ASSUME NEW a \in Nat, NEW b \in Nat, a <= b PROVE a * a <= b * b
OBVIOUS

(* z is beyond the critical score, for p pairs of n points that do not     *)
(* overlap and have no ties.                                               *)
Seen(p, n, crit) == (4 * crit) * (p * (n + 1)) < 1200 * ((p - 1) * (p - 1))

(* Samples that grow keep the power they have: when a, b >= m, z grows.    *)
LEMMA PowerGrows ==
  ASSUME NEW m \in Nat \ {0}, NEW a \in Nat, NEW b \in Nat, m <= a, m <= b,
         NEW crit \in Nat, Seen(m * m, m + m, crit)
  PROVE  Seen(a * b, a + b, crit)
<1> DEFINE P == a * b   Q == m * m   U == a + b + 1   V == m + m + 1
           K == 4 * crit   X == 1200
<1>1. P \in Nat /\ Q \in Nat /\ U \in Nat /\ V \in Nat /\ 1 <= Q
  <2>1. 1 <= Q
    OBVIOUS
  <2>2. QED
    BY <2>1, Products
<1>2. Q <= P
  <2>1. m * m <= a * m /\ m * a <= b * a
    BY Times
  <2>2. QED
    BY <2>1
<1>3. Q * U <= P * V
  <2>1. Q * a <= P * m
    <3>1. (m * a) * m <= (m * a) * b
      BY Times, Products
    <3>2. QED
      BY <3>1
  <2>2. Q * b <= P * m
    <3>1. (m * b) * m <= (m * b) * a
      BY Times, Products
    <3>2. QED
      BY <3>1
  <2>3. Q * U = Q * a + Q * b + Q /\ P * V = P * m + P * m + P
    OBVIOUS
  <2>4. Q * a \in Nat /\ Q * b \in Nat /\ P * m \in Nat
    BY <1>1, Products
  <2> HIDE DEF P, Q, U, V
  <2>5. QED
    BY <1>1, <1>2, <2>1, <2>2, <2>3, <2>4
<1>4. K * (Q * V) < X * ((Q - 1) * (Q - 1)) /\ K \in Nat /\ X \in Nat
  BY DEF Seen
<1> SUFFICES K * (P * U) < X * ((P - 1) * (P - 1))
  BY DEF Seen
<1> HIDE DEF P, Q, U, V, K, X
<1>5. (Q - 1) * P <= (P - 1) * Q
  <2>1. (Q - 1) * P = Q * P - P /\ (P - 1) * Q = Q * P - Q /\ Q * P \in Int
    BY <1>1
  <2>2. QED
    BY <1>1, <1>2, <2>1
<1>6. ((Q - 1) * P) * ((Q - 1) * P) <= ((P - 1) * Q) * ((P - 1) * Q)
  <2>1. (Q - 1) * P \in Nat /\ (P - 1) * Q \in Nat
    BY <1>1, <1>2, Products, Q - 1 \in Nat, P - 1 \in Nat
  <2>2. QED
    BY <1>5, <2>1, SquareOfLess
<1> DEFINE Q1 == (Q - 1) * (Q - 1)   P1 == (P - 1) * (P - 1)   QQ == Q * Q   PP == P * P
<1>7. Q1 \in Nat /\ P1 \in Nat /\ QQ \in Nat \ {0} /\ PP \in Nat \ {0}
  BY <1>1, <1>2, Products, Q - 1 \in Nat, P - 1 \in Nat
<1>8. Q1 * PP <= P1 * QQ
  <2>1. Q1 * PP = ((Q - 1) * P) * ((Q - 1) * P) /\ P1 * QQ = ((P - 1) * Q) * ((P - 1) * Q)
    BY <1>1
  <2>2. QED
    BY <1>6, <2>1
<1>9. K * (Q * V) < X * Q1
  BY <1>4
<1> HIDE DEF Q1, P1, QQ, PP
<1>10. K * (Q * V) \in Nat /\ X * Q1 \in Nat /\ K * (P * U) \in Nat /\ X * P1 \in Nat
  BY <1>1, <1>4, <1>7, Products
<1>11. (K * (Q * V)) * PP < (X * Q1) * PP
  BY <1>7, <1>9, <1>10, TimesStrictly
<1>12. (X * Q1) * PP <= (X * P1) * QQ
  <2>1. (Q1 * PP) * X <= (P1 * QQ) * X
    BY <1>4, <1>7, <1>8, Products, Times
  <2>2. (X * Q1) * PP = (Q1 * PP) * X /\ (X * P1) * QQ = (P1 * QQ) * X
    BY <1>4, <1>7
  <2>3. QED
    BY <2>1, <2>2
<1>13. (K * (P * U)) * QQ <= (K * (Q * V)) * PP
  <2> DEFINE W == (K * P) * Q
  <2>1. W \in Nat /\ Q * U \in Nat /\ P * V \in Nat
    BY <1>1, <1>4, Products
  <2>2. (Q * U) * W <= (P * V) * W
    <3> HIDE DEF W
    <3>1. QED
      BY <1>3, <2>1, Times
  <2>3. (Q * U) * W = (K * (P * U)) * QQ /\ (P * V) * W = (K * (Q * V)) * PP
    BY <1>1, <1>4 DEF QQ, PP
  <2>4. QED
    BY <2>2, <2>3
<1>14. (K * (P * U)) * QQ < (X * P1) * QQ
  <2>1. (K * (P * U)) * QQ \in Nat /\ (K * (Q * V)) * PP \in Nat /\ (X * Q1) * PP \in Nat /\ (X * P1) * QQ \in Nat
    BY <1>7, <1>10, Products
  <2> DEFINE A == (K * (P * U)) * QQ   B == (K * (Q * V)) * PP   C == (X * Q1) * PP   D == (X * P1) * QQ
  <2>2. A <= B /\ B < C /\ C <= D /\ A \in Nat /\ B \in Nat /\ C \in Nat /\ D \in Nat
    BY <1>11, <1>12, <1>13, <2>1
  <2>3. SUFFICES A < D
    OBVIOUS
  <2> HIDE DEF A, B, C, D
  <2>4. QED
    BY <2>2
<1>15. K * (P * U) < X * P1
  BY <1>7, <1>10, <1>14, TimesStrictly
<1>16. QED
  BY <1>15 DEF P1

(* --------------------------- order statistics --------------------------- *)

(* Each of the sorted values is one of the samples: the one whose place is k when *)
(* equal values are ordered by their index.                                *)
LEMMA SortedAt ==
  ASSUME NEW xs \in Seq(Int), NEW k \in DOMAIN xs
  PROVE  \E i \in DOMAIN xs : Sorted(xs)[k] = xs[i]
<1> DEFINE S == DOMAIN xs
           R == { p \in S \X S : xs[p[1]] < xs[p[2]] \/ (xs[p[1]] = xs[p[2]] /\ p[1] < p[2]) }
           fits(v) == Below(xs, v) < k /\ k <= UpTo(xs, v)
<1>1. IsFiniteSet(S) /\ Cardinality(S) = Len(xs) /\ S = 1..Len(xs) /\ Len(xs) \in Nat /\ \A i \in S : xs[i] \in Int
  BY DomainIs
<1>2. \A i, j \in S : <<i, j>> \in R <=> xs[i] < xs[j] \/ (xs[i] = xs[j] /\ i < j)
  OBVIOUS
<1>3. StrictOrder(S, R)
  <2> HIDE DEF R, S
  <2>1. \A i \in S : i \in Int
    BY <1>1
  <2>2. ASSUME NEW i \in S PROVE <<i, i>> \notin R
    BY <1>1, <1>2, <2>1
  <2>3. ASSUME NEW i \in S, NEW j \in S, NEW l \in S, <<i, j>> \in R, <<j, l>> \in R PROVE <<i, l>> \in R
    <3> DEFINE x == xs[i]   y == xs[j]   z == xs[l]
    <3>1. x \in Int /\ y \in Int /\ z \in Int /\ i \in Int /\ j \in Int /\ l \in Int
      BY <1>1, <2>1
    <3>2. (x < y \/ (x = y /\ i < j)) /\ (y < z \/ (y = z /\ j < l))
      BY <1>2, <2>3
    <3>3. SUFFICES x < z \/ (x = z /\ i < l)
      BY <1>2
    <3> HIDE DEF x, y, z
    <3>4. QED
      BY <3>1, <3>2
  <2>4. ASSUME NEW i \in S, NEW j \in S PROVE i = j \/ <<i, j>> \in R \/ <<j, i>> \in R
    BY <1>1, <1>2, <2>1
  <2>5. QED
    BY <2>2, <2>3, <2>4 DEF StrictOrder
<1>4. PICK i \in S : PlaceAmong(S, R, i) = k
  <2> HIDE DEF R, S
  <2>1. k \in 1..Cardinality(S)
    BY <1>1 DEF S
  <2>2. QED
    BY <1>1, <1>3, <2>1, PlacesFill
<1> DEFINE before == { j \in S : <<j, i>> \in R }
           less == { j \in S : xs[j] < xs[i] }
           upto == { j \in S : xs[j] <= xs[i] }
<1>5. less \subseteq before /\ before \cup {i} \subseteq upto /\ i \notin before
  <2> HIDE DEF R, S
  <2>1. less \subseteq before
    BY <1>2
  <2>2. before \cup {i} \subseteq upto
    BY <1>1, <1>2
  <2>3. i \notin before
    BY <1>3 DEF StrictOrder
  <2>4. QED
    BY <2>1, <2>2, <2>3
<1>6. IsFiniteSet(upto) /\ IsFiniteSet(before)
  <2>1. upto \in SUBSET S /\ before \in SUBSET S
    OBVIOUS
  <2> HIDE DEF upto, before, S
  <2>2. QED
    BY <1>1, <2>1, FS_Subset
<1>7. Cardinality(before) + 1 = k
  BY <1>4 DEF PlaceAmong
<1>8. Below(xs, xs[i]) = Cardinality(less) /\ UpTo(xs, xs[i]) = Cardinality(upto)
  BY DEF Below, UpTo
<1>9. k \in Int
  BY <1>1
<1> HIDE DEF before, less, upto, R, S
<1>10. IsFiniteSet(less) /\ Cardinality(less) <= Cardinality(before) /\ Cardinality(less) \in Nat /\ Cardinality(before) \in Nat
  BY <1>5, <1>6, FS_Subset, FS_CardinalityType
<1>11. Cardinality(before) + 1 <= Cardinality(upto) /\ Cardinality(upto) \in Nat
  <2>1. before \cup {i} \in SUBSET upto
    BY <1>5
  <2>2. Cardinality(before \cup {i}) <= Cardinality(upto) /\ Cardinality(upto) \in Nat
    BY <1>6, <2>1, FS_Subset, FS_CardinalityType
  <2>3. Cardinality(before \cup {i}) = Cardinality(before) + 1
    BY <1>5, <1>6, FS_AddElement
  <2>4. QED
    BY <2>2, <2>3
<1>12. fits(xs[i])
  BY <1>7, <1>8, <1>9, <1>10, <1>11
<1> HIDE DEF fits
<1>13. xs[i] \in Range(xs)
  BY DEF Range, S
<1>14. Sorted(xs)[k] = CHOOSE v \in Range(xs) : fits(v)
  BY DEF Sorted, fits
<1>15. Sorted(xs)[k] \in Range(xs)
  BY <1>12, <1>13, <1>14
<1>16. QED
  BY <1>15 DEF Range

(* Quotient and remainder. *)
LEMMA HundredsOf ==
  ASSUME NEW r \in Nat
  PROVE  r \div 100 \in Int /\ r % 100 \in 0..99 /\ r = 100 * (r \div 100) + (r % 100)
OBVIOUS

(* A quantile lies between two of the samples. *)
LEMMA QuantileBetween ==
  ASSUME NEW xs \in Seq(Int), xs # << >>
  PROVE  /\ Quantile(xs, 95) \in Int
         /\ \E i, j \in DOMAIN xs : 100 * xs[i] <= Quantile(xs, 95) /\ Quantile(xs, 95) <= 100 * xs[j]
<1> DEFINE n == Len(xs)
           r == 95 * (n - 1)
           lo == r \div 100 + 1
           frac == r % 100
           s == Sorted(xs)
<1>1. DOMAIN xs = 1..n /\ n \in Nat /\ n >= 1 /\ \A i \in DOMAIN xs : xs[i] \in Int
  BY DomainIs
<1>2. Len(s) = n
  <2>1. DOMAIN s = 1..n
    BY <1>1 DEF Sorted
  <2>2. s = [i \in 1..n |-> s[i]]
    BY <1>1 DEF Sorted
  <2>3. Len([i \in 1..n |-> s[i]]) = n
    BY <1>1
  <2>4. QED
    BY <2>2, <2>3
<1>3. Quantile(xs, 95) = s[lo] * (100 - frac) + (IF frac = 0 THEN 0 ELSE s[lo + 1] * frac)
  BY <1>2 DEF Quantile
<1> HIDE DEF s
<1>4. lo \in 1..n /\ frac \in 0..99 /\ (frac # 0 => lo + 1 \in 1..n)
  <2> DEFINE q == r \div 100
  <2>1. n - 1 \in Nat /\ r \in Nat /\ r = 95 * (n - 1)
    BY <1>1
  <2> HIDE DEF r
  <2>2. q \in Int /\ frac \in 0..99 /\ r = 100 * q + frac
    BY <2>1, HundredsOf
  <2>3. lo = q + 1
    OBVIOUS
  <2> HIDE DEF q, lo, frac, n
  <2>4. 0 <= q /\ q <= n - 1 /\ (frac # 0 => q < n - 1)
    BY <2>1, <2>2
  <2>5. QED
    BY <1>1, <2>2, <2>3, <2>4
<1>5. PICK a \in DOMAIN xs : s[lo] = xs[a]
  BY <1>1, <1>4, SortedAt DEF s
<1> HIDE DEF lo, frac
<1>6. CASE frac = 0
  <2>1. Quantile(xs, 95) = 100 * xs[a]
    BY <1>1, <1>3, <1>5, <1>6
  <2>2. QED
    BY <1>1, <2>1
<1>7. CASE frac # 0
  <2>1. PICK b \in DOMAIN xs : s[lo + 1] = xs[b]
    BY <1>1, <1>4, <1>7, SortedAt DEF s
  <2> DEFINE u == xs[a]   v == xs[b]   w == frac
  <2>2. u \in Int /\ v \in Int /\ w \in 1..99
    BY <1>1, <1>4, <1>7
  <2>3. Quantile(xs, 95) = u * (100 - w) + v * w
    BY <1>3, <1>5, <1>7, <2>1
  <2> HIDE DEF u, v, w
  <2>4. u * (100 - w) = 100 * u - u * w /\ u * w \in Int /\ v * w \in Int
    BY <2>2
  <2>5. CASE u <= v
    <3>1. u * w <= v * w
      BY <2>2, <2>5, Times
    <3>2. u * (100 - w) <= v * (100 - w) /\ v * (100 - w) = 100 * v - v * w
      BY <2>2, <2>5, Times, 100 - w \in Nat
    <3>3. 100 * u <= Quantile(xs, 95) /\ Quantile(xs, 95) <= 100 * v
      BY <2>2, <2>3, <2>4, <3>1, <3>2
    <3>4. Quantile(xs, 95) \in Int
      BY <2>2, <2>3, <2>4
    <3>5. QED
      BY <3>3, <3>4 DEF u, v
  <2>6. CASE v <= u
    <3>1. v * w <= u * w
      BY <2>2, <2>6, Times
    <3>2. v * (100 - w) <= u * (100 - w) /\ v * (100 - w) = 100 * v - v * w
      BY <2>2, <2>6, Times, 100 - w \in Nat
    <3>3. 100 * v <= Quantile(xs, 95) /\ Quantile(xs, 95) <= 100 * u
      BY <2>2, <2>3, <2>4, <3>1, <3>2
    <3>4. Quantile(xs, 95) \in Int
      BY <2>2, <2>3, <2>4
    <3>5. QED
      BY <3>3, <3>4 DEF u, v
  <2>7. QED
    BY <2>2, <2>5, <2>6
<1>8. QED
  BY <1>6, <1>7

(* ---------------------- samples that do not overlap --------------------- *)

Apart(xs, ys) == \A i \in DOMAIN xs, j \in DOMAIN ys : ys[j] < xs[i]

LEMMA Doubled == ASSUME NEW u \in Int, NEW n \in Nat, u - n = n PROVE u = 2 * n
OBVIOUS

(* Every pair counts, for Cliff's delta and for the rank sum. *)
LEMMA ApartCounts ==
  ASSUME NEW xs \in Seq(Int), NEW ys \in Seq(Int), Apart(xs, ys)
  PROVE  /\ PairDifference(xs, ys) = Len(xs) * Len(ys)
         /\ TwiceU1(xs, ys) = 2 * (Len(xs) * Len(ys))
<1> DEFINE both == (DOMAIN xs) \X (DOMAIN ys)
<1>1. \A i \in DOMAIN xs, j \in DOMAIN ys : xs[i] \in Int /\ ys[j] \in Int
  BY DomainIs
<1>2. Higher(xs, ys) = both /\ Lower(xs, ys) = {}
  <2>1. ASSUME NEW p \in both PROVE xs[p[1]] > ys[p[2]] /\ ~(xs[p[1]] < ys[p[2]])
    BY <1>1 DEF Apart
  <2>2. Higher(xs, ys) \subseteq both /\ Lower(xs, ys) \subseteq both
    BY DEF Higher, Lower
  <2>3. QED
    BY <2>1, <2>2 DEF Higher, Lower
<1>3. Cardinality(both) = Len(xs) * Len(ys) /\ Cardinality({}) = 0
  <2>1. IsFiniteSet(DOMAIN xs) /\ IsFiniteSet(DOMAIN ys) /\ Cardinality(DOMAIN xs) = Len(xs) /\ Cardinality(DOMAIN ys) = Len(ys)
    BY DomainIs
  <2>2. Cardinality(both) = Cardinality(DOMAIN xs) * Cardinality(DOMAIN ys)
    BY <2>1, FS_Product
  <2>3. QED
    BY <2>1, <2>2, FS_EmptySet
<1>4. Len(xs) * Len(ys) \in Nat /\ Len(xs) \in Nat /\ Len(ys) \in Nat
  BY DomainIs, Products
<1>5. PairDifference(xs, ys) = Cardinality(Higher(xs, ys)) - Cardinality(Lower(xs, ys))
  BY DEF PairDifference, Higher, Lower
<1>6. PairDifference(xs, ys) = Len(xs) * Len(ys)
  BY <1>2, <1>3, <1>4, <1>5
<1>7. TwiceU1(xs, ys) \in Int
  <2> DEFINE rank == [i \in DOMAIN xs |-> TwiceRank(xs \o ys, xs[i])]
             S == DOMAIN xs
  <2>1. xs \o ys \in Seq(Int)
    OBVIOUS
  <2>2. ASSUME NEW i \in S PROVE TwiceRank(xs \o ys, xs[i]) \in Int
    <3>1. Below(xs \o ys, xs[i]) \in Nat /\ UpTo(xs \o ys, xs[i]) \in Nat
      BY <2>1, CountsAreHits
    <3>2. QED
      BY <3>1 DEF TwiceRank
  <2>3. \A i \in S : rank[i] \in Int
    BY <2>2
  <2>4. SumFunction(rank) = SumFunctionOnSet(rank, S)
    BY DEF SumFunction
  <2>5. IsFiniteSet(S)
    BY DomainIs
  <2>6. TwiceU1(xs, ys) = SumFunction(rank) - Len(xs) * (Len(xs) + 1)
    BY DEF TwiceU1
  <2> HIDE DEF rank, S
  <2>7. SumFunctionOnSet(rank, S) \in Int
    BY <2>3, <2>5, TotalIsInt
  <2>8. Len(xs) * (Len(xs) + 1) \in Int
    BY <1>4
  <2>9. QED
    BY <2>4, <2>6, <2>7, <2>8
<1>8. TwiceU1(xs, ys) - Len(xs) * Len(ys) = Len(xs) * Len(ys)
  BY <1>6, RanksAgree
<1>9. QED
  <2> DEFINE n == Len(xs) * Len(ys)
  <2>1. n \in Nat /\ TwiceU1(xs, ys) \in Int /\ TwiceU1(xs, ys) - n = n
    BY <1>4, <1>7, <1>8
  <2>2. PairDifference(xs, ys) = n
    BY <1>6
  <2> HIDE DEF n
  <2>3. TwiceU1(xs, ys) = 2 * n
    BY <2>1, Doubled
  <2>4. QED
    BY <2>2, <2>3 DEF n

(* A group is the set of the points equal to one of them. *)
LEMMA GroupIs ==
  ASSUME NEW xs \in Seq(Int), NEW v \in Int
  PROVE  /\ Group(xs, v) = Cardinality({ i \in DOMAIN xs : xs[i] = v })
         /\ IsFiniteSet({ i \in DOMAIN xs : xs[i] = v })
<1> DEFINE L == { i \in DOMAIN xs : xs[i] < v }
           E == { i \in DOMAIN xs : xs[i] = v }
           G == { i \in DOMAIN xs : xs[i] <= v }
<1>1. L \in SUBSET DOMAIN xs /\ E \in SUBSET DOMAIN xs
  OBVIOUS
<1>2. G = L \cup E /\ L \cap E = {}
  BY DomainIs
<1>3. Group(xs, v) = Cardinality(G) - Cardinality(L)
  BY DEF Group, UpTo, Below
<1> SUFFICES Group(xs, v) = Cardinality(E) /\ IsFiniteSet(E)
  OBVIOUS
<1> HIDE DEF L, E, G
<1>4. IsFiniteSet(L) /\ IsFiniteSet(E)
  BY <1>1, DomainIs, FS_Subset
<1>5. Cardinality(L \cup E) = Cardinality(L) + Cardinality(E) - Cardinality(L \cap E)
  BY <1>4, FS_Union
<1>6. Cardinality(L \cap E) = 0 /\ Cardinality(L) \in Nat /\ Cardinality(E) \in Nat
  BY <1>2, <1>4, FS_EmptySet, FS_CardinalityType
<1>7. Cardinality(G) = Cardinality(L) + Cardinality(E)
  BY <1>2, <1>5, <1>6
<1>8. QED
  BY <1>3, <1>4, <1>6, <1>7

(* The terms of the tie sum, when no group is larger than a limit. *)
LEMMA TiesBounded ==
  ASSUME NEW xs \in Seq(Int), NEW k \in Nat \ {0},
         \A i \in DOMAIN xs : Group(xs, xs[i]) <= k
  PROVE  0 <= TieSum(xs) /\ TieSum(xs) <= (k * k - 1) * Len(xs) /\ TieSum(xs) \in Int
<1> DEFINE S == DOMAIN xs
           f == [i \in S |-> Group(xs, xs[i]) * Group(xs, xs[i]) - 1]
           top == k * k - 1
<1>1. ASSUME NEW i \in S PROVE Group(xs, xs[i]) \in Nat \ {0}
  <2> DEFINE E == { j \in DOMAIN xs : xs[j] = xs[i] }
  <2>1. xs[i] \in Int /\ i \in E
    BY DomainIs
  <2>2. Group(xs, xs[i]) = Cardinality(E) /\ IsFiniteSet(E)
    BY <2>1, GroupIs
  <2> HIDE DEF E
  <2>3. {i} \in SUBSET E /\ Cardinality({i}) = 1
    BY <2>1, FS_Singleton
  <2>4. 1 <= Cardinality(E) /\ Cardinality(E) \in Nat
    BY <2>2, <2>3, FS_Subset, FS_CardinalityType
  <2>5. QED
    BY <2>2, <2>4
<1>2. ASSUME NEW i \in S PROVE f[i] \in Int /\ 0 <= f[i] /\ f[i] <= top
  <2> DEFINE g == Group(xs, xs[i])
  <2>1. g \in Nat \ {0} /\ g <= k /\ f[i] = g * g - 1
    BY <1>1
  <2>2. 1 * 1 <= g * g /\ g * g <= k * k /\ g * g \in Nat
    <3> HIDE DEF g
    <3>1. 1 <= g
      BY <2>1
    <3>2. QED
      BY <2>1, <3>1, SquareOfLess, Products
  <2> HIDE DEF g, f
  <2>3. QED
    BY <2>1, <2>2
<1>3. IsFiniteSet(S) /\ Cardinality(S) = Len(xs)
  BY DomainIs
<1>4. TieSum(xs) = SumFunctionOnSet(f, S)
  BY DEF TieSum, SumFunction
<1>5. top \in Int /\ 0 \in Int
  BY Products
<1> HIDE DEF f, S, top
<1>6. 0 * Cardinality(S) <= SumFunctionOnSet(f, S) /\ SumFunctionOnSet(f, S) <= top * Cardinality(S)
  BY <1>2, <1>3, <1>5, TotalBetween
<1>7. SumFunctionOnSet(f, S) \in Int
  BY <1>2, <1>3, TotalIsInt
<1>8. 0 * Cardinality(S) = 0
  BY <1>3
<1>9. QED
  BY <1>3, <1>4, <1>6, <1>7, <1>8 DEF top

(* The test, written out for samples that do not overlap: z's numerator is *)
(* as large as it can be, and ties only lower the spread.                  *)
LEMMA ApartTested ==
  ASSUME NEW xs \in Seq(Int), NEW ys \in Seq(Int), Apart(xs, ys), NEW crit \in Nat
  PROVE  LET nn == Len(xs) * Len(ys)
             n == Len(xs) + Len(ys)
             spread == nn * ((n + 1) * n * (n - 1) - TieSum(xs \o ys))
         IN  Significant(xs, ys, crit)
               <=> spread > 0 /\ (1 - nn) * (1 - nn) * 1200 * n * (n - 1) > 4 * crit * spread
<1> DEFINE nn == Len(xs) * Len(ys)
           n == Len(xs) + Len(ys)
           spread == nn * ((n + 1) * n * (n - 1) - TieSum(xs \o ys))
           u1 == TwiceU1(xs, ys)
           d == (IF u1 < 2 * nn - u1 THEN u1 ELSE 2 * nn - u1) - nn + 1
<1>1. Significant(xs, ys, crit) <=> spread > 0 /\ d * d * 1200 * n * (n - 1) > 4 * crit * spread
  BY DEF Significant
<1>2. nn \in Nat
  BY DomainIs, Products
<1>3. u1 = 2 * nn
  BY ApartCounts
<1> HIDE DEF nn, n, u1, spread
<1>4. d = 1 - nn
  BY <1>2, <1>3
<1> HIDE DEF d
<1>5. Significant(xs, ys, crit) <=> spread > 0 /\ (1 - nn) * (1 - nn) * 1200 * n * (n - 1) > 4 * crit * spread
  BY <1>1, <1>4
<1>6. QED
  BY <1>5 DEF nn, n, spread

(* Products that the test compares, rearranged. *)
LEMMA Rearranged ==
  ASSUME NEW p \in Nat, NEW n \in Nat, n >= 2, NEW crit \in Nat
  PROVE  /\ (1 - p) * (1 - p) * 1200 * n * (n - 1) = (1200 * ((p - 1) * (p - 1))) * (n * (n - 1))
         /\ 4 * crit * (p * ((n + 1) * n * (n - 1))) = ((4 * crit) * (p * (n + 1))) * (n * (n - 1))
         /\ n * (n - 1) \in Nat \ {0}
<1>1. n - 1 \in Nat \ {0}
  OBVIOUS
<1> DEFINE m == n - 1
<1>2. n * m \in Nat \ {0}
  <2> HIDE DEF m
  <2>1. QED
    BY <1>1 DEF m
<1>3. (1 - p) * (1 - p) = (p - 1) * (p - 1)
  OBVIOUS
<1> DEFINE q == (p - 1) * (p - 1)
<1>4. q \in Int
  OBVIOUS
<1>5. q * 1200 * n * m = (1200 * q) * (n * m)
  <2> HIDE DEF q, m
  <2>1. QED
    BY <1>1, <1>4 DEF m
<1>6. 4 * crit * (p * ((n + 1) * n * m)) = ((4 * crit) * (p * (n + 1))) * (n * m)
  <2> HIDE DEF m
  <2>1. QED
    BY <1>1 DEF m
<1>7. QED
  BY <1>2, <1>3, <1>5, <1>6

(* Without ties, the test of samples that do not overlap compares these. *)
LEMMA ApartPowered ==
  ASSUME NEW xs \in Seq(Int), NEW ys \in Seq(Int), Apart(xs, ys), NEW crit \in Nat,
         Len(xs) >= 1, Len(ys) >= 1, TieSum(xs \o ys) = 0, Significant(xs, ys, crit)
  PROVE  Seen(Len(xs) * Len(ys), Len(xs) + Len(ys), crit)
<1> DEFINE nn == Len(xs) * Len(ys)
           n == Len(xs) + Len(ys)
           spread == nn * ((n + 1) * n * (n - 1) - TieSum(xs \o ys))
           l == (4 * crit) * (nn * (n + 1))   r == 1200 * ((nn - 1) * (nn - 1))   k == n * (n - 1)
<1>1. (1 - nn) * (1 - nn) * 1200 * n * (n - 1) > 4 * crit * spread
  BY ApartTested
<1>2. nn \in Nat /\ n \in Nat /\ n >= 2
  BY DomainIs, Products
<1>3. spread = nn * ((n + 1) * n * (n - 1))
  <2>1. (n + 1) * n * (n - 1) \in Int
    BY <1>2
  <2>2. (n + 1) * n * (n - 1) - TieSum(xs \o ys) = (n + 1) * n * (n - 1)
    BY <2>1
  <2>3. QED
    BY <2>2
<1> HIDE DEF nn, n
<1>4. r * k > l * k /\ k \in Nat \ {0}
  BY <1>1, <1>2, <1>3, Rearranged
<1>5. l \in Int /\ r \in Int
  BY <1>2
<1> HIDE DEF l, r, k
<1>6. l * k < r * k
  <2>1. l * k \in Int /\ r * k \in Int
    BY <1>4, <1>5
  <2>2. QED
    BY <1>4, <2>1
<1>7. l < r
  BY <1>4, <1>5, <1>6, TimesStrictly
<1>8. QED
  BY <1>7 DEF Seen, l, r, nn, n

(* With ties within the samples, the test still sees at least as much. *)
LEMMA ApartSignificant ==
  ASSUME NEW xs \in Seq(Int), NEW ys \in Seq(Int), Apart(xs, ys), NEW crit \in Nat,
         Len(xs) >= 1, Len(ys) >= 1, Seen(Len(xs) * Len(ys), Len(xs) + Len(ys), crit)
  PROVE  Significant(xs, ys, crit)
<1> DEFINE nn == Len(xs) * Len(ys)
           n == Len(xs) + Len(ys)
           points == xs \o ys
           ties == TieSum(points)
           all == (n + 1) * n * (n - 1)
           spread == nn * (all - ties)
           l == (4 * crit) * (nn * (n + 1))   r == 1200 * ((nn - 1) * (nn - 1))   k == n * (n - 1)
<1>1. nn \in Nat \ {0} /\ n \in Nat /\ n >= 2 /\ n - 1 \in Nat \ {0} /\ l < r
  <2>1. Len(xs) \in Nat \ {0} /\ Len(ys) \in Nat \ {0} /\ l < r
    BY DomainIs DEF Seen
  <2> DEFINE a == Len(xs)   b == Len(ys)
  <2>2. SUFFICES a * b \in Nat \ {0} /\ a + b \in Nat /\ a + b >= 2 /\ a + b - 1 \in Nat \ {0}
    BY <2>1
  <2>3. a \in Nat \ {0} /\ b \in Nat \ {0}
    BY <2>1
  <2> HIDE DEF a, b
  <2>4. a * b \in Nat \ {0}
    BY <2>3
  <2>5. QED
    BY <2>3, <2>4
<1>2. points \in Seq(Int) /\ Len(points) = n
  OBVIOUS
<1>3. ASSUME NEW i \in DOMAIN points PROVE Group(points, points[i]) <= n - 1
  <2> DEFINE E == { j \in DOMAIN points : points[j] = points[i] }
  <2>1. points[i] \in Int /\ DOMAIN points = 1..n
    BY <1>2, DomainIs
  <2>2. Group(points, points[i]) = Cardinality(E)
    BY <1>2, <2>1, GroupIs
  <2>3. 1 \in DOMAIN points /\ n \in DOMAIN points /\ points[1] # points[n]
    <3>1. points[1] = xs[1] /\ points[n] = ys[Len(ys)] /\ 1 \in DOMAIN xs /\ Len(ys) \in DOMAIN ys
      OBVIOUS
    <3>2. ys[Len(ys)] < xs[1] /\ ys[Len(ys)] \in Int /\ xs[1] \in Int
      BY <3>1, DomainIs DEF Apart
    <3>3. QED
      BY <1>1, <2>1, <3>1, <3>2
  <2>4. E \in SUBSET DOMAIN points /\ E # DOMAIN points
    BY <2>3
  <2>5. IsFiniteSet(DOMAIN points) /\ Cardinality(DOMAIN points) = n
    BY <1>2, DomainIs
  <2> HIDE DEF E, points, n
  <2>6. Cardinality(E) <= n /\ Cardinality(E) # n /\ Cardinality(E) \in Nat
    BY <2>4, <2>5, FS_Subset, FS_CardinalityType
  <2>7. n \in Nat
    BY <1>1
  <2>8. QED
    BY <2>2, <2>6, <2>7
<1> HIDE DEF points, nn, n
<1>4. 0 <= ties /\ ties <= ((n - 1) * (n - 1) - 1) * n /\ ties \in Int
  <2> DEFINE j == n - 1
  <2>1. j \in Nat \ {0} /\ \A i \in DOMAIN points : Group(points, points[i]) <= j
    BY <1>1, <1>3
  <2>2. SUFFICES 0 <= ties /\ ties <= (j * j - 1) * n /\ ties \in Int
    OBVIOUS
  <2> HIDE DEF j
  <2>3. QED
    BY <1>2, <2>1, TiesBounded
<1>5. all = n * n * n - n /\ ((n - 1) * (n - 1) - 1) * n = n * n * n - 2 * (n * n) /\ n * n > n
      /\ n * n \in Int /\ n * n * n \in Int
  <2>1. n * n > n
    BY <1>1
  <2>2. QED
    BY <1>1, <2>1
<1>6. 0 < all - ties /\ all - ties <= all /\ all - ties \in Nat /\ all \in Nat
  <2> DEFINE s == n * n   c == n * n * n
  <2>1. all = c - n /\ ties <= c - 2 * s /\ s > n /\ s \in Int /\ c \in Int
    BY <1>4, <1>5
  <2> HIDE DEF s, c, all, ties
  <2>2. QED
    BY <1>1, <1>4, <2>1
<1>7. spread > 0 /\ spread <= nn * all /\ spread \in Nat /\ nn * all \in Nat
  <2> DEFINE e == all - ties
  <2>1. e \in Nat \ {0} /\ e <= all /\ all \in Nat
    BY <1>6
  <2> HIDE DEF all, e
  <2>2. nn * e \in Nat \ {0} /\ nn * e <= nn * all /\ nn * all \in Nat
    <3>1. e * nn <= all * nn
      BY <1>1, <2>1, Times
    <3>2. nn * e \in Nat \ {0}
      BY <1>1, <2>1
    <3>3. nn * e = e * nn /\ nn * all = all * nn
      BY <1>1, <2>1
    <3>4. QED
      BY <1>1, <2>1, <3>1, <3>2, <3>3, Products
  <2>3. QED
    BY <2>2 DEF e
<1>8. l * k < r * k /\ k \in Nat \ {0}
  <2>1. k \in Nat \ {0}
    BY <1>1, Rearranged
  <2>2. l \in Int /\ r \in Int
    BY <1>1
  <2> HIDE DEF k, l, r
  <2>3. QED
    BY <1>1, <2>1, <2>2, TimesStrictly
<1>9. 4 * crit * spread <= 4 * crit * (nn * all)
  <2> DEFINE s == spread   t == nn * all
  <2>1. s <= t /\ s \in Nat /\ t \in Nat
    BY <1>7
  <2> HIDE DEF s, t
  <2>2. s * (4 * crit) <= t * (4 * crit)
    BY <2>1, Times, 4 * crit \in Nat
  <2>3. 4 * crit * s <= 4 * crit * t
    BY <2>1, <2>2
  <2>4. QED
    BY <2>3 DEF s, t
<1>10. (1 - nn) * (1 - nn) * 1200 * n * (n - 1) > 4 * crit * spread
  <2>1. (1 - nn) * (1 - nn) * 1200 * n * (n - 1) = r * k /\ 4 * crit * (nn * all) = l * k
    BY <1>1, Rearranged
  <2>2. l * k \in Int /\ r * k \in Int /\ 4 * crit * spread \in Int
    BY <1>1, <1>7
  <2> DEFINE A == (1 - nn) * (1 - nn) * 1200 * n * (n - 1)   B == 4 * crit * spread   C == 4 * crit * (nn * all)   lk == l * k   rk == r * k
  <2>3. A = rk /\ C = lk /\ lk < rk /\ B <= C /\ lk \in Int /\ rk \in Int /\ B \in Int
    BY <1>8, <1>9, <2>1, <2>2
  <2>4. SUFFICES A > B
    OBVIOUS
  <2> HIDE DEF A, B, C, lk, rk
  <2>5. QED
    BY <2>3
<1>11. QED
  BY <1>7, <1>10, ApartTested DEF nn, n, points

(* ---------------------- a regression is not passed over ----------------- *)

(* The gates read the normalised flags. *)
ConfigInv ==
  /\ input \in Inputs
  /\ pc \in Places
  /\ cfg = IF pc = "normalize" THEN input.flags ELSE NormalizeConfig(input.flags)

LEMMA ConfigInit == Init => ConfigInv
BY DEF Init, ConfigInv, Places

LEMMA ConfigStep == ConfigInv /\ [Next]_vars => ConfigInv'
<1> SUFFICES ASSUME ConfigInv, [Next]_vars PROVE ConfigInv'
  OBVIOUS
<1>1. CASE Normalize
  <2>1. cfg' = NormalizeConfig(input.flags) /\ input' = input /\ pc' = "baseline"
    BY <1>1 DEF Normalize, ConfigInv
  <2>2. QED
    BY <2>1 DEF ConfigInv, Places
<1>2. ASSUME UNCHANGED <<input, cfg>>, pc # "normalize", pc' \in Places \ {"normalize"}
      PROVE  ConfigInv'
  BY <1>2 DEF ConfigInv
<1>3. ASSUME NEW gate \in Gates, NEW outcomes, NEW next \in Places \ {"normalize", "md", "done"},
             Stage(gate, outcomes, next)
      PROVE  ConfigInv'
  <2>1. UNCHANGED <<input, cfg>> /\ pc = gate /\ (pc' = "done" \/ pc' = next)
    BY <1>3 DEF Stage, Exit
  <2>2. pc # "normalize" /\ pc' \in Places \ {"normalize"}
    BY <2>1 DEF Gates, Places
  <2>3. QED
    BY <1>2, <2>1, <2>2
<1>4. CASE Baseline \/ Overhead \/ Variance \/ Significance
  BY <1>3, <1>4 DEF Baseline, Overhead, Variance, Significance, Places, Gates
<1>5. CASE WriteJSON \/ WriteMarkdown
  <2>1. UNCHANGED <<input, cfg>> /\ pc \in {"json", "md"} /\ pc' \in {"md", "done"}
    BY <1>5 DEF WriteJSON, WriteMarkdown, Exit
  <2>2. QED
    BY <1>2, <2>1 DEF Places
<1>6. CASE UNCHANGED vars
  BY <1>6 DEF vars, ConfigInv
<1>7. QED
  BY <1>1, <1>4, <1>5, <1>6 DEF Next

(* What the significance gate needs of its flags. *)
LEMMA FlagsInForce ==
  ASSUME input \in Inputs, NEW flags, flags = NormalizeConfig(input.flags)
  PROVE  /\ flags.minSamples \in Nat \ {0} /\ flags.cliffs \in Nat \ {0} /\ flags.regression \in Nat \ {0}
         /\ Crit[flags.alpha] \in Nat
<1> DEFINE in == input.flags
<1>1. DOMAIN Defaults \subseteq DOMAIN in /\ (\A f \in DOMAIN Defaults : in[f] \in Int) /\ Crit[NormalizeConfig(in).alpha] \in Nat
  BY GateAssumption DEF GateAssumption
<1>2. ASSUME NEW f \in {"minSamples", "cliffs", "regression"} PROVE flags[f] \in Nat \ {0}
  <2>1. f \in DOMAIN Defaults /\ f # "alpha" /\ Defaults[f] \in Nat \ {0}
    BY DEF Defaults
  <2>2. flags[f] = IF in[f] <= 0 THEN Defaults[f] ELSE in[f]
    BY <1>1, <2>1 DEF NormalizeConfig
  <2>3. in[f] \in Int
    BY <1>1, <2>1
  <2>4. QED
    BY <2>1, <2>2, <2>3
<1>3. QED
  BY <1>1, <1>2

(* A sample whose values are all above those of another regresses by the   *)
(* percentage by which every value is.                                     *)
LEMMA QuantilesRegress ==
  ASSUME NEW c \in Seq(Int), NEW b \in Seq(Int), c # << >>, b # << >>, NEW limit \in Nat,
         \A i \in DOMAIN c, j \in DOMAIN b : 0 < b[j] /\ limit * b[j] < 100 * (c[i] - b[j])
  PROVE  RegressionAbove(Quantile(c, 95), Quantile(b, 95), limit)
<1> DEFINE x == Quantile(c, 95)   y == Quantile(b, 95)
<1>1. x \in Int /\ y \in Int
  BY QuantileBetween
<1>2. PICK i \in DOMAIN c : 100 * c[i] <= x
  BY QuantileBetween
<1>3. PICK j \in DOMAIN b : y <= 100 * b[j]
  BY QuantileBetween
<1>4. PICK k \in DOMAIN b : 100 * b[k] <= y
  BY QuantileBetween
<1> DEFINE u == c[i]   v == b[j]   w == b[k]
<1>5. u \in Int /\ v \in Int /\ w \in Int
  BY DomainIs
<1>6. 0 < v /\ 0 < w /\ limit * v < 100 * (u - v)
  OBVIOUS
<1>7. 100 * u <= x /\ y <= 100 * v /\ 100 * w <= y
  BY <1>2, <1>3, <1>4
<1> SUFFICES y > 0 /\ 100 * (x - y) > limit * y
  BY DEF RegressionAbove
<1> HIDE DEF u, v, w, x, y
<1>8. y > 0
  BY <1>1, <1>5, <1>6, <1>7
<1>9. limit * y <= 100 * (limit * v)
  <2>1. y * limit <= (100 * v) * limit
    BY <1>1, <1>5, <1>7, Times
  <2>2. y * limit = limit * y /\ (100 * v) * limit = 100 * (limit * v)
    BY <1>1, <1>5
  <2>3. QED
    BY <2>1, <2>2
<1>10. limit * v \in Int /\ limit * y \in Int
  BY <1>1, <1>5
<1>11. 100 * (x - y) > limit * y
  <2> DEFINE lv == limit * v   ly == limit * y
  <2>1. lv < 100 * (u - v) /\ ly <= 100 * lv /\ lv \in Int /\ ly \in Int
    BY <1>6, <1>9, <1>10
  <2>2. SUFFICES 100 * (x - y) > ly
    OBVIOUS
  <2> HIDE DEF lv, ly
  <2>3. QED
    BY <1>1, <1>5, <1>7, <2>1
<1>12. QED
  BY <1>8, <1>11

(* The reference samples of Powered: m values above m others, all different. *)
LEMMA ReferencePower ==
  ASSUME NEW m \in Nat \ {0}, NEW crit \in Nat, Significant([i \in 1..m |-> m + i], [i \in 1..m |-> i], crit)
  PROVE  Seen(m * m, m + m, crit)
<1> DEFINE xs == [i \in 1..m |-> m + i]   ys == [i \in 1..m |-> i]   points == xs \o ys
<1>1. xs \in Seq(Int) /\ ys \in Seq(Int) /\ Len(xs) = m /\ Len(ys) = m /\ points \in Seq(Int)
  OBVIOUS
<1>2. DOMAIN xs = 1..m /\ DOMAIN ys = 1..m /\ (\A i \in 1..m : xs[i] = m + i /\ ys[i] = i)
  OBVIOUS
<1>3. Apart(xs, ys)
  BY <1>2 DEF Apart
<1>4. DOMAIN points = 1..(2 * m) /\ \A i \in 1..(2 * m) : points[i] = IF i <= m THEN m + i ELSE i - m
  OBVIOUS
<1> HIDE DEF points
<1>5. ASSUME NEW i \in DOMAIN points PROVE Group(points, points[i]) <= 1
  <2> DEFINE E == { j \in DOMAIN points : points[j] = points[i] }
  <2>1. E = {i}
    BY <1>4
  <2>2. points[i] \in Int
    BY <1>4
  <2>3. Group(points, points[i]) = Cardinality(E)
    BY <1>1, <2>2, GroupIs
  <2> HIDE DEF E
  <2>4. Cardinality(E) = 1
    BY <2>1, FS_Singleton
  <2>5. QED
    BY <2>3, <2>4
<1>6. TieSum(points) = 0
  <2>1. 0 <= TieSum(points) /\ TieSum(points) <= (1 * 1 - 1) * Len(points) /\ TieSum(points) \in Int
    BY <1>1, <1>5, TiesBounded
  <2>2. Len(points) \in Nat
    BY <1>1
  <2>3. QED
    BY <2>1, <2>2
<1>7. Significant(xs, ys, crit) /\ TieSum(xs \o ys) = 0 /\ Len(xs) >= 1 /\ Len(ys) >= 1
  BY <1>1, <1>6 DEF points
<1> HIDE DEF xs, ys
<1>8. Seen(Len(xs) * Len(ys), Len(xs) + Len(ys), crit)
  BY <1>1, <1>3, <1>7, ApartPowered
<1>9. QED
  BY <1>1, <1>8

(* Candidate samples that are all above the baseline's by more than the    *)
(* limit regress, by every one of the four conditions.                     *)
LEMMA AllFourConditions ==
  ASSUME input \in Inputs, cfg = NormalizeConfig(input.flags), Powered,
         NEW c \in Seq(Int), NEW b \in Seq(Int), Enough(c, b),
         \A i \in DOMAIN c, j \in DOMAIN b : 0 < b[j] /\ cfg.regression * b[j] < 100 * (c[i] - b[j]),
         NEW ci \in CIAboveZero(c, b, cfg.iterations)
  PROVE  Regresses(c, b, ci)
<1> DEFINE m == cfg.minSamples   limit == cfg.regression   crit == Crit[cfg.alpha]
<1>1. m \in Nat \ {0} /\ cfg.cliffs \in Nat \ {0} /\ limit \in Nat \ {0} /\ crit \in Nat
  BY FlagsInForce
<1>2. m <= Len(c) /\ m <= Len(b) /\ Len(c) \in Nat /\ Len(b) \in Nat
  BY <1>1 DEF Enough
<1>3. c # << >> /\ b # << >>
  BY <1>1, <1>2
<1>4. Apart(c, b)
  <2>1. ASSUME NEW i \in DOMAIN c, NEW j \in DOMAIN b PROVE b[j] < c[i]
    <3> DEFINE x == c[i]   y == b[j]
    <3>1. x \in Int /\ y \in Int
      BY DomainIs
    <3>2. 0 < y /\ limit * y < 100 * (x - y)
      OBVIOUS
    <3>3. SUFFICES y < x
      OBVIOUS
    <3> HIDE DEF x, y, limit
    <3>4. 0 <= limit * y
      BY <1>1, <3>1, <3>2
    <3>5. limit * y \in Int
      BY <1>1, <3>1
    <3>6. QED
      BY <3>1, <3>2, <3>4, <3>5
  <2>2. QED
    BY <2>1 DEF Apart
<1>5. RegressionAbove(Quantile(c, 95), Quantile(b, 95), limit)
  BY <1>1, <1>3, QuantilesRegress
<1>6. ci
  <2>1. ASSUME ~ci PROVE FALSE
    <3>1. cfg.iterations < 10 \/ \E i \in DOMAIN c, j \in DOMAIN b : c[i] <= b[j]
      BY <2>1 DEF CIAboveZero
    <3>2. ~(cfg.iterations < 10)
      <4>1. cfg.iterations \in Int
        <5>1. "iterations" \in DOMAIN Defaults
          BY DEF Defaults
        <5>2. "iterations" \in DOMAIN input.flags /\ input.flags["iterations"] \in Int
          BY <5>1, GateAssumption DEF GateAssumption
        <5>3. QED
          BY <5>2 DEF NormalizeConfig, Defaults
      <4>2. QED
        BY <4>1 DEF Powered
    <3>3. PICK i \in DOMAIN c, j \in DOMAIN b : c[i] <= b[j]
      BY <3>1, <3>2
    <3>4. c[i] \in Int /\ b[j] \in Int /\ b[j] < c[i]
      BY <1>4, DomainIs DEF Apart
    <3>5. QED
      BY <3>3, <3>4
  <2>2. ci \in BOOLEAN
    BY DEF CIAboveZero
  <2>3. QED
    BY <2>1, <2>2
<1>7. Significant(c, b, crit)
  <2>1. Significant([i \in 1..m |-> m + i], [i \in 1..m |-> i], crit)
    BY DEF Powered
  <2> HIDE DEF m, crit
  <2>2. Seen(m * m, m + m, crit)
    BY <1>1, <2>1, ReferencePower
  <2>3. Seen(Len(c) * Len(b), Len(c) + Len(b), crit)
    BY <1>1, <1>2, <2>2, PowerGrows
  <2>4. Len(c) >= 1 /\ Len(b) >= 1
    BY <1>1, <1>2
  <2>5. QED
    BY <1>1, <1>4, <2>3, <2>4, ApartSignificant
<1>8. Practical(c, b, cfg.cliffs)
  <2> DEFINE p == Len(c)   q == Len(b)   t == cfg.cliffs   d == PairDifference(c, b)
  <2>1. d = p * q /\ p \in Nat /\ q \in Nat /\ t \in Nat /\ t <= 1000
    BY <1>1, <1>2, <1>4, ApartCounts DEF Powered
  <2>2. SUFFICES 1000 * (IF d < 0 THEN -d ELSE d) >= t * p * q
    BY DEF Practical
  <2> HIDE DEF p, q, t, d
  <2>3. p * q \in Nat
    BY <2>1, Products
  <2>4. t * (p * q) <= 1000 * (p * q)
    <3> DEFINE pq == p * q
    <3>1. pq \in Nat
      BY <2>3
    <3> HIDE DEF pq
    <3>2. t * pq <= 1000 * pq
      BY <2>1, <3>1, Times
    <3>3. QED
      BY <3>2 DEF pq
  <2>5. t * p * q = t * (p * q)
    BY <2>1
  <2>6. (IF d < 0 THEN -d ELSE d) = p * q
    BY <2>1, <2>3
  <2>7. t * (p * q) \in Int
    BY <2>1
  <2>8. QED
    BY <2>3, <2>4, <2>5, <2>6, <2>7
<1>9. QED
  BY <1>5, <1>6, <1>7, <1>8 DEF Regresses

(* m5gate does not exit with 0 over a regression that every request shows, *)
(* when the test has the power to see it (evaluateSignificanceScenario).   *)
THEOREM RegressionIsSeen == Spec => []ClearRegressionBlocks
<1>1. VerdictInv /\ ConfigInv => ClearRegressionBlocks
  <2> SUFFICES ASSUME VerdictInv, ConfigInv, exit = 0, Powered, NEW p \in Pairs,
                      ~\E i \in DOMAIN p[1], j \in DOMAIN p[2] :
                         p[2][j] <= 0 \/ 100 * (p[1][i] - p[2][j]) <= cfg.regression * p[2][j]
               PROVE  FALSE
    BY DEF ClearRegressionBlocks
  <2>1. PICK s \in Scenarios : p = <<TTFTs(files.candidate[s]), TTFTs(files.baseline[s])>>
    BY DEF Pairs
  <2> DEFINE c == TTFTs(files.candidate[s])   b == TTFTs(files.baseline[s])
  <2>2. c \in Seq(Int) /\ b \in Seq(Int) /\ p[1] = c /\ p[2] = b
    BY <2>1, SamplesAreNumbers DEF ConfigInv
  <2>3. input \in Inputs /\ cfg = NormalizeConfig(input.flags) /\ "pass" \in EvaluateSignificance
    BY DEF VerdictInv, ConfigInv, Pass, Gates, Places
  <2>4. PICK ci \in CIAboveZero(c, b, cfg.iterations) : Enough(c, b) /\ ~Regresses(c, b, ci)
    BY <2>3, Verdicts DEF EvaluateSignificance
  <2>5. cfg.regression \in Nat
    BY <2>3, FlagsInForce
  <2> HIDE DEF c, b
  <2>6. ASSUME NEW i \in DOMAIN c, NEW j \in DOMAIN b
        PROVE  0 < b[j] /\ cfg.regression * b[j] < 100 * (c[i] - b[j])
    <3>1. ~(b[j] <= 0) /\ ~(100 * (c[i] - b[j]) <= cfg.regression * b[j])
      BY <2>2
    <3> DEFINE x == c[i]   y == b[j]   g == cfg.regression
    <3>2. x \in Int /\ y \in Int /\ g \in Nat
      BY <2>2, <2>5, DomainIs
    <3>3. ~(y <= 0) /\ ~(100 * (x - y) <= g * y)
      BY <3>1
    <3>4. SUFFICES 0 < y /\ g * y < 100 * (x - y)
      OBVIOUS
    <3> HIDE DEF x, y, g
    <3>5. g * y \in Int
      BY <3>2
    <3>6. QED
      BY <3>2, <3>3, <3>5
  <2>7. Regresses(c, b, ci)
    BY <2>2, <2>3, <2>4, <2>6, AllFourConditions
  <2>8. QED
    BY <2>4, <2>7
<1>2. QED
  BY VerdictInit, VerdictStep, ConfigInit, ConfigStep, <1>1, PTL DEF Spec
=============================================================================
