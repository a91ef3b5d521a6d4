----------------------------- MODULE MCServing -----------------------------
(***************************************************************************)
(* Two clients; a tick of 800 ms, the gate's default threshold, with two   *)
(* bounded buckets, a clock of two and one setting back; one client at a   *)
(* time has closed; two scrapes are the fewest that make a rate.           *)
(***************************************************************************)
EXTENDS Serving

Body(stream, max) == [post |-> TRUE, json |-> TRUE, prompt |-> TRUE, stream |-> stream, max |-> max]
MCBodies == << {Body(TRUE, 0)},
               {NoBody, [NoBody EXCEPT !.post = TRUE], Body(FALSE, 1)} >>

Gate(config, flags, output, timeout) ==
  [command |-> "cdgate", config |-> config, flags |-> flags, output |-> output,
   timeout |-> timeout, strict |-> FALSE]
NoFlags == << >>
Prereq(strict) == [Gate("", NoFlags, "text", 10) EXCEPT !.command = "prereq", !.strict = strict]
MCCommandLines ==
  {Gate("", NoFlags, "text", 10),
   Gate("--config", [error_rate |-> 150], "json", 10),
   Gate("", [burn_rate |-> NegInf], "text", 10),
   Gate("-config", [ttft_p95_ms |-> 1600, failOpen |-> 1], "yaml", 0),
   Prereq(FALSE), Prereq(TRUE), [Prereq(FALSE) EXCEPT !.command = "unknown"],
   [Prereq(FALSE) EXCEPT !.command = "version"]}
Unreadable == [readable |-> FALSE, settings |-> << >>]
Holds(settings) == [readable |-> TRUE, settings |-> settings]
MCFiles ==
  {[default |-> Holds([ttft_p95_ms |-> 0, error_rate |-> 2, burn_rate |-> NegInf,
                     failOpen |-> 0]), named |-> Unreadable]}

MCRuleValues == {100, PosInf}

AllFacts == Blockers \cup Warnings
Host(facts, release, major, minor) ==
  [facts |-> facts, release |-> release, major |-> major, minor |-> minor]
MCHosts ==
  {Host(AllFacts, "", 0, 0), Host(AllFacts \ {"helm_installed"}, "numbered", 5, 15),
   Host(AllFacts, "numbered", 5, 4)}
=============================================================================
