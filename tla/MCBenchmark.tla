----------------------------- MODULE MCBenchmark -----------------------------
(***************************************************************************)
(* Benchmark for TLC, with main's four workloads on a few LBAs: zero pages *)
(* among pointers, text, noise, and the blend of all.                      *)
(***************************************************************************)
EXTENDS BenchmarkInvariant

CONSTANTS zero, h1, h2, raw

MCLZ4Size ==
  [d \in Data |-> CASE d = zero -> 30
                    [] d = h1   -> 900
                    [] d = h2   -> 2048
                    [] d = raw  -> 0]

MCGenerators ==
  {<<zero, h1, h1, zero>>, <<h2, h2, h2, h2>>, <<raw, raw, raw, raw>>, <<zero, h2, h1, raw>>}
    \cup [1 .. 3 -> {h1, raw}] \cup [1 .. 2 -> {zero, h1, raw}] \cup {<<zero, zero, h1>>}
=============================================================================
