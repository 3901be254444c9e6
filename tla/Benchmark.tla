----------------------------- MODULE Benchmark -----------------------------
(***************************************************************************)
(* ModelBenchmarker (tools/converter_worker/benchmarking.py): which        *)
(* execution providers are measured, what a measurement yields, and how     *)
(* the results are summed up.                                               *)
(*                                                                         *)
(* A mean latency is a natural number of some unit of time, 0 one that the  *)
(* clock does not tell from 0. A speedup is a pair, dividend and divisor.   *)
(***************************************************************************)
EXTENDS Naturals, Sequences

CONSTANTS
  Available,    \* ort.get_available_providers()
  MaxLatency,   \* bound on latencies
  NoProvider

ProviderNames == {"Dml", "OpenVINO", "CPU"}

ASSUME BenchmarkAssumption ==
  /\ MaxLatency \in Nat
  /\ NoProvider \notin ProviderNames

Found(provider) == IF provider \in Available THEN <<provider>> ELSE <<>>

\* "Prioritize: DML (GPU/NPU), OpenVINO, CPU"
Providers == Found("Dml") \o Found("OpenVINO") \o Found("CPU")

\* A result keeps the file it was measured with, which the code does not.
Measurement(p, success, mean, file) ==
  [provider |-> p, success |-> success, mean |-> mean, of |-> file]

\* _benchmark_provider: whatever raises, the latencies of a failed one are 0.0. The
\* smallest of no latencies raises too.
ProviderResults(p, file, isModel, iterations) ==
  {Measurement(p, FALSE, 0, file)} \cup
  (IF isModel /\ iterations > 0
   THEN {Measurement(p, TRUE, mean, file) : mean \in 0..MaxLatency}
   ELSE {})

-----------------------------------------------------------------------------
(* _compute_summary *)

\* Mutated form: results that failed are not left out.
AllResults(results) == DOMAIN results

Successful(results) == {i \in DOMAIN results : results[i].success}

\* min takes the first of several that are least.
Fastest(results) ==
  CHOOSE i \in Successful(results) :
    \A j \in Successful(results) :
      \/ results[i].mean < results[j].mean
      \/ results[i].mean = results[j].mean /\ i <= j

CpuResults(results) == {i \in DOMAIN results : results[i].provider = "CPU" /\ results[i].success}

\* 0.0 without a CPU result
Baseline(results) ==
  IF CpuResults(results) = {} THEN 0
  ELSE results[CHOOSE i \in CpuResults(results) : \A j \in CpuResults(results) : i <= j].mean

Best(results) == IF Successful(results) = {} THEN 0 ELSE results[Fastest(results)].mean

Speedup(results) ==
  IF Baseline(results) > 0 /\ Best(results) > 0
  THEN <<Baseline(results), Best(results)>>
  ELSE <<1, 1>>

Summary(results) ==
  [fastest  |-> IF Successful(results) = {} THEN NoProvider
                ELSE results[Fastest(results)].provider,
   baseline |-> Baseline(results),
   best     |-> Best(results),
   speedup  |-> Speedup(results),
   results  |-> results]

=============================================================================
