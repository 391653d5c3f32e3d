------------------------------ MODULE ApmStats ------------------------------
(***************************************************************************)
(* The aggregation of apm-server/server.js: percentile, computeStats and   *)
(* the grouping of buildMetrics.  Response times are whole milliseconds,   *)
(* which is what both services send.                                       *)
(***************************************************************************)
EXTENDS Integers, Sequences, FiniteSets, SequencesExt

Percents == {50, 95, 99}

\* Mutant: the rank is rounded down.
percentile_Floor(sorted, p) ==
  IF sorted = <<>> THEN 0
  ELSE LET rank == (p * Len(sorted)) \div 100 IN sorted[IF rank < 1 THEN 1 ELSE rank]

\* sorted[max(0, ceil(p / 100 * length) - 1)], the nearest rank.  The doubles
\* nearest to 0.95 and 0.99 lie below them, so that no product is rounded up
\* across a whole number: the ceiling is that of the exact quotient.
percentile(sorted, p) ==
  IF sorted = <<>> THEN 0
  ELSE LET rank == (p * Len(sorted) + 99) \div 100 IN sorted[IF rank < 1 THEN 1 ELSE rank]

\* Math.round(sum / length): halves are rounded up.
average(sum, n) == (2 * sum + n) \div (2 * n)

\* values.slice().sort((a, b) => a - b)
Sorted(values) ==
  LET n == Len(values)
      order == CHOOSE p \in Bijection(1..n, 1..n) :
                 \A i, j \in 1..n : i <= j => values[p[i]] <= values[p[j]]
  IN [i \in 1..n |-> values[order[i]]]

computeStats(values) ==
  LET sorted == Sorted(values)
      n == Len(values)
  IN [count |-> n,
      pct |-> [p \in Percents |-> percentile(sorted, p)],
      avg |-> IF n = 0 THEN 0 ELSE average(SumFunction(sorted), n),
      max |-> IF n = 0 THEN 0 ELSE sorted[n]]

-----------------------------------------------------------------------------
(* What the statistics mean, for numbers f[i] with i in a finite set: by   *)
(* counting, without an order of the numbers.                              *)

\* The p-th percentile is the least number that at least p percent of the
\* numbers do not exceed.
Covers(w, f, p) ==
  100 * Cardinality({i \in DOMAIN f : f[i] <= w}) >= p * Cardinality(DOMAIN f)

IsPercentile(v, f, p) ==
  /\ v \in Range(f)
  /\ Covers(v, f, p)
  /\ \A w \in Range(f) : Covers(w, f, p) => v <= w

\* The three percentiles, their order, and an average within half a millisecond.
IsStats(r, f) ==
  /\ r.count = Cardinality(DOMAIN f)
  /\ \A p \in Percents : IsPercentile(r.pct[p], f, p)
  /\ r.pct[50] <= r.pct[95] /\ r.pct[95] <= r.pct[99] /\ r.pct[99] <= r.max
  /\ r.max \in Range(f) /\ \A i \in DOMAIN f : f[i] <= r.max
  /\ 2 * (r.avg * r.count) - 2 * SumFunction(f) \in (-r.count)..r.count
=============================================================================
