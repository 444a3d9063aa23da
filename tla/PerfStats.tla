------------------------------ MODULE PerfStats ------------------------------
(***************************************************************************)
(* The arithmetic of the performance gate: median and the exact one-sided  *)
(* Mann-Whitney test (benchmarks/cmd/perfgate/stats.go), the decision on   *)
(* two lists of samples (judge) and the distribution of benchmarks over    *)
(* shards (assignShard, main.go). Times are whole numbers; a median is     *)
(* kept doubled, a p-value as a pair of counts.                            *)
(***************************************************************************)
EXTENDS Naturals, Integers, Sequences, SequencesExt, FiniteSets, FiniteSetsExt,
        Functions

CONSTANTS ThresholdPercent,  \* -threshold
          AlphaPercent       \* -alpha

Sorted(s) == SortSeq(s, <)

(* median, doubled *)
Median(s) ==
  LET n == Len(s)
      o == Sorted(s)
  IN IF n = 0 THEN 0
     ELSE IF n % 2 = 1 THEN 2 * o[n \div 2 + 1]
     ELSE o[n \div 2] + o[n \div 2 + 1]

TwiceU(base, head) ==
  LET pairs == (DOMAIN head) \X (DOMAIN base)
  IN 2 * Cardinality({p \in pairs : head[p[1]] > base[p[2]]})
     + Cardinality({p \in pairs : head[p[1]] = base[p[2]]})

WaysHeadOnly(m, n) ==  \* Seeded defect: a head sample beats j - 1.
  LET f[i \in 0 .. m, j \in 0 .. n, u \in 0 .. m * n] ==
        IF i = 0 \/ j = 0 THEN (IF u = 0 THEN 1 ELSE 0)
        ELSE (IF u - j + 1 >= 0 THEN f[i - 1, j, u - j + 1] ELSE 0)
             + f[i, j - 1, u]
  IN [u \in 0 .. m * n |-> f[m, n, u]]

(* uDistribution: how many rankings of i head and j base samples have U = u. The
   largest sample is a head sample, which beats all j, or a base sample. *)
Ways(m, n) ==
  LET f[i \in 0 .. m, j \in 0 .. n, u \in 0 .. m * n] ==
        IF i = 0 \/ j = 0 THEN (IF u = 0 THEN 1 ELSE 0)
        ELSE (IF u - j >= 0 THEN f[i - 1, j, u - j] ELSE 0) + f[i, j - 1, u]
  IN [u \in 0 .. m * n |-> f[m, n, u]]

CeilU(twiceU) == (twiceU + 1) \div 2

(* slowerPValue: at least this U, of all rankings. Half a win that ties leave over is
   rounded up. *)
SlowerPValue(base, head) ==
  IF base = << >> \/ head = << >> THEN <<1, 1>>
  ELSE LET ways == Ways(Len(head), Len(base))
           least == CeilU(TwiceU(base, head))
       IN <<FoldFunctionOnSet(+, 0, ways, {u \in DOMAIN ways : u >= least}),
            FoldFunction(+, 0, ways)>>

Significant(p) == 100 * p[1] < AlphaPercent * p[2]

(* judge, for a benchmark that failed on neither build *)
Judgement(base, head) ==
  LET b == Median(base)
      h == Median(head)
  IN CASE b > 0 /\ 100 * (h - b) > ThresholdPercent * b
             /\ Significant(SlowerPValue(base, head)) -> "REGRESSION"
       [] b > 0 /\ 100 * (b - h) > ThresholdPercent * b
             /\ Significant(SlowerPValue(head, base)) -> "faster"
       [] OTHER -> "ok"

(***************************************************************************)
(* assignShard: heaviest first, each to the lightest shard so far, the     *)
(* first of equals. Every shard's process computes this for itself.        *)
(***************************************************************************)
Heaviest(weights) == SortSeq(weights, >)

Lightest(load) ==
  CHOOSE s \in DOMAIN load : \A r \in DOMAIN load :
    load[s] < load[r] \/ (load[s] = load[r] /\ s <= r)

Loads(weights, count) ==
  FoldLeft(LAMBDA load, w : [load EXCEPT ![Lightest(load)] = @ + w],
           [s \in 1 .. count |-> 0], Heaviest(weights))

Assigned(weights, count) ==
  [k \in DOMAIN weights |->
     Lightest(Loads(SubSeq(Heaviest(weights), 1, k - 1), count))]

AssignShard(weights, index, count) ==
  {k \in DOMAIN weights : Assigned(weights, count)[k] = index}
=============================================================================
