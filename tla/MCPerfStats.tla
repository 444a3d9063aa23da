---------------------------- MODULE MCPerfStats ----------------------------
(***************************************************************************)
(* The arithmetic against its definitions, over all small inputs.          *)
(***************************************************************************)
EXTENDS PerfStats

CONSTANTS MaxSamples,  \* bound on the samples per build
          MaxTime,     \* bound on a sample
          MaxBenches,  \* bound on the benchmarks
          MaxShards    \* bound on the shards

VARIABLE input

SampleLists == UNION {[1 .. n -> 1 .. MaxTime] : n \in 1 .. MaxSamples}
Weights == UNION {[1 .. n -> {1, 2, 6}] : n \in 1 .. MaxBenches}

Init == \/ input \in [base : SampleLists, head : SampleLists, weights : {<<1>>},
                      shards : {1}]
        \/ input \in [base : {<<1>>}, head : {<<1>>}, weights : Weights,
                      shards : 2 .. MaxShards]

(* The exact test by its definition: every choice of as many of the pooled samples as
   head has is as likely to be head's, and AtLeast counts those that win as many pairs
   as head did. Equal samples are put in an order, all of head's above base's or all
   below. *)
Pooled == input.head \o input.base

Above(i, j, headFirst) ==
  Pooled[i] > Pooled[j] \/ (Pooled[i] = Pooled[j] /\ (IF headFirst THEN i < j ELSE i > j))

Won(S, headFirst) ==
  Cardinality({<<h, b>> \in S \X ((DOMAIN Pooled) \ S) : Above(h, b, headFirst)})

HeadChoices == kSubset(Len(input.head), DOMAIN Pooled)

AtLeast(headFirst) ==
  Cardinality({S \in HeadChoices : Won(S, headFirst) >= Won(DOMAIN input.head, headFirst)})

(* slowerPValue is the exact p-value of samples without ties, where the two orders are
   one. Its comment calls ties approximate, and so it is: half a win for each, rounded
   up, which makes p smaller (1/2 for one sample on each side and a tie), but never
   smaller than if head had won all ties, nor larger than if it had lost them. *)
RankTestIsRight ==
  LET p == SlowerPValue(input.base, input.head)
  IN /\ p[2] = Cardinality(HeadChoices)
     /\ AtLeast(TRUE) <= p[1] /\ p[1] <= AtLeast(FALSE)

Turned(s) == Append(Tail(s), Head(s))

(* The verdict does not depend on the order of the samples, and a build is
   never found to be slower than itself. *)
JudgementIsFair ==
  LET b == input.base
      h == input.head
  IN /\ Judgement(b, b) = "ok"
     /\ Judgement(Turned(b), h) = Judgement(b, Turned(h))
     /\ Judgement(b, h) = "REGRESSION" => Judgement(h, b) \in {"faster", "ok"}

(* Every benchmark is run by exactly one shard, and no shard is heavier than
   another by more than one benchmark. *)
ShardsPartition ==
  LET shards == 1 .. input.shards
      load(s) == FoldFunctionOnSet(+, 0, Heaviest(input.weights),
                   AssignShard(input.weights, s, input.shards))
  IN /\ \A k \in DOMAIN input.weights :
          Cardinality({s \in shards :
             k \in AssignShard(input.weights, s, input.shards)}) = 1
     /\ \A s, r \in shards : load(s) <= load(r) + Max(Range(input.weights))

(* The arithmetic the gate rests on: the rank test is exact but for ties, the verdict
   fair, and the shards share out the benchmarks. *)
ArithmeticIsRight == RankTestIsRight /\ JudgementIsFair /\ ShardsPartition
=============================================================================
