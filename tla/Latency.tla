------------------------------ MODULE Latency -------------------------------
(***************************************************************************)
(* Histograms of latencies: a count for each interval between two edges,   *)
(* and one for what is beyond the last.  There are two tables of edges.    *)
(* The sum of the latencies is left out: it is kept next to the total in   *)
(* the same way.                                                           *)
(***************************************************************************)
EXTENDS Naturals, SequencesExt

CONSTANT Edges  \* LatencyEdgesFor: the edges of each scale

Scales == {"io", "long"}

ASSUME LatencyAssumption == Edges \in [Scales -> Seq(Nat)]

Histograms == [counts : Seq(Nat), total : Nat, failures : Nat, scale : Scales]

Zeros(scale) == [i \in 1..(Len(Edges[scale]) + 1) |-> 0]

NewLatencyHistogramScale(scale) ==
    [counts |-> Zeros(scale), total |-> 0, failures |-> 0, scale |-> scale]

ensureCounts(h) ==
    IF Len(h.counts) = Len(Edges[h.scale]) + 1 THEN h
                                               ELSE [h EXCEPT !.counts = Zeros(h.scale)]

\* The first edge that us does not exceed, or the overflow.
BucketOf(scale, us) ==
    LET above == {i \in DOMAIN Edges[scale] : us <= Edges[scale][i]}
    IN  IF above = {} THEN Len(Edges[scale]) + 1
                      ELSE CHOOSE i \in above : \A j \in above : i <= j

ObserveUs(h, us) ==
    [ensureCounts(h) EXCEPT !.total = @ + 1, !.counts[BucketOf(h.scale, us)] = @ + 1]

\* Mutant: the overflow is left out.
Merge_DropsOverflow(h, other) ==
    LET g == ensureCounts([h EXCEPT !.scale = IF @ = "io" THEN other.scale ELSE @])
    IN  [g EXCEPT !.total = @ + other.total,
                  !.failures = @ + other.failures,
                  !.counts = [i \in DOMAIN @ |->
                      @[i] + IF i < Len(other.counts) THEN other.counts[i] ELSE 0]]

\* The scale that is not the zero value is preferred.
Merge(h, other) ==
    LET g == ensureCounts([h EXCEPT !.scale = IF @ = "io" THEN other.scale ELSE @])
    IN  [g EXCEPT !.total = @ + other.total,
                  !.failures = @ + other.failures,
                  !.counts = [i \in DOMAIN @ |->
                      @[i] + IF i <= Len(other.counts) THEN other.counts[i] ELSE 0]]

\* Every success is in one bucket.
AddsUp(h) == h.total = SumFunction(h.counts)
=============================================================================
