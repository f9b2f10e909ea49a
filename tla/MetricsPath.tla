---------------------------- MODULE MetricsPath -----------------------------
(***************************************************************************)
(* From the operations of a client to the metrics of the controller.  The  *)
(* worker counts each operation and its latency; the metrics loop takes    *)
(* the latencies, then the counters, and sends them as a sample; the       *)
(* handler of the connection passes the samples of a participant to the    *)
(* store (module MetricsStore).                                            *)
(*                                                                         *)
(* Abstractions.  One client and one kind of operation.  The loop takes    *)
(* the counters in one step.  Whether the client is a participant when a   *)
(* sample arrives is left open.                                            *)
(***************************************************************************)
EXTENDS MetricsStore

CONSTANTS
    Durations,  \* how long an operation may take
    \* Bounds.
    MaxOps,     \* on the number of operations
    MaxSamples  \* on the number of samples

ASSUME PathAssumption ==
    /\ Durations \subseteq Nat
    /\ {MaxOps, MaxSamples} \subseteq Nat

VARIABLES
    stats,      \* Stats: the counter and the histogram
    worker,     \* runCreate, in and out of the counting of an operation
    loop,       \* where metricsLoop is
    taken,      \* its sample, but for the window
    wire,       \* samples on their way to the controller
    samples,    \* number of samples begun
    \* Ghost.
    observed    \* number of operations observed

client == <<stats, worker, loop, taken>>
vars == <<storeVars, client, wire, samples, observed>>

NoStats == [ops |-> 0, lat |-> NewLatencies]
NoSample == [ops |-> 0, lat |-> NewLatencies, sec |-> 0]
\* The sample sent.
OfWindow(w) == [sec |-> taken.sec, windows |-> w, ops |-> taken.ops, lat |-> taken.lat]

TypeOK ==
    /\ StoreTypeOK
    /\ stats \in [ops : Nat, lat : Histograms]
    /\ worker \in {"works", "observed"}
    /\ loop \in {"waits", "swaps", "sends"}
    /\ taken \in [ops : Nat, lat : Histograms, sec : Seconds]
    /\ wire \in Seq(Samples)
    /\ samples \in 0..MaxSamples
    /\ observed \in 0..MaxOps

Init ==
    /\ StoreInit
    /\ stats = NoStats
    /\ worker = "works"
    /\ loop = "waits"
    /\ taken = NoSample
    /\ wire = << >>
    /\ samples = 0
    /\ observed = 0

-----------------------------------------------------------------------------
(***************************************************************************)
(* The worker                                                              *)
(***************************************************************************)

\* ObserveCreate, which takes the mutex of the latencies.
Observe(us) ==
    /\ worker = "works"
    /\ observed < MaxOps
    /\ observed' = observed + 1
    /\ stats' = [stats EXCEPT !.lat = ObserveUs(@, us)]
    /\ worker' = "observed"
    /\ UNCHANGED <<storeVars, loop, taken, wire, samples>>

\* The counter is atomic.
CountOp ==
    /\ worker = "observed"
    /\ stats' = [stats EXCEPT !.ops = @ + 1]
    /\ worker' = "works"
    /\ UNCHANGED <<storeVars, loop, taken, wire, samples, observed>>

-----------------------------------------------------------------------------
(***************************************************************************)
(* SnapshotAndReset and metricsLoop                                        *)
(***************************************************************************)

\* Mutant: the latencies are not reset.
TakeLatencies_Keeps ==
    /\ loop = "waits"
    /\ samples < MaxSamples
    /\ samples' = samples + 1
    /\ taken' = [taken EXCEPT !.lat = stats.lat]
    /\ loop' = "swaps"
    /\ UNCHANGED <<storeVars, stats, worker, wire, observed>>

TakeLatencies ==
    /\ loop = "waits"
    /\ samples < MaxSamples
    /\ samples' = samples + 1
    /\ taken' = [taken EXCEPT !.lat = stats.lat]
    /\ stats' = [stats EXCEPT !.lat = NewLatencies]
    /\ loop' = "swaps"
    /\ UNCHANGED <<storeVars, worker, wire, observed>>

SwapCounters(sec) ==
    /\ loop = "swaps"
    /\ taken' = [taken EXCEPT !.ops = stats.ops, !.sec = sec]
    /\ stats' = [stats EXCEPT !.ops = 0]
    /\ loop' = "sends"
    /\ UNCHANGED <<storeVars, worker, wire, samples, observed>>

\* The interval is that of the latest message; a write that fails loses the
\* sample.
SendSample ==
    /\ loop = "sends"
    /\ \/ /\ \E w \in Windows : wire' = Append(wire, OfWindow(w))
          /\ UNCHANGED gone
       \/ Gone(taken.ops, taken.lat.total) /\ UNCHANGED wire
    /\ taken' = NoSample
    /\ loop' = "waits"
    /\ UNCHANGED <<now, store, in, runNo, trimmed, ofRun, stats, worker, samples, observed>>

-----------------------------------------------------------------------------
(***************************************************************************)
(* The handler of the connection                                           *)
(***************************************************************************)
Receive ==
    /\ wire # << >>
    /\ wire' = Tail(wire)
    /\ \/ runNo > 0 /\ Add(Head(wire))
       \/ /\ Gone(Head(wire).ops, Head(wire).lat.total)
          /\ UNCHANGED <<now, store, in, runNo, trimmed, ofRun>>
    /\ UNCHANGED <<client, samples, observed>>

-----------------------------------------------------------------------------
ClientNext ==
    \/ \E us \in Durations : Observe(us)
    \/ CountOp
    \/ TakeLatencies
    \/ \E sec \in (now - Late)..(now + Ahead) : sec > 0 /\ SwapCounters(sec)
    \/ SendSample

Next ==
    \/ ClientNext
    \/ Receive
    \/ StoreNext /\ UNCHANGED <<client, wire, samples, observed>>

Spec == Init /\ [][Next]_vars

-----------------------------------------------------------------------------
(***************************************************************************)
(* Properties                                                              *)
(***************************************************************************)
Latencies(queue) == SumFunction([i \in DOMAIN queue |-> queue[i].lat.total])

\* Although latencies and counters are taken one after the other while the
\* worker goes on, no operation is forgotten and none counted twice, and the
\* same holds of the latencies: each is still at the client, on its way,
\* recorded, or in a sample that was lost or recorded in an earlier run.
OperationsConserved ==
    /\ observed = (IF worker = "observed" THEN 1 ELSE 0) + stats.ops + taken.ops
                      + Ops(wire) + Ops(in) + totals + gone.ops
    /\ observed = stats.lat.total + taken.lat.total
                      + Latencies(wire) + Latencies(in) + latencies.total + gone.lat

\* However the histograms were merged, every latency is in one bucket: the
\* percentiles that are read from the buckets are of all operations.
HistogramsAddUp == AddsUp(latencies) /\ AddsUp(stats.lat)
=============================================================================
