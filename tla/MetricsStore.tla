---------------------------- MODULE MetricsStore ----------------------------
(***************************************************************************)
(* The controller's store of metrics.  Samples of the clients come in      *)
(* through a channel; one goroutine adds them to a bucket for each second  *)
(* and moves the buckets of past seconds to the history that is charted.   *)
(*                                                                         *)
(* Abstractions.  A sample counts operations of one kind, and has one      *)
(* histogram; the other counters and histograms are treated the same way.  *)
(* Operations are charted in fractions, Unit to an operation, so that they *)
(* can be spread over the seconds of a window.                             *)
(***************************************************************************)
EXTENDS Integers, Latency

CONSTANTS
    Windows,    \* lengths of the windows that clients report on, in seconds
    Unit,       \* the fractions of an operation
    Late,       \* how far a client's clock may be behind
    Ahead,      \* how far a client's clock may be ahead
    InCap,      \* capacity of the channel of samples
    Retention,  \* how long the history reaches back
    CatchUp,    \* how many missing seconds are filled in at a time
    \* Bounds.
    MaxTime,    \* on the time
    MaxRuns     \* on the number of runs

ASSUME MetricsAssumption ==
    /\ Windows \subseteq Nat \ {0} /\ Windows # {} /\ IsFiniteSet(Windows)
    /\ Unit \in Nat /\ \A w \in Windows : Unit % w = 0
    /\ {Late, Ahead, Retention, CatchUp} \subseteq Nat
    /\ {InCap, MaxTime, MaxRuns} \subseteq Nat \ {0}

VARIABLES
    now,        \* the controller's clock
    recording,  \* MetricsStore.recording
    history,    \* MetricsStore.history: a sequence of [sec, ops]
    buckets,    \* MetricsStore.buckets: operations of each second with a bucket
    totals,     \* MetricsStore.totals: number of operations
    latencies,  \* MetricsStore.latencies
    in,         \* MetricsStore.in: samples on their way to the goroutine
    runNo,      \* number of runs begun
    \* Ghosts.
    trimmed,    \* what has left the history
    ofRun,      \* operations of the present run that were counted
    gone        \* samples that were lost, or counted in earlier runs: their
                \* operations and latencies

store == <<recording, history, buckets, totals, latencies>>
ghosts == <<trimmed, ofRun, gone>>
storeVars == <<now, store, in, runNo, ghosts>>

Seconds == (1 - Max(Windows))..(MaxTime + Ahead)
Points == [sec : Seconds, ops : Nat]
Samples == [sec : Seconds, windows : Windows, ops : Nat, lat : Histograms]
\* A sample in the goroutine's channel; the run is a ghost.
Queued == [sec : Seconds, windows : Windows, ops : Nat, lat : Histograms, run : 0..MaxRuns]
InRun(s) == [sec |-> s.sec, windows |-> s.windows, ops |-> s.ops, lat |-> s.lat, run |-> runNo]

\* The histogram of this kind of operation.
NewLatencies == NewLatencyHistogramScale("io")

StoreTypeOK ==
    /\ now \in 1..MaxTime
    /\ recording \in BOOLEAN
    /\ history \in Seq(Points)
    /\ DOMAIN buckets \subseteq Seconds
    /\ \A s \in DOMAIN buckets : buckets[s] \in Nat
    /\ totals \in Nat
    /\ latencies \in Histograms
    /\ in \in Seq(Queued)
    /\ Len(in) <= InCap
    /\ runNo \in 0..MaxRuns
    /\ trimmed \in Nat
    /\ ofRun \in Nat
    /\ gone \in [ops : Nat, lat : Nat]

StoreInit ==
    /\ now = 1
    /\ recording = FALSE
    /\ history = << >>
    /\ buckets = << >>
    /\ totals = 0
    /\ latencies = NewLatencies
    /\ in = << >>
    /\ runNo = 0
    /\ trimmed = 0
    /\ ofRun = 0
    /\ gone = [ops |-> 0, lat |-> 0]

-----------------------------------------------------------------------------
(***************************************************************************)
(* The helpers, as functions of the history h and the buckets b.           *)
(***************************************************************************)
\* The operations in a sequence of points or of samples.
Ops(queue) == SumFunction([i \in DOMAIN queue |-> queue[i].ops])

\* The elements of a set of seconds, the earliest first.
InOrder(S) ==
    [i \in 1..Cardinality(S) |-> CHOOSE s \in S : Cardinality({t \in S : t <= s}) = i]

\* The index of the point that is patched for second s, or 0.  The search goes
\* back to the first point that is not later than s.
PointOf(h, s) ==
    LET upTo == {i \in DOMAIN h : h[i].sec <= s}
    IN IF upTo # {} /\ h[Max(upTo)].sec = s THEN Max(upTo) ELSE 0

\* creditSecond of inc for every second of window.
CreditedBuckets(h, b, window, inc) ==
    [s \in DOMAIN b \cup {t \in window : PointOf(h, t) = 0} |->
        (IF s \in DOMAIN b THEN b[s] ELSE 0) + (IF s \in window THEN inc ELSE 0)]

\* Mutant: only open buckets take operations.
CreditedHistory_Unpatched(h, b, window, inc) == h

CreditedHistory(h, b, window, inc) ==
    [i \in DOMAIN h |->
        [h[i] EXCEPT !.ops = @ +
            inc * Cardinality({s \in window \ DOMAIN b : PointOf(h, s) = i})]]

ensureSecondsThrough(h, b, sec) ==
    LET next  == IF h = << >> THEN sec ELSE Last(h).sec + 1
        start == IF sec - next > CatchUp THEN sec - CatchUp ELSE next
    IN [s \in DOMAIN b \cup start..sec |-> IF s \in DOMAIN b THEN b[s] ELSE 0]

Due(b, sec) == {s \in DOMAIN b : s < sec}

\* flushClosed: what becomes of the history and of the buckets.
FlushedHistory(h, b, sec) ==
    LET due == InOrder(Due(b, sec))
    IN h \o [i \in DOMAIN due |-> [sec |-> due[i], ops |-> b[due[i]]]]

FlushedBuckets(b, sec) == [s \in DOMAIN b \ Due(b, sec) |-> b[s]]

\* The number of points trim drops from the front.
TrimCount(h) ==
    LET kept == {i \in DOMAIN h : h[i].sec >= now - Retention}
    IN IF kept = {} THEN Len(h) ELSE Min(kept) - 1

\* The history becomes h but for what trim drops.
Trimmed(h) ==
    LET n == TrimCount(h)
    IN  /\ history' = SubSeq(h, n + 1, Len(h))
        /\ trimmed' = trimmed + Ops(SubSeq(h, 1, n))

-----------------------------------------------------------------------------
\* What becomes of the ghost when samples are lost.
Gone(ops, lat) == gone' = [ops |-> gone.ops + ops, lat |-> gone.lat + lat]

\* A full channel drops the sample.
Add(sample) ==
    /\ \/ /\ Len(in) < InCap
          /\ in' = Append(in, InRun(sample))
          /\ UNCHANGED gone
       \/ /\ Len(in) = InCap
          /\ Gone(sample.ops, sample.lat.total)
          /\ UNCHANGED in
    /\ UNCHANGED <<now, store, runNo, trimmed, ofRun>>

\* apply, for a sample that comes when nothing is recorded.
Ignore ==
    /\ in # << >>
    /\ ~recording
    /\ in' = Tail(in)
    /\ Gone(Head(in).ops, Head(in).lat.total)
    /\ UNCHANGED <<now, store, runNo, trimmed, ofRun>>

apply ==
    /\ in # << >>
    /\ recording
    /\ in' = Tail(in)
    /\ LET s == Head(in)
           window == (s.sec - s.windows + 1)..s.sec
           inc == (s.ops * Unit) \div s.windows
           h == CreditedHistory(history, buckets, window, inc)
           b == CreditedBuckets(history, buckets, window, inc)
       IN  /\ totals' = totals + s.ops
           /\ latencies' = Merge(latencies, s.lat)
           /\ ofRun' = ofRun + (IF s.run = runNo THEN s.ops ELSE 0)
           /\ buckets' = FlushedBuckets(b, s.sec)
           /\ Trimmed(FlushedHistory(h, b, s.sec))
    /\ UNCHANGED <<now, recording, runNo, gone>>

\* The goroutine's ticker.
Flush ==
    /\ recording
    /\ LET b == ensureSecondsThrough(history, buckets, now)
       IN  /\ buckets' = FlushedBuckets(b, now)
           /\ Trimmed(FlushedHistory(history, b, now))
    /\ UNCHANGED <<now, recording, totals, latencies, in, runNo, ofRun, gone>>

\* Runs follow one another, and each has its Freeze before the next begins.
Begin ==
    /\ ~recording
    /\ runNo < MaxRuns
    /\ runNo' = runNo + 1
    /\ recording' = TRUE
    /\ history' = << >>
    /\ buckets' = << >>
    /\ totals' = 0
    /\ latencies' = NewLatencies
    /\ trimmed' = 0
    /\ ofRun' = 0
    /\ Gone(totals, latencies.total)
    /\ UNCHANGED <<now, in>>

\* Mutant: the bucket of the present second stays open.
Freeze_KeepsOpen ==
    /\ recording' = FALSE
    /\ history' = FlushedHistory(history, buckets, now)
    /\ buckets' = FlushedBuckets(buckets, now)
    /\ UNCHANGED <<now, totals, latencies, in, runNo, ghosts>>

\* Freeze comes once or more in a run.
Freeze ==
    /\ recording' = FALSE
    /\ history' = FlushedHistory(history, buckets, now + 1)
    /\ buckets' = FlushedBuckets(buckets, now + 1)
    /\ UNCHANGED <<now, totals, latencies, in, runNo, ghosts>>

Tick ==
    /\ now < MaxTime
    /\ now' = now + 1
    /\ UNCHANGED <<store, in, runNo, ghosts>>

\* All steps but that of Add.
StoreNext ==
    \/ Ignore
    \/ apply
    \/ Flush
    \/ Begin
    \/ Freeze
    \/ Tick

-----------------------------------------------------------------------------
(***************************************************************************)
(* Properties                                                              *)
(***************************************************************************)

\* The charts and the totals tell of the same operations: each operation of a
\* sample is in exactly one bucket or point, however late, early or long the
\* sample is, and whether its seconds were open, charted, or never seen.
ChartsMatchTotals == totals * Unit = SumFunction(buckets) + Ops(history) + trimmed

\* Freeze "seals open buckets into history": the charts of a run that is over
\* are complete up to the controller's clock, and no point that was charted is
\* changed or taken away until the next run, whatever comes in.
FrozenIsComplete ==
    [][ /\ recording /\ ~recording' => \A s \in DOMAIN buckets' : s > now
        /\ ~recording /\ ~recording' =>
               IsPrefix(history, history') /\ UNCHANGED totals ]_storeVars

-----------------------------------------------------------------------------
(***************************************************************************)
(* Claims the code does not keep                                           *)
(***************************************************************************)

\* flushClosed "promotes buckets older than currentSec into history in time
\* order": each second has one point at most, and later seconds have later
\* points.  A sample may be credited to seconds before the first of the history.
HistoryInOrder ==
    \A i, j \in DOMAIN history : i < j => history[i].sec < history[j].sec

\* Freeze "seals open buckets into history": none is left, also of a client whose
\* clock is ahead.
FrozenIsSealed == ~recording => buckets = << >>

\* "RunTotals is cumulative work observed during the current (or last) run".
TotalsAreOfTheRun == totals = ofRun
=============================================================================
