------------------------- MODULE SoftwareTreeProofs -------------------------
(***************************************************************************)
(* Proofs about SoftwareTree, for any clients, any prefixes, any choice of *)
(* a prefix for each client, and any number of runs.                       *)
(***************************************************************************)
EXTENDS SoftwareTree, SequenceTheorems, TLAPS

StepRecords == [kind : StepKinds, of : Artifacts]
Trees == [Artifacts -> Contents]

-----------------------------------------------------------------------------
(***************************************************************************)
(* The steps of a run                                                      *)
(***************************************************************************)

\* The background removal is the last step, and the only one of its kind; what
\* a command is about was prepared in the step before, or used there.
Shape(s) ==
    /\ s \in Seq(StepRecords)
    /\ s # << >> => s[Len(s)].kind = "removeAsync"
    /\ \A i \in 1..Len(s) : s[i].kind = "removeAsync" => i = Len(s)
    /\ \A i \in 1..Len(s) : \A j \in 1..Len(s) :
           j = i + 1 /\ s[j].kind = "use" =>
               s[i].kind \in {"prepare", "use"} /\ s[i].of = s[j].of

\* What is left of a run's steps after the first of them.
LEMMA TailShape ==
    ASSUME NEW s, Shape(s), s # << >>
    PROVE  /\ Shape(Tail(s))
           /\ Head(s) \in StepRecords
           /\ Head(s).kind = "removeAsync" <=> Tail(s) = << >>
           /\ Tail(s) # << >> /\ Head(Tail(s)).kind = "use" =>
                  Head(s).kind \in {"prepare", "use"} /\ Head(s).of = Head(Tail(s)).of
  <1> DEFINE t == Tail(s)
  <1>1. /\ s \in Seq(StepRecords)
        /\ Len(s) \in Nat \ {0}
        /\ Head(s) = s[1]
        /\ s[1] \in StepRecords
    BY DEF Shape
  <1>2. /\ t \in Seq(StepRecords)
        /\ Len(t) = Len(s) - 1
        /\ \A i \in 1..Len(t) : t[i] = s[i + 1]
    <2>1. s \in Seq(StepRecords) /\ s # << >>
      BY DEF Shape
    <2> HIDE DEF Shape
    <2>2. t \in Seq(StepRecords) /\ Len(t) = Len(s) - 1
      BY <2>1
    <2>3. \A i \in 1..Len(t) : t[i] = s[i + 1]
      BY <2>1
    <2> QED BY <2>2, <2>3
  <1> HIDE DEF t
  <1>a. /\ Len(t) \in Nat
        /\ t = << >> <=> Len(t) = 0
        /\ t # << >> => Head(t) = t[1]
    BY <1>2
  <1>3. t # << >> => t[Len(t)].kind = "removeAsync"
    BY <1>1, <1>2, <1>a DEF Shape
  <1>4. \A i \in 1..Len(t) : t[i].kind = "removeAsync" => i = Len(t)
    BY <1>1, <1>2, <1>a DEF Shape
  <1>5. \A i \in 1..Len(t) : \A j \in 1..Len(t) :
           j = i + 1 /\ t[j].kind = "use" =>
               t[i].kind \in {"prepare", "use"} /\ t[i].of = t[j].of
    <2> SUFFICES ASSUME NEW i \in 1..Len(t), NEW j \in 1..Len(t),
                        j = i + 1, t[j].kind = "use"
                 PROVE  t[i].kind \in {"prepare", "use"} /\ t[i].of = t[j].of
      OBVIOUS
    <2>1. /\ i + 1 \in 1..Len(s)
          /\ j + 1 \in 1..Len(s)
          /\ j + 1 = (i + 1) + 1
          /\ t[i] = s[i + 1]
          /\ t[j] = s[j + 1]
      BY <1>2, <1>a
    <2> QED BY <2>1 DEF Shape
  <1>6. Shape(t)
    BY <1>2, <1>a, <1>3, <1>4, <1>5 DEF Shape
  <1>7. Head(s).kind = "removeAsync" <=> t = << >>
    <2>1. 1 \in 1..Len(s)
      BY <1>1
    <2> QED BY <1>1, <1>2, <1>a, <2>1 DEF Shape
  <1>8. t # << >> /\ Head(t).kind = "use" =>
            Head(s).kind \in {"prepare", "use"} /\ Head(s).of = Head(t).of
    <2> SUFFICES ASSUME t # << >>, Head(t).kind = "use"
                 PROVE  Head(s).kind \in {"prepare", "use"} /\ Head(s).of = Head(t).of
      OBVIOUS
    <2>1. /\ 1 \in 1..Len(s)
          /\ 2 \in 1..Len(s)
          /\ Head(t) = s[2]
      BY <1>1, <1>2, <1>a
    <2> QED BY <1>1, <2>1 DEF Shape
  <1> QED BY <1>1, <1>6, <1>7, <1>8 DEF t

\* The steps that are put together so far, before the background removal.
Open(s) ==
    /\ s \in Seq(StepRecords)
    /\ s # << >> => s[1].kind = "prepare"
    /\ \A i \in 1..Len(s) : s[i].kind # "removeAsync"
    /\ \A i \in 1..Len(s) : \A j \in 1..Len(s) :
           j = i + 1 /\ s[j].kind = "use" =>
               s[i].kind \in {"prepare", "use"} /\ s[i].of = s[j].of

\* What a command is about is prepared or used last.
Ready(s, a) ==
    /\ s # << >>
    /\ s[Len(s)].kind \in {"prepare", "use"}
    /\ s[Len(s)].of = a

LEMMA OpenAppend ==
    ASSUME NEW s, Open(s), NEW r \in StepRecords,
           r.kind # "removeAsync",
           r.kind = "use" => Ready(s, r.of),
           s = << >> => r.kind = "prepare"
    PROVE  /\ Open(Append(s, r))
           /\ Append(s, r) # << >>
           /\ r.kind \in {"prepare", "use"} => Ready(Append(s, r), r.of)
  <1> DEFINE t == Append(s, r)
  <1>1. /\ s \in Seq(StepRecords)
        /\ Len(s) \in Nat
        /\ s = << >> <=> Len(s) = 0
    BY DEF Open
  <1>2. /\ t \in Seq(StepRecords)
        /\ Len(t) = Len(s) + 1
        /\ \A i \in 1..Len(s) : t[i] = s[i]
        /\ t[Len(s) + 1] = r
    BY <1>1
  <1>3. t # << >>
    BY <1>1, <1>2
  <1> HIDE DEF t
  <1>4. t[1].kind = "prepare"
    <2>1. CASE s = << >>
      BY <1>1, <1>2, <2>1
    <2>2. CASE s # << >>
      BY <1>1, <1>2, <2>2 DEF Open
    <2> QED BY <2>1, <2>2
  <1>5. \A i \in 1..Len(t) : t[i].kind # "removeAsync"
    BY <1>1, <1>2 DEF Open
  <1>6. ASSUME NEW i \in 1..Len(t), NEW j \in 1..Len(t), j = i + 1, t[j].kind = "use"
        PROVE  t[i].kind \in {"prepare", "use"} /\ t[i].of = t[j].of
    <2>1. CASE j = Len(t)
      BY <1>1, <1>2, <1>6, <2>1 DEF Ready
    <2>2. CASE j # Len(t)
      BY <1>1, <1>2, <1>6, <2>2 DEF Open
    <2> QED BY <2>1, <2>2
  <1>7. Open(t)
    BY <1>2, <1>4, <1>5, <1>6 DEF Open
  <1>8. r.kind \in {"prepare", "use"} => Ready(t, r.of)
    BY <1>2, <1>3 DEF Ready
  <1> QED BY <1>3, <1>7, <1>8 DEF t

\* A preparation and the use of what it prepares.
LEMMA OpenBlock ==
    ASSUME NEW s, Open(s), NEW a \in Artifacts
    PROVE  LET t == s \o (Do("prepare", a) \o Do("use", a))
           IN  Open(t) /\ t # << >> /\ Ready(t, a)
  <1> DEFINE p == [kind |-> "prepare", of |-> a]
             u == [kind |-> "use", of |-> a]
             t == s \o (Do("prepare", a) \o Do("use", a))
  <1>1. p \in StepRecords /\ u \in StepRecords
    BY DEF StepRecords, StepKinds
  <1>2. p.kind = "prepare" /\ p.of = a /\ u.kind = "use" /\ u.of = a
    OBVIOUS
  <1>3. Do("prepare", a) = <<p>> /\ Do("use", a) = <<u>>
    BY DEF Do
  <1> HIDE DEF p, u
  <1>4. t = Append(Append(s, p), u)
    <2>1. s \in Seq(StepRecords)
      BY DEF Open
    <2>2. <<p>> \in Seq(StepRecords) /\ <<u>> \in Seq(StepRecords)
      BY <1>1
    <2>3. t = (s \o <<p>>) \o <<u>>
      <3>1. (s \o <<p>>) \o <<u>> = s \o (<<p>> \o <<u>>)
        BY <2>1, <2>2, ConcatAssociative
      <3>2. t = s \o (<<p>> \o <<u>>)
        BY <1>3, Zenon
      <3> QED BY <3>1, <3>2
    <2>4. s \o <<p>> = Append(s, p) /\ Append(s, p) \in Seq(StepRecords)
      BY <1>1, <2>1
    <2>5. Append(s, p) \o <<u>> = Append(Append(s, p), u)
      BY <1>1, <2>4
    <2> QED BY <2>3, <2>4, <2>5
  <1>5. Open(Append(s, p)) /\ Append(s, p) # << >> /\ Ready(Append(s, p), a)
    BY <1>1, <1>2, OpenAppend
  <1>6. LET w == Append(Append(s, p), u) IN Open(w) /\ w # << >> /\ Ready(w, a)
    BY <1>1, <1>2, <1>5, OpenAppend
  <1> QED BY <1>4, <1>6

\* The background removal at the end.
LEMMA CloseShape ==
    ASSUME NEW s, Open(s), s # << >>, NEW a \in Artifacts
    PROVE  LET t == s \o Do("removeAsync", a)
           IN  Shape(t) /\ t # << >> /\ Head(t).kind = "prepare"
  <1> DEFINE r == [kind |-> "removeAsync", of |-> a]
             t == Append(s, r)
  <1>1. r \in StepRecords /\ r.kind = "removeAsync"
    BY DEF StepRecords, StepKinds
  <1>2. s \o Do("removeAsync", a) = s \o <<r>>
    BY DEF Do
  <1> HIDE DEF r
  <1>3. /\ s \in Seq(StepRecords)
        /\ Len(s) \in Nat \ {0}
        /\ s \o <<r>> = t
    BY <1>1 DEF Open
  <1>4. /\ t \in Seq(StepRecords)
        /\ Len(t) = Len(s) + 1
        /\ \A i \in 1..Len(s) : t[i] = s[i]
        /\ t[Len(s) + 1] = r
    BY <1>1, <1>3
  <1> HIDE DEF t
  <1>5. t # << >> /\ Head(t) = t[1]
    BY <1>3, <1>4
  <1>6. Head(t).kind = "prepare"
    BY <1>3, <1>4, <1>5 DEF Open
  <1>7. \A i \in 1..Len(t) : t[i].kind = "removeAsync" => i = Len(t)
    BY <1>3, <1>4 DEF Open
  <1>8. ASSUME NEW i \in 1..Len(t), NEW j \in 1..Len(t), j = i + 1, t[j].kind = "use"
        PROVE  t[i].kind \in {"prepare", "use"} /\ t[i].of = t[j].of
    <2>1. j \in 1..Len(s) /\ i \in 1..Len(s)
      BY <1>1, <1>3, <1>4, <1>8
    <2> QED BY <1>4, <1>8, <2>1 DEF Open
  <1>9. Shape(t)
    BY <1>1, <1>4, <1>7, <1>8, <1>3 DEF Shape
  <1> QED BY <1>2, <1>3, <1>5, <1>6, <1>9

\* The steps of every plan are of that shape, and begin with a preparation.
LEMMA StepsShape ==
    ASSUME NEW plan \in (SUBSET Artifacts) \ {{}}
    PROVE  /\ Shape(Steps(plan))
           /\ Steps(plan) # << >>
           /\ Head(Steps(plan)).kind = "prepare"
  <1> DEFINE reused == {"bundle", "archive"} \cap plan # {}
             kind == IF reused THEN "remove" ELSE "removeAsync"
             block(a) == Do("prepare", a) \o Do("use", a)
             software == block("package") \o Do("use", "package")
             s1 == IF "package" \in plan
                   THEN software \o Do(kind, "package") ELSE << >>
             s2 == s1 \o (IF "bundle" \in plan THEN block("bundle") ELSE << >>)
             s3 == s2 \o (IF "archive" \in plan THEN block("archive") ELSE << >>)
             s4 == s3 \o (IF reused THEN Do("removeAsync", "archive") ELSE << >>)
  <1>1. Steps(plan) = s4
    BY DEF Steps, If
  <1>2. Open(<< >>)
    BY DEF Open
  <1>3. Open(software) /\ software # << >>
    <2>1. LET t == << >> \o block("package")
          IN  Open(t) /\ t # << >> /\ Ready(t, "package")
      BY <1>2, OpenBlock DEF Artifacts
    <2>2. block("package") \in Seq(StepRecords)
      BY DEF Do, StepRecords, StepKinds, Artifacts
    <2>3. << >> \o block("package") = block("package")
      <3> HIDE DEF block
      <3> QED BY <2>2
    <2> DEFINE u == [kind |-> "use", of |-> "package"]
    <2>4. u \in StepRecords /\ u.kind = "use" /\ u.of = "package"
      BY DEF StepRecords, StepKinds, Artifacts
    <2>5. software = Append(block("package"), u)
      <3>1. software = block("package") \o <<u>>
        BY DEF Do
      <3> HIDE DEF block, u, software
      <3> QED BY <2>2, <2>4, <3>1
    <2> HIDE DEF block, u
    <2>6. Open(block("package")) /\ block("package") # << >> /\ Ready(block("package"), "package")
      BY <2>1, <2>3
    <2>7. Open(Append(block("package"), u)) /\ Append(block("package"), u) # << >>
      BY <2>4, <2>6, OpenAppend
    <2> QED BY <2>5, <2>7
  <1> DEFINE Fine(t) == Shape(t) /\ t # << >> /\ Head(t).kind = "prepare"
  <1>4. CASE ~reused
    <2>1. /\ "package" \in plan /\ "bundle" \notin plan /\ "archive" \notin plan
          /\ kind = "removeAsync"
      BY <1>4 DEF Artifacts
    <2>2. Fine(software \o Do("removeAsync", "package"))
      <3> HIDE DEF software
      <3> QED BY <1>3, CloseShape DEF Artifacts
    <2>3. s1 = software \o Do("removeAsync", "package")
      BY <2>1
    <2>4. s1 \in Seq(StepRecords)
      BY <2>2, <2>3 DEF Shape
    <2>5. s4 = ((s1 \o << >>) \o << >>) \o << >>
      BY <1>4, <2>1
    <2> HIDE DEF s1, s4
    <2>6. s4 = s1
      BY <2>4, <2>5
    <2> QED BY <1>1, <2>2, <2>3, <2>6
  <1>5. CASE reused
    <2>1. Open(s1)
      <3>1. CASE "package" \in plan
        <4> DEFINE r == [kind |-> "remove", of |-> "package"]
        <4>1. r \in StepRecords /\ r.kind = "remove"
          BY DEF StepRecords, StepKinds, Artifacts
        <4>2. s1 = software \o <<r>>
          BY <1>5, <3>1 DEF Do
        <4> HIDE DEF r, software, s1
        <4>3. s1 = Append(software, r)
          BY <1>3, <4>1, <4>2 DEF Open
        <4> QED BY <1>3, <4>1, <4>3, OpenAppend
      <3>2. CASE "package" \notin plan
        BY <1>2, <3>2
      <3> QED BY <3>1, <3>2
    <2> HIDE DEF s1
    <2>2. Open(s2) /\ ("bundle" \in plan => s2 # << >>)
      <3>1. CASE "bundle" \in plan
        <4>1. s2 = s1 \o (Do("prepare", "bundle") \o Do("use", "bundle"))
          BY <3>1
        <4> QED BY <2>1, <4>1, OpenBlock DEF Artifacts
      <3>2. CASE "bundle" \notin plan
        <4>1. s2 = s1 \o << >>
          BY <3>2
        <4>2. s2 = s1
          <5> HIDE DEF s2
          <5> QED BY <2>1, <4>1 DEF Open
        <4> QED BY <2>1, <3>2, <4>2
      <3> QED BY <3>1, <3>2
    <2> HIDE DEF s2
    <2>3. Open(s3) /\ s3 # << >>
      <3>1. CASE "archive" \in plan
        <4>1. s3 = s2 \o (Do("prepare", "archive") \o Do("use", "archive"))
          BY <3>1
        <4> QED BY <2>2, <4>1, OpenBlock DEF Artifacts
      <3>2. CASE "archive" \notin plan
        <4>1. s3 = s2 \o << >>
          BY <3>2
        <4>2. s3 = s2
          <5> HIDE DEF s3
          <5> QED BY <2>2, <4>1 DEF Open
        <4>3. "bundle" \in plan
          BY <1>5, <3>2
        <4> HIDE DEF s3
        <4> QED BY <2>2, <4>2, <4>3
      <3> QED BY <3>1, <3>2
    <2>4. s4 = s3 \o Do("removeAsync", "archive")
      BY <1>5
    <2> HIDE DEF s3, s4
    <2>5. Fine(s4)
      BY <2>3, <2>4, CloseShape DEF Artifacts
    <2> QED BY <1>1, <2>5
  <1> QED BY <1>4, <1>5
-----------------------------------------------------------------------------
(***************************************************************************)
(* Types                                                                   *)
(***************************************************************************)

LEMMA InitTypeOK == Init => TypeOK
  <1> SUFFICES ASSUME Init PROVE TypeOK
    OBVIOUS
  <1> USE SoftwareTreeAssumption DEF Init
  <1>1. tree \in [Prefixes -> [Artifacts -> Contents]]
    BY DEF Nothing, Contents
  <1>2. steps \in Steplists /\ removers \in [Runs -> SUBSET Prefixes]
    BY DEF Steplists
  <1>3. queue \in [Clients -> Seq(Messages)] /\ job \in [Clients -> SUBSET Commands]
    BY DEF Init
  <1>4. left \in SUBSET Prefixes /\ copying \in SUBSET Prefixes
    BY DEF Init
  <1>0. run \in 0..MaxRuns
    BY DEF Init
  <1>5. /\ pc \in {"off", "step", "fetch", "copy", "wait", "remove", "done", "failed"}
        /\ cancelled \in BOOLEAN
        /\ disturbed \in BOOLEAN
    OBVIOUS
  <1>6. main \in [Clients -> {"read", "cleanup"}]
    OBVIOUS
  <1> QED BY <1>1, <1>2, <1>3, <1>4, <1>5, <1>6, <1>0 DEF TypeOK

LEMMA NothingIsATree == Nothing \in Trees
  BY DEF Nothing, Trees, Contents

LEMMA StepsTyped ==
    ASSUME NEW plan \in (SUBSET Artifacts) \ {{}}
    PROVE  Steps(plan) \in Steplists
  BY StepsShape DEF Shape, Steplists, StepRecords

\* Advance and Current need the type of the steps only.
LEMMA AdvanceTyped ==
    ASSUME TypeOK, steps # << >>
    PROVE  /\ Current \in StepRecords
           /\ Current.of \in Artifacts
           /\ Tail(steps) \in Steplists
           /\ Len(steps) \in Nat \ {0}
  <1>1. steps \in Seq(StepRecords) /\ Steplists = Seq(StepRecords)
    BY DEF TypeOK, Steplists, StepRecords
  <1>2. Head(steps) \in StepRecords /\ Tail(steps) \in Seq(StepRecords)
    BY <1>1
  <1>3. Len(steps) \in Nat \ {0}
    BY <1>1
  <1> QED BY <1>1, <1>2, <1>3 DEF StepRecords, Current

LEMMA TellTyped ==
    ASSUME TypeOK, NEW m \in Messages, Tell(m)
    PROVE  queue' \in [Clients -> Seq(Messages)]
  <1>1. \A c \in Clients : Append(queue[c], m) \in Seq(Messages)
    BY DEF TypeOK
  <1> QED BY <1>1 DEF Tell

LEMMA TreeTyped ==
    ASSUME TypeOK, NEW p \in Prefixes, NEW t \in Trees,
           tree' = [tree EXCEPT ![p] = t]
    PROVE  tree' \in [Prefixes -> Trees]
  BY DEF TypeOK, Trees

\* A run that has begun is one of the runs, and a goroutine that prepares,
\* waits or removes is in a step of that kind.
Placed ==
    /\ pc # "off" => run \in Runs
    /\ pc \in {"fetch", "copy"} => steps # << >> /\ Current.kind = "prepare"
    /\ pc = "wait" => steps # << >> /\ Current.kind = "use"
    /\ pc = "remove" => steps # << >> /\ Current.kind = "remove"
    /\ pc = "done" => steps = << >>

\* The steps that are left keep their shape.  No removal of a run goes on in the
\* background before the run has come to its end.
Ordered ==
    /\ Shape(steps)
    /\ \A r \in Runs : r > run => removers[r] = {}
    /\ steps # << >> /\ run \in Runs => removers[run] = {}

IInv == TypeOK /\ Placed /\ Ordered

LEMMA InitIInv == Init => IInv
  <1> SUFFICES ASSUME Init PROVE Placed /\ Ordered
    BY InitTypeOK DEF IInv
  <1>1. steps = << >> /\ << >> \in Seq(StepRecords) /\ Len(<< >>) = 0
    BY DEF Init
  <1>2. Shape(steps)
    BY <1>1 DEF Shape
  <1> QED BY <1>1, <1>2 DEF Init, Placed, Ordered

LEMMA NextTypeOK ==
    ASSUME IInv, [Next]_vars
    PROVE  TypeOK'
  <1> USE SoftwareTreeAssumption DEF IInv
  <1>1. ASSUME NEW plan \in (SUBSET Artifacts) \ {{}}, Start(plan) PROVE TypeOK'
    <2>1. steps' \in Steplists
      BY <1>1, StepsTyped DEF Start
    <2>2. run' \in 0..MaxRuns
      BY <1>1 DEF Start, TypeOK
    <2> QED BY <1>1, <2>1, <2>2 DEF Start, TypeOK, client
  <1>2. CASE Stop
    <2>1. run \in Runs
      BY <1>2 DEF Stop, Over, Placed
    <2>2. queue' \in [Clients -> Seq(Messages)]
      <3>1. [run |-> run, step |-> 0] \in Messages
        BY <2>1 DEF Messages
      <3> QED BY <1>2, <3>1, TellTyped DEF Stop
    <2> QED BY <1>2, <2>2 DEF Stop, TypeOK
  <1>3. CASE BeginPrepare
    BY <1>3 DEF BeginPrepare, TypeOK, client
  <1>4. CASE Fetch
    BY <1>4 DEF Fetch, GiveUp, TypeOK, client
  <1>5. ASSUME NEW p \in Prefixes, BeginCopy(p) PROVE TypeOK'
    <2> DEFINE a == Current.of
               rest == IF a = "package" THEN Nothing ELSE tree[p]
               new == [rest EXCEPT ![a] = "part"]
    <2>1. a \in Artifacts /\ rest \in Trees
      BY <1>5, AdvanceTyped, NothingIsATree DEF BeginCopy, Placed, TypeOK, Trees
    <2>2. new \in Trees
      <3> HIDE DEF a, rest
      <3> QED BY <2>1 DEF Trees, Contents
    <2>3. tree' = [tree EXCEPT ![p] = new]
      BY <1>5 DEF BeginCopy
    <2>4. tree' \in [Prefixes -> Trees]
      <3> HIDE DEF new
      <3> QED BY <2>2, <2>3, TreeTyped
    <2>5. left' \in SUBSET Prefixes /\ copying' \in SUBSET Prefixes
      BY <1>5 DEF BeginCopy, TypeOK
    <2> HIDE DEF a, rest, new
    <2> QED BY <1>5, <2>4, <2>5 DEF BeginCopy, TypeOK, Trees, client
  <1>6. ASSUME NEW p \in Prefixes, EndCopy(p) PROVE TypeOK'
    <2> DEFINE a == Current.of
    <2>1. a \in Artifacts /\ tree \in [Prefixes -> Trees]
      BY <1>6, AdvanceTyped DEF EndCopy, Placed, TypeOK, Trees
    <2>2. tree' \in [Prefixes -> Trees]
      <3>1. CASE UNCHANGED tree
        BY <2>1, <3>1
      <3>2. ASSUME NEW x \in Contents, tree' = [tree EXCEPT ![p][a] = x]
            PROVE  tree' \in [Prefixes -> Trees]
        <4> HIDE DEF a
        <4>1. [tree[p] EXCEPT ![a] = x] \in Trees
          BY <2>1 DEF Trees
        <4> QED BY <2>1, <3>2, <4>1
      <3>3. \/ UNCHANGED tree
            \/ \E x \in Contents : tree' = [tree EXCEPT ![p][a] = x]
        BY <1>6 DEF EndCopy, Contents
      <3> QED BY <3>1, <3>2, <3>3
    <2>3. pc' \in {"copy", "failed"} /\ UNCHANGED steps /\ copying' = {}
      BY <1>6 DEF EndCopy, GiveUp
    <2> QED BY <1>6, <2>2, <2>3 DEF EndCopy, TypeOK, Trees, client
  <1>7. ASSUME NEW p \in Prefixes, Remove(p) PROVE TypeOK'
    <2>1. steps # << >>
      BY <1>7 DEF Remove, Placed
    <2>2. tree' \in [Prefixes -> Trees]
      BY <1>7, TreeTyped, NothingIsATree DEF Remove
    <2>3. pc' \in {"remove", "step"} /\ steps' \in Steplists
      BY <1>7, <2>1, AdvanceTyped DEF Remove, Advance, TypeOK
    <2> QED BY <1>7, <2>2, <2>3 DEF Remove, TypeOK, Trees, client
  <1>8. CASE Prepared
    <2>1. steps' \in Steplists
      BY <1>8, AdvanceTyped DEF Prepared, Advance, Placed
    <2> QED BY <1>8, <2>1 DEF Prepared, Advance, TypeOK, client
  <1>9. CASE SendCommand
    <2>1. run \in Runs
      BY <1>9 DEF SendCommand, Placed
    <2>2. queue' \in [Clients -> Seq(Messages)]
      <3>1. [run |-> run, step |-> Len(steps)] \in Messages
        BY <1>9, <2>1, AdvanceTyped DEF SendCommand, Messages
      <3> QED BY <1>9, <3>1, TellTyped DEF SendCommand
    <2> QED BY <1>9, <2>2 DEF SendCommand, TypeOK
  <1>10. CASE WaitOver
    <2>1. pc' \in {"step", "failed"} /\ steps' \in Steplists
      BY <1>10, AdvanceTyped DEF WaitOver, Advance, GiveUp, Placed, TypeOK
    <2> QED BY <1>10, <2>1 DEF WaitOver, TypeOK, client
  <1>11. CASE BeginRemove
    BY <1>11 DEF BeginRemove, TypeOK, client
  <1>12. CASE StartRemover
    <2>1. steps' \in Steplists
      BY <1>12, AdvanceTyped DEF StartRemover, Advance
    <2> QED BY <1>12, <2>1 DEF StartRemover, Advance, TypeOK, client
  <1>13. CASE Finish
    BY <1>13 DEF Finish, TypeOK, client
  <1>14. ASSUME NEW r \in Runs, NEW p \in Prefixes, RemoverStep(r, p) PROVE TypeOK'
    <2>1. tree' \in [Prefixes -> Trees]
      BY <1>14, TreeTyped, NothingIsATree DEF RemoverStep
    <2>2. removers' \in [Runs -> SUBSET Prefixes]
      BY <1>14 DEF RemoverStep, TypeOK
    <2> QED BY <1>14, <2>1, <2>2 DEF RemoverStep, TypeOK, Trees, runner, client
  <1>15. ASSUME NEW c \in Clients, ReadStop(c) PROVE TypeOK'
    <2>1. queue' \in [Clients -> Seq(Messages)]
      <3>1. PICK i \in DOMAIN queue[c] :
                queue' = [queue EXCEPT ![c] =
                            SubSeq(@, 1, i - 1) \o SubSeq(@, i + 1, Len(@))]
        BY <1>15 DEF ReadStop
      <3> DEFINE q == queue[c]
                 new == SubSeq(q, 1, i - 1) \o SubSeq(q, i + 1, Len(q))
      <3>2. q \in Seq(Messages) /\ i \in 1..Len(q) /\ Len(q) \in Nat
        BY DEF TypeOK
      <3> HIDE DEF q
      <3>3. SubSeq(q, 1, i - 1) \in Seq(Messages)
        BY <3>2
      <3>4. SubSeq(q, i + 1, Len(q)) \in Seq(Messages)
        BY <3>2
      <3>5. new \in Seq(Messages)
        BY <3>3, <3>4
      <3> HIDE DEF new
      <3>6. queue' = [queue EXCEPT ![c] = new]
        BY <3>1 DEF q, new
      <3> QED BY <3>5, <3>6 DEF TypeOK
    <2> QED BY <1>15, <2>1 DEF ReadStop, TypeOK, runner
  <1>16. ASSUME NEW c \in Clients, Cleanup(c) PROVE TypeOK'
    <2>1. tree' \in [Prefixes -> Trees]
      BY <1>16, TreeTyped, NothingIsATree DEF Cleanup
    <2> QED BY <1>16, <2>1 DEF Cleanup, TypeOK, Trees, runner
  <1>17. ASSUME NEW c \in Clients, BeginWork(c) PROVE TypeOK'
    <2>1. Head(queue[c]) \in Commands /\ Tail(queue[c]) \in Seq(Messages)
      BY <1>17 DEF BeginWork, TypeOK, Commands
    <2> QED BY <1>17, <2>1 DEF BeginWork, TypeOK, runner
  <1>18. ASSUME NEW c \in Clients, EndWork(c) PROVE TypeOK'
    BY <1>18 DEF EndWork, TypeOK, runner
  <1>19. CASE UNCHANGED vars
    BY <1>19 DEF vars, runner, client, TypeOK
  <1> QED
    BY <1>1, <1>2, <1>3, <1>4, <1>5, <1>6, <1>7, <1>8, <1>9, <1>10, <1>11, <1>12,
       <1>13, <1>14, <1>15, <1>16, <1>17, <1>18, <1>19
       DEF Next, RunNext, RemoverNext, ClientNext

\* The type invariant, and the order of the steps.
LEMMA NextIInv == IInv /\ [Next]_vars => IInv'
  <1> SUFFICES ASSUME IInv, [Next]_vars PROVE Placed' /\ Ordered'
    BY NextTypeOK DEF IInv
  <1> USE SoftwareTreeAssumption DEF IInv
  <1>a. steps # << >> =>
            /\ Shape(Tail(steps))
            /\ Current.kind = "removeAsync" <=> Tail(steps) = << >>
    BY TailShape DEF Ordered, Current
  <1>b. run \in 0..MaxRuns /\ removers \in [Runs -> SUBSET Prefixes]
    BY DEF TypeOK
  \* A step that goes on to the next of the run's steps without a removal.
  <1>c. ASSUME pc # "off", steps # << >>, Advance, UNCHANGED <<run, removers>>
        PROVE  Placed' /\ Ordered'
    <2>1. pc' = "step" /\ steps' = Tail(steps) /\ run \in Runs /\ removers[run] = {}
      BY <1>c DEF Advance, Placed, Ordered
    <2>2. Shape(steps')
      BY <1>a, <1>c, <2>1
    <2>3. Placed'
      BY <1>c, <2>1 DEF Placed
    <2> QED BY <1>c, <2>1, <2>2, <2>3 DEF Ordered
  \* A step that stays with the current one of the run's steps.
  <1>d. ASSUME UNCHANGED <<run, steps, removers>>,
               pc' = pc \/ pc' \in {"step", "failed"},
               pc' # "off" => pc # "off"
        PROVE  Placed' /\ Ordered'
    <2>1. Current' = Current
      BY <1>d DEF Current
    <2>2. Placed'
      BY <1>d, <2>1 DEF Placed
    <2> QED BY <1>d, <2>2 DEF Ordered
  <1>1. ASSUME NEW plan \in (SUBSET Artifacts) \ {{}}, Start(plan)
        PROVE  Placed' /\ Ordered'
    <2>1. Shape(steps')
      BY <1>1, StepsShape DEF Start
    <2>2. run' = run + 1 /\ run' \in Runs /\ pc' = "step" /\ UNCHANGED removers
      BY <1>1, <1>b DEF Start, Runs
    <2>3. Placed'
      BY <2>2 DEF Placed
    <2>4. \A r \in Runs : r >= run' => removers[r] = {}
      BY <1>b, <2>2 DEF Ordered, Runs
    <2> QED BY <1>b, <2>1, <2>2, <2>3, <2>4 DEF Ordered, Runs
  <1>2. CASE Stop
    BY <1>2, <1>d DEF Stop
  <1>3. CASE BeginPrepare
    <2>1. Current' = Current /\ pc' = "fetch" /\ UNCHANGED <<run, steps, removers>>
      BY <1>3 DEF BeginPrepare, Current
    <2>2. Placed'
      BY <1>3, <2>1 DEF BeginPrepare, Placed
    <2> QED BY <2>1, <2>2 DEF Ordered
  <1>4. CASE Fetch
    <2>1. Current' = Current /\ pc' \in {"copy", "failed"} /\ UNCHANGED <<run, steps, removers>>
      BY <1>4 DEF Fetch, GiveUp, Current
    <2>2. Placed'
      BY <1>4, <2>1 DEF Fetch, Placed
    <2> QED BY <2>1, <2>2 DEF Ordered
  <1>5. ASSUME NEW p \in Prefixes, BeginCopy(p) PROVE Placed' /\ Ordered'
    BY <1>5, <1>d DEF BeginCopy
  <1>6. ASSUME NEW p \in Prefixes, EndCopy(p) PROVE Placed' /\ Ordered'
    BY <1>6, <1>d DEF EndCopy, GiveUp
  <1>7. ASSUME NEW p \in Prefixes, Remove(p) PROVE Placed' /\ Ordered'
    BY <1>7, <1>c, <1>d DEF Remove, Placed
  <1>8. CASE Prepared
    BY <1>8, <1>c DEF Prepared, Placed
  <1>9. CASE SendCommand
    <2>1. Current' = Current /\ pc' = "wait" /\ UNCHANGED <<run, steps, removers>>
      BY <1>9 DEF SendCommand, Current
    <2>2. Placed'
      BY <1>9, <2>1 DEF SendCommand, Placed
    <2> QED BY <2>1, <2>2 DEF Ordered
  <1>10. CASE WaitOver
    BY <1>10, <1>c, <1>d DEF WaitOver, GiveUp, Placed
  <1>11. CASE BeginRemove
    <2>1. Current' = Current /\ pc' = "remove" /\ UNCHANGED <<run, steps, removers>>
      BY <1>11 DEF BeginRemove, Current
    <2>2. Placed'
      BY <1>11, <2>1 DEF BeginRemove, Placed
    <2> QED BY <2>1, <2>2 DEF Ordered
  <1>12. CASE StartRemover
    <2>1. steps' = << >> /\ pc' = "step" /\ run' = run /\ run \in Runs
      BY <1>12, <1>a DEF StartRemover, Advance, Placed
    <2>2. Shape(steps')
      BY <1>12, <1>a DEF StartRemover, Advance
    <2>3. \A r \in Runs : r > run => removers'[r] = {}
      BY <1>12, <1>b DEF StartRemover, Ordered, Runs
    <2> QED BY <2>1, <2>2, <2>3 DEF Placed, Ordered
  <1>13. CASE Finish
    <2>1. steps' = << >> /\ pc' \in {"done", "failed"} /\ UNCHANGED <<run, steps, removers>>
      BY <1>13 DEF Finish
    <2>2. Placed'
      BY <1>13, <2>1 DEF Finish, Placed
    <2> QED BY <2>1, <2>2 DEF Ordered
  <1>14. ASSUME NEW r \in Runs, NEW p \in Prefixes, RemoverStep(r, p)
         PROVE  Placed' /\ Ordered'
    <2>1. UNCHANGED <<run, pc, steps>> /\ Current' = Current
      BY <1>14 DEF RemoverStep, runner, Current
    <2>2. \A q \in Runs : removers[q] = {} => removers'[q] = {}
      BY <1>14, <1>b DEF RemoverStep
    <2>3. Placed'
      BY <2>1 DEF Placed
    <2> QED BY <2>1, <2>2, <2>3 DEF Ordered
  <1>15. ASSUME NEW c \in Clients, ClientNext(c) PROVE Placed' /\ Ordered'
    BY <1>15, <1>d DEF ClientNext, ReadStop, Cleanup, BeginWork, EndWork, runner
  <1>16. CASE UNCHANGED vars
    BY <1>16, <1>d DEF vars, runner
  <1> QED
    BY <1>1, <1>2, <1>3, <1>4, <1>5, <1>6, <1>7, <1>8, <1>9, <1>10, <1>11, <1>12,
       <1>13, <1>14, <1>15, <1>16 DEF Next, RunNext, RemoverNext

\* Every variable keeps its type.
THEOREM TypeCorrect == Spec => []TypeOK
  <1>1. IInv => TypeOK
    BY DEF IInv
  <1> QED BY <1>1, InitIInv, NextIInv, PTL DEF Spec

-----------------------------------------------------------------------------
(***************************************************************************)
(* What is left when a run is over                                         *)
(***************************************************************************)

\* After the last step of a run, which starts its background removal, a tree is
\* left only where that has not come yet.
Leftovers ==
    pc \in {"step", "done"} /\ steps = << >> =>
        \A p \in Prefixes : p \in removers[run] \/ tree[p] = Nothing

LEMMA NextLeftovers == IInv /\ Leftovers /\ [Next]_vars => Leftovers'
  <1> SUFFICES ASSUME IInv, Leftovers, [Next]_vars,
                      pc' \in {"step", "done"}, steps' = << >>,
                      NEW p \in Prefixes
               PROVE  p \in removers'[run'] \/ tree'[p] = Nothing
    BY DEF Leftovers
  <1> USE DEF IInv
  <1>a. steps # << >> => (Current.kind = "removeAsync" <=> Tail(steps) = << >>)
    BY TailShape DEF Ordered, Current
  <1>b. tree \in [Prefixes -> Trees] /\ removers \in [Runs -> SUBSET Prefixes]
    BY DEF TypeOK, Trees
  <1>1. ASSUME NEW plan \in (SUBSET Artifacts) \ {{}}, Start(plan) PROVE FALSE
    BY <1>1, StepsShape DEF Start
  <1>2. CASE Stop
    BY <1>2 DEF Stop, Leftovers
  <1>3. BeginPrepare \/ Fetch \/ SendCommand \/ BeginRemove => FALSE
    BY DEF BeginPrepare, Fetch, GiveUp, SendCommand, BeginRemove
  <1>4. ASSUME NEW q \in Prefixes, BeginCopy(q) \/ EndCopy(q) PROVE FALSE
    BY <1>4 DEF BeginCopy, EndCopy, GiveUp, Placed
  <1>5. ASSUME NEW q \in Prefixes, Remove(q) PROVE FALSE
    BY <1>5, <1>a DEF Remove, Advance, Placed
  <1>6. Prepared \/ WaitOver => FALSE
    BY <1>a DEF Prepared, WaitOver, Advance, GiveUp, Placed
  <1>7. CASE StartRemover
    <2>1. run \in Runs /\ run' = run
      BY <1>7 DEF StartRemover, Placed
    <2> QED BY <1>7, <1>b, <2>1 DEF StartRemover
  <1>8. CASE Finish
    BY <1>8 DEF Finish, Leftovers
  <1>9. ASSUME NEW r \in Runs, NEW q \in Prefixes, RemoverStep(r, q)
        PROVE  p \in removers'[run'] \/ tree'[p] = Nothing
    <2>1. p \in removers[run] \/ tree[p] = Nothing
      BY <1>9 DEF RemoverStep, runner, Leftovers
    <2>2. run' = run /\ run \in Runs
      BY <1>9 DEF RemoverStep, runner, Placed
    <2>3. CASE p = q
      BY <1>9, <1>b, <2>3 DEF RemoverStep
    <2>4. CASE p # q
      <3>1. tree'[p] = tree[p]
        BY <1>9, <1>b, <2>4 DEF RemoverStep
      <3>2. p \in removers[run] => p \in removers'[run]
        BY <1>9, <1>b, <2>2, <2>4 DEF RemoverStep
      <3> QED BY <2>1, <2>2, <3>1, <3>2
    <2> QED BY <2>3, <2>4
  <1>10. ASSUME NEW c \in Clients, Cleanup(c)
         PROVE  p \in removers'[run'] \/ tree'[p] = Nothing
    <2>1. p \in removers[run] \/ tree[p] = Nothing
      BY <1>10 DEF Cleanup, runner, Leftovers
    <2>2. removers' = removers /\ run' = run
      BY <1>10 DEF Cleanup, runner
    <2>3. tree'[p] = Nothing \/ tree'[p] = tree[p]
      BY <1>10, <1>b DEF Cleanup
    <2> QED BY <2>1, <2>2, <2>3
  <1>11. ASSUME NEW c \in Clients, ReadStop(c) \/ BeginWork(c) \/ EndWork(c)
         PROVE  p \in removers'[run'] \/ tree'[p] = Nothing
    BY <1>11 DEF ReadStop, BeginWork, EndWork, runner, Leftovers
  <1>12. CASE UNCHANGED vars
    BY <1>12 DEF vars, runner, Leftovers
  <1> QED
    BY <1>1, <1>2, <1>3, <1>4, <1>5, <1>6, <1>7, <1>8, <1>9, <1>10, <1>11, <1>12
       DEF Next, RunNext, RemoverNext, ClientNext

\* Whichever software phases a run has, when it has gone through all of them and
\* its background removal is over, no tree is left.
THEOREM NoTreeIsForgotten == Spec => []TreesGo
  <1>1. Init => Leftovers
    BY DEF Init, Leftovers
  <1>2. IInv /\ Leftovers => TreesGo
    BY DEF IInv, Placed, Leftovers, TreesGo
  <1> QED BY <1>1, <1>2, InitIInv, NextIInv, NextLeftovers, PTL DEF Spec

-----------------------------------------------------------------------------
(***************************************************************************)
(* What a command finds                                                    *)
(***************************************************************************)

\* As long as nobody else has removed a tree: while the goroutine copies, its
\* artifact is whole under the prefixes it has done and begun under the one it
\* copies to; when it is about to send a command, and while it waits, what the
\* command is about is whole under every prefix.
CopiesInTurn == pc # "copy" => copying = {}

Available ==
    ~disturbed =>
        /\ pc = "copy" => \A p \in Prefixes :
               /\ p \in copying => tree[p][Current.of] = "part"
               /\ p \notin left /\ p \notin copying => tree[p][Current.of] = "whole"
        /\ pc \in {"step", "wait"} /\ steps # << >> /\ Current.kind = "use" =>
               \A p \in Prefixes : tree[p][Current.of] = "whole"

LEMMA NextCopiesInTurn == CopiesInTurn /\ [Next]_vars => CopiesInTurn'
  BY DEF CopiesInTurn, Next, vars, RunNext, RemoverNext, ClientNext, Start, Stop,
         BeginPrepare, Fetch, BeginCopy, EndCopy, Prepared, SendCommand, WaitOver,
         BeginRemove, Remove, StartRemover, Finish, RemoverStep, ReadStop, Cleanup,
         BeginWork, EndWork, runner, Advance, GiveUp

LEMMA NextAvailable == IInv /\ CopiesInTurn /\ Available /\ [Next]_vars => Available'
  <1> SUFFICES ASSUME IInv, CopiesInTurn, Available, [Next]_vars, ~disturbed'
               PROVE  Available'
    BY DEF Available
  <1> DEFINE a == Current.of
             CopyOK ==
               pc = "copy" => \A p \in Prefixes :
                   /\ p \in copying => tree[p][a] = "part"
                   /\ p \notin left /\ p \notin copying => tree[p][a] = "whole"
             UseOK ==
               pc \in {"step", "wait"} /\ steps # << >> /\ Current.kind = "use" =>
                   \A p \in Prefixes : tree[p][a] = "whole"
  <1> SUFFICES CopyOK' /\ UseOK'
    BY DEF Available
  <1> USE DEF IInv
  <1>a. /\ tree \in [Prefixes -> Trees]
        /\ removers \in [Runs -> SUBSET Prefixes]
    BY DEF TypeOK, Trees
  <1>b. steps # << >> => a \in Artifacts
    BY AdvanceTyped
  <1>c. steps # << >> /\ Tail(steps) # << >> /\ Head(Tail(steps)).kind = "use" =>
            Current.kind \in {"prepare", "use"} /\ a = Head(Tail(steps)).of
    BY TailShape DEF Ordered, Current
  <1>d. ~disturbed => CopyOK /\ UseOK
    BY DEF Available
  \* A step of the goroutine after which it neither copies nor sends.
  <1>e. ASSUME pc' \notin {"step", "wait", "copy"} PROVE CopyOK' /\ UseOK'
    BY <1>e
  \* A step that touches nothing of this.
  <1>f. ASSUME UNCHANGED <<tree, pc, steps, left, copying, disturbed>>
        PROVE  CopyOK' /\ UseOK'
    BY <1>d, <1>f DEF Current
  \* The goroutine goes on to its next step when what it was about is whole.
  <1>g. ASSUME steps # << >>, Advance, UNCHANGED tree,
               Current.kind \in {"prepare", "use"} =>
                   \A p \in Prefixes : tree[p][a] = "whole"
        PROVE  CopyOK' /\ UseOK'
    <2>1. pc' = "step" /\ Current' = Head(Tail(steps)) /\ steps' = Tail(steps)
      BY <1>g DEF Advance, Current
    <2> QED BY <1>c, <1>g, <2>1
  <1>1. ASSUME NEW plan \in (SUBSET Artifacts) \ {{}}, Start(plan)
        PROVE  CopyOK' /\ UseOK'
    <2>1. pc' = "step" /\ Current'.kind = "prepare"
      BY <1>1, StepsShape DEF Start, Current
    <2> QED BY <2>1
  <1>2. CASE Stop \/ \E c \in Clients : ReadStop(c) \/ BeginWork(c) \/ EndWork(c)
    BY <1>2, <1>f DEF Stop, ReadStop, BeginWork, EndWork, runner
  <1>3. CASE BeginPrepare
    BY <1>3, <1>e DEF BeginPrepare
  <1>4. CASE Fetch
    <2>1. CASE pc' = "failed"
      BY <2>1, <1>e
    <2>2. CASE pc' = "copy" /\ left' = Prefixes /\ copying' = {}
      BY <2>2
    <2> QED BY <1>4, <2>1, <2>2 DEF Fetch, GiveUp, CopiesInTurn
  <1>5. ASSUME NEW q \in Prefixes, BeginCopy(q) PROVE CopyOK' /\ UseOK'
    <2>1. a \in Artifacts /\ pc = "copy" /\ pc' = "copy" /\ Current' = Current /\ ~disturbed
      BY <1>5, <1>b DEF BeginCopy, Placed, Current
    <2>2. tree'[q][a] = "part" /\ \A p \in Prefixes : p # q => tree'[p] = tree[p]
      <3> DEFINE rest == IF a = "package" THEN Nothing ELSE tree[q]
                 new == [rest EXCEPT ![a] = "part"]
      <3>1. tree' = [tree EXCEPT ![q] = new]
        BY <1>5 DEF BeginCopy
      <3>2. new[a] = "part"
        <4>1. rest \in Trees
          BY <1>a, NothingIsATree
        <4> HIDE DEF rest, a
        <4> QED BY <2>1, <4>1 DEF Trees
      <3> HIDE DEF new
      <3> QED BY <1>a, <3>1, <3>2
    <2>3. copying = {} /\ copying' = {q} /\ left' = left \ {q}
      BY <1>5 DEF BeginCopy
    <2> QED BY <1>d, <2>1, <2>2, <2>3
  <1>6. ASSUME NEW q \in Prefixes, EndCopy(q) PROVE CopyOK' /\ UseOK'
    <2>1. CASE pc' = "failed"
      BY <2>1, <1>e
    <2>2. CASE pc' = "copy"
      <3>1. a \in Artifacts /\ pc = "copy" /\ Current' = Current /\ ~disturbed
            /\ copying = {q} /\ copying' = {} /\ left' = left
        BY <1>6, <2>2, <1>b DEF EndCopy, GiveUp, Placed, Current
      <3>2. tree[q][a] = "part"
        BY <1>d, <3>1
      <3>3. tree' = [tree EXCEPT ![q][a] = "whole"]
        BY <1>6, <2>2, <3>1, <3>2 DEF EndCopy, GiveUp
      <3>4. tree'[q][a] = "whole" /\ \A p \in Prefixes : p # q => tree'[p] = tree[p]
        <4> HIDE DEF a
        <4>1. tree[q] \in Trees
          BY <1>a
        <4> QED BY <1>a, <3>1, <3>3, <4>1 DEF Trees
      <3> QED BY <1>d, <2>2, <3>1, <3>4
    <2>3. pc' = "failed" \/ pc' = "copy"
      BY <1>6 DEF EndCopy, GiveUp
    <2> QED BY <2>1, <2>2, <2>3
  <1>7. CASE Prepared
    <2>1. ~disturbed /\ pc = "copy" /\ left = {} /\ copying = {} /\ steps # << >>
      BY <1>7 DEF Prepared, Placed
    <2>2. \A p \in Prefixes : tree[p][a] = "whole"
      BY <1>d, <2>1
    <2> QED BY <1>7, <1>g, <2>1, <2>2 DEF Prepared
  <1>8. CASE SendCommand
    <2>1. UNCHANGED <<tree, steps>> /\ Current' = Current /\ ~disturbed
          /\ pc = "step" /\ pc' = "wait"
      BY <1>8 DEF SendCommand, Current
    <2> QED BY <1>d, <2>1
  <1>9. CASE WaitOver
    <2>1. CASE pc' = "failed"
      BY <2>1, <1>e
    <2>2. CASE Advance
      <3>1. ~disturbed /\ pc = "wait" /\ steps # << >> /\ Current.kind = "use"
        BY <1>9 DEF WaitOver, Placed
      <3>2. \A p \in Prefixes : tree[p][a] = "whole"
        BY <1>d, <3>1
      <3> QED BY <1>9, <1>g, <2>2, <3>1, <3>2 DEF WaitOver
    <2> QED BY <1>9, <2>1, <2>2 DEF WaitOver, GiveUp
  <1>10. CASE BeginRemove
    BY <1>10, <1>e DEF BeginRemove
  \* What follows a removal before the run goes on is no command.
  <1>11. ASSUME NEW q \in Prefixes, Remove(q) PROVE CopyOK' /\ UseOK'
    <2>1. steps # << >> /\ Current.kind = "remove"
      BY <1>11 DEF Remove, Placed
    <2>2. CASE pc' = "remove"
      BY <2>2, <1>e
    <2>3. CASE Advance
      <3>1. pc' = "step" /\ steps' = Tail(steps) /\ Current' = Head(Tail(steps))
        BY <2>3 DEF Advance, Current
      <3> QED BY <1>c, <2>1, <3>1
    <2> QED BY <1>11, <2>2, <2>3 DEF Remove
  <1>12. CASE StartRemover
    <2>1. steps # << >> /\ Current.kind = "removeAsync" /\ UNCHANGED tree /\ Advance
      BY <1>12 DEF StartRemover
    <2> QED BY <1>g, <2>1
  <1>13. CASE Finish
    BY <1>13, <1>e DEF Finish
  \* The background removal of this run comes after its commands, and that of
  \* another run is a disturbance.
  <1>14. ASSUME NEW r \in Runs, NEW q \in Prefixes, RemoverStep(r, q)
         PROVE  CopyOK' /\ UseOK'
    <2>1. r = run /\ removers[run] # {} /\ UNCHANGED <<pc, steps>>
      BY <1>14 DEF RemoverStep, runner
    <2>2. steps = << >>
      BY <2>1 DEF Ordered
    <2> QED BY <2>1, <2>2 DEF Placed
  <1>15. ASSUME NEW c \in Clients, Cleanup(c) PROVE FALSE
    BY <1>15 DEF Cleanup
  <1>16. CASE UNCHANGED vars
    BY <1>16, <1>f DEF vars, runner
  <1> QED
    BY <1>1, <1>2, <1>3, <1>4, <1>5, <1>6, <1>7, <1>8, <1>9, <1>10, <1>11, <1>12,
       <1>13, <1>14, <1>15, <1>16 DEF Next, RunNext, RemoverNext, ClientNext

\* While a client works on a command, what the command is about is there and
\* whole, whichever software phases the run has: as long as the run waits, and
\* nobody but this run has removed a tree since it began.
THEOREM CommandsFindTheirArtifact == Spec => []WorkFindsItsArtifact
  <1>1. Init => Available /\ CopiesInTurn
    BY DEF Init, Available, CopiesInTurn
  <1>2. IInv /\ Available => WorkFindsItsArtifact
    <2> SUFFICES ASSUME IInv, Available, NEW c \in Clients, InTime(c), ~disturbed
                 PROVE  tree[PrefixOf[c]][Current.of] = "whole"
      BY DEF WorkFindsItsArtifact
    <2>1. PrefixOf[c] \in Prefixes
      BY SoftwareTreeAssumption
    <2>2. pc = "wait" /\ steps # << >> /\ Current.kind = "use"
      BY DEF InTime, IInv, Placed
    <2> QED BY <2>1, <2>2 DEF Available
  <1> QED BY <1>1, <1>2, InitIInv, NextIInv, NextCopiesInTurn, NextAvailable, PTL
             DEF Spec
=============================================================================
